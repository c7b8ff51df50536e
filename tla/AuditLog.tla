------------------------------ MODULE AuditLog ------------------------------
(***************************************************************************)
(* LogRequest of pkg/webhook/audit.go: one goroutine per denied request      *)
(* appends a violation to the JsPolicyViolations object of its policy, with   *)
(* a read from the cache, an optimistic update and a retry on a conflict.     *)
(* Clients are those goroutines.  Who calls LogRequest is in Admission, which *)
(* instantiates this module.                                                *)
(*                                                                         *)
(* LogRequest is called with a retryCounter of 1 or 5 and calls itself with   *)
(* the counter it was given, so that its test for 0 never succeeds: neither   *)
(* the counter nor the test is state here.                                    *)
(***************************************************************************)
EXTENDS CacheClient

CONSTANT Unset  \* a field that is not given

VARIABLES pc,            \* where each LogRequest is
          object,        \* the JsPolicyViolations it read
          auditLogSize,  \* spec.auditLogSize of the policy that it was given: a number, or Unset
          action         \* its violationPolicy

DefaultAuditLogSize == 20

LogSize(c) ==
    IF auditLogSize[c] # Unset /\ auditLogSize[c] \in 0 .. 39 THEN auditLogSize[c] ELSE DefaultAuditLogSize

buildViolation(c) == [request |-> c, action |-> action[c]]

\* Mutant: one entry too many is cut off.
TrimOffByOne(c, log) ==
    IF Len(log) > LogSize(c) THEN SubSeq(log, Len(log) - LogSize(c) + 2, Len(log)) ELSE log

\* The newest LogSize entries.
Trim(c, log) ==
    IF Len(log) > LogSize(c) THEN SubSeq(log, Len(log) - LogSize(c) + 1, Len(log)) ELSE log

Goto(c, label) == pc' = [pc EXCEPT ![c] = label]

-----------------------------------------------------------------------------

\* Mutant: what was read once is not read again.
GetOnce(c) ==
    /\ pc[c] = "call"
    /\ \/ /\ Cached # NoObject \/ object[c] # NoObject
          /\ Goto(c, "update")
          /\ object' = IF object[c] # NoObject THEN object ELSE [object EXCEPT ![c] = Cached]
          /\ UNCHANGED clientVars
       \/ Cached = NoObject /\ Goto(c, "create") /\ UNCHANGED <<clientVars, object>>
       \/ Goto(c, "done") /\ Refuse(c, "error") /\ UNCHANGED object

\* client.Get: the object is in the cache, is not, or the cache fails.
Get(c) ==
    /\ pc[c] = "call"
    /\ \/ /\ Cached # NoObject
          /\ Goto(c, "update")
          /\ object' = [object EXCEPT ![c] = Cached]
          /\ UNCHANGED clientVars
       \/ Cached = NoObject /\ Goto(c, "create") /\ UNCHANGED <<clientVars, object>>
       \/ Goto(c, "done") /\ Refuse(c, "error") /\ UNCHANGED object

\* What follows CreateWithOwner.
Created(c) ==
    CASE result'[c] = "none" -> Goto(c, "creating")
      [] result'[c] \in {"ok", "exists"} -> Goto(c, "call")
      [] OTHER -> Goto(c, "done")

CreateObject(c) ==
    /\ pc[c] = "create"
    /\ Create(c, << >>)
    /\ Created(c)
    /\ UNCHANGED object

CreatePolls(c) ==
    /\ pc[c] = "creating"
    /\ Polling(c)
    /\ Created(c)
    /\ UNCHANGED object

\* Mutants: an update is repeated after any error; nothing waits for the cache.
UpdatedRetryErrors(c) ==
    CASE result'[c] = "none" -> Goto(c, "updating")
      [] result'[c] \in {"conflict", "error"} -> Goto(c, "call")
      [] OTHER -> Goto(c, "done")

UpdatedNoWait(c) ==
    CASE result'[c] = "conflict" -> Goto(c, "call")
      [] OTHER -> Goto(c, "done")

\* What follows Status().Update.
Updated(c) ==
    CASE result'[c] = "none" -> Goto(c, "updating")
      [] result'[c] = "conflict" -> Goto(c, "call")
      [] OTHER -> Goto(c, "done")

\* The entry is appended, the log trimmed, the status updated.
UpdateStatus(c) ==
    /\ pc[c] = "update"
    /\ Update(c, object[c], Trim(c, Append(object[c].val, buildViolation(c))))
    /\ Updated(c)
    /\ UNCHANGED object

UpdatePolls(c) ==
    /\ pc[c] = "updating"
    /\ Polling(c)
    /\ Updated(c)
    /\ UNCHANGED object

LogRequest(c) ==
    \/ Get(c)
    \/ CreateObject(c)
    \/ CreatePolls(c)
    \/ UpdateStatus(c)
    \/ UpdatePolls(c)

-----------------------------------------------------------------------------

\* What version i of the object holds.
Entries(i) == IF history[i] = NoObject THEN << >> ELSE history[i].val
=============================================================================
