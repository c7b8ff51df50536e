----------------------------- MODULE Conditions -----------------------------
(***************************************************************************)
(* The conditions in the status of a JsPolicy (pkg/util/conditions) and the  *)
(* helper that patches them (pkg/util/patch).                               *)
(*                                                                         *)
(* A controller reads the object, marks conditions on its copy, summarizes   *)
(* them in Ready, and sends the difference: three-way merged into the latest *)
(* object of the cache, under optimistic locking, again after a conflict.    *)
(* The reconciler owns its conditions; another controller owns none and has  *)
(* a condition of its own.                                                  *)
(***************************************************************************)
EXTENDS CacheClient

CONSTANTS Reconcilers,  \* the clients that run patchPolicy; the others own no condition
          Steps,        \* the attempts of the backoff loop
          MaxWrites,    \* bound on the number of versions
          MaxSeconds    \* bound on the clock

ASSUME ConditionsAssumption == Reconcilers \subseteq Clients /\ Steps \in Nat \ {0}

VARIABLES diff,   \* the changes that each controller is patching, or has patched
          tries,  \* its attempt, 0 when it is not patching
          lost,   \* a reconciler has returned from a patch before the cache had it
          clock   \* the time of day, which is the same for the controllers of one process

vars == <<history, seen, call, result, diff, tries, lost, clock>>

\* ControllerReady is to a controller policy what WebhookReady is to the others.  The
\* reconciler knows nothing of Custom.
Types == {"Ready", "BundleCompiled", "WebhookReady", "Custom"}

Owned(c) == IF c \in Reconcilers THEN {"Ready", "BundleCompiled", "WebhookReady"} ELSE {}

\* reason stands for the message too.  A time of 0 is not set.
Condition(status, severity, reason) ==
    [status |-> status, severity |-> severity, reason |-> reason, time |-> 0]

Absent == Condition("none", "", "")

TrueCondition == Condition("True", "", "")
FalseCondition(reason, severity) == Condition("False", severity, reason)
UnknownCondition(reason) == Condition("Unknown", "", reason)

-----------------------------------------------------------------------------
(* Setting and summarizing the conditions v of an object.                   *)

\* Truncated to a second, in which any number of versions can be written.
Now == clock

hasSameState(a, b) == [a EXCEPT !.time = 0] = [b EXCEPT !.time = 0]

\* Mutant: every Set is a transition.
SetStamps(v, t, condition) == [v EXCEPT ![t] = [condition EXCEPT !.time = Now]]

\* The time of a condition is that of its last transition.
Set(v, t, condition) ==
    IF v[t] # Absent /\ hasSameState(v[t], condition) THEN v
    ELSE LET time == IF v[t] # Absent \/ condition.time = 0 THEN Now ELSE condition.time
         IN [v EXCEPT ![t] = [condition EXCEPT !.time = time]]

Delete_(v, t) == [v EXCEPT ![t] = Absent]

mergePriority(condition) ==
    CASE condition.status = "False" /\ condition.severity = "Error"   -> 0
      [] condition.status = "False" /\ condition.severity = "Warning" -> 1
      [] condition.status = "False" /\ condition.severity = "Info"    -> 2
      [] condition.status = "True"                                    -> 3
      [] condition.status = "Unknown"                                 -> 4
      [] OTHER                                                        -> 99

\* WithConditions: what Ready sums up, first the one whose reason it takes.
Order == << "WebhookReady", "BundleCompiled" >>

\* The first condition of the top group, 0 if no condition is in scope.
FirstCondition(v) ==
    LET inScope == {i \in DOMAIN Order : v[Order[i]] # Absent}
        rank(i) == mergePriority(v[Order[i]])
        top == {i \in inScope : \A j \in inScope : rank(i) <= rank(j)}
    IN IF top = {} THEN 0 ELSE CHOOSE i \in top : \A j \in top : i <= j

\* Mutant: the summary is that of the condition that comes first, not of the worst.
SetSummaryOfFirst(v) ==
    LET inScope == {i \in DOMAIN Order : v[Order[i]] # Absent}
    IN IF inScope = {} THEN v
       ELSE Set(v, "Ready", [v[Order[CHOOSE i \in inScope : \A j \in inScope : i <= j]]
                                EXCEPT !.time = 0])

SetSummary(v) ==
    IF FirstCondition(v) = 0 THEN v
    ELSE Set(v, "Ready", [v[Order[FirstCondition(v)]] EXCEPT !.time = 0])

\* What a controller may make of the conditions it has read: for the reconciler the paths
\* through Reconcile, for the other one a mark or a removal.
Marked(c, v) ==
    LET compiled == Set(v, "BundleCompiled", TrueCondition)
        failed == Set(v, "BundleCompiled", FalseCondition("CompileFailed", "Error"))
        synced == {Set(compiled, "WebhookReady", w) :
                      w \in {TrueCondition, FalseCondition("SyncFailed", "Error")}}
    IN IF c \in Reconcilers
       THEN {SetSummary(w) : w \in synced \cup {compiled, failed, v, Delete_(v, "BundleCompiled")}}
       ELSE {Set(v, "Custom", w) : w \in {TrueCondition, FalseCondition("Mine", "Warning")}}
            \cup {Delete_(v, "Custom"), Set(v, "WebhookReady", UnknownCondition("Mine"))}

-----------------------------------------------------------------------------
(* Patches of conditions.                                                   *)

\* Add, Change or Remove, by which of the two is Absent.
NewPatch(before, after) ==
    [t \in {u \in Types : before[u] # after[u]} |-> [before |-> before[t], after |-> after[t]]]

\* Mutant: a condition that the other side has changed is not a conflict.
NoMergeConflict(c, latest) == FALSE

\* The latest object deviated from what was read, in a condition that c does not own.
MergeConflict(c, latest) ==
    \E t \in DOMAIN diff[c] \ Owned(c) :
        LET op == diff[c][t]
            l == latest[t]
        IN \/ /\ op.before = Absent
              /\ l # Absent /\ ~hasSameState(l, op.after)
           \/ /\ op.before # Absent /\ op.after # Absent
              /\ l = Absent \/ (l # op.before /\ ~hasSameState(l, op.after))
           \/ /\ op.after = Absent
              /\ l # Absent /\ ~hasSameState(l, op.before)

\* Mutant: a removal is forgotten.
ApplyNoRemoval(c, latest) ==
    [t \in Types |-> IF t \in DOMAIN diff[c] /\ diff[c][t].after # Absent
                     THEN Set(latest, t, diff[c][t].after)[t] ELSE latest[t]]

\* The conditions after a merge without a conflict.
Apply(c, latest) ==
    [t \in Types |->
        CASE t \notin DOMAIN diff[c]     -> latest[t]
          [] t \in DOMAIN diff[c] /\ diff[c][t].after = Absent -> Absent
          [] OTHER -> Set(latest, t, diff[c][t].after)[t]]

\* Set leaves the time in the condition it was given, where the next attempt finds it.
Stamped(c, latest) ==
    [t \in DOMAIN diff[c] |->
        IF diff[c][t].after = Absent \/ (t \notin Owned(c) /\ hasSameState(latest[t], diff[c][t].after))
        THEN diff[c][t]
        ELSE [diff[c][t] EXCEPT !.after = Apply(c, latest)[t]]]

-----------------------------------------------------------------------------
(* Controllers.                                                             *)

NoConditions == [t \in Types |-> Absent]
NoPatch == NewPatch(NoConditions, NoConditions)

\* A policy that is new, enforced, failing to sync, or failing to compile.
FirstConditions ==
    LET at1(condition) == [condition EXCEPT !.time = 1]
        ready == at1(TrueCondition)
        sync == at1(FalseCondition("SyncFailed", "Error"))
        compile == at1(FalseCondition("CompileFailed", "Error"))
    IN {NoConditions,
        [NoConditions EXCEPT !["Ready"] = ready, !["BundleCompiled"] = ready, !["WebhookReady"] = ready],
        [NoConditions EXCEPT !["Ready"] = sync, !["BundleCompiled"] = ready, !["WebhookReady"] = sync],
        [NoConditions EXCEPT !["Ready"] = compile, !["BundleCompiled"] = compile]}

Init ==
    /\ history \in {<< NoObject, [uid |-> 1, rv |-> FirstRevision, val |-> v, deleting |-> FALSE] >> :
                       v \in FirstConditions}
    /\ seen = 2
    /\ call = [c \in Clients |-> NoCall]
    /\ result = [c \in Clients |-> "none"]
    /\ diff = [c \in Clients |-> NoPatch]
    /\ tries = [c \in Clients |-> 0]
    /\ lost = FALSE
    /\ clock = 1

\* NewHelper, the marks and NewPatch: nobody else sees what a controller does to its copy.
Begin(c) ==
    /\ tries[c] = 0
    /\ Cached # NoObject
    /\ Len(history) < MaxWrites
    /\ \E after \in Marked(c, Cached.val) :
          /\ after # Cached.val
          /\ diff' = [diff EXCEPT ![c] = NewPatch(Cached.val, after)]
    /\ tries' = [tries EXCEPT ![c] = 1]
    /\ result' = [result EXCEPT ![c] = "none"]
    /\ UNCHANGED <<history, seen, call, lost, clock>>

\* Mutant: every error is tried again, without an end.
ReturnedForEver(c) ==
    tries' = [tries EXCEPT ![c] = CASE call'[c] # NoCall -> @
                                    [] result'[c] \in {"conflict", "error"} -> @ + 1
                                    [] OTHER -> 0]

\* The write has returned, or is being waited for: only a conflict is tried again.
Returned(c) ==
    tries' = [tries EXCEPT ![c] = CASE call'[c] # NoCall -> @
                                    [] result'[c] = "conflict" /\ @ < Steps -> @ + 1
                                    [] OTHER -> 0]

\* A patch that changes nothing is checked against the version and stored as none.
Unchanged(c, latest) ==
    \/ Server.rv = latest.rv /\ Refuse(c, "ok")
    \/ Server # NoObject /\ Server.rv # latest.rv /\ Refuse(c, "conflict")
    \/ Server = NoObject /\ Refuse(c, "notfound")
    \/ Refuse(c, "error")

\* Mutant: the patch is sent without the version.
StatusPatchUnlocked(c, latest, val) ==
    IF val = latest.val THEN Unchanged(c, latest) ELSE UpdateLastWriteWins(c, latest, val)

\* MergeFromWithOptimisticLock
StatusPatch(c, latest, val) ==
    IF val = latest.val THEN Unchanged(c, latest) ELSE Update(c, latest, val)

\* An attempt of patchStatusConditions.
Attempt(c) ==
    /\ tries[c] > 0 /\ Idle(c)
    /\ \/ /\ Cached # NoObject => MergeConflict(c, Cached.val)
          /\ Refuse(c, "error")
          /\ UNCHANGED diff
       \/ /\ Cached # NoObject /\ ~MergeConflict(c, Cached.val)
          /\ diff' = [diff EXCEPT ![c] = Stamped(c, Cached.val)]
          /\ StatusPatch(c, Cached, Apply(c, Cached.val))
    /\ Returned(c)
    /\ lost' = (lost \/ (c \in Reconcilers /\ result'[c] = "error" /\ history' # history))
    /\ UNCHANGED clock

\* The cache has the patch that c waits for, or what became of the object since.
Arrived(c) == Cached = NoObject \/ Cached.uid # call[c].uid \/ Cached.rv >= call[c].rv

Wait(c) ==
    /\ Polling(c)
    /\ Returned(c)
    /\ lost' = (lost \/ (c \in Reconcilers /\ ~Arrived(c)))
    /\ UNCHANGED <<diff, clock>>

\* A user deletes the policy.
Remove ==
    /\ Server # NoObject
    /\ history' = Append(history, NoObject)
    /\ UNCHANGED <<seen, call, result, diff, tries, lost, clock>>

\* A second passes.  The clock is not set back.
Tick ==
    /\ clock < MaxSeconds
    /\ clock' = clock + 1
    /\ UNCHANGED <<history, seen, call, result, diff, tries, lost>>

Next ==
    \/ Deliver /\ UNCHANGED <<diff, tries, lost, clock>>
    \/ Remove
    \/ Tick
    \/ \E c \in Clients : Begin(c) \/ Attempt(c) \/ Wait(c)

Spec == Init /\ [][Next]_vars

-----------------------------------------------------------------------------
(* Properties.                                                              *)

TypeOK ==
    /\ seen \in 1 .. Len(history)
    /\ \A c \in Clients : tries[c] \in 0 .. Steps /\ DOMAIN diff[c] \subseteq Types
    /\ \A c \in Clients : ~Idle(c) => tries[c] > 0
    /\ \A i \in 2 .. Len(history) : history[i] # NoObject =>
          \A t \in Types : history[i].val[t] = Absent \/ history[i].val[t].time \in 1 .. clock

Kept(types) == \A t \in types : Server'.val[t] = Server.val[t]

Patches(c) == Attempt(c) /\ history' # history

\* helper.go: "we allow different controllers to act on conditions of the same object".  A
\* patch changes only conditions that its controller has changed itself, however old the
\* copy was that it changed, and however often it had to be sent.
OthersKept == [][ \A c \in Clients : Patches(c) => Kept(Types \ DOMAIN diff[c]) ]_vars

\* A condition that a controller does not own is only changed if it is as the controller has
\* read it: what others have made of it since is never overwritten.
NothingOverwritten ==
    [][ \A c \in Clients : Patches(c) =>
          \A t \in DOMAIN diff[c] \ Owned(c) :
              Kept({t}) \/ hasSameState(Server.val[t], diff[c][t].before) ]_vars

\* setter.go: "the LastTransitionTime is updated only if a change is detected".  A condition that
\* stays in its state keeps its time, in however many attempts it is sent again, and one that
\* changes its state gets the second of the write, which may be the one it had.
TimeFollowsState ==
    [][ \A c \in Clients : Patches(c) =>
          \A t \in Types : Server.val[t] # Absent /\ Server'.val[t] # Absent =>
              /\ Server.val[t].time <= clock
              /\ Server'.val[t].time = IF hasSameState(Server.val[t], Server'.val[t])
                                      THEN Server.val[t].time ELSE clock ]_vars

\* A patch that returned no error was made as a whole: there was a version with all the
\* changes of the controller.
PatchedAsAWhole ==
    \A c \in Clients : result[c] = "ok" =>
        \E i \in 2 .. Len(history) : history[i] # NoObject /\
            \A t \in DOMAIN diff[c] : hasSameState(history[i].val[t], diff[c][t].after)

\* In every version Ready is the worst of the other conditions.  It need not be when another
\* controller has changed one, or when a patch returned before the cache had it (an answer was lost,
\* the poll timed out, or compared revisions of different lengths): the next reconcile computes
\* Ready from conditions that are out of date, and adds to those that are not.
ReadyIsWorst ==
    (~lost /\ \A i \in 2 .. Len(history) :
                 history[i] # NoObject => history[i].val["WebhookReady"].reason # "Mine")
        => \/ Server = NoObject
           \/ FirstCondition(Server.val) = 0
           \/ hasSameState(Server.val["Ready"], Server.val[Order[FirstCondition(Server.val)]])
=============================================================================
