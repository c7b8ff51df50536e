------------------------------ MODULE Admission ------------------------------
(***************************************************************************)
(* The webhooks of jsPolicy (pkg/webhook): the API server asks /policy about  *)
(* requests, and /crds about edits of the policy.  A denied request starts a  *)
(* goroutine that logs it, in the JsPolicyViolations of the policy            *)
(* (AuditLog) or in a PolicyReport (PolicyReport).  Clients are requests.     *)
(***************************************************************************)
EXTENDS CacheClient, Validation

CONSTANTS Policies,      \* policies that users may store
          MaxEdits,      \* bound on the edits of users
          MaxEvents,     \* POLICY_REPORT_MAX_EVENTS
          RetryCounter,  \* the retryCounter of the first call of a goroutine
          Earlier,       \* entries in the log at the start, if there is one
          MaxDeletions   \* bound on the deletions of the log

ASSUME AdmissionAssumption ==
    /\ Unset \notin Int \cup {"Deny", "Warn", "Dry"}
    /\ MaxEvents \in Nat \ {0} /\ RetryCounter \in Nat \ {0}
    /\ MaxEdits \in Nat /\ Earlier \in Nat /\ MaxDeletions \in Nat
    /\ Clients \cap (1 .. Earlier) = {}  \* the earlier entries are of other requests
    /\ \A p \in Policies : p = [f \in DOMAIN SomePolicy |-> p[f]]  \* the fields of a spec

VARIABLES
    reports,  \* enablePolicyReports
    policy,   \* the policy, as the API server and the cache have it
    edits,    \* the edits that were accepted
    pc,       \* where each request, and then its goroutine, is
    spec,     \* the policy that the request is handled with
    outcome,  \* what executing the policy gave
    answer,   \* what ServeHTTP has answered
    object, retryCounter  \* of the goroutines

policyVars == <<reports, policy, edits>>
requestVars == <<spec, outcome, answer>>
goroutineVars == <<pc, object, retryCounter>>
vars == <<clientVars, policyVars, requestVars, goroutineVars>>

NoPolicy == Unset

\* Mutant: the entry is made from the policy as it is now.
actionOfNow == [c \in Clients |-> IF policy = NoPolicy THEN Unset ELSE policy.violationPolicy]

action == [c \in Clients |-> IF spec[c] = NoPolicy THEN Unset ELSE spec[c].violationPolicy]
auditLogSize == [c \in Clients |-> IF spec[c] = NoPolicy THEN Unset ELSE spec[c].auditLogSize]

Audit == INSTANCE AuditLog
Report == INSTANCE PolicyReport

Log(n) ==
    IF reports THEN Report!EarlierReport(n)
    ELSE [i \in 1 .. n |-> [request |-> i, action |-> "Deny"]]

Init ==
    /\ reports \in BOOLEAN
    /\ policy \in {p \in Policies : ValidateJsPolicy(p)}
    /\ edits = 0
    /\ pc = [c \in Clients |-> "find"]
    /\ spec = [c \in Clients |-> NoPolicy]
    /\ outcome = [c \in Clients |-> "none"]
    /\ answer = [c \in Clients |-> "none"]
    /\ object = [c \in Clients |-> NoObject]
    /\ retryCounter = [c \in Clients |-> RetryCounter]
    /\ call = [c \in Clients |-> NoCall]
    /\ result = [c \in Clients |-> "none"]
    /\ \/ StoreInit
       \/ /\ history = << NoObject, [uid |-> 1, rv |-> FirstRevision, val |-> Log(Earlier), deleting |-> FALSE] >>
          /\ seen = 2

-----------------------------------------------------------------------------
(* The webhook of the policy.                                               *)

\* ServeHTTP reads the request and gets the policy.  If one of them fails, for whatever
\* reason, the answer is an error without the uid of the request, which the API server treats
\* as no answer.
Find(c) ==
    /\ pc[c] = "find"
    /\ \/ /\ policy # NoPolicy
          /\ spec' = [spec EXCEPT ![c] = policy]
          /\ pc' = [pc EXCEPT ![c] = "handle"]
          /\ UNCHANGED answer
       \/ /\ answer' = [answer EXCEPT ![c] = "malformed"]
          /\ pc' = [pc EXCEPT ![c] = "done"]
          /\ UNCHANGED spec
    /\ UNCHANGED <<clientVars, policyVars, outcome, object, retryCounter>>

\* A script may allow, deny or patch; it fails if there is no bundle, on an exception or
\* when its time is over.  Only the patch of a Mutating policy counts.
Outcomes(p) == {"allow", "deny", "error"} \cup (IF p.type = "Mutating" THEN {"patch"} ELSE {})

\* What Handle returns: errors are denials too.
Handle(o) == CASE o \in {"deny", "error"} -> "denied" [] o = "patch" -> "patched" [] OTHER -> "allowed"

\* What ServeHTTP makes of it.
Response(p, response) ==
    IF \/ response = "denied" /\ p.violationPolicy \in {"Dry", "Warn"}
       \/ p.violationPolicy = "Dry"
    THEN "allowed" ELSE response

\* Mutant: the goroutine looks at the answer, after it was changed to allowed.
LoggedIfRefused(p, response) == Response(p, response) = "denied" /\ p.auditPolicy # "Skip"

Logged(p, response) == response = "denied" /\ p.auditPolicy # "Skip"

\* A patch that cannot be encoded makes an error of the same kind.
Complete(response) == {response} \cup (IF response = "patched" THEN {"malformed"} ELSE {})

\* The policy is executed and answered for; the goroutine that logs a denial starts.
ServeHTTP(c) ==
    /\ pc[c] = "handle"
    /\ \E o \in Outcomes(spec[c]) :
          /\ outcome' = [outcome EXCEPT ![c] = o]
          /\ \E a \in Complete(Response(spec[c], Handle(o))) : answer' = [answer EXCEPT ![c] = a]
          /\ pc' = [pc EXCEPT ![c] = IF Logged(spec[c], Handle(o)) THEN "call" ELSE "done"]
    /\ UNCHANGED <<clientVars, policyVars, spec, object, retryCounter>>

\* LogRequest or ReportRequest.
Goroutine(c) ==
    /\ \/ ~reports /\ Audit!LogRequest(c) /\ UNCHANGED retryCounter
       \/ reports /\ Report!ReportRequest(c)
    /\ UNCHANGED <<policyVars, requestVars>>

Request(c) == Find(c) \/ ServeHTTP(c) \/ Goroutine(c)

-----------------------------------------------------------------------------
(* Everybody else.                                                          *)

\* The answer of /crds to an edit.
Accepted(p) == IF policy = NoPolicy THEN ValidateJsPolicy(p) ELSE ValidateJsPolicyUpdate(p, policy)

\* A user creates the policy or edits it.
EditPolicy ==
    /\ edits < MaxEdits
    /\ \E p \in Policies \ {policy} : Accepted(p) /\ policy' = p
    /\ edits' = edits + 1
    /\ UNCHANGED <<clientVars, reports, requestVars, goroutineVars>>

DeletePolicy ==
    /\ edits < MaxEdits
    /\ policy # NoPolicy
    /\ policy' = NoPolicy
    /\ edits' = edits + 1
    /\ UNCHANGED <<clientVars, reports, requestVars, goroutineVars>>

\* The log goes with its policy or by hand.
RemoveLog ==
    /\ Server # NoObject
    /\ Cardinality({i \in 2 .. Len(history) : history[i] = NoObject}) < MaxDeletions
    /\ history' = Append(history, NoObject)
    /\ UNCHANGED <<seen, call, result, policyVars, requestVars, goroutineVars>>

Watch == Deliver /\ UNCHANGED <<policyVars, requestVars, goroutineVars>>

Next ==
    \/ Watch \/ EditPolicy \/ DeletePolicy \/ RemoveLog
    \/ \E c \in Clients : Request(c)

Spec == Init /\ [][Next]_vars

\* The watch goes on delivering, and goroutines run.
FairSpec ==
    /\ Spec
    /\ WF_vars(Watch)
    /\ \A c \in Clients : WF_vars(Request(c))

-----------------------------------------------------------------------------

Labels == {"find", "handle", "call", "create", "creating", "update", "updating", "done"}

\* Types; a goroutine that is blocked in a write is the one whose call is open.
TypeOK ==
    /\ seen \in 1 .. Len(history)
    /\ pc \in [Clients -> Labels]
    /\ retryCounter \in [Clients -> 0 .. RetryCounter]
    /\ \A c \in Clients :
          /\ answer[c] = "none" <=> pc[c] \in {"find", "handle"}
          /\ pc[c] = "creating" <=> call[c].op = "create"
          /\ pc[c] = "updating" <=> call[c].op = "update"

\* The entries of version i of the log.
LogEntries(i) == IF reports THEN Report!Results(i) ELSE Audit!Entries(i)
EntriesOf(c, i) == {e \in {LogEntries(i)[k] : k \in DOMAIN LogEntries(i)} : e.request = c}

\* Every write of the log adds its entry at the end: version i is a write of c.
Newest(c, i) == LogEntries(i) # << >> /\ LogEntries(i)[Len(LogEntries(i))].request = c

\* A request is logged once: a retry after a conflict, a lost reply or a timed out
\* wait for the cache never writes its entry a second time, be the first one still in the
\* log or not, or in the log of an object that is gone.
LoggedOnce == \A c \in Clients : Cardinality({i \in 1 .. Len(history) : Newest(c, i)}) <= 1

Size(c) == IF reports THEN MaxEvents ELSE Audit!LogSize(c)

\* Whatever requests race for the log, every version of it is the one before it and one more
\* entry.  It loses its oldest entries, down to the size that the writer's policy has: a report
\* one at most, which an instance with a larger size may have left longer than it should be.
NothingOverwritten ==
    \A i \in 3 .. Len(history) :
        history[i].uid = history[i - 1].uid /\ history[i] # NoObject =>
            LET old == LogEntries(i - 1)
                new == LogEntries(i)
                cut == Len(old) + 1 - Len(new)
            IN \E c \in Clients :
                  /\ new # << >> /\ new[Len(new)].request = c
                  /\ SubSeq(new, 1, Len(new) - 1) = SubSeq(old, cut + 1, Len(old))
                  /\ cut > 0 => Len(old) >= Size(c) /\ (cut = 1 \/ Len(new) = Size(c))
                  /\ Len(new) > Size(c) => cut = 1 /\ reports

\* Whatever goroutines race for the report, its summary counts its results.
SummaryMatchesResults ==
    reports => \A i \in 1 .. Len(history) : history[i] # NoObject => Report!SummaryCounts(i)

\* A request that the policy denied, or failed on, while it did not skip the log, is logged,
\* unless its goroutine met an error or gave up: also if the answer was allowed, and if the
\* policy was edited or deleted since.
DenialIsLogged ==
    \A c \in Clients :
        outcome[c] \in {"deny", "error"} /\ spec[c].auditPolicy # "Skip" /\ pc[c] = "done"
            => \/ result[c] \in {"error", "notfound", "conflict"}
               \/ \E i \in 1 .. Len(history) : EntriesOf(c, i) # {}

\* An entry tells what was answered: a request logged as a denial was refused by ServeHTTP, one
\* logged as a warning or a dry run was allowed, whatever the policy is at the time of writing.
EntryTellsAnswer ==
    \A i \in 2 .. Len(history), c \in Clients : \A e \in EntriesOf(c, i) :
        LET refused == IF reports THEN e.status = "fail" ELSE e.action \in {Unset, "Deny"}
        IN answer[c] = (IF refused THEN "denied" ELSE "allowed")

\* "the validation rule will ensure resources do not overlap": an accepted list has no entry
\* that a wildcard before it, of subresources, selects already; one that comes after may.  Of
\* the entries without a subresource only the last one counts against a "*".  What a user may
\* make of the policy is looked at while no request is handled.
AcceptedRulesDoNotRepeat ==
    policy # NoPolicy /\ (\A c \in Clients : pc[c] = "find") => \A resources \in ResourceLists :
        Accepted([policy EXCEPT !.resources = resources]) =>
            \A i \in DOMAIN resources : \A j \in 1 .. i - 1 :
                Len(resources[j]) = 2 /\ "*" \in {resources[j][1], resources[j][2]} =>
                    ~(Selects(resources[i]) \subseteq Selects(resources[j]))

\* Every request is answered, and what logs it ends, however stale the cache is when it starts.
RequestEnds == \A c \in Clients : <>(pc[c] = "done")

\* docs/pages/writing-policies/configuration.mdx: "`failurePolicy`: `Fail` (default) or `Ignore`
\* when jsPolicy fails to execute the policy or it aborts with a runtime error".  The API
\* server asks the failurePolicy only when it gets no proper answer, not about a denial.
FailurePolicyDecides ==
    \A c \in Clients :
        outcome[c] = "error" /\ spec[c].failurePolicy = "Ignore" => answer[c] # "denied"
=============================================================================
