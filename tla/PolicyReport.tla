---------------------------- MODULE PolicyReport ----------------------------
(***************************************************************************)
(* ReportRequest of pkg/webhook/report.go: one goroutine per denied request  *)
(* appends a result to the PolicyReport of the request's namespace (or to    *)
(* the one ClusterPolicyReport, which is handled alike) and keeps the        *)
(* summary, which counts the results by status, in step.  Who calls           *)
(* ReportRequest is in Admission, which instantiates this module.            *)
(***************************************************************************)
EXTENDS CacheClient

CONSTANTS Unset,         \* a field that is not given
          MaxEvents      \* POLICY_REPORT_MAX_EVENTS

Statuses == {"fail", "warn", "skip"}

mapStatus(violationPolicy) ==
    CASE violationPolicy \in {Unset, "Deny"} -> "fail" [] violationPolicy = "Warn" -> "warn" [] OTHER -> "skip"

VARIABLES pc,            \* where each ReportRequest is
          retryCounter,  \* the argument of its current call
          object,        \* the report it read
          action         \* violationPolicy of the policy that it was given

buildResult(c) == [request |-> c, status |-> mapStatus(action[c])]

EmptyReport == [results |-> << >>, summary |-> [s \in Statuses |-> 0]]

\* Mutant: the summary forgets the removed result.
AddResultKeepsCount(report, result_) ==
    LET results == Append(report.results, result_)
    IN [results |-> IF Len(results) > MaxEvents THEN Tail(results) ELSE results,
        summary |-> [report.summary EXCEPT ![result_.status] = @ + 1]]

\* A result is appended; when the report is full its oldest result goes.
AddResult(report, result_) ==
    LET results == Append(report.results, result_)
        over == Len(results) > MaxEvents
        summary == IF over THEN [report.summary EXCEPT ![results[1].status] = @ - 1]
                   ELSE report.summary
    IN [results |-> IF over THEN Tail(results) ELSE results,
        summary |-> [summary EXCEPT ![result_.status] = @ + 1]]

\* A report of n results that an instance with another MaxEvents may have left.
EarlierReport(n) ==
    [results |-> [i \in 1 .. n |-> [request |-> i, status |-> "fail"]],
     summary |-> [s \in Statuses |-> IF s = "fail" THEN n ELSE 0]]

Goto(c, label) == pc' = [pc EXCEPT ![c] = label]

-----------------------------------------------------------------------------

GiveUp(c) ==
    /\ pc[c] = "call"
    /\ retryCounter[c] = 0
    /\ Goto(c, "done")
    /\ UNCHANGED <<clientVars, retryCounter, object>>

\* client.Get: the report is in the cache, is not, or the cache fails.
Get(c) ==
    /\ pc[c] = "call"
    /\ retryCounter[c] > 0
    /\ UNCHANGED retryCounter
    /\ \/ /\ Cached # NoObject
          /\ Goto(c, "update")
          /\ object' = [object EXCEPT ![c] = Cached]
          /\ UNCHANGED clientVars
       \/ Cached = NoObject /\ Goto(c, "create") /\ UNCHANGED <<clientVars, object>>
       \/ Goto(c, "done") /\ Refuse(c, "error") /\ UNCHANGED object

\* What follows CreateWithOwner: the next call has the same retryCounter.
Created(c) ==
    /\ CASE result'[c] = "none" -> Goto(c, "creating")
         [] result'[c] \in {"ok", "exists"} -> Goto(c, "call")
         [] OTHER -> Goto(c, "done")
    /\ UNCHANGED <<retryCounter, object>>

CreateReport(c) == pc[c] = "create" /\ Create(c, EmptyReport) /\ Created(c)

CreatePolls(c) == pc[c] = "creating" /\ Polling(c) /\ Created(c)

\* updateOrRetry, after its Update: a conflict is retried.
Updated(c) ==
    /\ IF result'[c] = "conflict"
       THEN Goto(c, "call") /\ retryCounter' = [retryCounter EXCEPT ![c] = @ - 1]
       ELSE /\ UNCHANGED retryCounter
            /\ Goto(c, IF result'[c] = "none" THEN "updating" ELSE "done")
    /\ UNCHANGED object

UpdateReport(c) ==
    /\ pc[c] = "update"
    /\ Update(c, object[c], AddResult(object[c].val, buildResult(c)))
    /\ Updated(c)

UpdatePolls(c) == pc[c] = "updating" /\ Polling(c) /\ Updated(c)

ReportRequest(c) ==
    \/ GiveUp(c)
    \/ Get(c)
    \/ CreateReport(c)
    \/ CreatePolls(c)
    \/ UpdateReport(c)
    \/ UpdatePolls(c)

-----------------------------------------------------------------------------

\* What version i of the report holds.
Results(i) == IF history[i] = NoObject THEN << >> ELSE history[i].val.results

SummaryCounts(i) ==
    \A s \in Statuses :
        history[i].val.summary[s] =
            Cardinality({k \in 1 .. Len(Results(i)) : Results(i)[k].status = s})
=============================================================================
