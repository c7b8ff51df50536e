------------------------------ MODULE Reconciler ------------------------------
(***************************************************************************)
(* The reconciler of a JsPolicy (pkg/controllers/jspolicy.go).              *)
(*                                                                         *)
(* It turns spec.javascript into a JsPolicyBundle, keeps the webhook         *)
(* configuration of the policy, or runs it as a controller policy, and       *)
(* writes what it did into the status.  It reads objects from a cache that   *)
(* lags; a write returns when the cache has it, or fails, perhaps after it   *)
(* took effect (see CacheClient).  Reconciles of one policy do not overlap;  *)
(* users, the cache and the manager's restarts act between any two steps.    *)
(***************************************************************************)
EXTENDS Integers, FiniteSets

CONSTANTS Sources,   \* values of spec.javascript
          Empty,     \* the one that is not given
          Rules,     \* values of the part of the spec that selects requests
          Invalid,   \* rules that the API server does not accept in a webhook
          Names,     \* names of webhook configurations
          Own,       \* a bundle that a user supplies
          None,      \* no policy, bundle, hash or name
          Scenarios  \* what users and faults may do to a policy, see ScenariosAssumption

\* "bundler": a bundling fails; "write": a write of a bundle or a webhook fails or its
\* reply is lost; "status": the same for the status, "conditions": for its conditions, which
\* may also be in conflict for too long; "manager": the policy manager cannot run the policy;
\* "restart": the process is replaced; "webhook", "bundle": a user deletes one.
AllFaults == {"bundler", "write", "status", "conditions", "manager", "restart", "webhook", "bundle"}

\* Conditions: compiled is BundleCompiled, ready is WebhookReady or ControllerReady,
\* summary is Ready.  hash is status.bundleHash, with a source for its own hash.
Statuses == [compiled : {"none", "True", "False"}, ready : {"none", "True", "False"},
             summary : {"none", "True", "False"}, phase : {"none", "Synced", "Failed"},
             hash : Sources]

Policies == [js : Sources, rules : Rules, status : Statuses]
Bundles == Sources \cup {Own}
Webhooks == [name : Names, rules : Rules \ Invalid]
Hashes == [js : Bundles, rules : Rules]

ASSUME ConstantsAssumption ==
    /\ Empty \in Sources /\ Own \notin Sources
    /\ None \notin Bundles \cup Rules \cup Names \cup Policies \cup Hashes
    /\ Invalid \subseteq Rules

\* The type of a policy (a Mutating and a Validating one are handled alike) cannot be
\* changed; edits bounds the changes by users, failures the failed or unanswered writes
\* and the restarts.
ASSUME ScenariosAssumption ==
    Scenarios \subseteq [type : {"Controller", "Webhook"}, sources : SUBSET Sources,
                         rules : SUBSET Rules, faults : SUBSET AllFaults,
                         edits : Nat, failures : Nat]

VARIABLES
    server,  \* the policy, its bundle and its webhook configurations, in the API server
    seen,    \* the same in the cache
    queued,  \* the policy is in the work queue
    pc,      \* where Reconcile is
    work,    \* what Reconcile has read and computed
    controllerPolicyHash,
    running, \* what the policy manager runs for the policy
    scenario, edits, faults

vars == <<server, seen, queued, pc, work, controllerPolicyHash, running, scenario, edits, faults>>

userVars == <<scenario, edits>>
managerVars == <<controllerPolicyHash, running>>

NewStatus == [compiled |-> "none", ready |-> "none", summary |-> "none",
              phase |-> "none", hash |-> Empty]

Conditions(s) == {s.compiled, s.ready, s.summary}

NoWork == [policy |-> None, bundle |-> None, status |-> NewStatus, todo |-> {}, name |-> None,
           err |-> FALSE, again |-> FALSE]

Init ==
    /\ scenario \in Scenarios
    /\ server \in [policy : [js : scenario.sources, rules : scenario.rules \ Invalid, status : {NewStatus}],
                   bundle : {None, Own}, webhooks : {{}}]
    /\ seen = server
    /\ queued = TRUE
    /\ pc = "idle"
    /\ work = NoWork
    /\ controllerPolicyHash = None
    /\ running = None
    /\ edits = 0 /\ faults = 0

-----------------------------------------------------------------------------
(* Writing through the blocking client.  Every event that the cache delivers  *)
(* queues the policy.                                                         *)

Goto(l) == pc' = l

Events == queued' = (queued \/ seen' # seen)

NoWrite == UNCHANGED <<server, seen, queued, faults>>

\* A write of a part of the server that succeeds, and returns when the cache has it.
Written(part, value) ==
    /\ server' = [server EXCEPT ![part] = value]
    /\ seen' = [seen EXCEPT ![part] = value]
    /\ Events
    /\ UNCHANGED faults

Fault(f) == f \in scenario.faults /\ faults < scenario.failures /\ faults' = faults + 1

\* The reply is lost or the wait for the cache ends too early: an error.
Unanswered(f, part, value) ==
    /\ Fault(f)
    /\ server' = [server EXCEPT ![part] = value]
    /\ UNCHANGED <<seen, queued>>

Refused(f) == Fault(f) /\ UNCHANGED <<server, seen, queued>>

\* A write that succeeds, or fails.
Write(part, value, ok) ==
    IF ok THEN Written(part, value) ELSE Unanswered("write", part, value) \/ Refused("write")

-----------------------------------------------------------------------------
(* Reconcile.                                                               *)

\* The policy is gone: nothing runs for it any more.
Forget ==
    /\ controllerPolicyHash' = None
    /\ running' = None

\* Reconcile begins: it reads the policy and the bundle.
Reconcile ==
    /\ pc = "idle"
    /\ queued
    /\ queued' = FALSE
    /\ \/ /\ seen.policy = None
          /\ Forget
          /\ UNCHANGED <<pc, work>>
       \/ /\ seen.policy # None
          /\ work' = [NoWork EXCEPT !.policy = seen.policy, !.bundle = seen.bundle,
                                    !.status = seen.policy.status]
          /\ Goto("compile")
          /\ UNCHANGED managerVars
    /\ UNCHANGED <<server, seen, userVars, faults>>

\* Reconcile returns, with the conditions it has set; the deferred function follows.
Finish(status, err, again) ==
    /\ work' = [work EXCEPT !.status = status, !.todo = {}, !.err = err, !.again = err \/ again]
    /\ Goto("patch")

\* compileBundle has returned without an error.
Compiled(value) ==
    LET status == [work.status EXCEPT !.compiled = value]
    IN \/ /\ value = "False"
          /\ work' = [work EXCEPT !.status = status, !.todo = seen.webhooks]
          /\ Goto("disable")
       \/ /\ value # "False" /\ scenario.type = "Webhook"
          /\ work' = [work EXCEPT !.status = status]
          /\ Goto("list")
       \/ /\ value # "False" /\ scenario.type = "Controller"
          /\ work.bundle # None
          /\ work' = [work EXCEPT !.status = status]
          /\ Goto("controller")
       \/ /\ value # "False" /\ scenario.type = "Controller"
          /\ work.bundle = None
          /\ Finish(status, FALSE, TRUE)

\* The check for a bundle that is out of date.
Outdated == work.status.compiled = "none" \/ work.policy.js # work.status.hash

WriteFailed ==
    Finish([work.status EXCEPT !.compiled = "none"], TRUE, FALSE)

\* The bundle is created or updated; it may have appeared or changed since it was read.
WriteBundle ==
    \/ /\ server.bundle # work.bundle
       /\ WriteFailed
       /\ NoWrite
    \/ /\ server.bundle = work.bundle
       /\ \E ok \in BOOLEAN :
             /\ Write("bundle", work.policy.js, ok)
             /\ IF ok THEN Compiled("True") ELSE WriteFailed

compileBundle ==
    /\ pc = "compile"
    /\ \/ /\ work.policy.js = Empty
          /\ Compiled(IF work.bundle = None THEN "False" ELSE "True")
          /\ NoWrite
       \/ /\ work.policy.js # Empty /\ ~Outdated
          /\ Compiled(work.status.compiled)
          /\ NoWrite
       \/ /\ work.policy.js # Empty /\ Outdated
          /\ "bundler" \in scenario.faults
          /\ Compiled("False")
          /\ NoWrite
       \/ /\ work.policy.js # Empty /\ Outdated
          /\ WriteBundle
    /\ UNCHANGED <<managerVars, userVars>>

\* One of the webhook configurations that were listed is deleted; it may be gone.
DeleteWebhook ==
    /\ pc \in {"disable", "others"}
    /\ \E w \in work.todo :
          LET rest == {v \in server.webhooks : v.name # w.name}
          IN \/ /\ rest = server.webhooks
                /\ work' = [work EXCEPT !.todo = @ \ {w}]
                /\ NoWrite
                /\ UNCHANGED pc
             \/ /\ rest # server.webhooks
                /\ Written("webhooks", rest)
                /\ work' = [work EXCEPT !.todo = @ \ {w}]
                /\ UNCHANGED pc
             \/ /\ rest # server.webhooks
                /\ Write("webhooks", rest, FALSE)
                /\ Finish(work.status, TRUE, FALSE)
    /\ UNCHANGED <<managerVars, userVars>>

\* deletePolicyWebhooks has deleted all; the manager forgets the policy, its hash stays.
Disabled ==
    /\ pc = "disable" /\ work.todo = {}
    /\ running' = None
    /\ Finish(work.status, FALSE, FALSE)
    /\ NoWrite
    /\ UNCHANGED <<controllerPolicyHash, userVars>>

\* Mutant: all configurations are deleted, to be created anew.
ListAll ==
    /\ pc = "list"
    /\ work' = [work EXCEPT !.todo = seen.webhooks]
    /\ Goto("others")
    /\ NoWrite
    /\ UNCHANGED <<managerVars, userVars>>

\* Mutant: one configuration is kept, the others are not deleted.
ListKeepsAll ==
    /\ pc = "list"
    /\ \/ seen.webhooks = {} /\ UNCHANGED work
       \/ \E keep \in seen.webhooks : work' = [work EXCEPT !.name = keep.name]
    /\ Goto("others")
    /\ NoWrite
    /\ UNCHANGED <<managerVars, userVars>>

\* syncWebhook lists the configurations of the policy: the first one is kept.
List ==
    /\ pc = "list"
    /\ \/ seen.webhooks = {} /\ UNCHANGED work
       \/ \E keep \in seen.webhooks :
             work' = [work EXCEPT !.name = keep.name, !.todo = seen.webhooks \ {keep}]
    /\ Goto("others")
    /\ NoWrite
    /\ UNCHANGED <<managerVars, userVars>>

NamesOf(ws) == {w.name : w \in ws}

Synced(ok) == Finish([work.status EXCEPT !.ready = IF ok THEN "True" ELSE "False"], ~ok, FALSE)

\* Apply finds no configuration of this name: it creates one.
CreateWebhook(n) ==
    \/ /\ n \in NamesOf(server.webhooks) \/ work.policy.rules \in Invalid
       /\ NoWrite
       /\ Synced(FALSE)
    \/ /\ n \notin NamesOf(server.webhooks) /\ work.policy.rules \notin Invalid
       /\ \E ok \in BOOLEAN :
             /\ Write("webhooks", server.webhooks \cup {[name |-> n, rules |-> work.policy.rules]}, ok)
             /\ Synced(ok)

\* Apply patches the one it finds, unless nothing has changed.  The patch has no more of the
\* webhook than what differs, and the API server puts it in its place: new rules alone make
\* it invalid, and deleteAndCreate deletes it.
PatchWebhook(w) ==
    LET rest == {v \in server.webhooks : v.name # w.name}
    IN \/ /\ w.rules = work.policy.rules
          /\ NoWrite
          /\ Synced(TRUE)
       \/ /\ w.rules # work.policy.rules
          /\ rest = server.webhooks
          /\ NoWrite
          /\ Synced(FALSE)
       \/ /\ w.rules # work.policy.rules
          /\ rest # server.webhooks
          /\ \/ Written("webhooks", rest) /\ Goto("recreate") /\ UNCHANGED work
             \/ Write("webhooks", rest, FALSE) /\ Synced(FALSE)

\* deleteAndCreate goes on when the cache does not have it any more.  Its Create is that of an
\* unstructured object, which does not wait for the cache.
RecreateWebhook ==
    /\ pc = "recreate"
    /\ work.name \notin NamesOf(seen.webhooks)
    /\ \/ /\ work.name \in NamesOf(server.webhooks) \/ work.policy.rules \in Invalid
          /\ NoWrite
          /\ Synced(FALSE)
       \/ /\ work.name \notin NamesOf(server.webhooks) /\ work.policy.rules \notin Invalid
          /\ LET created == server.webhooks \cup {[name |-> work.name, rules |-> work.policy.rules]}
             IN \/ /\ server' = [server EXCEPT !.webhooks = created]
                   /\ UNCHANGED <<seen, queued, faults>>
                   /\ Synced(TRUE)
                \/ Write("webhooks", created, FALSE) /\ Synced(FALSE)
    /\ UNCHANGED <<managerVars, userVars>>

\* The webhook configuration is applied, under the name that is kept or a random one.
SyncWebhook ==
    /\ pc = "others" /\ work.todo = {}
    /\ \/ /\ work.name = None
          /\ \E n \in Names \ NamesOf(server.webhooks \cup seen.webhooks) : CreateWebhook(n)
       \/ /\ work.name # None /\ work.name \notin NamesOf(seen.webhooks)
          /\ CreateWebhook(work.name)
       \/ /\ work.name # None
          /\ \E w \in seen.webhooks : w.name = work.name /\ PatchWebhook(w)
    /\ UNCHANGED <<managerVars, userVars>>

\* Mutant: only the code of the policy is hashed.
HashOfSource ==
    [js |-> IF work.policy.js = Empty THEN work.bundle ELSE work.policy.js, rules |-> None]

\* backgroundHashObj
Hash ==
    [js |-> IF work.policy.js = Empty THEN work.bundle ELSE work.policy.js,
     rules |-> work.policy.rules]

\* The manager is only called when the hash has changed, and the hash is kept whether
\* or not it succeeds.
syncControllerPolicy ==
    /\ pc = "controller"
    /\ \/ /\ controllerPolicyHash # Hash
          /\ controllerPolicyHash' = Hash
          /\ running' = work.policy.rules
          /\ Finish([work.status EXCEPT !.ready = "True"], FALSE, FALSE)
       \/ /\ controllerPolicyHash # Hash
          /\ "manager" \in scenario.faults
          /\ controllerPolicyHash' = Hash
          /\ running' = None
          /\ Finish([work.status EXCEPT !.ready = "False"], FALSE, FALSE)
       \/ /\ controllerPolicyHash = Hash
          /\ Finish([work.status EXCEPT !.ready = IF @ = "False" THEN "False" ELSE "True"], FALSE, FALSE)
          /\ UNCHANGED managerVars
    /\ NoWrite
    /\ UNCHANGED userVars

-----------------------------------------------------------------------------
(* The deferred function.                                                   *)

\* SetSummary: the worst of the other conditions; nothing is set if there are none.
Summary(s) ==
    CASE "False" \in {s.compiled, s.ready} -> "False"
      [] {s.compiled, s.ready} = {"none"} -> s.summary
      [] OTHER -> "True"

\* Mutant: the phase is taken from the error alone.
PhaseOfError(s) == IF work.err THEN "Failed" ELSE "Synced"

\* reconcilePhase runs before the summary is computed: it sees the old one.
reconcilePhase(s) == IF work.err \/ "False" \in Conditions(s) THEN "Failed" ELSE "Synced"

\* Mutant: the hash is that of the policy as it is when the status is patched.
AfterLatest == [work.status EXCEPT !.summary = Summary(work.status),
                                   !.phase = reconcilePhase(work.status),
                                   !.hash = IF server.policy = None THEN @ ELSE server.policy.js]

After == [work.status EXCEPT !.summary = Summary(work.status),
                             !.phase = reconcilePhase(work.status),
                             !.hash = work.policy.js]

\* The policy in the server with those of fields that this reconcile has changed.
Patched(fields) ==
    LET before == work.policy.status
    IN [server.policy EXCEPT !.status =
           [f \in DOMAIN @ |-> IF f \in fields /\ After[f] # before[f] THEN After[f] ELSE @[f]]]

Changes(fields) == \E f \in fields : After[f] # work.policy.status[f]

Again == work' = [work EXCEPT !.again = TRUE]

\* The conditions are patched first, into the latest policy of the cache: in conflict
\* with a version that the cache has not seen, it is read again, for a few times.
patchStatusConditions ==
    LET fields == {"compiled", "ready", "summary"}
    IN /\ pc = "patch"
       /\ Goto("status")
       /\ \/ ~Changes(fields) /\ NoWrite /\ UNCHANGED work
          \/ /\ Changes(fields) /\ server.policy = None
             /\ NoWrite /\ Again
          \/ /\ Changes(fields) /\ server.policy # None /\ seen.policy = server.policy
             /\ \/ Written("policy", Patched(fields)) /\ UNCHANGED work
                \/ Unanswered("status", "policy", Patched(fields)) /\ Again
                \/ Refused("conditions") /\ Again
          \/ /\ Changes(fields) /\ server.policy # None /\ seen.policy # server.policy
             /\ "conditions" \in scenario.faults
             /\ NoWrite /\ Again
       /\ UNCHANGED <<managerVars, userVars>>

\* Mutant: what was read is kept for the next reconcile.
DoneKeepsWork(again) ==
    /\ Goto("idle")
    /\ UNCHANGED work
    /\ queued' = (queued \/ seen' # seen \/ work.again \/ again)

Done(again) ==
    /\ Goto("idle")
    /\ work' = NoWork
    /\ queued' = (queued \/ seen' # seen \/ work.again \/ again)

\* Mutant: the status is written by every reconcile, with the time of the reconcile.
PatchStatusAlways ==
    /\ pc = "status"
    /\ IF server.policy = None THEN UNCHANGED <<server, seen>>
       ELSE /\ server' = [server EXCEPT !.policy = Patched({"phase", "hash"})]
            /\ seen' = [seen EXCEPT !.policy = Patched({"phase", "hash"})]
    /\ Done(TRUE)
    /\ UNCHANGED <<managerVars, userVars, faults>>

\* Then the rest of the status, into whatever version there is, even if the conditions
\* were not patched.
patchStatus ==
    LET fields == {"phase", "hash"}
    IN /\ pc = "status"
       /\ \/ /\ ~Changes(fields)
             /\ UNCHANGED <<server, seen, faults>>
             /\ Done(FALSE)
          \/ /\ Changes(fields) /\ server.policy = None
             /\ UNCHANGED <<server, seen, faults>>
             /\ Done(TRUE)
          \/ /\ Changes(fields) /\ server.policy # None
             /\ server' = [server EXCEPT !.policy = Patched(fields)]
             /\ seen' = [seen EXCEPT !.policy = Patched(fields)]
             /\ UNCHANGED faults
             /\ Done(FALSE)
          \/ /\ Changes(fields) /\ server.policy # None
             /\ Fault("status")
             /\ server' \in {server, [server EXCEPT !.policy = Patched(fields)]}
             /\ UNCHANGED seen
             /\ Done(TRUE)
       /\ UNCHANGED <<managerVars, userVars>>

-----------------------------------------------------------------------------
(* The cache, users and restarts.                                           *)

Parts == {"policy", "bundle", "webhooks"}

\* The cache catches up with a kind of object and the policy is queued.
Watch(part) ==
    /\ seen[part] # server[part]
    /\ seen' = [seen EXCEPT ![part] = server[part]]
    /\ queued' = TRUE
    /\ UNCHANGED <<server, pc, work, managerVars, userVars, faults>>

Edit(part, value) ==
    /\ edits < scenario.edits
    /\ edits' = edits + 1
    /\ server' = [server EXCEPT ![part] = value]
    /\ UNCHANGED <<seen, queued, pc, work, managerVars, scenario, faults>>

EditPolicy ==
    /\ server.policy # None
    /\ \E js \in scenario.sources, rules \in scenario.rules :
          /\ <<js, rules>> # <<server.policy.js, server.policy.rules>>
          /\ Edit("policy", [server.policy EXCEPT !.js = js, !.rules = rules])

DeletePolicy == server.policy # None /\ Edit("policy", None)

\* A user deletes a webhook configuration.
LoseWebhook ==
    /\ "webhook" \in scenario.faults
    /\ \E w \in server.webhooks : Edit("webhooks", server.webhooks \ {w})

\* A user supplies or deletes the bundle of a policy without javascript, or one deletes
\* the bundle that was compiled.
EditBundle ==
    /\ server.policy # None
    /\ \/ /\ server.policy.js = Empty
          /\ server.bundle = None
          /\ Edit("bundle", Own)
       \/ /\ "bundle" \in scenario.faults
          /\ server.bundle # None
          /\ Edit("bundle", None)

\* Objects that the policy owns are deleted after it.
CollectGarbage ==
    /\ server.policy = None
    /\ \E part \in {"bundle", "webhooks"} :
          server' = [server EXCEPT ![part] = IF part = "bundle" THEN None ELSE {}]
    /\ server' # server
    /\ UNCHANGED <<seen, queued, pc, work, managerVars, userVars, faults>>

\* Another process takes over: it lists everything and knows nothing.
Restart ==
    /\ Fault("restart")
    /\ seen' = server
    /\ queued' = TRUE
    /\ Goto("idle")
    /\ work' = NoWork
    /\ Forget
    /\ UNCHANGED <<server, userVars>>

Step ==
    \/ Reconcile \/ compileBundle \/ DeleteWebhook \/ Disabled \/ List \/ SyncWebhook
    \/ RecreateWebhook \/ syncControllerPolicy \/ patchStatusConditions \/ patchStatus

Next ==
    \/ Step
    \/ \E part \in Parts : Watch(part)
    \/ EditPolicy \/ DeletePolicy \/ LoseWebhook \/ EditBundle \/ CollectGarbage \/ Restart

Spec == Init /\ [][Next]_vars

\* The controller's workers run and the informers go on watching.
FairSpec == Spec /\ WF_vars(Step) /\ \A part \in Parts : WF_vars(Watch(part))

-----------------------------------------------------------------------------
(* Properties.                                                              *)

Steps == {"idle", "compile", "disable", "list", "others", "recreate", "controller", "patch", "status"}

TypeOK ==
    /\ scenario \in Scenarios
    /\ {server, seen} \subseteq
           [policy : Policies \cup {None}, bundle : Bundles \cup {None}, webhooks : SUBSET Webhooks]
    /\ queued \in BOOLEAN
    /\ pc \in Steps
    /\ work \in [policy : Policies \cup {None}, bundle : Bundles \cup {None}, status : Statuses,
                 todo : SUBSET Webhooks, name : Names \cup {None}, err : BOOLEAN, again : BOOLEAN]
    /\ pc = "idle" <=> work = NoWork
    /\ pc # "idle" => work.policy # None
    /\ pc \in {"list", "others", "recreate"} => scenario.type = "Webhook"
    /\ pc = "recreate" => work.name # None
    /\ pc = "controller" => scenario.type = "Controller" /\ work.bundle # None
    /\ controllerPolicyHash \in Hashes \cup {None}
    /\ running \in Rules \cup {None}
    /\ edits \in 0 .. scenario.edits /\ faults \in 0 .. scenario.failures

\* Nothing is left to do: all events were handled and no reconcile has failed.
Settled == pc = "idle" /\ ~queued /\ seen = server /\ server.policy # None

\* A policy that settled is enforced by exactly one webhook, with the rules it has now, if it
\* compiled, and by none if it did not: whatever duplicates lost replies left behind.
WebhookFollowsPolicy ==
    Settled /\ scenario.type = "Webhook" =>
        IF server.policy.status.compiled = "True"
        THEN \E n \in Names : server.webhooks = {[name |-> n, rules |-> server.policy.rules]}
        ELSE server.webhooks = {}

\* What a settled policy runs, if it is compiled, was built from the javascript it has now.
\* The bundle, the conditions and the hash are three writes: if the last one is lost, or the
\* one before, an edit that is taken back in time leaves the bundle of the withdrawn source.
BundleFollowsSource ==
    LET Kept == /\ scenario.faults \cap {"status", "conditions", "bundle"} = {}
                /\ \/ scenario.edits <= 1
                   \/ scenario.faults \cap {"write", "restart"} = {}
    IN Settled /\ Kept /\ server.policy.js # Empty /\ server.policy.status.compiled = "True" =>
           server.bundle = server.policy.js

\* The phase of a settled policy tells whether a condition is false, and so does Ready,
\* although the phase is computed from the Ready of the reconcile before, and is saved
\* also when the conditions were not: the reconcile is repeated until they are.
PhaseTellsFailure ==
    Settled =>
        LET s == server.policy.status
        IN /\ s.summary = Summary(s)
           /\ s.phase = "Failed" <=> "False" \in {s.compiled, s.ready}

\* A policy that does not compile, or is deleted, is not run.
BrokenPolicyStops ==
    pc = "idle" /\ ~queued /\ seen = server =>
        \/ running = None
        \/ server.policy # None /\ server.policy.status.compiled = "True"

\* "if controller policy we make sure we are running it": a settled one that is compiled and
\* whose ControllerReady is true runs, for the resources it has now.
ReadyPolicyRuns ==
    Settled /\ scenario.type = "Controller"
    /\ server.policy.status.compiled = "True" /\ server.policy.status.ready = "True"
        => running = server.policy.rules

\* It does if all its bundles compile and its status is written.
BundledPolicyRuns ==
    scenario.faults \cap {"bundler", "status", "conditions", "bundle"} = {} => ReadyPolicyRuns

\* What the manager runs follows the policy through edits, failures and restarts.
ControllerFollowsPolicy == BrokenPolicyStops /\ BundledPolicyRuns

\* While no call fails, the reconciler takes away the last webhook of a policy that it found
\* compiled only to create it anew: the clean-up of duplicates, which a configuration that was
\* created anew and is not in the cache yet leads to, leaves one that the server has.
LastWebhookStays ==
    [][Step /\ pc # "idle" /\ faults' = 0 /\ server.policy # None /\ server.webhooks # {}
       /\ "webhook" \notin scenario.faults /\ work.status.compiled # "False"
            => server'.webhooks # {} \/ pc' = "recreate"]_vars

\* When users and faults come to an end, so does the reconciler, also for a policy that was
\* deleted: it does not requeue or rewrite the status for ever.  It does for rules that the server
\* refuses, and for a controller policy whose compiled bundle was deleted: scenarios with
\* neither are meant.
Settles == <>[](pc = "idle" /\ ~queued /\ seen = server)
=============================================================================
