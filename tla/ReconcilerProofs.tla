-------------------------- MODULE ReconcilerProofs --------------------------
(***************************************************************************)
(* What a policy settles in, for any sources, rules, names and scenarios:    *)
(* webhooks, bundle, phase and the controller policy that is running follow  *)
(* from the policy, whatever users, faults and a late cache do.              *)
(***************************************************************************)
EXTENDS Reconciler, TLAPS

-----------------------------------------------------------------------------
(* The invariant.                                                           *)

\* No event is to be handled, and the reconcile in progress will not be repeated.
Quiet == ~queued /\ ~work.again

\* Where a reconcile knows whether the policy compiles, and where it is ending.
AfterCompile == {"disable", "list", "others", "recreate", "controller", "patch", "status"}
Deferred == {"patch", "status"}

Reported(s) == s.compiled \in {"True", "False"}

\* What a reconcile has read is what the cache has, unless the policy is queued, as it is when a
\* webhook was deleted; the manager is never called for a webhook policy, and has forgotten one
\* that is gone.
ReadInv ==
    /\ pc # "idle" /\ ~queued => work.policy = seen.policy
    /\ pc = "recreate" => queued
    /\ scenario.type = "Webhook" => running = None /\ controllerPolicyHash = None
    /\ ~queued /\ seen.policy = None => running = None

\* What Reconcile has computed: an error is retried, and a condition was found unless it is.
WorkInv ==
    /\ work.err => work.again
    /\ pc # "idle" => work.status.summary = work.policy.status.summary
    /\ pc = "compile" => work.status = work.policy.status
    /\ pc = "disable" => work.status.compiled = "False"
    /\ pc \in {"list", "others", "recreate", "controller"} => work.status.compiled = "True"
    /\ pc \in Deferred /\ ~work.again => Reported(work.status)

\* The status is written in two patches.
ConditionFields == {"compiled", "ready", "summary"}
OtherFields == {"phase", "hash"}

\* What the cache has of the status once the deferred function has written it.
RecordInv ==
    /\ pc = "status" /\ Quiet =>
           \A f \in ConditionFields : seen.policy.status[f] = After[f]
    /\ pc = "idle" /\ ~queued /\ seen.policy # None =>
           LET s == seen.policy.status
           IN /\ Reported(s)
              /\ s.summary = Summary(s)
              /\ s.phase = "Failed" <=> "False" \in {s.compiled, s.ready}
              /\ s.hash = seen.policy.js

\* The status that a reconcile that was not repeated has found, or has written.
LatestStatus == IF pc = "idle" THEN seen.policy.status ELSE work.status

LatestPolicy == IF pc = "idle" THEN seen.policy ELSE work.policy

\* The reconcile has done its work and nothing has happened since.
Finished == pc \in {"idle", "patch", "status"} /\ Quiet /\ (pc = "idle" => seen.policy # None)

\* A policy that does not compile was stopped.
StopInv == Finished /\ running # None => LatestStatus.compiled = "True"

\* No status that was written is lost, and the policy exists.
StatusKept == scenario.faults \cap {"status", "conditions"} = {} /\ server.policy # None

\* Then the cache and the server agree on it, and on what is left to be patched.
StatusInv ==
    StatusKept =>
        /\ seen.policy # None
        /\ seen.policy.status = server.policy.status
        /\ pc \notin {"idle", "status"} => work.policy.status = server.policy.status
        /\ pc = "status" =>
               /\ \A f \in ConditionFields : server.policy.status[f] = After[f]
               /\ \A f \in OtherFields : server.policy.status[f] = work.policy.status[f]

\* The status that counts for a policy whose status is not lost.
CurrentStatus == IF pc = "idle" THEN server.policy.status ELSE work.status

\* A controller policy all whose bundles compile.
Bundled ==
    /\ StatusKept /\ scenario.faults \cap {"bundler", "bundle"} = {}
    /\ scenario.type = "Controller"

\* Once it was run, it has a bundle and compiles; if what was run is not running, this is in the status.
HashInv ==
    Bundled =>
        /\ work.bundle # None => seen.bundle # None
        /\ seen.bundle # None => server.bundle # None
        /\ controllerPolicyHash # None =>
               /\ seen.bundle # None
               /\ pc # "idle" => work.bundle # None
               /\ pc # "disable"
               /\ CurrentStatus.compiled # "False"
               /\ running # controllerPolicyHash.rules => CurrentStatus.ready = "False"

\* A policy that is ready was started with the rules it has.
RunInv ==
    Bundled /\ Finished /\ LatestStatus.compiled = "True" /\ LatestStatus.ready = "True" =>
        running = LatestPolicy.rules

\* A name is used once.
Unique(ws) == \A v, w \in ws : v.name = w.name => v = w

\* This configuration, if there is one, is the only one that the server and the cache both have.
Remains(keep) == \A w \in seen.webhooks : w \in keep \cup work.todo \/ w.name \notin NamesOf(server.webhooks)

\* What is left to delete, and that all but the kept configuration will be gone.
WebhookInv ==
    /\ Unique(server.webhooks) /\ Unique(seen.webhooks)
    /\ pc = "disable" /\ ~queued => Remains({})
    /\ pc = "others" /\ ~queued =>
           \/ seen.webhooks = {} /\ work.name = None
           \/ \E keep \in seen.webhooks : keep.name = work.name /\ Remains({keep})
    /\ pc = "others" => \A w \in work.todo : w.name # work.name /\ work.name # None
    /\ pc \notin {"disable", "others"} => work.todo = {}
    /\ pc \in {"compile", "list"} => work.name = None
    /\ Finished /\ scenario.type = "Webhook" =>
           IF LatestStatus.compiled = "True"
           THEN \E keep \in seen.webhooks : keep.rules = LatestPolicy.rules /\ Remains({keep})
           ELSE Remains({})

\* With one edit, it comes after all that was read or recorded of the old source.
OneEdit == StatusKept /\ scenario.edits <= 1

OrderInv ==
    OneEdit =>
        LET hash == server.policy.status.hash
        IN /\ seen.policy.js # server.policy.js =>
                  /\ edits = 1
                  /\ hash \in {Empty, seen.policy.js}
                  /\ pc # "idle" => work.policy.js = seen.policy.js
           /\ pc # "idle" /\ work.policy.js # server.policy.js =>
                  edits = 1 /\ hash \in {Empty, work.policy.js}
           /\ hash \notin {Empty, server.policy.js} => edits = 1

\* A source that was withdrawn for good, as no edit is left, and the cache knows it.
Withdrawn(js) ==
    /\ scenario.edits <= 1 /\ edits = 1
    /\ server.policy.js # js /\ seen.policy.js = server.policy.js

BuiltFrom(js) == server.bundle = js \/ Withdrawn(js)

\* No step is lost between the bundle, the conditions and the hash; or there is one edit.
BundleKept ==
    /\ StatusKept /\ "bundle" \notin scenario.faults
    /\ scenario.edits <= 1 \/ scenario.faults \cap {"write", "restart"} = {}

\* The status, and what a reconcile has found out, tell the truth about the bundle.
BuiltInv ==
    BundleKept =>
        /\ pc \in {"idle", "compile"} \/ scenario.edits <= 1 =>
               LET s == server.policy.status
               IN s.compiled = "True" /\ s.hash # Empty => BuiltFrom(s.hash)
        /\ pc \in AfterCompile /\ work.status.compiled = "True" /\ work.policy.js # Empty =>
               BuiltFrom(work.policy.js)

\* Users do not delete webhooks.
WebhooksKept == "webhook" \notin scenario.faults

\* While no call has failed, the server has all that the cache has, and the configuration that
\* is kept when duplicates are deleted is one of them.
EnforceInv ==
    WebhooksKept /\ faults = 0 /\ server.policy # None =>
        /\ NamesOf(seen.webhooks) \subseteq NamesOf(server.webhooks)
        /\ pc = "others" => work.name \in NamesOf(server.webhooks) \cup {None}

IInv ==
    /\ TypeOK /\ ReadInv /\ WorkInv /\ RecordInv /\ StopInv /\ StatusInv /\ HashInv /\ RunInv
    /\ WebhookInv /\ OrderInv /\ BuiltInv /\ EnforceInv

-----------------------------------------------------------------------------
(* The steps, field by field.                                               *)

\* A write that succeeds changes one part, and a change of the cache queues the policy.
LEMMA WrittenPart ==
    ASSUME TypeOK, NEW part \in Parts, NEW value, Written(part, value)
    PROVE  /\ server'[part] = value /\ seen'[part] = value
           /\ \A p \in Parts \ {part} : server'[p] = server[p] /\ seen'[p] = seen[p]
           /\ faults' = faults
           /\ queued' \/ (~queued /\ seen' = seen)
BY DEF TypeOK, Written, Events, Parts

\* One whose answer is lost changes the server only.
LEMMA UnansweredPart ==
    ASSUME TypeOK, NEW f, NEW part \in Parts, NEW value, Unanswered(f, part, value)
    PROVE  /\ f \in scenario.faults /\ faults' = faults + 1
           /\ server'[part] = value
           /\ \A p \in Parts \ {part} : server'[p] = server[p]
           /\ UNCHANGED <<seen, queued>>
BY DEF TypeOK, Unanswered, Fault, Parts

LEMMA ScenarioTypes ==
    ASSUME TypeOK
    PROVE  /\ scenario.type \in {"Controller", "Webhook"}
           /\ scenario.sources \subseteq Sources /\ scenario.rules \subseteq Rules
           /\ scenario.edits \in Nat /\ scenario.failures \in Nat
BY ScenariosAssumption DEF TypeOK

-----------------------------------------------------------------------------
(* Types.                                                                   *)

Stores == [policy : Policies \cup {None}, bundle : Bundles \cup {None}, webhooks : SUBSET Webhooks]

Works == [policy : Policies \cup {None}, bundle : Bundles \cup {None}, status : Statuses,
          todo : SUBSET Webhooks, name : Names \cup {None}, err : BOOLEAN, again : BOOLEAN]

\* The part of the type invariant that steps of the reconciler may change.
StepTypes ==
    /\ server \in Stores /\ seen \in Stores /\ queued \in BOOLEAN /\ pc \in Steps
    /\ work \in Works
    /\ pc = "idle" <=> work = NoWork
    /\ pc # "idle" => work.policy # None
    /\ pc \in {"list", "others", "recreate"} => scenario.type = "Webhook"
    /\ pc = "recreate" => work.name # None
    /\ pc = "controller" => scenario.type = "Controller" /\ work.bundle # None
    /\ faults \in 0 .. scenario.failures

\* The type invariant, in the parts that the steps change.
LEMMA TypesSplit ==
    TypeOK <=>
        /\ scenario \in Scenarios /\ StepTypes
        /\ controllerPolicyHash \in Hashes \cup {None} /\ running \in Rules \cup {None}
        /\ edits \in 0 .. scenario.edits
BY DEF TypeOK, StepTypes, Stores, Works

\* A policy is created with an empty status, perhaps with a bundle of its own.
LEMMA InitTypes ==
    ASSUME Init
    PROVE  TypeOK
<1>1. scenario.sources \subseteq Sources /\ scenario.rules \subseteq Rules /\ scenario.edits \in Nat /\ scenario.failures \in Nat
      /\ scenario \in Scenarios
  BY ScenariosAssumption DEF Init
<1>2. NewStatus \in Statuses
  BY ConstantsAssumption DEF NewStatus, Statuses
<1>3. server \in Stores /\ seen = server
  BY <1>1, <1>2, ConstantsAssumption DEF Init, Stores, Policies, Bundles
<1>4. NoWork \in Works
  BY <1>2 DEF NoWork, Works
<1>5. StepTypes
  BY <1>1, <1>3, <1>4 DEF Init, StepTypes, Steps
<1> QED BY <1>1, <1>5, TypesSplit DEF Init

\* A part of the server is replaced by a value of its type.
LEMMA StoreTypes ==
    ASSUME NEW s \in Stores, NEW part \in Parts, NEW value,
           part = "policy" => value \in Policies \cup {None},
           part = "bundle" => value \in Bundles \cup {None},
           part = "webhooks" => value \in SUBSET Webhooks
    PROVE  [s EXCEPT ![part] = value] \in Stores
BY DEF Stores, Parts

PartTypes(part, value) ==
    /\ part = "policy" => value \in Policies \cup {None}
    /\ part = "bundle" => value \in Bundles \cup {None}
    /\ part = "webhooks" => value \in SUBSET Webhooks

StoreInv == server \in Stores /\ seen \in Stores /\ queued \in BOOLEAN /\ faults \in 0 .. scenario.failures

\* However a write ends.
LEMMA WriteTypes ==
    ASSUME TypeOK, scenario' = scenario, NEW part \in Parts, NEW value, PartTypes(part, value),
           \/ Written(part, value)
           \/ \E f \in AllFaults : Unanswered(f, part, value) \/ Refused(f)
           \/ NoWrite
    PROVE  StoreInv'
<1> USE TypesSplit, ScenarioTypes
<1>1. CASE Written(part, value)
  <2>1. server' \in Stores /\ seen' \in Stores
    BY <1>1, StoreTypes DEF Written, PartTypes, StepTypes
  <2> QED BY <1>1, <2>1 DEF Written, Events, StoreInv, StepTypes
<1>2. CASE \E f \in AllFaults : Unanswered(f, part, value)
  <2>1. PICK f \in AllFaults : Unanswered(f, part, value)
    BY <1>2
  <2>2. server \in Stores /\ server' = [server EXCEPT ![part] = value]
    BY <2>1 DEF Unanswered, StepTypes
  <2>3. server' \in Stores
    BY <2>2, StoreTypes DEF PartTypes
  <2> QED BY <2>1, <2>3 DEF Unanswered, Fault, StoreInv, StepTypes
<1>3. CASE \E f \in AllFaults : Refused(f)
  BY <1>3 DEF Refused, Fault, StoreInv, StepTypes
<1>4. CASE NoWrite
  BY <1>4 DEF NoWrite, StoreInv, StepTypes
<1> QED BY <1>1, <1>2, <1>3, <1>4

\* A write of a bundle or a webhook configuration ends in one of three ways.
LEMMA WriteFaults ==
    ASSUME NEW part, NEW value, NEW ok \in BOOLEAN, Write(part, value, ok)
    PROVE  \/ Written(part, value)
           \/ \E f \in AllFaults : Unanswered(f, part, value) \/ Refused(f)
BY DEF Write, AllFaults

\* The steps after Reconcile go on with what was read.
SameReading == work' \in Works /\ work'.policy = work.policy /\ work'.bundle = work.bundle

\* Types are kept by a step that goes on with what was read.
LEMMA SameReadingTypes ==
    ASSUME TypeOK, pc # "idle", UNCHANGED userVars, StoreInv', SameReading,
           pc' \in Steps \ {"idle"},
           pc' \in {"list", "others", "recreate"} => scenario.type = "Webhook",
           pc' = "recreate" => work'.name # None,
           pc' = "controller" => scenario.type = "Controller" /\ work.bundle # None,
           controllerPolicyHash' \in Hashes \cup {None}, running' \in Rules \cup {None}
    PROVE  TypeOK'
<1>1. work' # NoWork /\ work'.policy # None
  BY TypesSplit DEF SameReading, StepTypes, NoWork
<1>2. StepTypes'
  BY <1>1, TypesSplit DEF SameReading, StepTypes, StoreInv, userVars
<1> QED BY <1>2, TypesSplit DEF TypeOK, StepTypes, Stores, Works, userVars

\* Reconcile returns: the deferred function follows.
LEMMA FinishFacts ==
    ASSUME TypeOK, NEW status \in Statuses, NEW err \in BOOLEAN, NEW again \in BOOLEAN,
           Finish(status, err, again)
    PROVE  /\ pc' = "patch" /\ SameReading
           /\ work'.status = status /\ work'.todo = {} /\ work'.name = work.name
           /\ work'.err = err /\ work'.again = (err \/ again)
<1>1. work \in Works
  BY TypesSplit DEF StepTypes
<1> QED BY <1>1 DEF Finish, Goto, Works, SameReading

LEMMA StatusTypes ==
    ASSUME NEW s \in Statuses, NEW v \in {"none", "True", "False"}
    PROVE  [s EXCEPT !.compiled = v] \in Statuses /\ [s EXCEPT !.ready = v] \in Statuses
BY DEF Statuses

\* What compileBundle comes to, and where Reconcile goes on.
CompiledAs(value) ==
    /\ SameReading
    /\ work'.status = [work.status EXCEPT !.compiled = value]
    /\ \/ /\ work'.err = work.err /\ work'.again = work.again
          /\ \/ value = "False" /\ pc' = "disable" /\ work'.todo = seen.webhooks
             \/ /\ value = "True" /\ scenario.type = "Webhook" /\ pc' = "list"
                /\ work'.todo = work.todo /\ work'.name = work.name
             \/ /\ value = "True" /\ scenario.type = "Controller" /\ work.bundle # None
                /\ pc' = "controller" /\ work'.todo = work.todo
       \/ /\ value \in {"True", "none"} /\ pc' = "patch" /\ work'.todo = {}
          /\ work'.again = TRUE

\* compileBundle returns a condition that is set.
LEMMA CompiledFacts ==
    ASSUME TypeOK, NEW value \in {"True", "False"}, Compiled(value)
    PROVE  CompiledAs(value)
<1>1. work \in Works /\ seen \in Stores
  BY TypesSplit DEF StepTypes
<1> DEFINE status == [work.status EXCEPT !.compiled = value]
<1>2. status \in Statuses
  BY <1>1, StatusTypes DEF Works
<1>3. CASE value = "False" /\ work' = [work EXCEPT !.status = status, !.todo = seen.webhooks] /\ Goto("disable")
  BY <1>1, <1>2, <1>3 DEF Works, Stores, Goto, CompiledAs, SameReading
<1>4. CASE value = "True" /\ scenario.type = "Webhook" /\ work' = [work EXCEPT !.status = status] /\ Goto("list")
  BY <1>1, <1>2, <1>4 DEF Works, Goto, CompiledAs, SameReading
<1>5. CASE /\ value = "True" /\ scenario.type = "Controller" /\ work.bundle # None
           /\ work' = [work EXCEPT !.status = status] /\ Goto("controller")
  BY <1>1, <1>2, <1>5 DEF Works, Goto, CompiledAs, SameReading
<1>6. CASE value = "True" /\ Finish(status, FALSE, TRUE)
  BY <1>2, <1>6, FinishFacts DEF CompiledAs
<1> QED BY <1>3, <1>4, <1>5, <1>6 DEF Compiled

\* compileBundle returns an error.
LEMMA WriteFailedFacts ==
    ASSUME TypeOK, WriteFailed
    PROVE  CompiledAs("none")
<1>1. work \in Works
  BY TypesSplit DEF StepTypes
<1>2. [work.status EXCEPT !.compiled = "none"] \in Statuses
  BY <1>1, StatusTypes DEF Works
<1> QED BY <1>2, FinishFacts DEF WriteFailed, CompiledAs

\* Whether the policy compiles, and what the bundle was built from.
CompileStep(value) ==
    /\ CompiledAs(value)
    /\ \/ /\ NoWrite
          /\ \/ value = "True" /\ work.policy.js = Empty
             \/ value = "False" /\ work.policy.js = Empty /\ work.bundle = None
             \/ value = work.status.compiled /\ value # "none" /\ work.policy.js = work.status.hash
             \/ value = "False" /\ "bundler" \in scenario.faults
             \/ value = "none"
       \/ /\ work.policy.js # Empty /\ Outdated /\ server.bundle = work.bundle
          /\ \/ value = "True" /\ Written("bundle", work.policy.js)
             \/ value = "none" /\ Unanswered("write", "bundle", work.policy.js)
             \/ value = "none" /\ Refused("write")

\* compileBundle, in each of its ways.
LEMMA CompileFacts ==
    ASSUME TypeOK, compileBundle
    PROVE  \E value \in {"none", "True", "False"} : CompileStep(value)
<1>1. work \in Works
  BY TypesSplit DEF StepTypes
<1>2. CASE work.policy.js = Empty /\ Compiled(IF work.bundle = None THEN "False" ELSE "True") /\ NoWrite
  BY <1>2, CompiledFacts DEF CompileStep
<1>3. CASE work.policy.js # Empty /\ ~Outdated /\ Compiled(work.status.compiled) /\ NoWrite
  <2>1. work.status.compiled \in {"True", "False"} /\ work.policy.js = work.status.hash
    BY <1>1, <1>3 DEF Outdated, Works, Statuses
  <2> QED BY <1>3, <2>1, CompiledFacts DEF CompileStep
<1>4. CASE "bundler" \in scenario.faults /\ Compiled("False") /\ NoWrite
  BY <1>4, CompiledFacts DEF CompileStep
<1>5. CASE work.policy.js # Empty /\ Outdated /\ WriteBundle
  <2>1. CASE WriteFailed /\ NoWrite
    BY <2>1, WriteFailedFacts DEF CompileStep
  <2>2. CASE server.bundle = work.bundle /\ Written("bundle", work.policy.js) /\ Compiled("True")
    BY <1>5, <2>2, CompiledFacts DEF CompileStep
  <2>3. CASE /\ server.bundle = work.bundle /\ WriteFailed
             /\ Unanswered("write", "bundle", work.policy.js) \/ Refused("write")
    BY <1>5, <2>3, WriteFailedFacts DEF CompileStep
  <2> QED BY <1>5, <2>1, <2>2, <2>3 DEF WriteBundle, Write
<1> QED BY <1>2, <1>3, <1>4, <1>5 DEF compileBundle

\* What the deletion of a configuration that was listed comes to.
DeleteStep(w) ==
    LET rest == {v \in server.webhooks : v.name # w.name}
    IN /\ w \in work.todo /\ SameReading /\ work'.status = work.status /\ work'.name = work.name
       /\ \/ /\ \/ rest = server.webhooks /\ NoWrite
                \/ rest # server.webhooks /\ Written("webhooks", rest)
             /\ pc' = pc /\ work'.todo = work.todo \ {w} /\ work'.again = work.again /\ work'.err = work.err
          \/ /\ rest # server.webhooks
             /\ Unanswered("write", "webhooks", rest) \/ Refused("write")
             /\ pc' = "patch" /\ work'.todo = {} /\ work'.again = TRUE

LEMMA DeleteFacts ==
    ASSUME TypeOK, DeleteWebhook
    PROVE  /\ pc \in {"disable", "others"} /\ UNCHANGED <<managerVars, userVars>>
           /\ \E w \in work.todo : DeleteStep(w)
<1>1. work \in Works
  BY TypesSplit DEF StepTypes
<1> DEFINE rest(w) == {v \in server.webhooks : v.name # w.name}
<1>2. PICK w \in work.todo :
         \/ /\ rest(w) = server.webhooks /\ work' = [work EXCEPT !.todo = @ \ {w}] /\ NoWrite /\ UNCHANGED pc
         \/ /\ rest(w) # server.webhooks /\ Written("webhooks", rest(w))
            /\ work' = [work EXCEPT !.todo = @ \ {w}] /\ UNCHANGED pc
         \/ /\ rest(w) # server.webhooks /\ Write("webhooks", rest(w), FALSE)
            /\ Finish(work.status, TRUE, FALSE)
  BY DEF DeleteWebhook
<1> HIDE DEF rest
<1>3. ASSUME work' = [work EXCEPT !.todo = @ \ {w}]
      PROVE  /\ SameReading /\ work'.status = work.status /\ work'.name = work.name
             /\ work'.todo = work.todo \ {w} /\ work'.again = work.again /\ work'.err = work.err
  BY <1>1, <1>3 DEF Works, SameReading
<1>4. ASSUME Finish(work.status, TRUE, FALSE)
      PROVE  /\ SameReading /\ work'.status = work.status /\ work'.name = work.name
             /\ pc' = "patch" /\ work'.todo = {} /\ work'.again = TRUE
  <2>1. work.status \in Statuses
    BY <1>1 DEF Works
  <2> QED BY <1>4, <2>1, FinishFacts
<1>5. DeleteStep(w)
  <2>1. CASE rest(w) = server.webhooks /\ work' = [work EXCEPT !.todo = @ \ {w}] /\ NoWrite /\ UNCHANGED pc
    BY <1>3, <2>1 DEF DeleteStep, rest
  <2>2. CASE /\ rest(w) # server.webhooks /\ Written("webhooks", rest(w))
             /\ work' = [work EXCEPT !.todo = @ \ {w}] /\ UNCHANGED pc
    BY <1>3, <2>2 DEF DeleteStep, rest
  <2>3. CASE /\ rest(w) # server.webhooks /\ Write("webhooks", rest(w), FALSE)
             /\ Finish(work.status, TRUE, FALSE)
    <3>1. Unanswered("write", "webhooks", rest(w)) \/ Refused("write")
      BY <2>3 DEF Write
    <3> QED BY <1>4, <2>3, <3>1 DEF DeleteStep, rest
  <2> QED BY <1>2, <2>1, <2>2, <2>3
<1> QED BY <1>5 DEF DeleteWebhook

\* What syncWebhook comes to: the condition is the result of the last write.
SyncedAs(ok) ==
    /\ SameReading /\ pc' = "patch"
    /\ work'.status = [work.status EXCEPT !.ready = IF ok THEN "True" ELSE "False"]
    /\ work'.todo = {} /\ work'.name = work.name /\ work'.err = ~ok /\ work'.again = ~ok

\* The configurations that Apply creates or deletes, and with which result.
Applied(value, ok) ==
    /\ SyncedAs(ok)
    /\ ok => Written("webhooks", value)
    /\ ~ok => Unanswered("write", "webhooks", value) \/ Refused("write")

\* One that is to be replaced.
Others(w) == {v \in server.webhooks : v.name # w.name}

ToReplace(w) ==
    w \in seen.webhooks /\ w.name = work.name /\ w.rules # work.policy.rules /\ Others(w) # server.webhooks

SyncStep ==
    \/ SyncedAs(FALSE) /\ NoWrite
    \/ \E n \in Names \ NamesOf(server.webhooks \cup seen.webhooks) :
          /\ work.name \in {None, n} /\ work.policy.rules \notin Invalid
          /\ \E ok \in BOOLEAN :
                Applied(server.webhooks \cup {[name |-> n, rules |-> work.policy.rules]}, ok)
    \/ \E w \in seen.webhooks :
          /\ w.name = work.name
          /\ \/ w.rules = work.policy.rules /\ SyncedAs(TRUE) /\ NoWrite
             \/ ToReplace(w) /\ Applied(Others(w), FALSE)

\* It was deleted, and is to be created anew.
RemoveStep ==
    /\ work' = work /\ pc' = "recreate"
    /\ \E w \in seen.webhooks : ToReplace(w) /\ Written("webhooks", Others(w))

LEMMA SyncFacts ==
    ASSUME TypeOK, SyncWebhook
    PROVE  /\ pc = "others" /\ work.todo = {} /\ UNCHANGED <<managerVars, userVars>>
           /\ SyncStep \/ RemoveStep
<1>1. work \in Works
  BY TypesSplit DEF StepTypes
<1>2. ASSUME NEW ok \in BOOLEAN, Synced(ok)
      PROVE  SyncedAs(ok)
  <2>1. [work.status EXCEPT !.ready = IF ok THEN "True" ELSE "False"] \in Statuses
    BY <1>1, StatusTypes DEF Works
  <2> QED BY <1>2, <2>1, FinishFacts DEF Synced, SyncedAs
<1>3. ASSUME NEW value, NEW ok \in BOOLEAN, Write("webhooks", value, ok), Synced(ok)
      PROVE  Applied(value, ok)
  BY <1>2, <1>3 DEF Write, Applied
<1>4. ASSUME NEW n \in Names \ NamesOf(seen.webhooks), work.name \in {None, n}, CreateWebhook(n)
      PROVE  SyncStep
  <2>1. CASE NoWrite /\ Synced(FALSE)
    BY <1>2, <2>1 DEF SyncStep
  <2>2. CASE n \notin NamesOf(server.webhooks) /\ work.policy.rules \notin Invalid
    <3>1. n \in Names \ NamesOf(server.webhooks \cup seen.webhooks)
      BY <2>2 DEF NamesOf
    <3>2. CASE \E ok \in BOOLEAN :
                  /\ Write("webhooks", server.webhooks \cup {[name |-> n, rules |-> work.policy.rules]}, ok)
                  /\ Synced(ok)
      BY <1>3, <1>4, <2>2, <3>1, <3>2 DEF SyncStep
    <3> QED BY <1>4, <2>1, <2>2, <3>2 DEF CreateWebhook
  <2> QED BY <1>4, <2>1, <2>2 DEF CreateWebhook
<1>5. ASSUME NEW w \in seen.webhooks, w.name = work.name, PatchWebhook(w)
      PROVE  SyncStep \/ RemoveStep
  <2>1. CASE w.rules = work.policy.rules /\ NoWrite /\ Synced(TRUE)
    BY <1>2, <1>5, <2>1 DEF SyncStep
  <2>2. CASE NoWrite /\ Synced(FALSE)
    BY <1>2, <2>2 DEF SyncStep
  <2>3. CASE /\ w.rules # work.policy.rules /\ Others(w) # server.webhooks
             /\ Written("webhooks", Others(w)) /\ Goto("recreate") /\ UNCHANGED work
    BY <1>5, <2>3 DEF RemoveStep, ToReplace, Goto
  <2>4. CASE /\ w.rules # work.policy.rules /\ Others(w) # server.webhooks
             /\ Write("webhooks", Others(w), FALSE) /\ Synced(FALSE)
    <3>1. Applied(Others(w), FALSE) /\ ToReplace(w)
      BY <1>3, <1>5, <2>4 DEF ToReplace
    <3> QED BY <1>5, <3>1 DEF SyncStep
  <2> QED BY <1>5, <2>1, <2>2, <2>3, <2>4 DEF PatchWebhook, Others
<1>6. \/ \E n \in Names \ NamesOf(seen.webhooks) : work.name \in {None, n} /\ CreateWebhook(n)
      \/ \E w \in seen.webhooks : w.name = work.name /\ PatchWebhook(w)
  <2>1. CASE work.name = None
    BY <2>1 DEF SyncWebhook, NamesOf
  <2>2. CASE work.name # None
    BY <1>1, <2>2 DEF SyncWebhook, Works
  <2> QED BY <2>1, <2>2
<1>7. SyncStep \/ RemoveStep
  BY <1>4, <1>5, <1>6
<1> QED BY <1>7 DEF SyncWebhook

\* It is created anew: the cache does not have it yet.
Recreated == server.webhooks \cup {[name |-> work.name, rules |-> work.policy.rules]}

RecreateStep ==
    /\ work.name \in Names \ NamesOf(seen.webhooks)
    /\ \/ SyncedAs(FALSE) /\ NoWrite
       \/ /\ work.name \notin NamesOf(server.webhooks) /\ work.policy.rules \notin Invalid
          /\ \/ /\ SyncedAs(TRUE) /\ server' = [server EXCEPT !.webhooks = Recreated]
                /\ UNCHANGED <<seen, queued, faults>>
             \/ SyncedAs(FALSE) /\ Unanswered("write", "webhooks", Recreated)
             \/ SyncedAs(FALSE) /\ Refused("write")

LEMMA RecreateFacts ==
    ASSUME TypeOK, RecreateWebhook
    PROVE  pc = "recreate" /\ UNCHANGED <<managerVars, userVars>> /\ RecreateStep
<1>1. work \in Works
  BY TypesSplit DEF StepTypes
<1>2. ASSUME NEW ok \in BOOLEAN, Synced(ok)
      PROVE  SyncedAs(ok)
  <2>1. [work.status EXCEPT !.ready = IF ok THEN "True" ELSE "False"] \in Statuses
    BY <1>1, StatusTypes DEF Works
  <2> QED BY <1>2, <2>1, FinishFacts DEF Synced, SyncedAs
<1>3. work.name \in Names \ NamesOf(seen.webhooks) /\ pc = "recreate"
  BY <1>1 DEF RecreateWebhook, TypeOK, Works
<1>4. CASE NoWrite /\ Synced(FALSE)
  BY <1>2, <1>3, <1>4 DEF RecreateStep, RecreateWebhook
<1>5. CASE /\ work.name \notin NamesOf(server.webhooks) /\ work.policy.rules \notin Invalid
           /\ server' = [server EXCEPT !.webhooks = Recreated]
           /\ UNCHANGED <<seen, queued, faults>> /\ Synced(TRUE)
  BY <1>2, <1>3, <1>5 DEF RecreateStep, RecreateWebhook
<1>6. CASE /\ work.name \notin NamesOf(server.webhooks) /\ work.policy.rules \notin Invalid
           /\ Write("webhooks", Recreated, FALSE) /\ Synced(FALSE)
  <2>1. Unanswered("write", "webhooks", Recreated) \/ Refused("write")
    BY <1>6 DEF Write
  <2> QED BY <1>2, <1>3, <1>6, <2>1 DEF RecreateStep, RecreateWebhook
<1> QED BY <1>4, <1>5, <1>6 DEF RecreateWebhook, Recreated

ListStep ==
    /\ SameReading /\ pc' = "others" /\ NoWrite
    /\ work'.status = work.status /\ work'.err = work.err /\ work'.again = work.again
    /\ \/ seen.webhooks = {} /\ work'.name = work.name /\ work'.todo = work.todo
       \/ \E keep \in seen.webhooks : work'.name = keep.name /\ work'.todo = seen.webhooks \ {keep}

LEMMA ListFacts ==
    ASSUME TypeOK, List
    PROVE  pc = "list" /\ UNCHANGED <<managerVars, userVars>> /\ ListStep
<1>1. work \in Works /\ seen \in Stores
  BY TypesSplit DEF StepTypes
<1>2. pc = "list" /\ pc' = "others" /\ NoWrite /\ UNCHANGED <<managerVars, userVars>>
  BY DEF List, Goto
<1>3. CASE seen.webhooks = {} /\ UNCHANGED work
  BY <1>1, <1>2, <1>3 DEF ListStep, SameReading
<1>4. CASE \E keep \in seen.webhooks :
              work' = [work EXCEPT !.name = keep.name, !.todo = seen.webhooks \ {keep}]
  <2>1. PICK keep \in seen.webhooks :
              work' = [work EXCEPT !.name = keep.name, !.todo = seen.webhooks \ {keep}]
    BY <1>4
  <2>2. keep.name \in Names /\ seen.webhooks \ {keep} \in SUBSET Webhooks
    BY <1>1 DEF Stores, Webhooks
  <2>3. SameReading
    BY <1>1, <2>1, <2>2 DEF SameReading, Works
  <2>4. /\ work'.status = work.status /\ work'.err = work.err /\ work'.again = work.again
        /\ work'.name = keep.name /\ work'.todo = seen.webhooks \ {keep}
    BY <1>1, <2>1 DEF Works
  <2> QED BY <1>2, <2>3, <2>4 DEF ListStep
<1> QED BY <1>3, <1>4 DEF List

DisabledStep ==
    /\ SameReading /\ pc' = "patch" /\ NoWrite /\ work.todo = {} /\ running' = None
    /\ work'.status = work.status /\ work'.todo = {} /\ work'.err = FALSE /\ work'.again = FALSE

LEMMA DisabledFacts ==
    ASSUME TypeOK, Disabled
    PROVE  pc = "disable" /\ UNCHANGED <<controllerPolicyHash, userVars>> /\ DisabledStep
<1>1. work.status \in Statuses
  BY DEF TypeOK
<1> QED BY <1>1, FinishFacts DEF Disabled, DisabledStep

\* What the policy manager is asked to run, and what is recorded of it.
ControllerStep(ready) ==
    /\ SameReading /\ pc' = "patch" /\ NoWrite
    /\ work'.status = [work.status EXCEPT !.ready = ready]
    /\ work'.todo = {} /\ work'.again = FALSE /\ work'.err = FALSE
    /\ \/ ready = "True" /\ controllerPolicyHash' = Hash /\ running' = work.policy.rules
       \/ ready = "False" /\ controllerPolicyHash' = Hash /\ running' = None
       \/ /\ ready = IF work.status.ready = "False" THEN "False" ELSE "True"
          /\ controllerPolicyHash = Hash /\ UNCHANGED managerVars

LEMMA ControllerFacts ==
    ASSUME TypeOK, syncControllerPolicy
    PROVE  /\ pc = "controller" /\ UNCHANGED userVars
           /\ \E ready \in {"True", "False"} : ControllerStep(ready)
<1>1. work \in Works
  BY TypesSplit DEF StepTypes
<1>2. ASSUME NEW ready \in {"True", "False"}, Finish([work.status EXCEPT !.ready = ready], FALSE, FALSE)
      PROVE  /\ SameReading /\ pc' = "patch" /\ work'.status = [work.status EXCEPT !.ready = ready]
             /\ work'.todo = {} /\ work'.again = FALSE /\ work'.err = FALSE
  <2>1. [work.status EXCEPT !.ready = ready] \in Statuses
    BY <1>1, StatusTypes DEF Works
  <2> QED BY <1>2, <2>1, FinishFacts
<1> DEFINE kept == IF work.status.ready = "False" THEN "False" ELSE "True"
<1>3. [work.status EXCEPT !.ready = IF @ = "False" THEN "False" ELSE "True"] = [work.status EXCEPT !.ready = kept]
  BY <1>1 DEF Works, Statuses
<1>4. CASE /\ controllerPolicyHash' = Hash /\ running' = work.policy.rules
           /\ Finish([work.status EXCEPT !.ready = "True"], FALSE, FALSE)
  BY <1>2, <1>4 DEF syncControllerPolicy, ControllerStep
<1>5. CASE /\ controllerPolicyHash' = Hash /\ running' = None
           /\ Finish([work.status EXCEPT !.ready = "False"], FALSE, FALSE)
  BY <1>2, <1>5 DEF syncControllerPolicy, ControllerStep
<1>6. CASE /\ controllerPolicyHash = Hash /\ UNCHANGED managerVars
           /\ Finish([work.status EXCEPT !.ready = IF @ = "False" THEN "False" ELSE "True"], FALSE, FALSE)
  BY <1>2, <1>3, <1>6 DEF syncControllerPolicy, ControllerStep
<1> QED BY <1>4, <1>5, <1>6 DEF syncControllerPolicy

\* The hash names a bundle: the one that was read, if the policy has no javascript.
LEMMA HashTypes ==
    ASSUME TypeOK, pc = "controller"
    PROVE  Hash \in Hashes /\ Hash # None /\ Hash.rules = work.policy.rules
BY ConstantsAssumption DEF TypeOK, Hash, Hashes, Bundles, Policies

LEMMA AfterFacts ==
    ASSUME TypeOK, pc # "idle"
    PROVE  /\ After \in Statuses
           /\ After.compiled = work.status.compiled /\ After.ready = work.status.ready
           /\ After.summary = Summary(work.status) /\ After.phase = reconcilePhase(work.status)
           /\ After.hash = work.policy.js
<1>1. work \in Works /\ work.policy \in Policies /\ work.status \in Statuses
  BY DEF TypeOK, Works
<1>2. Summary(work.status) \in {"none", "True", "False"}
  <2>1. CASE "False" \in {work.status.compiled, work.status.ready}
    BY <2>1 DEF Summary
  <2>2. CASE "False" \notin {work.status.compiled, work.status.ready}
    BY <1>1, <2>2 DEF Summary, Statuses
  <2> QED BY <2>1, <2>2
<1>3. reconcilePhase(work.status) \in {"none", "Synced", "Failed"} /\ work.policy.js \in Sources
  BY <1>1 DEF reconcilePhase, Policies
<1> QED BY <1>1, <1>2, <1>3 DEF After, Statuses

LEMMA PatchedFacts ==
    ASSUME TypeOK, pc # "idle", server.policy # None, NEW fields \in {ConditionFields, OtherFields}
    PROVE  /\ Patched(fields) \in Policies
           /\ Patched(fields).js = server.policy.js /\ Patched(fields).rules = server.policy.rules
           /\ \A f \in ConditionFields \cup OtherFields : Patched(fields).status[f] =
                 IF f \in fields /\ After[f] # work.policy.status[f] THEN After[f] ELSE server.policy.status[f]
<1>1. After \in Statuses /\ server.policy \in Policies /\ work.policy \in Policies
  BY AfterFacts DEF TypeOK
<1> DEFINE old == server.policy.status
           value(f) == IF f \in fields /\ After[f] # work.policy.status[f] THEN After[f] ELSE old[f]
           status == [f \in DOMAIN old |-> value(f)]
<1>2. old \in Statuses /\ DOMAIN old = ConditionFields \cup OtherFields
  BY <1>1 DEF Policies, Statuses, ConditionFields, OtherFields
<1>3. Patched(fields) = [server.policy EXCEPT !.status = status]
  BY DEF Patched
<1>4. \A f \in ConditionFields \cup OtherFields : status[f] = value(f) /\ value(f) \in {After[f], old[f]}
  BY <1>2
<1> HIDE DEF value
<1>5. status = [compiled |-> status.compiled, ready |-> status.ready, summary |-> status.summary,
                phase |-> status.phase, hash |-> status.hash]
  BY <1>2 DEF ConditionFields, OtherFields
<1> HIDE DEF status, old
<1>6. status \in Statuses
  BY <1>1, <1>2, <1>4, <1>5 DEF Statuses, ConditionFields, OtherFields
<1>7. Patched(fields) \in Policies /\ Patched(fields).status = status
      /\ Patched(fields).js = server.policy.js /\ Patched(fields).rules = server.policy.rules
  BY <1>1, <1>3, <1>6 DEF Policies
<1> QED BY <1>4, <1>7 DEF value, old

\* After what was computed, only whether to repeat the reconcile is found out.
Deferring(again) ==
    /\ SameReading /\ work'.status = work.status /\ work'.todo = work.todo /\ work'.name = work.name
    /\ work'.err = work.err /\ work'.again = again

ConditionsStep ==
    /\ pc' = "status"
    /\ \/ Deferring(work.again) /\ NoWrite /\ ~Changes(ConditionFields)
       \/ Deferring(TRUE) /\ NoWrite /\ (server.policy = None \/ "conditions" \in scenario.faults)
       \/ /\ server.policy # None /\ seen.policy = server.policy
          /\ \/ Deferring(work.again) /\ Written("policy", Patched(ConditionFields))
             \/ Deferring(TRUE) /\ Unanswered("status", "policy", Patched(ConditionFields))
             \/ Deferring(TRUE) /\ Refused("conditions")

LEMMA ConditionsFacts ==
    ASSUME TypeOK, patchStatusConditions
    PROVE  pc = "patch" /\ UNCHANGED <<managerVars, userVars>> /\ ConditionsStep
<1>1. work \in Works
  BY TypesSplit DEF StepTypes
<1>2. UNCHANGED work => Deferring(work.again)
  BY <1>1 DEF Deferring, SameReading
<1>3. Again => Deferring(TRUE)
  BY <1>1 DEF Again, Deferring, SameReading, Works
<1>4. pc' = "status" /\ UNCHANGED <<managerVars, userVars>> /\ pc = "patch"
  BY DEF patchStatusConditions, Goto
<1>5. \/ ~Changes(ConditionFields) /\ NoWrite /\ UNCHANGED work
      \/ (server.policy = None \/ "conditions" \in scenario.faults) /\ NoWrite /\ Again
      \/ /\ server.policy # None /\ seen.policy = server.policy
         /\ \/ Written("policy", Patched(ConditionFields)) /\ UNCHANGED work
            \/ Unanswered("status", "policy", Patched(ConditionFields)) /\ Again
            \/ Refused("conditions") /\ Again
  BY DEF patchStatusConditions, ConditionFields
<1> QED BY <1>2, <1>3, <1>4, <1>5 DEF ConditionsStep

\* The end of a reconcile: the status is written, or there was none to write, or it is repeated.
StatusStep ==
    /\ pc' = "idle" /\ work' = NoWork
    /\ UNCHANGED <<server, seen, faults>> \/ server.policy # None
    /\ server' \in {server, [server EXCEPT !.policy = Patched(OtherFields)]}
    /\ seen' \in {seen, [seen EXCEPT !.policy = Patched(OtherFields)]}
    /\ queued' \in BOOLEAN /\ faults' \in {faults, faults + 1} /\ faults' \in 0 .. scenario.failures
    /\ "status" \notin scenario.faults => faults' = faults
    /\ ~queued' => Quiet /\ seen' = seen
    /\ ~queued' \/ "status" \notin scenario.faults =>
           \/ UNCHANGED <<server, seen>> /\ ~Changes(OtherFields)
           \/ UNCHANGED <<server, seen>> /\ server.policy = None /\ queued'
           \/ /\ server.policy # None
              /\ server' = [server EXCEPT !.policy = Patched(OtherFields)]
              /\ seen' = [seen EXCEPT !.policy = Patched(OtherFields)]

LEMMA StatusFacts ==
    ASSUME TypeOK, patchStatus
    PROVE  pc = "status" /\ UNCHANGED <<managerVars, userVars>> /\ StatusStep
<1>1. work \in Works /\ queued \in BOOLEAN /\ faults \in 0 .. scenario.failures /\ scenario.failures \in Nat
  BY TypesSplit, ScenarioTypes DEF StepTypes
<1>2. ASSUME NEW again \in BOOLEAN, Done(again)
      PROVE  /\ pc' = "idle" /\ work' = NoWork /\ queued' \in BOOLEAN
             /\ ~queued' => Quiet /\ seen' = seen /\ ~again
  BY <1>1, <1>2 DEF Done, Goto, Quiet, Works
<1>3. pc = "status" /\ UNCHANGED <<managerVars, userVars>>
  BY DEF patchStatus
<1>4. CASE ~Changes(OtherFields) /\ UNCHANGED <<server, seen, faults>> /\ Done(FALSE)
  BY <1>1, <1>2, <1>3, <1>4 DEF StatusStep
<1>5. CASE server.policy = None /\ UNCHANGED <<server, seen, faults>> /\ Done(TRUE)
  BY <1>1, <1>2, <1>3, <1>5 DEF StatusStep
<1>6. CASE /\ server.policy # None
           /\ server' = [server EXCEPT !.policy = Patched(OtherFields)]
           /\ seen' = [seen EXCEPT !.policy = Patched(OtherFields)]
           /\ UNCHANGED faults /\ Done(FALSE)
  BY <1>1, <1>2, <1>3, <1>6 DEF StatusStep
<1>7. CASE /\ server.policy # None /\ Fault("status")
           /\ server' \in {server, [server EXCEPT !.policy = Patched(OtherFields)]}
           /\ UNCHANGED seen /\ Done(TRUE)
  <2>1. "status" \in scenario.faults /\ faults' = faults + 1 /\ faults' \in 0 .. scenario.failures
    BY <1>1, <1>7 DEF Fault
  <2>2. pc' = "idle" /\ work' = NoWork /\ queued'
    BY <1>2, <1>7
  <2> QED BY <1>3, <1>7, <2>1, <2>2 DEF StatusStep
<1> QED BY <1>4, <1>5, <1>6, <1>7 DEF patchStatus, OtherFields

\* What happens around the reconciler.
Environment ==
    (\E part \in Parts : Watch(part)) \/ EditPolicy \/ DeletePolicy \/ LoseWebhook \/ EditBundle \/ CollectGarbage

EnvironmentStep ==
    /\ UNCHANGED <<pc, work, managerVars, scenario, faults>>
    /\ \/ /\ UNCHANGED <<server, edits>> /\ queued' = TRUE
          /\ \E part \in Parts : seen' = [seen EXCEPT ![part] = server[part]]
       \/ /\ UNCHANGED <<seen, queued>> /\ edits < scenario.edits /\ edits' = edits + 1
          /\ \/ /\ server.policy # None
                /\ \E js \in Sources, rules \in Rules :
                      server' = [server EXCEPT !.policy = [server.policy EXCEPT !.js = js, !.rules = rules]]
             \/ server' = [server EXCEPT !.policy = None]
             \/ /\ "webhook" \in scenario.faults
                /\ \E w \in server.webhooks : server' = [server EXCEPT !.webhooks = server.webhooks \ {w}]
             \/ server.bundle = None /\ server' = [server EXCEPT !.bundle = Own]
             \/ "bundle" \in scenario.faults /\ server' = [server EXCEPT !.bundle = None]
       \/ /\ UNCHANGED <<seen, queued, edits>> /\ server.policy = None
          /\ \/ server' = [server EXCEPT !.bundle = None]
             \/ server' = [server EXCEPT !.webhooks = {}]

LEMMA EnvironmentFacts ==
    ASSUME TypeOK, Environment
    PROVE  EnvironmentStep
<1>1. CASE \E part \in Parts : Watch(part)
  <2>1. PICK part \in Parts : Watch(part)
    BY <1>1
  <2>2. seen' = [seen EXCEPT ![part] = server[part]] /\ queued' = TRUE
        /\ UNCHANGED <<server, edits>> /\ UNCHANGED <<pc, work, managerVars, scenario, faults>>
    BY <2>1 DEF Watch, userVars
  <2> QED BY <2>2 DEF EnvironmentStep
<1>2. CASE EditPolicy
  <2>1. PICK js \in scenario.sources, rules \in scenario.rules :
            Edit("policy", [server.policy EXCEPT !.js = js, !.rules = rules])
    BY <1>2 DEF EditPolicy
  <2>2. js \in Sources /\ rules \in Rules /\ server.policy # None
    BY <1>2, ScenarioTypes DEF EditPolicy
  <2>3. /\ UNCHANGED <<pc, work, managerVars, scenario, faults>>
        /\ UNCHANGED <<seen, queued>> /\ edits < scenario.edits /\ edits' = edits + 1
        /\ server' = [server EXCEPT !.policy = [server.policy EXCEPT !.js = js, !.rules = rules]]
    BY <2>1 DEF Edit
  <2> QED BY <2>2, <2>3 DEF EnvironmentStep
<1>3. CASE DeletePolicy
  BY <1>3 DEF DeletePolicy, Edit, EnvironmentStep
<1>4. CASE LoseWebhook
  BY <1>4 DEF LoseWebhook, Edit, EnvironmentStep
<1>5. CASE EditBundle
  BY <1>5 DEF EditBundle, Edit, EnvironmentStep
<1>6. CASE CollectGarbage
  <2>1. PICK part \in {"bundle", "webhooks"} :
            server' = [server EXCEPT ![part] = IF part = "bundle" THEN None ELSE {}]
    BY <1>6 DEF CollectGarbage
  <2>2. server' = [server EXCEPT !.bundle = None] \/ server' = [server EXCEPT !.webhooks = {}]
    BY <2>1
  <2> QED BY <1>6, <2>2 DEF CollectGarbage, EnvironmentStep, userVars
<1> QED BY <1>1, <1>2, <1>3, <1>4, <1>5, <1>6 DEF Environment

ReconcileStep ==
    /\ pc = "idle" /\ queued /\ queued' = FALSE /\ UNCHANGED <<server, seen, userVars, faults>>
    /\ \/ /\ seen.policy = None /\ controllerPolicyHash' = None /\ running' = None /\ UNCHANGED <<pc, work>>
       \/ /\ seen.policy # None /\ UNCHANGED managerVars /\ pc' = "compile"
          /\ work' \in Works /\ work'.policy = seen.policy /\ work'.bundle = seen.bundle
          /\ work'.status = seen.policy.status /\ work'.todo = {} /\ work'.name = None
          /\ work'.err = FALSE /\ work'.again = FALSE

LEMMA ReconcileFacts ==
    ASSUME TypeOK, Reconcile
    PROVE  ReconcileStep
<1>1. CASE seen.policy = None /\ Forget /\ UNCHANGED <<pc, work>>
  BY <1>1 DEF Reconcile, ReconcileStep, Forget
<1>2. CASE /\ seen.policy # None /\ Goto("compile") /\ UNCHANGED managerVars
           /\ work' = [NoWork EXCEPT !.policy = seen.policy, !.bundle = seen.bundle, !.status = seen.policy.status]
  <2>1. work' = [policy |-> seen.policy, bundle |-> seen.bundle, status |-> seen.policy.status, todo |-> {},
                 name |-> None, err |-> FALSE, again |-> FALSE]
    BY <1>2 DEF NoWork
  <2>2. seen.policy \in Policies /\ seen.bundle \in Bundles \cup {None} /\ seen.policy.status \in Statuses
    BY <1>2 DEF TypeOK, Policies
  <2>3. work' \in Works
    BY <2>1, <2>2 DEF Works
  <2>4. /\ work'.policy = seen.policy /\ work'.bundle = seen.bundle /\ work'.status = seen.policy.status
        /\ work'.todo = {} /\ work'.name = None /\ work'.err = FALSE /\ work'.again = FALSE
    BY <2>1
  <2>5. pc' = "compile" /\ pc = "idle" /\ queued /\ queued' = FALSE /\ UNCHANGED <<server, seen, userVars, faults>>
    BY <1>2 DEF Reconcile, Goto
  <2> QED BY <1>2, <2>3, <2>4, <2>5 DEF ReconcileStep
<1> QED BY <1>1, <1>2 DEF Reconcile

\* Reconcile and the deferred function keep the types.
LEMMA StepKeepsTypes ==
    ASSUME TypeOK, Step
    PROVE  TypeOK'
<1> USE TypesSplit, ScenarioTypes
<1>1. work \in Works /\ server \in Stores /\ seen \in Stores /\ pc \in Steps
      /\ controllerPolicyHash \in Hashes \cup {None} /\ running \in Rules \cup {None}
  BY DEF StepTypes
<1>2. pc # "idle" => work.policy \in Policies
  BY <1>1 DEF Works, StepTypes
<1>3. ASSUME NEW part \in Parts, NEW value, PartTypes(part, value), scenario' = scenario,
             \/ Written(part, value)
             \/ \E f \in AllFaults : Unanswered(f, part, value) \/ Refused(f)
             \/ NoWrite
      PROVE  StoreInv'
  BY <1>3, WriteTypes
<1>4. CASE Reconcile
  <2>1. ReconcileStep
    BY <1>4, ReconcileFacts
  <2>2. CASE UNCHANGED <<pc, work>>
    BY <1>1, <2>1, <2>2 DEF ReconcileStep, TypeOK, userVars, managerVars
  <2>3. CASE /\ seen.policy # None /\ UNCHANGED managerVars /\ pc' = "compile"
             /\ work' \in Works /\ work'.policy = seen.policy
    <3>1. work' # NoWork
      BY <2>3 DEF NoWork
    <3>2. StepTypes'
      BY <1>1, <2>1, <2>3, <3>1 DEF ReconcileStep, StepTypes, userVars, Steps
    <3> QED BY <2>1, <2>3, <3>2 DEF ReconcileStep, TypeOK, StepTypes, Stores, Works, userVars, managerVars
  <2> QED BY <2>1, <2>2, <2>3 DEF ReconcileStep
<1>5. CASE compileBundle
  <2>1. PICK value \in {"none", "True", "False"} : CompileStep(value)
    BY <1>5, CompileFacts
  <2>2. pc = "compile" /\ UNCHANGED <<managerVars, userVars>>
    BY <1>5 DEF compileBundle
  <2>3. PartTypes("bundle", work.policy.js)
    BY <1>2, <2>2 DEF PartTypes, Policies, Bundles
  <2>4. StoreInv'
    BY <1>3, <2>1, <2>2, <2>3 DEF CompileStep, Parts, AllFaults, userVars
  <2> QED BY <1>1, <2>1, <2>2, <2>4, SameReadingTypes DEF CompileStep, CompiledAs, Steps, managerVars
<1>6. CASE DeleteWebhook
  <2>1. PICK w \in work.todo : DeleteStep(w)
    BY <1>6, DeleteFacts
  <2>2. pc \in {"disable", "others"} /\ UNCHANGED <<managerVars, userVars>>
    BY <1>6, DeleteFacts
  <2>3. PartTypes("webhooks", {v \in server.webhooks : v.name # w.name})
    BY <1>1 DEF PartTypes, Stores
  <2>4. StoreInv'
    BY <1>3, <2>1, <2>2, <2>3 DEF DeleteStep, Parts, AllFaults, userVars
  <2> QED BY <1>1, <2>1, <2>2, <2>4, SameReadingTypes DEF DeleteStep, StepTypes, Steps, managerVars
<1>7. CASE Disabled
  <2>1. pc = "disable" /\ UNCHANGED <<controllerPolicyHash, userVars>> /\ DisabledStep
    BY <1>7, DisabledFacts
  <2>2. StoreInv'
    BY <1>3, <2>1 DEF DisabledStep, Parts, userVars, PartTypes
  <2> QED BY <1>1, <2>1, <2>2, SameReadingTypes DEF DisabledStep, Steps
<1>8. CASE List
  <2>1. pc = "list" /\ UNCHANGED <<managerVars, userVars>> /\ ListStep
    BY <1>8, ListFacts
  <2>2. StoreInv'
    BY <1>3, <2>1 DEF ListStep, Parts, userVars, PartTypes
  <2> QED BY <1>1, <2>1, <2>2, SameReadingTypes DEF ListStep, Steps, StepTypes, managerVars
<1>9. CASE SyncWebhook
  <2>1. pc = "others" /\ UNCHANGED <<managerVars, userVars>> /\ (SyncStep \/ RemoveStep)
    BY <1>9, SyncFacts
  <2>2. /\ SameReading /\ pc' \in {"patch", "recreate"}
        /\ pc' = "recreate" => work'.name # None
    <3>1. \A w \in Webhooks : w.name # None
      BY ConstantsAssumption DEF Webhooks
    <3>2. CASE SyncStep
      BY <3>2 DEF SyncStep, Applied, SyncedAs
    <3>3. CASE RemoveStep
      BY <1>1, <3>1, <3>3 DEF RemoveStep, ToReplace, SameReading, Stores
    <3> QED BY <2>1, <3>2, <3>3
  <2>3. \A value : (\E ok \in BOOLEAN : Applied(value, ok)) =>
            \/ Written("webhooks", value)
            \/ \E f \in AllFaults : Unanswered(f, "webhooks", value) \/ Refused(f)
    BY DEF Applied, AllFaults
  <2>4. StoreInv'
    <3>1. CASE NoWrite
      BY <1>3, <2>1, <3>1 DEF Parts, userVars, PartTypes
    <3>2. CASE \E n \in Names : /\ work.policy.rules \notin Invalid
                                /\ \E ok \in BOOLEAN : Applied(server.webhooks \cup
                                      {[name |-> n, rules |-> work.policy.rules]}, ok)
      <4>1. PICK n \in Names : \E ok \in BOOLEAN :
                    Applied(server.webhooks \cup {[name |-> n, rules |-> work.policy.rules]}, ok)
        BY <3>2
      <4>2. PartTypes("webhooks", server.webhooks \cup {[name |-> n, rules |-> work.policy.rules]})
        BY <1>1, <1>2, <2>1, <3>2 DEF PartTypes, Stores, Webhooks, Policies
      <4> QED BY <1>3, <2>1, <2>3, <4>1, <4>2 DEF Parts, userVars
    <3>3. CASE \E w \in seen.webhooks : Applied(Others(w), FALSE) \/ Written("webhooks", Others(w))
      <4>1. PICK w \in seen.webhooks : Applied(Others(w), FALSE) \/ Written("webhooks", Others(w))
        BY <3>3
      <4>2. PartTypes("webhooks", Others(w))
        BY <1>1 DEF PartTypes, Stores, Others
      <4> QED BY <1>3, <2>1, <2>3, <4>1, <4>2 DEF Parts, userVars
    <3> QED BY <2>1, <3>1, <3>2, <3>3 DEF SyncStep, RemoveStep
  <2> QED BY <1>1, <2>1, <2>2, <2>4, SameReadingTypes DEF Steps, StepTypes, managerVars
<1>13. CASE RecreateWebhook
  <2>1. pc = "recreate" /\ UNCHANGED <<managerVars, userVars>> /\ RecreateStep
    BY <1>13, RecreateFacts
  <2>2. SameReading /\ pc' = "patch"
    BY <2>1 DEF RecreateStep, SyncedAs
  <2>3. StoreInv'
    <3>1. CASE NoWrite
      BY <1>3, <2>1, <3>1 DEF Parts, userVars, PartTypes
    <3>2. CASE work.policy.rules \notin Invalid
      <4>1. PartTypes("webhooks", Recreated)
        BY <1>1, <1>2, <2>1, <3>2 DEF PartTypes, Stores, Webhooks, Policies, RecreateStep, Recreated
      <4>2. CASE server' = [server EXCEPT !.webhooks = Recreated] /\ UNCHANGED <<seen, queued, faults>>
        <5>1. server' \in Stores
          BY <1>1, <4>1, <4>2 DEF Stores, PartTypes
        <5> QED BY <2>1, <4>2, <5>1 DEF StoreInv, StepTypes, userVars
      <4>3. CASE Unanswered("write", "webhooks", Recreated) \/ Refused("write")
        BY <1>3, <2>1, <4>1, <4>3 DEF Parts, AllFaults, userVars
      <4> QED BY <2>1, <3>1, <4>2, <4>3 DEF RecreateStep
    <3> QED BY <2>1, <3>1, <3>2 DEF RecreateStep
  <2> QED BY <1>1, <2>1, <2>2, <2>3, SameReadingTypes DEF Steps, managerVars
<1>10. CASE syncControllerPolicy
  <2>1. pc = "controller" /\ UNCHANGED userVars
    BY <1>10, ControllerFacts
  <2>2. PICK ready \in {"True", "False"} : ControllerStep(ready)
    BY <1>10, ControllerFacts
  <2>3. Hash \in Hashes /\ work.policy.rules \in Rules
    BY <1>2, <2>1, HashTypes DEF Policies
  <2>4. StoreInv'
    BY <1>3, <2>1, <2>2 DEF ControllerStep, Parts, userVars, PartTypes
  <2> QED BY <1>1, <2>1, <2>2, <2>3, <2>4, SameReadingTypes DEF ControllerStep, Steps, managerVars
<1>11. CASE patchStatusConditions
  <2>1. pc = "patch" /\ UNCHANGED <<managerVars, userVars>> /\ ConditionsStep
    BY <1>11, ConditionsFacts
  <2>2. SameReading /\ pc' = "status"
    BY <2>1 DEF ConditionsStep, Deferring
  <2>3. server.policy # None => PartTypes("policy", Patched(ConditionFields))
    BY <2>1, PatchedFacts DEF PartTypes
  <2>4. StoreInv'
    <3>1. CASE NoWrite
      BY <1>3, <2>1, <3>1 DEF Parts, userVars, PartTypes
    <3>2. CASE server.policy # None
      BY <1>3, <2>1, <2>3, <3>1, <3>2 DEF Parts, AllFaults, userVars, ConditionsStep
    <3> QED BY <2>1, <3>1, <3>2 DEF ConditionsStep
  <2> QED BY <1>1, <2>1, <2>2, <2>4, SameReadingTypes DEF Steps, managerVars
<1>12. CASE patchStatus
  <2>1. pc = "status" /\ UNCHANGED <<managerVars, userVars>> /\ StatusStep
    BY <1>12, StatusFacts
  <2>2. server' \in Stores /\ seen' \in Stores
    <3>1. server.policy # None => Patched(OtherFields) \in Policies
      BY <2>1, PatchedFacts
    <3> QED BY <1>1, <2>1, <3>1, StoreTypes DEF StatusStep, Stores
  <2>3. NoWork \in Works
    <3>1. NewStatus \in Statuses
      BY ConstantsAssumption DEF NewStatus, Statuses
    <3> QED BY <3>1 DEF NoWork, Works
  <2>4. StepTypes'
    BY <1>1, <2>1, <2>2, <2>3 DEF StatusStep, StepTypes, userVars, Steps
  <2> QED BY <2>1, <2>4 DEF TypeOK, StepTypes, Stores, Works, userVars, managerVars
<1> QED BY <1>4, <1>5, <1>6, <1>7, <1>8, <1>9, <1>10, <1>11, <1>12, <1>13 DEF Step

RestartStep ==
    /\ UNCHANGED <<server, userVars>> /\ "restart" \in scenario.faults /\ faults' = faults + 1
    /\ seen' = server /\ queued' = TRUE /\ pc' = "idle" /\ work' = NoWork
    /\ controllerPolicyHash' = None /\ running' = None

LEMMA RestartFacts ==
    ASSUME Restart
    PROVE  RestartStep
BY DEF Restart, RestartStep, Fault, Goto, Forget

\* An edit or a fault is counted up to its bound.
LEMMA Counted ==
    ASSUME NEW n \in Nat, NEW i \in 0 .. n, NEW j, j = i \/ (i < n /\ j = i + 1)
    PROVE  j \in 0 .. n
OBVIOUS

\* So do users, the cache, the garbage collector and restarts.
LEMMA NextKeepsTypes ==
    ASSUME TypeOK, [Next]_vars
    PROVE  TypeOK'
<1> USE TypesSplit, ScenarioTypes
<1>1. CASE Environment
  <2>1. EnvironmentStep
    BY <1>1, EnvironmentFacts
  <2>2. server \in Stores /\ seen \in Stores /\ edits \in 0 .. scenario.edits
    BY DEF StepTypes
  <2>3. seen' \in Stores /\ queued' \in BOOLEAN
    <3>1. CASE UNCHANGED <<seen, queued>>
      BY <3>1 DEF StepTypes
    <3>2. CASE queued' = TRUE /\ \E part \in Parts : seen' = [seen EXCEPT ![part] = server[part]]
      <4>1. PICK part \in Parts : seen' = [seen EXCEPT ![part] = server[part]]
        BY <3>2
      <4>2. \A p \in Parts : PartTypes(p, server[p])
        BY <2>2 DEF PartTypes, Parts, Stores
      <4>3. seen' \in Stores
        BY <2>2, <4>1, <4>2, StoreTypes DEF PartTypes
      <4> QED BY <3>2, <4>3
    <3> QED BY <2>1, <3>1, <3>2 DEF EnvironmentStep
  <2>4. server' \in Stores
    <3>1. server.policy # None => server.policy \in Policies
      BY <2>2 DEF Stores
    <3>2. \/ server' = server
          \/ /\ server.policy # None
             /\ \E js \in Sources, rules \in Rules :
                   server' = [server EXCEPT !.policy = [server.policy EXCEPT !.js = js, !.rules = rules]]
          \/ server' = [server EXCEPT !.policy = None]
          \/ \E ws \in SUBSET server.webhooks : server' = [server EXCEPT !.webhooks = ws]
          \/ \E bundle \in {Own, None} : server' = [server EXCEPT !.bundle = bundle]
      <4>1. \A w : server.webhooks \ {w} \in SUBSET server.webhooks
        OBVIOUS
      <4>2. {} \in SUBSET server.webhooks
        OBVIOUS
      <4> QED BY <2>1, <4>1, <4>2, ZenonT(30) DEF EnvironmentStep
    <3>3. CASE /\ server.policy # None
               /\ \E js \in Sources, rules \in Rules :
                     server' = [server EXCEPT !.policy = [server.policy EXCEPT !.js = js, !.rules = rules]]
      <4>1. PICK js \in Sources, rules \in Rules :
                server' = [server EXCEPT !.policy = [server.policy EXCEPT !.js = js, !.rules = rules]]
        BY <3>3
      <4>2. [server.policy EXCEPT !.js = js, !.rules = rules] \in Policies
        BY <3>1, <3>3 DEF Policies
      <4> QED BY <2>2, <4>1, <4>2 DEF Stores
    <3>4. CASE server' = [server EXCEPT !.policy = None]
      BY <2>2, <3>4 DEF Stores
    <3>5. CASE \E ws \in SUBSET server.webhooks : server' = [server EXCEPT !.webhooks = ws]
      BY <2>2, <3>5 DEF Stores
    <3>6. CASE \E bundle \in {Own, None} : server' = [server EXCEPT !.bundle = bundle]
      BY <2>2, <3>6 DEF Stores, Bundles
    <3> QED BY <2>2, <3>2, <3>3, <3>4, <3>5, <3>6
  <2>5. edits' \in 0 .. scenario.edits
    <3>1. edits' = edits \/ (edits < scenario.edits /\ edits' = edits + 1)
      BY <2>1 DEF EnvironmentStep
    <3>2. scenario.edits \in Nat
      BY ScenarioTypes
    <3> QED BY <2>2, <3>1, <3>2, Counted, Zenon
  <2>6. UNCHANGED <<pc, work, controllerPolicyHash, running, scenario, faults>>
    BY <2>1 DEF EnvironmentStep, managerVars
  <2>7. StepTypes'
    BY <2>3, <2>4, <2>6 DEF StepTypes
  <2>8. {server, seen}' \subseteq Stores
    BY <2>3, <2>4
  <2> QED BY <2>5, <2>6, <2>7, <2>8 DEF TypeOK, StepTypes, Stores, Works
<1>2. CASE Restart
  <2>1. NoWork \in Works
    <3>1. NewStatus \in Statuses
      BY ConstantsAssumption DEF NewStatus, Statuses
    <3> QED BY <3>1 DEF NoWork, Works
  <2>2. faults' \in 0 .. scenario.failures
    BY <1>2 DEF Restart, Fault, StepTypes
  <2>3. StepTypes'
    BY <1>2, <2>1, <2>2, RestartFacts DEF RestartStep, StepTypes, userVars, Steps
  <2> QED BY <1>2, <2>3, RestartFacts DEF RestartStep, TypeOK, StepTypes, Stores, Works, userVars
<1>3. CASE UNCHANGED vars
  BY <1>3 DEF vars, TypeOK
<1> QED BY <1>1, <1>2, <1>3, StepKeepsTypes DEF Next, Environment

-----------------------------------------------------------------------------
(* Applying the webhook configuration.                                      *)

\* However Apply ends, and whether it is to go on, it has written webhook configurations only.
LEMMA SyncChanges ==
    ASSUME TypeOK, SyncWebhook \/ RecreateWebhook
    PROVE  /\ UNCHANGED <<managerVars, userVars>> /\ SameReading
           /\ pc \in {"others", "recreate"} /\ pc' \in {"patch", "recreate"}
           /\ pc' = "recreate" => pc = "others" /\ work' = work /\ queued'
           /\ pc' = "patch" => work'.err = work'.again
           /\ work'.status.compiled = work.status.compiled /\ work'.status.summary = work.status.summary
           /\ pc = "others" \/ pc' = "patch" => work'.todo = {}
           /\ server'.policy = server.policy /\ server'.bundle = server.bundle
           /\ seen'.policy = seen.policy /\ seen'.bundle = seen.bundle
           /\ seen'.webhooks \in {seen.webhooks, server'.webhooks}
           /\ ~queued' => ~queued /\ seen' = seen
<1>1. server \in Stores /\ seen \in Stores /\ work \in Works
  BY TypesSplit DEF StepTypes
<1>2. ASSUME NEW ok \in BOOLEAN, SyncedAs(ok)
      PROVE  /\ SameReading /\ pc' = "patch" /\ work'.todo = {} /\ work'.err = work'.again
             /\ work'.status.compiled = work.status.compiled /\ work'.status.summary = work.status.summary
  BY <1>1, <1>2 DEF SyncedAs, Works, Statuses
<1> DEFINE Stored == /\ server'.policy = server.policy /\ server'.bundle = server.bundle
                     /\ seen'.policy = seen.policy /\ seen'.bundle = seen.bundle
                     /\ seen'.webhooks \in {seen.webhooks, server'.webhooks}
                     /\ ~queued' => ~queued /\ seen' = seen
<1>3. ASSUME NEW value, Written("webhooks", value)
      PROVE  Stored /\ seen'.webhooks = value
  BY <1>3, WrittenPart DEF Parts
<1>4. ASSUME NEW value, Unanswered("write", "webhooks", value) \/ Refused("write") \/ NoWrite
      PROVE  Stored
  BY <1>4, UnansweredPart DEF Parts, Refused, NoWrite
<1> HIDE DEF Stored
<1>5. CASE SyncWebhook
  <2>1. pc = "others" /\ work.todo = {} /\ UNCHANGED <<managerVars, userVars>> /\ (SyncStep \/ RemoveStep)
    BY <1>5, SyncFacts
  <2>2. CASE SyncStep
    <3>1. (\E ok \in BOOLEAN : SyncedAs(ok)) /\ Stored
      BY <1>3, <1>4, <2>2 DEF SyncStep, Applied
    <3> QED BY <1>2, <2>1, <3>1 DEF Stored
  <2>3. CASE RemoveStep
    <3>1. PICK w \in seen.webhooks : Written("webhooks", Others(w))
      BY <2>3 DEF RemoveStep
    <3>2. w \notin Others(w)
      BY DEF Others
    <3>3. Stored /\ seen' # seen
      BY <1>3, <3>1, <3>2
    <3>4. queued' /\ work' = work /\ pc' = "recreate" /\ SameReading
      BY <1>1, <2>3, <3>3 DEF Stored, RemoveStep, SameReading, TypeOK
    <3> QED BY <2>1, <3>3, <3>4 DEF Stored
  <2> QED BY <2>1, <2>2, <2>3
<1>6. CASE RecreateWebhook
  <2>1. pc = "recreate" /\ UNCHANGED <<managerVars, userVars>> /\ RecreateStep
    BY <1>6, RecreateFacts
  <2>2. \E ok \in BOOLEAN : SyncedAs(ok)
    BY <2>1 DEF RecreateStep
  <2>3. Stored
    <3>1. CASE server' = [server EXCEPT !.webhooks = Recreated] /\ UNCHANGED <<seen, queued, faults>>
      BY <1>1, <3>1 DEF Stores, Stored
    <3> QED BY <1>4, <2>1, <3>1 DEF RecreateStep
  <2> QED BY <1>2, <2>1, <2>2, <2>3 DEF Stored
<1> QED BY <1>5, <1>6

-----------------------------------------------------------------------------
(* What a reconcile has read and computed.                                  *)

\* Unless the policy is queued, the cache has not changed; only Reconcile takes it from the queue.
LEMMA Unqueued ==
    ASSUME TypeOK, Next, ~queued'
    PROVE  seen' = seen /\ (~Reconcile => ~queued)
<1> USE TypesSplit DEF StepTypes
<1>1. CASE Reconcile
  BY <1>1 DEF Reconcile
<1>2. ASSUME NEW part \in Parts, NEW value, NEW f,
             Written(part, value) \/ Unanswered(f, part, value) \/ Refused(f) \/ NoWrite
      PROVE  seen' = seen /\ ~queued
  BY <1>2 DEF Written, Events, Unanswered, Refused, NoWrite
<1>3. "bundle" \in Parts /\ "webhooks" \in Parts /\ "policy" \in Parts
  BY DEF Parts
<1>4. CASE compileBundle
  BY <1>2, <1>3, <1>4, CompileFacts DEF CompileStep
<1>5. CASE DeleteWebhook
  BY <1>2, <1>3, <1>5, DeleteFacts DEF DeleteStep
<1>6. CASE Disabled \/ List
  BY <1>6 DEF Disabled, List, NoWrite
<1>7. CASE SyncWebhook \/ RecreateWebhook
  <2>1. ~Reconcile
    BY <1>7, SyncChanges DEF Reconcile
  <2> QED BY <1>7, <2>1, SyncChanges
<1>8. CASE syncControllerPolicy
  BY <1>2, <1>8 DEF syncControllerPolicy, NoWrite
<1>9. CASE patchStatusConditions
  BY <1>2, <1>3, <1>9, ConditionsFacts DEF ConditionsStep
<1>10. CASE patchStatus
  BY <1>10, StatusFacts DEF StatusStep, Quiet
<1>11. CASE Environment
  BY <1>11, EnvironmentFacts DEF EnvironmentStep
<1>12. CASE Restart
  BY <1>12, RestartFacts DEF RestartStep
<1> QED BY <1>1, <1>4, <1>5, <1>6, <1>7, <1>8, <1>9, <1>10, <1>11, <1>12 DEF Next, Step, Environment

\* What steps may do to what was read.
LEMMA Readings ==
    ASSUME TypeOK, Next
    PROVE  /\ scenario' = scenario
           /\ \/ UNCHANGED <<pc, work>>
              \/ Reconcile
              \/ pc # "idle" /\ SameReading /\ pc' # "idle"
              \/ pc' = "idle" /\ work' = NoWork /\ (patchStatus \/ Restart)
<1>1. CASE Reconcile
  BY <1>1 DEF Reconcile, userVars
<1>2. CASE compileBundle
  BY <1>2, CompileFacts DEF CompileStep, CompiledAs, compileBundle, userVars
<1>3. CASE DeleteWebhook
  BY <1>3, DeleteFacts DEF DeleteStep, userVars
<1>5. CASE Disabled
  BY <1>5, DisabledFacts DEF DisabledStep, userVars
<1>6. CASE List
  BY <1>6, ListFacts DEF ListStep, userVars
<1>7. CASE SyncWebhook \/ RecreateWebhook
  BY <1>7, SyncChanges DEF userVars
<1>8. CASE syncControllerPolicy
  BY <1>8, ControllerFacts DEF ControllerStep, userVars
<1>9. CASE patchStatusConditions
  BY <1>9, ConditionsFacts DEF ConditionsStep, Deferring, userVars
<1>10. CASE patchStatus
  BY <1>10, StatusFacts DEF StatusStep, userVars
<1>11. CASE Environment
  BY <1>11, EnvironmentFacts DEF EnvironmentStep
<1>12. CASE Restart
  BY <1>12, RestartFacts DEF RestartStep, userVars
<1> QED BY <1>1, <1>2, <1>3, <1>5, <1>6, <1>7, <1>8, <1>9, <1>10, <1>11, <1>12 DEF Next, Step, Environment

\* The manager is told about a policy by Reconcile alone, in three of its steps.
LEMMA ManagerSteps ==
    ASSUME TypeOK, Next
    PROVE  \/ UNCHANGED managerVars
           \/ ReconcileStep
           \/ RestartStep
           \/ Disabled
           \/ pc = "controller" /\ \E ready \in {"True", "False"} : ControllerStep(ready)
<1>1. CASE Reconcile \/ syncControllerPolicy \/ Restart
  BY <1>1, ReconcileFacts, ControllerFacts, RestartFacts
<1>2. CASE compileBundle \/ List \/ patchStatusConditions \/ patchStatus
  BY <1>2 DEF compileBundle, List, patchStatusConditions, patchStatus
<1>3. CASE DeleteWebhook \/ SyncWebhook \/ RecreateWebhook
  BY <1>3, DeleteFacts, SyncChanges
<1>4. CASE Environment
  BY <1>4, EnvironmentFacts DEF EnvironmentStep
<1> QED BY <1>1, <1>2, <1>3, <1>4, Zenon DEF Next, Environment, Step

\* Only after the deletion of a configuration is one created anew.
LEMMA Recreating ==
    ASSUME TypeOK, Next, pc' = "recreate"
    PROVE  \/ pc = "recreate" /\ UNCHANGED <<pc, work>>
           \/ queued' /\ work' = work /\ pc = "others"
<1>1. CASE SyncWebhook \/ RecreateWebhook
  BY <1>1, SyncChanges
<1>2. CASE Reconcile \/ compileBundle \/ DeleteWebhook
  BY <1>2, ReconcileFacts, CompileFacts, DeleteFacts DEF ReconcileStep, CompileStep, CompiledAs, DeleteStep
<1>3. CASE Disabled \/ List \/ syncControllerPolicy
  BY <1>3, DisabledFacts, ListFacts, ControllerFacts DEF DisabledStep, ListStep, ControllerStep
<1>4. CASE patchStatusConditions \/ patchStatus \/ Restart
  BY <1>4, ConditionsFacts, StatusFacts, RestartFacts DEF ConditionsStep, StatusStep, RestartStep
<1>5. CASE Environment
  BY <1>5, EnvironmentFacts DEF EnvironmentStep
<1> QED BY <1>1, <1>2, <1>3, <1>4, <1>5 DEF Next, Step, Environment

\* A step that changes what was read queues the policy.
LEMMA ReadKept ==
    ASSUME TypeOK, ReadInv, Next
    PROVE  ReadInv'
<1>1. TypeOK' /\ scenario' = scenario
  BY NextKeepsTypes, Readings
<1>2. ASSUME pc' # "idle", ~queued'
      PROVE  work'.policy = seen'.policy
  <2>1. CASE Reconcile
    BY <1>1, <1>2, <2>1, ReconcileFacts DEF ReconcileStep
  <2>2. CASE ~Reconcile
    <3>1. seen' = seen /\ ~queued
      BY <1>2, <2>2, Unqueued
    <3>2. work'.policy = work.policy /\ pc # "idle"
      BY <1>2, <2>2, Readings DEF SameReading
    <3> QED BY <3>1, <3>2 DEF ReadInv
  <2> QED BY <2>1, <2>2
<1>3. ASSUME scenario.type = "Webhook"
      PROVE  running' = None /\ controllerPolicyHash' = None
  <2>1. pc # "controller" /\ running = None /\ controllerPolicyHash = None
    BY <1>3 DEF ReadInv, TypeOK
  <2> QED BY <2>1, ManagerSteps, DisabledFacts DEF DisabledStep, ReconcileStep, RestartStep, managerVars
<1>4. ASSUME ~queued', seen'.policy = None
      PROVE  running' = None
  <2>1. CASE Reconcile
    BY <1>4, <2>1, ReconcileFacts DEF ReconcileStep
  <2>2. CASE ~Reconcile
    <3>1. seen' = seen /\ ~queued
      BY <1>4, <2>2, Unqueued
    <3>2. pc # "controller" /\ running = None
      BY <1>4, <3>1 DEF ReadInv, TypeOK
    <3> QED BY <1>4, <3>2, ManagerSteps DEF ReconcileStep, RestartStep, DisabledStep, managerVars, Disabled
  <2> QED BY <2>1, <2>2
<1>5. ASSUME pc' = "recreate", ~queued'
      PROVE  FALSE
  <2>1. pc = "recreate" /\ ~Reconcile
    BY <1>5, Recreating DEF Reconcile
  <2> QED BY <1>5, <2>1, Unqueued DEF ReadInv
<1>6. queued' \in BOOLEAN
  BY <1>1 DEF TypeOK
<1> QED BY <1>1, <1>2, <1>3, <1>4, <1>5, <1>6 DEF ReadInv

\* The condition that compileBundle sets is kept to the end of the reconcile.
LEMMA WorkKept ==
    ASSUME TypeOK, WorkInv, Next
    PROVE  WorkInv'
<1>1. work \in Works /\ work.status \in Statuses
  BY DEF TypeOK, Works
<1>2. CASE Reconcile
  BY <1>2, ReconcileFacts DEF ReconcileStep, WorkInv, Deferred
<1>3. CASE compileBundle
  <2>1. PICK value \in {"none", "True", "False"} : CompiledAs(value)
    BY <1>3, CompileFacts DEF CompileStep
  <2>2. work'.status.compiled = value /\ work'.status.summary = work.status.summary
    BY <1>1, <2>1 DEF CompiledAs, Statuses
  <2>3. pc = "compile" /\ work'.policy = work.policy
    BY <1>3, <2>1 DEF compileBundle, CompiledAs, SameReading
  <2> QED BY <2>1, <2>2, <2>3 DEF CompiledAs, WorkInv, Deferred
<1>4. CASE DeleteWebhook
  BY <1>4, DeleteFacts DEF DeleteStep, SameReading, WorkInv, Deferred
<1>5. CASE Disabled
  BY <1>5, DisabledFacts DEF DisabledStep, SameReading, WorkInv, Deferred, Reported
<1>6. CASE List
  BY <1>6, ListFacts DEF ListStep, SameReading, WorkInv, Deferred
<1>7. CASE SyncWebhook \/ RecreateWebhook
  <2>1. work'.again => work'.again = TRUE
    BY <1>7, SyncChanges DEF SameReading, Works
  <2>2. work'.err => work'.again
    <3>1. CASE pc' = "patch"
      BY <1>7, <3>1, SyncChanges
    <3>2. CASE pc' = "recreate"
      BY <1>7, <3>2, SyncChanges DEF WorkInv
    <3> QED BY <1>7, <3>1, <3>2, SyncChanges
  <2>3. work.status.compiled = "True"
    BY <1>7, SyncChanges DEF WorkInv
  <2> QED BY <1>7, <2>2, <2>3, SyncChanges DEF SameReading, WorkInv, Deferred, Reported
<1>8. CASE syncControllerPolicy
  <2>1. PICK ready \in {"True", "False"} : ControllerStep(ready)
    BY <1>8, ControllerFacts
  <2>2. work'.status.compiled = work.status.compiled /\ work'.status.summary = work.status.summary
    BY <1>1, <2>1 DEF ControllerStep, Statuses
  <2> QED BY <1>8, <2>1, <2>2, ControllerFacts DEF ControllerStep, SameReading, WorkInv, Deferred, Reported
<1>9. CASE patchStatusConditions
  BY <1>9, ConditionsFacts DEF ConditionsStep, Deferring, SameReading, WorkInv, Deferred
<1>10. CASE patchStatus \/ Restart
  <2>1. pc' = "idle" /\ work' = NoWork
    BY <1>10, StatusFacts, RestartFacts DEF StatusStep, RestartStep
  <2> QED BY <2>1 DEF NoWork, WorkInv, Deferred
<1>11. CASE Environment
  BY <1>11, EnvironmentFacts DEF EnvironmentStep, WorkInv, Deferred, Reported
<1> QED BY <1>2, <1>3, <1>4, <1>5, <1>6, <1>7, <1>8, <1>9, <1>10, <1>11 DEF Next, Step, Environment

-----------------------------------------------------------------------------
(* What the status tells of a policy that settled.                          *)

\* The status to be written is that of the reconcile, which the deferred function does not change.
LEMMA AfterKept ==
    ASSUME work'.status = work.status, work'.policy = work.policy, work'.err = work.err
    PROVE  After' = After
BY DEF After, Summary, reconcilePhase, Conditions

\* A reconcile that is not to be repeated has read what the cache has, and the cache has its status.
LEMMA Recorded ==
    ASSUME TypeOK, ReadInv, RecordInv, patchStatus, ~queued'
    PROVE  /\ Quiet /\ seen' = seen /\ seen.policy = work.policy
           /\ \A f \in ConditionFields \cup OtherFields : seen.policy.status[f] = After[f]
<1>1. pc = "status" /\ StatusStep
  BY StatusFacts
<1>2. Quiet /\ seen' = seen
  BY <1>1 DEF StatusStep
<1>3. seen.policy = work.policy
  BY <1>1, <1>2 DEF ReadInv, Quiet
<1>4. \A f \in ConditionFields : seen.policy.status[f] = After[f]
  BY <1>1, <1>2 DEF RecordInv, ConditionFields
<1>5. \A f \in OtherFields : seen.policy.status[f] = After[f]
  <2>1. CASE ~Changes(OtherFields)
    BY <1>3, <2>1 DEF Changes
  <2>2. CASE server.policy # None /\ seen' = [seen EXCEPT !.policy = Patched(OtherFields)]
    <3>1. seen.policy = Patched(OtherFields)
      BY <1>2, <2>2 DEF TypeOK
    <3>2. \A f \in OtherFields : After[f] # work.policy.status[f] => Patched(OtherFields).status[f] = After[f]
      BY <1>1, <2>2, PatchedFacts
    <3> QED BY <1>3, <3>1, <3>2
  <2>3. ~(server.policy = None /\ queued')
    OBVIOUS
  <2> QED BY <1>1, <2>1, <2>2 DEF StatusStep
<1> QED BY <1>2, <1>3, <1>4, <1>5

\* Ready is that of the worst condition, whatever it was before.
LEMMA SummaryIsWorst ==
    ASSUME NEW s, Reported(s)
    PROVE  /\ Summary(s) = "False" <=> "False" \in {s.compiled, s.ready}
           /\ \A t : t.compiled = s.compiled /\ t.ready = s.ready => Summary(t) = Summary(s)
<1>1. {s.compiled, s.ready} # {"none"}
  BY DEF Reported
<1> QED BY <1>1 DEF Summary

\* The two patches leave the status of the reconcile in the cache.
LEMMA RecordKept ==
    ASSUME TypeOK, ReadInv, WorkInv, RecordInv, Next
    PROVE  RecordInv'
<1>1. ASSUME pc' = "status", Quiet'
      PROVE  \A f \in ConditionFields : seen'.policy.status[f] = After'[f]
  <2>1. ~queued' /\ seen' = seen /\ (~Reconcile => ~queued)
    BY <1>1, Unqueued DEF Quiet
  <2>2. CASE pc = "status"
    <3>1. UNCHANGED <<pc, work>> /\ ~Reconcile
      BY <1>1, <2>2, StatusFacts, EnvironmentFacts, RestartFacts
         DEF Next, Step, Environment, Reconcile, compileBundle, DeleteWebhook, Disabled, List, SyncWebhook, RecreateWebhook,
             syncControllerPolicy, patchStatusConditions, StatusStep, EnvironmentStep, RestartStep
    <3> QED BY <1>1, <2>1, <2>2, <3>1, AfterKept DEF RecordInv, Quiet, ConditionFields
  <2>3. CASE pc # "status"
    <3>1. patchStatusConditions
      BY <1>1, <2>3, ReconcileFacts, CompileFacts, DeleteFacts, DisabledFacts, ListFacts, SyncChanges, ControllerFacts,
         StatusFacts, EnvironmentFacts, RestartFacts
         DEF Next, Step, Environment, ReconcileStep, CompileStep, CompiledAs, DeleteStep, DisabledStep, ListStep,
             ControllerStep, StatusStep, EnvironmentStep, RestartStep
    <3>2. pc = "patch" /\ ConditionsStep /\ ~queued
      BY <2>1, <3>1, ConditionsFacts DEF patchStatusConditions, Reconcile
    <3>3. Deferring(work.again)
      BY <1>1, <3>2 DEF ConditionsStep, Deferring, Quiet
    <3>4. After' = After /\ seen.policy = work.policy
      BY <3>2, <3>3, AfterKept DEF Deferring, SameReading, ReadInv
    <3>5. CASE ~Changes(ConditionFields)
      BY <2>1, <3>4, <3>5 DEF Changes
    <3>6. CASE server.policy # None /\ seen.policy = server.policy /\ Written("policy", Patched(ConditionFields))
      <4>1. seen'.policy = Patched(ConditionFields)
        BY <3>6, WrittenPart DEF Parts
      <4> QED BY <2>1, <3>2, <3>4, <3>6, <4>1, PatchedFacts
    <3>7. ~Deferring(TRUE)
      BY <1>1 DEF Deferring, Quiet
    <3> QED BY <3>2, <3>5, <3>6, <3>7 DEF ConditionsStep
  <2> QED BY <2>2, <2>3
<1>2. ASSUME pc' = "idle", ~queued', seen'.policy # None
      PROVE  LET s == seen'.policy.status
             IN /\ Reported(s)
                /\ s.summary = Summary(s)
                /\ s.phase = "Failed" <=> "False" \in {s.compiled, s.ready}
                /\ s.hash = seen'.policy.js
  <2>1. seen' = seen /\ (~Reconcile => ~queued)
    BY <1>2, Unqueued
  <2>2. CASE pc = "idle"
    <3>1. ~Reconcile
      BY <1>2, <2>1, ReconcileFacts DEF ReconcileStep
    <3> QED BY <1>2, <2>1, <2>2, <3>1 DEF RecordInv
  <2>3. CASE pc # "idle"
    <3>1. patchStatus
      BY <1>2, <2>3, Readings, RestartFacts DEF Reconcile, RestartStep
    <3>2. /\ Quiet /\ seen.policy = work.policy /\ pc = "status"
          /\ \A f \in ConditionFields \cup OtherFields : seen.policy.status[f] = After[f]
      BY <1>2, <3>1, Recorded DEF patchStatus
    <3> DEFINE s == seen.policy.status
               w == work.status
    <3>3. /\ s.compiled = w.compiled /\ s.ready = w.ready /\ s.summary = Summary(w) /\ s.hash = work.policy.js
          /\ s.phase = reconcilePhase(w)
      BY <2>3, <3>2, AfterFacts DEF ConditionFields, OtherFields
    <3>4. Reported(w) /\ ~work.err /\ w.summary = s.summary
      BY <2>3, <3>2 DEF WorkInv, Deferred, Quiet
    <3>5. s.phase = "Failed" <=> "False" \in {w.compiled, w.ready, w.summary}
      BY <3>3, <3>4 DEF reconcilePhase, Conditions
    <3>6. Summary(w) = "False" <=> "False" \in {w.compiled, w.ready}
      BY <3>4, SummaryIsWorst
    <3>7. Summary(s) = Summary(w) /\ Reported(s)
      BY <3>3, <3>4, SummaryIsWorst DEF Reported
    <3>8. s.phase = "Failed" <=> "False" \in {s.compiled, s.ready}
      BY <3>3, <3>4, <3>5, <3>6
    <3> QED BY <2>1, <3>2, <3>3, <3>7, <3>8
  <2> QED BY <2>2, <2>3
<1> QED BY <1>1, <1>2 DEF RecordInv, ConditionFields

\* A reconcile that needs no repetition has called the manager, or applied a webhook, or it was finished.
LEMMA FinishedFacts ==
    ASSUME TypeOK, ReadInv, WorkInv, RecordInv, Next, Finished', pc \in Deferred => work.todo = {}
    PROVE  /\ seen' = seen
           /\ \/ /\ Finished /\ UNCHANGED managerVars /\ work'.todo = work.todo
                 /\ server'.webhooks \subseteq server.webhooks
                 /\ LatestStatus'.compiled = LatestStatus.compiled /\ LatestStatus'.ready = LatestStatus.ready
                 /\ LatestPolicy'.rules = LatestPolicy.rules
              \/ pc = "disable" /\ ~queued /\ DisabledStep
              \/ pc = "controller" /\ ~queued /\ \E ready \in {"True", "False"} : ControllerStep(ready)
              \/ pc = "others" /\ ~queued /\ work.todo = {} /\ SyncStep /\ SyncedAs(TRUE)
<1>1. pc' \in {"idle", "patch", "status"} /\ ~queued' /\ ~work'.again /\ (pc' = "idle" => seen'.policy # None)
  BY DEF Finished, Quiet
<1>2. seen' = seen /\ (~Reconcile => ~queued)
  BY <1>1, Unqueued
<1>3. CASE Reconcile \/ compileBundle \/ DeleteWebhook \/ List \/ Restart
  <2>1. ~Reconcile
    BY <1>1, ReconcileFacts DEF ReconcileStep
  <2>2. ~compileBundle
    BY <1>1, CompileFacts DEF CompileStep, CompiledAs
  <2>3. ~DeleteWebhook /\ ~List
    BY <1>1, DeleteFacts, ListFacts DEF DeleteStep, ListStep
  <2>4. ~Restart
    BY <1>1, RestartFacts DEF RestartStep
  <2> QED BY <1>3, <2>1, <2>2, <2>3, <2>4
<1>4. CASE Disabled
  BY <1>2, <1>4, DisabledFacts DEF Reconcile, Disabled
<1>10. ~RecreateWebhook
  <2>1. RecreateWebhook => queued /\ ~Reconcile
    BY RecreateFacts DEF ReadInv, Reconcile
  <2> QED BY <1>2, <2>1
<1>5. CASE SyncWebhook
  <2>1. pc = "others" /\ ~queued /\ work.todo = {} /\ SyncStep
    BY <1>1, <1>2, <1>5, SyncFacts DEF Reconcile, RemoveStep
  <2>2. SyncedAs(TRUE) \/ SyncedAs(FALSE)
    BY <2>1 DEF SyncStep, Applied
  <2>3. ~SyncedAs(FALSE)
    BY <1>1 DEF SyncedAs
  <2> QED BY <1>2, <2>1, <2>2, <2>3
<1>6. CASE syncControllerPolicy
  BY <1>2, <1>6, ControllerFacts DEF Reconcile
<1>7. CASE patchStatusConditions
  <2>1. pc = "patch" /\ UNCHANGED <<managerVars, userVars>> /\ ConditionsStep /\ ~queued
    BY <1>2, <1>7, ConditionsFacts DEF Reconcile
  <2>2. Deferring(work.again) /\ pc' = "status"
    BY <1>1, <2>1 DEF ConditionsStep, Deferring
  <2>3. server'.webhooks = server.webhooks
    BY <2>1, WrittenPart, UnansweredPart DEF ConditionsStep, NoWrite, Refused, Parts
  <2>4. /\ Finished /\ work'.todo = work.todo
        /\ LatestStatus' = LatestStatus /\ LatestPolicy' = LatestPolicy
    BY <1>1, <2>1, <2>2 DEF Deferring, SameReading, Finished, Quiet, LatestStatus, LatestPolicy
  <2> QED BY <1>2, <2>1, <2>3, <2>4
<1>8. CASE patchStatus
  <2>1. pc = "status" /\ UNCHANGED <<managerVars, userVars>> /\ StatusStep
    BY <1>8, StatusFacts
  <2>2. pc' = "idle" /\ work' = NoWork /\ work'.todo = {}
    BY <2>1 DEF StatusStep, NoWork
  <2>3. /\ Quiet /\ seen.policy = work.policy
        /\ \A f \in ConditionFields \cup OtherFields : seen.policy.status[f] = After[f]
    BY <1>1, <1>8, Recorded
  <2>4. server'.webhooks = server.webhooks
    BY <2>1 DEF StatusStep, TypeOK
  <2>5. LatestStatus'.compiled = work.status.compiled /\ LatestStatus'.ready = work.status.ready
        /\ LatestPolicy' = work.policy
    BY <1>2, <2>1, <2>2, <2>3, AfterFacts DEF LatestStatus, LatestPolicy, ConditionFields
  <2>6. LatestStatus = work.status /\ LatestPolicy = work.policy /\ Finished /\ work.todo = {}
    BY <2>1, <2>3 DEF LatestStatus, LatestPolicy, Finished, Deferred
  <2> QED BY <1>2, <2>1, <2>2, <2>4, <2>5, <2>6
<1>9. CASE Environment
  <2>1. UNCHANGED <<pc, work, managerVars>>
    BY <1>9, EnvironmentFacts DEF EnvironmentStep
  <2>2. pc = "idle" => ~queued
    BY <1>1, <1>9, EnvironmentFacts DEF EnvironmentStep
  <2>3. ~queued
    BY <1>1, <1>9, EnvironmentFacts DEF EnvironmentStep
  <2>4. server'.webhooks \subseteq server.webhooks
    <3>1. \A w : server.webhooks \ {w} \subseteq server.webhooks
      OBVIOUS
    <3>2. server \in Stores
      BY TypesSplit DEF StepTypes
    <3>3. \/ server' = server
          \/ \E value : server' = [server EXCEPT !.policy = value] \/ server' = [server EXCEPT !.bundle = value]
          \/ \E ws \in SUBSET server.webhooks : server' = [server EXCEPT !.webhooks = ws]
      <4>1. {} \in SUBSET server.webhooks /\ \A w : server.webhooks \ {w} \in SUBSET server.webhooks
        OBVIOUS
      <4> QED BY <1>9, <4>1, EnvironmentFacts, ZenonT(30) DEF EnvironmentStep
    <3> QED BY <3>2, <3>3 DEF Stores
  <2>5. Finished /\ LatestStatus' = LatestStatus /\ LatestPolicy' = LatestPolicy
    BY <1>1, <1>2, <2>1, <2>3 DEF Finished, Quiet, LatestStatus, LatestPolicy
  <2> QED BY <1>2, <2>1, <2>4, <2>5
<1> QED BY <1>3, <1>4, <1>5, <1>6, <1>7, <1>8, <1>9, <1>10 DEF Next, Step, Environment

LEMMA ReadyKept ==
    ASSUME TypeOK
    PROVE  \A ready \in {"True", "False"} : ControllerStep(ready) =>
               work'.status.compiled = work.status.compiled /\ work'.status.ready = ready
BY DEF TypeOK, Statuses, ControllerStep

\* Disabled stops a policy, and syncControllerPolicy starts one that compiles only.
LEMMA StopKept ==
    ASSUME TypeOK, ReadInv, WorkInv, RecordInv, StopInv, Next, pc \in Deferred => work.todo = {}
    PROVE  StopInv'
<1> SUFFICES ASSUME Finished', running' # None
             PROVE  LatestStatus'.compiled = "True"
  BY DEF StopInv
<1>1. CASE Finished /\ UNCHANGED managerVars /\ LatestStatus'.compiled = LatestStatus.compiled
  BY <1>1 DEF StopInv, managerVars
<1>2. CASE pc = "disable" /\ DisabledStep
  BY <1>2 DEF DisabledStep
<1>3. CASE pc = "controller" /\ \E ready \in {"True", "False"} : ControllerStep(ready)
  <2>1. work'.status.compiled = "True" /\ pc' = "patch"
    BY <1>3, ReadyKept DEF WorkInv, ControllerStep
  <2> QED BY <2>1 DEF LatestStatus
<1>4. CASE pc = "others" /\ SyncStep
  <2>1. scenario'.type = "Webhook"
    BY <1>4, Readings DEF TypeOK
  <2> QED BY <2>1, ReadKept DEF ReadInv
<1> QED BY <1>1, <1>2, <1>3, <1>4, FinishedFacts

-----------------------------------------------------------------------------
(* A status that is not lost, and what the manager runs.                    *)

\* Who changes the policy: users its spec, and the deferred function its status.
LEMMA PolicySteps ==
    ASSUME TypeOK, Next
    PROVE  \/ patchStatusConditions \/ patchStatus
           \/ /\ server'.policy = server.policy /\ seen'.policy \in {seen.policy, server.policy}
              /\ edits' = edits \/ seen'.policy = seen.policy
              /\ edits' \in {edits, edits + 1}
           \/ /\ seen' = seen /\ UNCHANGED <<pc, work, managerVars, scenario>>
              /\ edits < scenario.edits /\ edits' = edits + 1
              /\ \/ server'.policy = None
                 \/ /\ server.policy # None /\ server'.policy # None
                    /\ server'.policy.status = server.policy.status
              /\ server'.bundle = server.bundle /\ server'.webhooks = server.webhooks
<1>1. server \in Stores /\ seen \in Stores /\ edits \in Nat
  BY TypesSplit, ScenarioTypes DEF StepTypes
<1>2. ASSUME NEW part \in {"bundle", "webhooks"}, NEW value, NEW f,
             Written(part, value) \/ Unanswered(f, part, value) \/ Refused(f) \/ NoWrite
      PROVE  server'.policy = server.policy /\ seen'.policy = seen.policy
  BY <1>2, WrittenPart, UnansweredPart DEF Refused, NoWrite, Parts
<1>3. CASE Reconcile
  BY <1>1, <1>3 DEF Reconcile, userVars
<1>4. CASE compileBundle
  BY <1>1, <1>2, <1>4, CompileFacts DEF CompileStep, compileBundle, userVars
<1>5. CASE DeleteWebhook
  BY <1>1, <1>2, <1>5, DeleteFacts DEF DeleteStep, userVars
<1>6. CASE Disabled \/ List \/ syncControllerPolicy
  BY <1>1, <1>6 DEF Disabled, List, syncControllerPolicy, NoWrite, userVars
<1>7. CASE SyncWebhook \/ RecreateWebhook
  BY <1>1, <1>7, SyncChanges DEF userVars
<1>8. CASE Environment
  <2>1. EnvironmentStep
    BY <1>8, EnvironmentFacts
  <2>2. CASE /\ UNCHANGED <<server, edits>>
             /\ \E part \in Parts : seen' = [seen EXCEPT ![part] = server[part]]
    BY <1>1, <2>2 DEF Stores, Parts
  <2>3. CASE /\ UNCHANGED <<seen, queued>> /\ edits < scenario.edits /\ edits' = edits + 1
             /\ server.policy # None
             /\ \E js \in Sources, rules \in Rules :
                   server' = [server EXCEPT !.policy = [server.policy EXCEPT !.js = js, !.rules = rules]]
    <3>1. PICK js \in Sources, rules \in Rules :
                   server' = [server EXCEPT !.policy = [server.policy EXCEPT !.js = js, !.rules = rules]]
      BY <2>3
    <3>2. server.policy \in Policies
      BY <1>1, <2>3 DEF Stores
    <3>3. /\ server'.policy = [server.policy EXCEPT !.js = js, !.rules = rules]
          /\ server'.bundle = server.bundle /\ server'.webhooks = server.webhooks
      BY <1>1, <3>1 DEF Stores
    <3>4. server'.policy \in Policies /\ server'.policy.status = server.policy.status
      BY <3>2, <3>3 DEF Policies
    <3>5. server'.policy # None
      BY <3>4, ConstantsAssumption
    <3> QED BY <2>1, <2>3, <3>3, <3>4, <3>5 DEF EnvironmentStep
  <2>4. CASE /\ UNCHANGED <<seen, queued>> /\ edits < scenario.edits /\ edits' = edits + 1
             /\ server' = [server EXCEPT !.policy = None]
    BY <1>1, <2>1, <2>4 DEF Stores, EnvironmentStep
  <2>5. CASE UNCHANGED seen /\ \E value : \E part \in {"bundle", "webhooks"} : server' = [server EXCEPT ![part] = value]
    <3>1. server'.policy = server.policy
      BY <1>1, <2>5 DEF Stores
    <3>2. edits' \in {edits, edits + 1}
      BY <2>1 DEF EnvironmentStep
    <3> QED BY <2>5, <3>1, <3>2
  <2> QED BY <2>1, <2>2, <2>3, <2>4, <2>5 DEF EnvironmentStep
<1>9. CASE Restart
  BY <1>9, RestartFacts DEF RestartStep, userVars
<1> QED BY <1>3, <1>4, <1>5, <1>6, <1>7, <1>8, <1>9 DEF Next, Step, Environment

\* The second patch completes the status.
LEMMA StatusWritten ==
    ASSUME TypeOK, StatusInv, StatusKept, patchStatus
    PROVE  /\ seen'.policy = server'.policy \/ UNCHANGED <<server, seen>>
           /\ seen'.policy # None
           /\ seen'.policy.status = server'.policy.status
           /\ server'.policy.js = server.policy.js
           /\ \A f \in ConditionFields \cup OtherFields : server'.policy.status[f] = After[f]
<1>1. pc = "status" /\ StatusStep /\ server.policy # None /\ "status" \notin scenario.faults
  BY StatusFacts DEF StatusKept
<1>2. /\ \A f \in ConditionFields : server.policy.status[f] = After[f]
      /\ \A f \in OtherFields : server.policy.status[f] = work.policy.status[f]
      /\ seen.policy # None /\ seen.policy.status = server.policy.status
  BY <1>1 DEF StatusInv
<1>3. CASE UNCHANGED <<server, seen>> /\ ~Changes(OtherFields)
  BY <1>2, <1>3 DEF Changes
<1>4. CASE /\ server' = [server EXCEPT !.policy = Patched(OtherFields)]
           /\ seen' = [seen EXCEPT !.policy = Patched(OtherFields)]
  <2>1. server'.policy = Patched(OtherFields) /\ seen'.policy = Patched(OtherFields)
    BY <1>4 DEF TypeOK
  <2>2. /\ Patched(OtherFields) \in Policies /\ Patched(OtherFields).js = server.policy.js
        /\ \A f \in ConditionFields \cup OtherFields : Patched(OtherFields).status[f] =
              IF f \in OtherFields /\ After[f] # work.policy.status[f] THEN After[f] ELSE server.policy.status[f]
    BY <1>1, PatchedFacts
  <2>3. \A f \in ConditionFields \cup OtherFields : Patched(OtherFields).status[f] = After[f]
    BY <1>2, <2>2
  <2>4. Patched(OtherFields) # None
    BY <2>2, ConstantsAssumption
  <2> QED BY <2>1, <2>2, <2>3, <2>4
<1> QED BY <1>1, <1>3, <1>4 DEF StatusStep

\* A policy that exists has existed: it is not created again.
LEMMA PolicyBefore ==
    ASSUME TypeOK, Next, server'.policy # None
    PROVE  server.policy # None
<1> SUFFICES ASSUME server.policy = None
             PROVE  FALSE
  OBVIOUS
<1>1. CASE patchStatusConditions
  BY <1>1, ConditionsFacts DEF ConditionsStep, NoWrite
<1>2. CASE patchStatus
  BY <1>2, StatusFacts DEF StatusStep
<1> QED BY <1>1, <1>2, PolicySteps

LEMMA KeptBefore ==
    ASSUME TypeOK, Next, StatusKept'
    PROVE  StatusKept
BY Readings, PolicyBefore DEF StatusKept

\* A patch is made of the status that the server has, and both the cache and the server get it.
LEMMA StatusInvKept ==
    ASSUME TypeOK, StatusInv, Next
    PROVE  StatusInv'
<1> SUFFICES ASSUME StatusKept'
             PROVE  /\ seen'.policy # None /\ seen'.policy.status = server'.policy.status
                    /\ pc' \notin {"idle", "status"} => work'.policy.status = server'.policy.status
                    /\ pc' = "status" =>
                           /\ \A f \in ConditionFields : server'.policy.status[f] = After'[f]
                           /\ \A f \in OtherFields : server'.policy.status[f] = work'.policy.status[f]
  BY DEF StatusInv
<1>1. StatusKept /\ server.policy # None /\ server'.policy # None
      /\ seen.policy # None /\ seen.policy.status = server.policy.status
  BY KeptBefore DEF StatusInv, StatusKept
<1>2. CASE patchStatus
  <2>1. pc' = "idle"
    BY <1>2, StatusFacts DEF StatusStep
  <2> QED BY <1>1, <1>2, <2>1, StatusWritten
<1>3. CASE patchStatusConditions
  <2>1. pc = "patch" /\ ConditionsStep
    BY <1>3, ConditionsFacts
  <2>2. work.policy.status = server.policy.status
    BY <1>1, <2>1 DEF StatusInv
  <2>3. After' = After /\ work'.policy = work.policy /\ pc' = "status"
    BY <2>1, AfterKept DEF ConditionsStep, Deferring, SameReading
  <2>4. CASE NoWrite /\ ~Changes(ConditionFields)
    BY <1>1, <2>2, <2>3, <2>4 DEF NoWrite, Changes
  <2>5. CASE Written("policy", Patched(ConditionFields))
    <3>1. server'.policy = Patched(ConditionFields) /\ seen'.policy = Patched(ConditionFields)
      BY <2>5, WrittenPart DEF Parts
    <3>2. \A f \in ConditionFields \cup OtherFields : Patched(ConditionFields).status[f] =
              IF f \in ConditionFields /\ After[f] # work.policy.status[f] THEN After[f] ELSE server.policy.status[f]
      BY <1>1, <2>1, PatchedFacts
    <3>3. \A f \in OtherFields : f \notin ConditionFields
      BY DEF OtherFields, ConditionFields
    <3> QED BY <1>1, <2>2, <2>3, <3>1, <3>2, <3>3
  <2>6. ~("conditions" \in scenario.faults) /\ ~("status" \in scenario.faults)
    BY <1>1 DEF StatusKept
  <2> QED BY <1>1, <2>1, <2>4, <2>5, <2>6 DEF ConditionsStep, Unanswered, Refused, Fault
<1>4. CASE ~patchStatus /\ ~patchStatusConditions
  <2>1. seen'.policy # None /\ seen'.policy.status = server'.policy.status
        /\ server'.policy.status = server.policy.status
    BY <1>1, <1>4, PolicySteps
  <2>2. pc' = "status" => pc = "status" /\ UNCHANGED work
    BY <1>4, ReconcileFacts, CompileFacts, DeleteFacts, DisabledFacts, ListFacts, SyncChanges, ControllerFacts,
       EnvironmentFacts, RestartFacts
       DEF Next, Step, Environment, ReconcileStep, CompileStep, CompiledAs, DeleteStep, DisabledStep, ListStep,
           ControllerStep, EnvironmentStep, RestartStep
  <2>3. pc' = "status" =>
             /\ \A f \in ConditionFields : server'.policy.status[f] = After'[f]
             /\ \A f \in OtherFields : server'.policy.status[f] = work'.policy.status[f]
    BY <1>1, <2>1, <2>2, AfterKept DEF StatusInv
  <2>4. pc' \notin {"idle", "status"} => work'.policy.status = server'.policy.status
    <3>1. CASE Reconcile
      BY <1>1, <2>1, <3>1, ReconcileFacts DEF ReconcileStep
    <3>2. CASE ~Reconcile
      <4>1. ASSUME pc' \notin {"idle", "status"}
            PROVE  pc \notin {"idle", "status"} /\ work'.policy = work.policy
        <5>1. pc # "status"
          BY <1>4, <4>1, EnvironmentFacts, RestartFacts
             DEF Next, Step, Environment, Reconcile, compileBundle, DeleteWebhook, Disabled, List, SyncWebhook, RecreateWebhook,
                 syncControllerPolicy, EnvironmentStep, RestartStep
        <5> QED BY <3>2, <4>1, <5>1, <1>4, Readings, RestartFacts DEF SameReading, RestartStep
      <4> QED BY <1>1, <2>1, <4>1 DEF StatusInv
    <3> QED BY <3>1, <3>2
  <2> QED BY <2>1, <2>3, <2>4
<1> QED BY <1>2, <1>3, <1>4

\* Who changes the bundle: the compilation, and users; the cache follows the server.
LEMMA BundleSteps ==
    ASSUME TypeOK, Next
    PROVE  /\ seen'.bundle \in {seen.bundle, server'.bundle}
           /\ \/ server'.bundle = server.bundle
              \/ /\ pc = "compile" /\ server'.bundle = work.policy.js /\ server'.policy = server.policy
                 /\ seen'.policy = seen.policy /\ edits' = edits
                 /\ work.policy.js # Empty /\ Outdated
                 /\ compileBundle
              \/ /\ server.bundle = None /\ server'.bundle = Own /\ edits' = edits + 1
                 /\ server'.policy = server.policy
                 /\ UNCHANGED <<pc, work, managerVars, seen>>
              \/ "bundle" \in scenario.faults
              \/ server.policy = None
<1>1. server \in Stores /\ seen \in Stores
  BY TypesSplit DEF StepTypes
<1>2. ASSUME NEW part \in {"policy", "webhooks"}, NEW value, NEW f,
             Written(part, value) \/ Unanswered(f, part, value) \/ Refused(f) \/ NoWrite
      PROVE  server'.bundle = server.bundle /\ seen'.bundle = seen.bundle
  BY <1>2, WrittenPart, UnansweredPart DEF Refused, NoWrite, Parts
<1>3. CASE Reconcile \/ Disabled \/ List \/ syncControllerPolicy
  BY <1>3 DEF Reconcile, Disabled, List, syncControllerPolicy, NoWrite
<1>4. CASE compileBundle
  <2>1. PICK value \in {"none", "True", "False"} : CompileStep(value)
    BY <1>4, CompileFacts
  <2>2. pc = "compile" /\ edits' = edits
    BY <1>4 DEF compileBundle, userVars
  <2>3. CASE NoWrite \/ Refused("write")
    BY <2>3 DEF NoWrite, Refused
  <2>4. CASE /\ work.policy.js # Empty /\ Outdated
             /\ \/ Written("bundle", work.policy.js)
                \/ Unanswered("write", "bundle", work.policy.js)
    <3>1. /\ server'.bundle = work.policy.js /\ server'.policy = server.policy /\ seen'.policy = seen.policy
          /\ seen'.bundle \in {seen.bundle, server'.bundle}
      <4>1. "bundle" \in Parts /\ "policy" \in Parts \ {"bundle"}
        BY DEF Parts
      <4>2. CASE Written("bundle", work.policy.js)
        BY <4>1, <4>2, WrittenPart
      <4>3. CASE Unanswered("write", "bundle", work.policy.js)
        <5>1. server' = [server EXCEPT !["bundle"] = work.policy.js] /\ seen' = seen
          BY <4>3 DEF Unanswered
        <5> QED BY <1>1, <5>1 DEF Stores
      <4> QED BY <2>4, <4>2, <4>3
    <3> QED BY <1>4, <2>2, <2>4, <3>1
  <2> QED BY <2>1, <2>3, <2>4 DEF CompileStep
<1>5. CASE DeleteWebhook
  BY <1>2, <1>5, DeleteFacts DEF DeleteStep
<1>6. CASE SyncWebhook \/ RecreateWebhook
  BY <1>6, SyncChanges
<1>7. CASE patchStatusConditions
  BY <1>2, <1>7, ConditionsFacts DEF ConditionsStep
<1>8. CASE patchStatus
  BY <1>1, <1>8, StatusFacts DEF StatusStep, Stores
<1>9. CASE Environment
  <2>1. EnvironmentStep
    BY <1>9, EnvironmentFacts
  <2>2. CASE /\ UNCHANGED <<server, edits>>
             /\ \E part \in Parts : seen' = [seen EXCEPT ![part] = server[part]]
    BY <1>1, <2>2 DEF Stores, Parts
  <2>3. CASE UNCHANGED seen /\ \E value : \E part \in {"policy", "webhooks"} : server' = [server EXCEPT ![part] = value]
    BY <1>1, <2>3 DEF Stores
  <2>4. CASE /\ UNCHANGED <<seen, pc, work, managerVars>> /\ edits' = edits + 1
             /\ server.bundle = None /\ server' = [server EXCEPT !.bundle = Own]
    BY <1>1, <2>4 DEF Stores
  <2>5. CASE UNCHANGED seen /\ ("bundle" \in scenario.faults \/ server.policy = None)
    BY <2>5
  <2> QED BY <2>1, <2>2, <2>3, <2>4, <2>5 DEF EnvironmentStep
<1>10. CASE Restart
  BY <1>10, RestartFacts DEF RestartStep
<1> QED BY <1>3, <1>4, <1>5, <1>6, <1>7, <1>8, <1>9, <1>10 DEF Next, Step, Environment

\* The hash of what runs changes with it, or ControllerReady says that it does not run.
LEMMA HashKept ==
    ASSUME TypeOK, StatusInv, WorkInv, HashInv, Next
    PROVE  HashInv'
<1> SUFFICES ASSUME Bundled'
             PROVE  /\ work'.bundle # None => seen'.bundle # None
                    /\ seen'.bundle # None => server'.bundle # None
                    /\ controllerPolicyHash' # None =>
                           /\ seen'.bundle # None
                           /\ pc' # "idle" => work'.bundle # None
                           /\ pc' # "disable"
                           /\ CurrentStatus'.compiled # "False"
                           /\ running' # controllerPolicyHash'.rules => CurrentStatus'.ready = "False"
  BY DEF HashInv
<1>1. Bundled /\ StatusKept /\ server.policy # None /\ scenario.type = "Controller"
      /\ "bundle" \notin scenario.faults /\ "bundler" \notin scenario.faults
  BY KeptBefore, Readings DEF Bundled, StatusKept
<1>2. /\ work.bundle # None => seen.bundle # None
      /\ seen.bundle # None => server.bundle # None
  BY <1>1 DEF HashInv
<1>3. work.policy # None => work.policy.js # None
  BY ConstantsAssumption DEF TypeOK, Policies, Bundles
<1>4. server.bundle # None => server'.bundle # None
  <2>1. pc = "compile" => work.policy # None
    BY DEF TypeOK
  <2> QED BY <1>1, <1>3, <2>1, BundleSteps, ConstantsAssumption DEF Bundles
<1>5. /\ seen.bundle # None => seen'.bundle # None
      /\ seen'.bundle # None => server'.bundle # None
  BY <1>2, <1>4, BundleSteps
<1>6. work'.bundle \in {work.bundle, seen.bundle, None}
  <2>1. CASE Reconcile
    BY <2>1, ReconcileFacts DEF ReconcileStep
  <2> QED BY <2>1, Readings DEF SameReading, NoWork
<1>7. ASSUME controllerPolicyHash' # None
      PROVE  /\ seen'.bundle # None
             /\ pc' # "idle" => work'.bundle # None
             /\ pc' # "disable"
             /\ CurrentStatus'.compiled # "False"
             /\ running' # controllerPolicyHash'.rules => CurrentStatus'.ready = "False"
  <2>1. CASE pc = "controller" /\ \E ready \in {"True", "False"} : ControllerStep(ready)
    <3>1. PICK ready \in {"True", "False"} : ControllerStep(ready)
      BY <2>1
    <3>2. work.bundle # None /\ work'.bundle = work.bundle /\ pc' = "patch"
      BY <2>1, <3>1 DEF TypeOK, ControllerStep, SameReading
    <3>3. work'.status.compiled = "True" /\ work'.status.ready = ready
      BY <2>1, <3>1, ReadyKept DEF WorkInv
    <3>4. Hash # None /\ Hash.rules = work.policy.rules
      BY <2>1, HashTypes
    <3>5. running' # controllerPolicyHash'.rules => ready = "False"
      <4>1. CASE ready = "True" /\ controllerPolicyHash' = Hash /\ running' = work.policy.rules
        BY <3>4, <4>1
      <4>2. CASE /\ ready = IF work.status.ready = "False" THEN "False" ELSE "True"
                 /\ controllerPolicyHash = Hash /\ UNCHANGED managerVars
        <5>1. running # controllerPolicyHash.rules => work.status.ready = "False"
          BY <1>1, <2>1, <3>4, <4>2 DEF HashInv, CurrentStatus
        <5> QED BY <4>2, <5>1 DEF managerVars
      <4> QED BY <3>1, <4>1, <4>2 DEF ControllerStep
    <3> QED BY <1>2, <1>5, <3>2, <3>3, <3>5 DEF CurrentStatus
  <2>2. CASE controllerPolicyHash' = controllerPolicyHash /\ running' = running
             /\ ~(pc = "controller" /\ \E ready \in {"True", "False"} : ControllerStep(ready))
    <3>1. /\ seen.bundle # None
          /\ pc # "idle" => work.bundle # None
          /\ pc # "disable"
          /\ CurrentStatus.compiled # "False"
          /\ running # controllerPolicyHash.rules => CurrentStatus.ready = "False"
      BY <1>1, <1>7, <2>2 DEF HashInv
    <3>2. seen'.bundle # None
      BY <1>5, <3>1
    <3>3. CASE Reconcile
      <4>1. ReconcileStep
        BY <3>3, ReconcileFacts
      <4>2. seen.policy # None /\ seen.policy.status = server.policy.status
        BY <1>1 DEF StatusInv
      <4>3. work'.bundle # None /\ pc' = "compile" /\ CurrentStatus' = CurrentStatus
        BY <3>1, <4>1, <4>2 DEF ReconcileStep, CurrentStatus
      <4> QED BY <2>2, <3>1, <3>2, <4>3
    <3>4. CASE compileBundle
      <4>1. PICK value \in {"none", "True", "False"} : CompileStep(value)
        BY <3>4, CompileFacts
      <4>2. pc = "compile" /\ CurrentStatus = work.status /\ work.bundle # None
        BY <3>1, <3>4 DEF compileBundle, CurrentStatus
      <4>3. value # "False"
        BY <1>1, <3>1, <4>1, <4>2 DEF CompileStep
      <4>4. work'.status.compiled = value /\ work'.status.ready = work.status.ready
            /\ work'.bundle = work.bundle /\ pc' \notin {"disable", "idle"}
        BY <4>1, <4>3 DEF CompileStep, CompiledAs, SameReading, TypeOK, Statuses
      <4> QED BY <2>2, <3>1, <3>2, <4>2, <4>3, <4>4 DEF CurrentStatus
    <3>5. CASE DeleteWebhook \/ Disabled \/ List \/ SyncWebhook \/ RecreateWebhook
      <4>1. pc \notin {"disable", "list", "others", "recreate"}
        BY <1>1, <3>1 DEF TypeOK
      <4> QED BY <3>5, <4>1 DEF DeleteWebhook, Disabled, List, SyncWebhook, RecreateWebhook
    <3>6. CASE patchStatusConditions
      BY <2>2, <3>1, <3>2, <3>6, ConditionsFacts DEF ConditionsStep, Deferring, SameReading, CurrentStatus
    <3>7. CASE patchStatus
      <4>1. pc = "status" /\ pc' = "idle"
        BY <3>7, StatusFacts DEF StatusStep
      <4>2. \A f \in ConditionFields : server'.policy.status[f] = After[f]
        BY <1>1, <3>7, StatusWritten
      <4>3. CurrentStatus'.compiled = CurrentStatus.compiled /\ CurrentStatus'.ready = CurrentStatus.ready
        BY <4>1, <4>2, AfterFacts DEF CurrentStatus, ConditionFields
      <4> QED BY <2>2, <3>1, <3>2, <4>1, <4>3
    <3>8. CASE Environment
      <4>1. UNCHANGED <<pc, work>> /\ ~patchStatus /\ ~patchStatusConditions
        BY <3>8, EnvironmentFacts, StatusFacts, ConditionsFacts DEF EnvironmentStep, StatusStep, ConditionsStep
      <4>2. server'.policy.status = server.policy.status
        BY <1>1, <4>1, PolicySteps, KeptBefore DEF Bundled, StatusKept
      <4>3. CurrentStatus' = CurrentStatus
        BY <4>1, <4>2 DEF CurrentStatus
      <4> QED BY <2>2, <3>1, <3>2, <4>1, <4>3
    <3>9. ~Restart
      BY <1>7, RestartFacts DEF RestartStep
    <3>10. ~syncControllerPolicy
      BY <2>2, ControllerFacts
    <3> QED BY <3>3, <3>4, <3>5, <3>6, <3>7, <3>8, <3>9, <3>10 DEF Next, Step, Environment
  <2>3. pc # "disable" \/ controllerPolicyHash = None
    BY <1>1 DEF HashInv
  <2>4. Disabled => pc = "disable" /\ controllerPolicyHash' = controllerPolicyHash
    BY DEF Disabled
  <2> QED BY <1>7, <2>1, <2>2, <2>3, <2>4, ManagerSteps DEF ReconcileStep, RestartStep, managerVars
<1> QED BY <1>2, <1>5, <1>6, <1>7

\* syncControllerPolicy finds the policy running, starts it, or reports that it does not run.
LEMMA RunKept ==
    ASSUME TypeOK, ReadInv, WorkInv, RecordInv, StatusInv, HashInv, RunInv, Next, pc \in Deferred => work.todo = {}
    PROVE  RunInv'
<1> SUFFICES ASSUME Bundled', Finished', LatestStatus'.compiled = "True", LatestStatus'.ready = "True"
             PROVE  running' = LatestPolicy'.rules
  BY DEF RunInv
<1>1. Bundled /\ scenario.type = "Controller"
  BY KeptBefore, Readings DEF Bundled, StatusKept
<1>2. CASE /\ Finished /\ UNCHANGED managerVars
           /\ LatestStatus'.compiled = LatestStatus.compiled /\ LatestStatus'.ready = LatestStatus.ready
           /\ LatestPolicy'.rules = LatestPolicy.rules
  BY <1>1, <1>2 DEF RunInv, managerVars
<1>3. CASE pc = "disable" /\ DisabledStep
  BY <1>3 DEF DisabledStep, LatestStatus, WorkInv
<1>4. CASE pc = "controller" /\ \E ready \in {"True", "False"} : ControllerStep(ready)
  <2>1. PICK ready \in {"True", "False"} : ControllerStep(ready)
    BY <1>4
  <2>2. pc' = "patch" /\ work'.policy = work.policy
    BY <2>1 DEF ControllerStep, SameReading
  <2>3. controllerPolicyHash' = Hash /\ Hash # None /\ Hash.rules = work.policy.rules
    BY <1>4, <2>1, HashTypes DEF ControllerStep, managerVars
  <2>4. CurrentStatus' = LatestStatus' /\ LatestPolicy' = work.policy
    BY <2>2 DEF CurrentStatus, LatestStatus, LatestPolicy
  <2>5. running' # controllerPolicyHash'.rules => CurrentStatus'.ready = "False"
    BY <2>3, HashKept DEF HashInv
  <2> QED BY <2>3, <2>4, <2>5
<1>5. pc # "others"
  BY <1>1 DEF TypeOK
<1> QED BY <1>2, <1>3, <1>4, <1>5, FinishedFacts

-----------------------------------------------------------------------------
(* Webhooks.                                                                *)

\* Only syncWebhook adds a configuration; all the other steps may delete some.
LEMMA WebhookSteps ==
    ASSUME TypeOK, Next
    PROVE  /\ seen'.webhooks \in {seen.webhooks, server.webhooks, server'.webhooks}
           /\ server'.webhooks \subseteq server.webhooks \/ SyncWebhook \/ RecreateWebhook
<1>1. server \in Stores /\ seen \in Stores
  BY TypesSplit DEF StepTypes
<1>2. ASSUME NEW part \in {"policy", "bundle"}, NEW value, NEW f,
             Written(part, value) \/ Unanswered(f, part, value) \/ Refused(f) \/ NoWrite
      PROVE  server'.webhooks = server.webhooks /\ seen'.webhooks = seen.webhooks
  BY <1>2, WrittenPart, UnansweredPart DEF Refused, NoWrite, Parts
<1>3. ASSUME NEW value, NEW f,
             Written("webhooks", value) \/ Unanswered(f, "webhooks", value) \/ Refused(f) \/ NoWrite
      PROVE  seen'.webhooks \in {seen.webhooks, server'.webhooks} /\ server'.webhooks \in {server.webhooks, value}
  <2>1. CASE Written("webhooks", value)
    BY <2>1, WrittenPart DEF Parts
  <2>2. CASE Unanswered(f, "webhooks", value)
    BY <1>1, <2>2 DEF Unanswered, Stores
  <2> QED BY <1>3, <2>1, <2>2 DEF Refused, NoWrite
<1>4. CASE Reconcile \/ Disabled \/ List \/ syncControllerPolicy
  BY <1>4 DEF Reconcile, Disabled, List, syncControllerPolicy, NoWrite
<1>5. CASE compileBundle
  BY <1>2, <1>5, CompileFacts DEF CompileStep
<1>6. CASE DeleteWebhook
  <2>1. PICK w \in work.todo : DeleteStep(w)
    BY <1>6, DeleteFacts
  <2> DEFINE rest == {v \in server.webhooks : v.name # w.name}
  <2>2. Written("webhooks", rest) \/ Unanswered("write", "webhooks", rest) \/ Refused("write") \/ NoWrite
    BY <2>1 DEF DeleteStep
  <2>3. rest \subseteq server.webhooks
    OBVIOUS
  <2> HIDE DEF rest
  <2>4. seen'.webhooks \in {seen.webhooks, server'.webhooks} /\ server'.webhooks \in {server.webhooks, rest}
    BY <1>3, <2>2
  <2> QED BY <2>3, <2>4
<1>7. CASE SyncWebhook \/ RecreateWebhook
  BY <1>7, SyncChanges
<1>8. CASE patchStatusConditions
  BY <1>2, <1>8, ConditionsFacts DEF ConditionsStep
<1>9. CASE patchStatus
  BY <1>1, <1>9, StatusFacts DEF StatusStep, Stores
<1>10. CASE Environment
  <2>1. EnvironmentStep
    BY <1>10, EnvironmentFacts
  <2>2. CASE UNCHANGED server /\ \E part \in Parts : seen' = [seen EXCEPT ![part] = server[part]]
    BY <1>1, <2>2 DEF Stores, Parts
  <2>3. CASE UNCHANGED seen /\ \E value : \E part \in {"policy", "bundle"} : server' = [server EXCEPT ![part] = value]
    BY <1>1, <2>3 DEF Stores
  <2>4. CASE UNCHANGED seen /\ \E ws \in SUBSET server.webhooks : server' = [server EXCEPT !.webhooks = ws]
    BY <1>1, <2>4 DEF Stores
  <2>5. {} \in SUBSET server.webhooks /\ \A w : server.webhooks \ {w} \in SUBSET server.webhooks
    OBVIOUS
  <2>6. \/ UNCHANGED server /\ \E part \in Parts : seen' = [seen EXCEPT ![part] = server[part]]
        \/ UNCHANGED seen /\ \E value : \E part \in {"policy", "bundle"} : server' = [server EXCEPT ![part] = value]
        \/ UNCHANGED seen /\ \E ws \in SUBSET server.webhooks : server' = [server EXCEPT !.webhooks = ws]
    BY <2>1, <2>5, ZenonT(30) DEF EnvironmentStep
  <2> QED BY <2>2, <2>3, <2>4, <2>6
<1>11. CASE Restart
  BY <1>11, RestartFacts DEF RestartStep
<1> QED BY <1>4, <1>5, <1>6, <1>7, <1>8, <1>9, <1>10, <1>11 DEF Next, Step, Environment

\* Names are random, and a configuration is created anew after the old one is deleted.
LEMMA UniqueKept ==
    ASSUME TypeOK, Unique(server.webhooks), Unique(seen.webhooks), Next
    PROVE  Unique(server.webhooks)' /\ Unique(seen.webhooks)'
<1>1. server \in Stores /\ seen \in Stores
  BY TypesSplit DEF StepTypes
<1>2. ASSUME NEW value, Written("webhooks", value) \/ Unanswered("write", "webhooks", value)
      PROVE  server'.webhooks = value
  BY <1>1, <1>2, WrittenPart DEF Unanswered, Parts, Stores
<1>3. ASSUME NEW n, n \notin NamesOf(server.webhooks),
             server'.webhooks = server.webhooks \cup {[name |-> n, rules |-> work.policy.rules]}
      PROVE  Unique(server.webhooks)'
  <2>1. \A v \in server.webhooks : v.name # n
    BY <1>3 DEF NamesOf
  <2> QED BY <1>3, <2>1 DEF Unique
<1>4. Unique(server.webhooks)'
  <2>1. CASE server'.webhooks \subseteq server.webhooks
    BY <2>1 DEF Unique
  <2>2. CASE SyncWebhook
    <3>1. CASE NoWrite \/ Refused("write")
      BY <2>1, <3>1 DEF NoWrite, Refused
    <3>2. CASE \E n \in Names \ NamesOf(server.webhooks \cup seen.webhooks) :
                  server'.webhooks = server.webhooks \cup {[name |-> n, rules |-> work.policy.rules]}
      <4>1. PICK n \in Names \ NamesOf(server.webhooks \cup seen.webhooks) :
                  server'.webhooks = server.webhooks \cup {[name |-> n, rules |-> work.policy.rules]}
        BY <3>2
      <4>2. n \notin NamesOf(server.webhooks)
        BY DEF NamesOf
      <4> QED BY <1>3, <4>1, <4>2
    <3>3. CASE \E w \in seen.webhooks : server'.webhooks = Others(w)
      BY <2>1, <3>3 DEF Others
    <3> QED BY <1>2, <2>2, <3>1, <3>2, <3>3, SyncFacts DEF SyncStep, RemoveStep, Applied
  <2>3. CASE RecreateWebhook
    <3>1. RecreateStep
      BY <2>3, RecreateFacts
    <3>2. CASE NoWrite \/ Refused("write")
      BY <2>1, <3>2 DEF NoWrite, Refused
    <3>3. CASE work.name \notin NamesOf(server.webhooks) /\ server'.webhooks = Recreated
      BY <1>3, <3>3 DEF Recreated
    <3>4. server' = [server EXCEPT !.webhooks = Recreated] => server'.webhooks = Recreated
      BY <1>1 DEF Stores
    <3> QED BY <1>2, <3>1, <3>2, <3>3, <3>4 DEF RecreateStep
  <2> QED BY <2>1, <2>2, <2>3, WebhookSteps
<1> QED BY <1>4, WebhookSteps DEF Unique

\* Configurations that are deleted, and not listed any more, do not remain.
LEMMA RemainsKept ==
    ASSUME NEW keep, Remains(keep), seen' = seen, server'.webhooks \subseteq server.webhooks,
           work'.todo = work.todo
    PROVE  \A w \in seen'.webhooks : w \in keep \cup work'.todo \/ w.name \notin NamesOf(server'.webhooks)
BY DEF Remains, NamesOf

\* The deletion of a configuration that was listed succeeds, or the reconcile ends.
LEMMA RemainsDeleted ==
    ASSUME TypeOK, NEW keep, Remains(keep), seen' = seen, NEW w, DeleteStep(w), pc' # "patch"
    PROVE  /\ work'.todo = work.todo \ {w}
           /\ \A v \in seen'.webhooks : v \in keep \cup work'.todo \/ v.name \notin NamesOf(server'.webhooks)
<1> DEFINE rest == {v \in server.webhooks : v.name # w.name}
<1>1. work'.todo = work.todo \ {w} /\ server'.webhooks = rest
  <2>1. CASE rest = server.webhooks /\ NoWrite
    BY <2>1 DEF DeleteStep, NoWrite
  <2>2. CASE Written("webhooks", rest)
    <3>1. server'.webhooks = rest
      BY <2>2, WrittenPart DEF Parts
    <3> QED BY <3>1 DEF DeleteStep
  <2> QED BY <2>1, <2>2 DEF DeleteStep
<1>2. w.name \notin NamesOf(rest) /\ NamesOf(rest) \subseteq NamesOf(server.webhooks)
  BY DEF NamesOf
<1> QED BY <1>1, <1>2 DEF Remains

\* Where the deletion of configurations begins and goes on.
LEMMA TodoKept ==
    ASSUME TypeOK, WebhookInv, Next
    PROVE  /\ pc' = "others" => \A w \in work'.todo : w.name # work'.name /\ work'.name # None
           /\ pc' \notin {"disable", "others"} => work'.todo = {}
           /\ pc' \in {"compile", "list"} => work'.name = None
<1>1. CASE Reconcile
  <2>1. ReconcileStep
    BY <1>1, ReconcileFacts
  <2> QED BY <2>1 DEF ReconcileStep, WebhookInv
<1>2. CASE compileBundle
  BY <1>2, CompileFacts DEF CompileStep, CompiledAs, compileBundle, WebhookInv
<1>3. CASE DeleteWebhook
  BY <1>3, DeleteFacts DEF DeleteStep, WebhookInv
<1>4. CASE Disabled
  BY <1>4, DisabledFacts DEF DisabledStep
<1>5. CASE List
  <2>1. ListStep /\ pc = "list"
    BY <1>5, ListFacts
  <2>2. \A w \in seen.webhooks : w.name \in Names
    BY DEF TypeOK, Webhooks
  <2>3. \A w, v \in seen.webhooks : w.name = v.name => w = v
    BY DEF WebhookInv, Unique
  <2>4. CASE work'.name = work.name /\ work'.todo = work.todo
    BY <2>1, <2>4 DEF ListStep, WebhookInv
  <2>5. CASE \E keep \in seen.webhooks : work'.name = keep.name /\ work'.todo = seen.webhooks \ {keep}
    BY <2>1, <2>2, <2>3, <2>5, ConstantsAssumption DEF ListStep
  <2> QED BY <2>1, <2>4, <2>5 DEF ListStep
<1>6. CASE SyncWebhook \/ RecreateWebhook
  <2>1. pc' \in {"patch", "recreate"} /\ work'.todo = {}
    BY <1>6, SyncChanges
  <2> QED BY <2>1
<1>7. CASE syncControllerPolicy
  BY <1>7, ControllerFacts DEF ControllerStep
<1>8. CASE patchStatusConditions
  BY <1>8, ConditionsFacts DEF ConditionsStep, Deferring, WebhookInv
<1>9. CASE patchStatus \/ Restart
  <2>1. pc' = "idle" /\ work' = NoWork
    BY <1>9, StatusFacts, RestartFacts DEF StatusStep, RestartStep
  <2> QED BY <2>1 DEF NoWork
<1>10. CASE Environment
  BY <1>10, EnvironmentFacts DEF EnvironmentStep, WebhookInv
<1> QED BY <1>1, <1>2, <1>3, <1>4, <1>5, <1>6, <1>7, <1>8, <1>9, <1>10 DEF Next, Step, Environment

\* Where a reconcile that has listed the configurations comes from.
LEMMA Listed ==
    ASSUME TypeOK, Next, pc' \in {"disable", "others"}
    PROVE  /\ ~Reconcile /\ ~SyncWebhook /\ ~RecreateWebhook
           /\ \/ compileBundle /\ pc' = "disable"
              \/ List /\ pc' = "others"
              \/ DeleteWebhook /\ pc' = pc
              \/ Environment /\ UNCHANGED <<pc, work>>
<1>1. ~Reconcile
  BY ReconcileFacts DEF ReconcileStep, Reconcile
<1>2. ~Disabled /\ ~SyncWebhook /\ ~RecreateWebhook /\ ~syncControllerPolicy
  BY DisabledFacts, SyncChanges, ControllerFacts DEF DisabledStep, ControllerStep
<1>3. ~patchStatusConditions /\ ~patchStatus /\ ~Restart
  BY ConditionsFacts, StatusFacts, RestartFacts DEF ConditionsStep, StatusStep, RestartStep
<1>4. CASE compileBundle
  BY <1>1, <1>2, <1>4, CompileFacts DEF CompileStep, CompiledAs
<1>5. CASE List
  BY <1>1, <1>2, <1>5, ListFacts DEF ListStep
<1>6. CASE DeleteWebhook
  BY <1>1, <1>2, <1>6, DeleteFacts DEF DeleteStep
<1>7. CASE Environment
  BY <1>1, <1>2, <1>7, EnvironmentFacts DEF EnvironmentStep
<1> QED BY <1>1, <1>2, <1>3, <1>4, <1>5, <1>6, <1>7 DEF Next, Step, Environment

\* deletePolicyWebhooks deletes all that was listed.
LEMMA DisableKept ==
    ASSUME TypeOK, WebhookInv, Next, pc' = "disable", ~queued'
    PROVE  Remains({})'
<1>1. seen' = seen /\ (~Reconcile => ~queued)
  BY Unqueued
<1>2. CASE compileBundle
  <2>1. work'.todo = seen.webhooks
    BY <1>2, CompileFacts DEF CompileStep, CompiledAs
  <2> QED BY <1>1, <2>1 DEF Remains
<1>3. CASE DeleteWebhook /\ pc = "disable"
  <2>1. PICK w \in work.todo : DeleteStep(w)
    BY <1>3, DeleteFacts
  <2>2. Remains({})
    BY <1>1, <1>3 DEF WebhookInv, Reconcile
  <2> QED BY <1>1, <2>1, <2>2, RemainsDeleted DEF Remains
<1>4. CASE Environment /\ UNCHANGED <<pc, work>>
  <2>1. server'.webhooks \subseteq server.webhooks /\ ~queued
    BY <1>1, Listed, WebhookSteps
  <2>2. Remains({})
    BY <1>4, <2>1 DEF WebhookInv
  <2> QED BY <1>1, <1>4, <2>1, <2>2, RemainsKept DEF Remains
<1> QED BY <1>2, <1>3, <1>4, Listed

\* syncWebhook deletes all that was listed but the first.
LEMMA OthersKept ==
    ASSUME TypeOK, WebhookInv, Next, pc' = "others", ~queued'
    PROVE  \/ seen'.webhooks = {} /\ work'.name = None
           \/ \E keep \in seen'.webhooks :
                 /\ keep.name = work'.name
                 /\ \A w \in seen'.webhooks : w \in {keep} \cup work'.todo \/ w.name \notin NamesOf(server'.webhooks)
<1>1. seen' = seen /\ (~Reconcile => ~queued)
  BY Unqueued
<1>2. CASE List
  <2>1. ListStep /\ work.name = None
    BY <1>2, ListFacts DEF WebhookInv
  <2>2. CASE seen.webhooks = {} /\ work'.name = work.name
    BY <1>1, <2>1, <2>2
  <2>3. CASE \E keep \in seen.webhooks : work'.name = keep.name /\ work'.todo = seen.webhooks \ {keep}
    BY <1>1, <2>3
  <2> QED BY <2>1, <2>2, <2>3 DEF ListStep
<1>3. CASE DeleteWebhook /\ pc = "others"
  <2>1. PICK w \in work.todo : DeleteStep(w)
    BY <1>3, DeleteFacts
  <2>2. \/ seen.webhooks = {} /\ work.name = None
        \/ \E keep \in seen.webhooks : keep.name = work.name /\ Remains({keep})
    BY <1>1, <1>3 DEF WebhookInv, Reconcile
  <2>3. work'.name = work.name
    BY <2>1 DEF DeleteStep
  <2>4. CASE \E keep \in seen.webhooks : keep.name = work.name /\ Remains({keep})
    <3>1. PICK keep \in seen.webhooks : keep.name = work.name /\ Remains({keep})
      BY <2>4
    <3>2. \A v \in seen'.webhooks : v \in {keep} \cup work'.todo \/ v.name \notin NamesOf(server'.webhooks)
      BY <1>1, <2>1, <3>1, RemainsDeleted
    <3> QED BY <1>1, <2>3, <3>1, <3>2
  <2> QED BY <1>1, <2>2, <2>3, <2>4
<1>4. CASE Environment /\ UNCHANGED <<pc, work>>
  <2>1. server'.webhooks \subseteq server.webhooks /\ ~queued
    BY <1>1, Listed, WebhookSteps
  <2>2. \/ seen.webhooks = {} /\ work.name = None
        \/ \E keep \in seen.webhooks : keep.name = work.name /\ Remains({keep})
    BY <1>4, <2>1 DEF WebhookInv
  <2>3. CASE \E keep \in seen.webhooks : keep.name = work.name /\ Remains({keep})
    <3>1. PICK keep \in seen.webhooks : keep.name = work.name /\ Remains({keep})
      BY <2>3
    <3>2. \A w \in seen'.webhooks : w \in {keep} \cup work'.todo \/ w.name \notin NamesOf(server'.webhooks)
      BY <1>1, <1>4, <2>1, <3>1, RemainsKept
    <3> QED BY <1>1, <1>4, <3>1, <3>2
  <2> QED BY <1>1, <1>4, <2>2, <2>3
<1> QED BY <1>2, <1>3, <1>4, Listed

\* Apply leaves the configuration that is kept as it should be, or reports an error.
LEMMA EnforcedKept ==
    ASSUME TypeOK, ReadInv, WorkInv, RecordInv, WebhookInv, Next, Finished', scenario'.type = "Webhook"
    PROVE  IF LatestStatus'.compiled = "True"
           THEN \E keep \in seen'.webhooks :
                   /\ keep.rules = LatestPolicy'.rules
                   /\ \A w \in seen'.webhooks : w \in {keep} \cup work'.todo \/ w.name \notin NamesOf(server'.webhooks)
           ELSE \A w \in seen'.webhooks : w \in {} \cup work'.todo \/ w.name \notin NamesOf(server'.webhooks)
<1>1. pc \in Deferred => work.todo = {}
  BY DEF WebhookInv, Deferred
<1>2. seen' = seen /\ scenario.type = "Webhook"
  BY <1>1, FinishedFacts, Readings
<1>3. CASE /\ Finished /\ work'.todo = work.todo
           /\ server'.webhooks \subseteq server.webhooks
           /\ LatestStatus'.compiled = LatestStatus.compiled
           /\ LatestPolicy'.rules = LatestPolicy.rules
  <2>1. CASE LatestStatus.compiled = "True"
    <3>1. PICK keep \in seen.webhooks : keep.rules = LatestPolicy.rules /\ Remains({keep})
      BY <1>2, <1>3, <2>1 DEF WebhookInv
    <3>2. \A w \in seen'.webhooks : w \in {keep} \cup work'.todo \/ w.name \notin NamesOf(server'.webhooks)
      BY <1>2, <1>3, <3>1, RemainsKept
    <3> QED BY <1>2, <1>3, <2>1, <3>1, <3>2
  <2>2. CASE LatestStatus.compiled # "True"
    <3>1. Remains({})
      BY <1>2, <1>3, <2>2 DEF WebhookInv
    <3> QED BY <1>2, <1>3, <2>2, <3>1, RemainsKept
  <2> QED BY <2>1, <2>2
<1>4. CASE pc = "disable" /\ ~queued /\ DisabledStep
  <2>1. Remains({})
    BY <1>4 DEF WebhookInv
  <2>2. LatestStatus'.compiled = "False" /\ server'.webhooks = server.webhooks /\ work.todo = {} /\ work'.todo = {}
    BY <1>4 DEF DisabledStep, LatestStatus, WorkInv, NoWrite
  <2> QED BY <1>2, <2>1, <2>2 DEF Remains
<1>5. CASE pc = "others" /\ ~queued /\ work.todo = {} /\ SyncStep /\ SyncedAs(TRUE)
  <2>1. work'.status.compiled = "True" /\ work'.policy = work.policy /\ pc' = "patch"
    BY <1>5 DEF SyncedAs, SameReading, WorkInv, TypeOK, Statuses
  <2>2. LatestStatus'.compiled = "True" /\ LatestPolicy' = work.policy
    BY <2>1 DEF LatestStatus, LatestPolicy
  <2>3. ~SyncedAs(FALSE) /\ \A value : Applied(value, FALSE) => FALSE
    BY <1>5 DEF SyncedAs, Applied
  <2>4. \A value : Applied(value, TRUE) => value = seen.webhooks
    <3> SUFFICES ASSUME NEW value, Applied(value, TRUE)
                 PROVE  value = seen.webhooks
      OBVIOUS
    <3>1. Written("webhooks", value)
      BY DEF Applied
    <3>2. seen'.webhooks = value
      BY <3>1, WrittenPart DEF Parts
    <3> QED BY <1>2, <3>2
  <2>5. \A v, w \in seen.webhooks : v.name = w.name => v = w
    BY DEF WebhookInv, Unique
  <2>6. \A n \in Names \ NamesOf(server.webhooks \cup seen.webhooks) :
            server.webhooks \cup {[name |-> n, rules |-> work.policy.rules]} # seen.webhooks
    BY DEF NamesOf
  <2>8. \E w \in seen.webhooks : w.name = work.name /\ w.rules = work.policy.rules /\ NoWrite
    BY <2>3, <2>4, <2>6, <1>5 DEF SyncStep
  <2>9. PICK w \in seen.webhooks : w.name = work.name /\ w.rules = work.policy.rules /\ NoWrite
    BY <2>8
  <2>10. \E keep \in seen.webhooks : keep.name = work.name /\ Remains({keep})
    BY <1>5, <2>9 DEF WebhookInv
  <2>11. Remains({w})
    BY <2>5, <2>9, <2>10
  <2>12. \A v \in seen'.webhooks : v \in {w} \cup work'.todo \/ v.name \notin NamesOf(server'.webhooks)
    BY <1>2, <1>5, <2>9, <2>11 DEF Remains, NoWrite
  <2> QED BY <1>2, <2>2, <2>9, <2>12
<1>6. pc # "controller"
  BY <1>2 DEF TypeOK
<1> QED BY <1>1, <1>3, <1>4, <1>5, <1>6, FinishedFacts

\* The webhook configurations follow the list through each deletion and Apply.
LEMMA WebhooksKeptInv ==
    ASSUME TypeOK, ReadInv, WorkInv, RecordInv, WebhookInv, Next
    PROVE  WebhookInv'
<1>1. Unique(server.webhooks)' /\ Unique(seen.webhooks)'
  BY UniqueKept DEF WebhookInv
<1>2. pc' = "disable" /\ ~queued' => Remains({})'
  BY DisableKept
<1> QED BY <1>1, <1>2, OthersKept, TodoKept, EnforcedKept DEF WebhookInv, Remains

-----------------------------------------------------------------------------
(* Bundles.                                                                 *)

\* Both patches keep the javascript, and the first one keeps the hash.
LEMMA PatchesKeepSource ==
    ASSUME TypeOK, StatusInv, StatusKept, patchStatusConditions \/ patchStatus
    PROVE  /\ server'.policy.js = server.policy.js /\ seen'.policy.js \in {seen.policy.js, server'.policy.js}
           /\ seen.policy.js = server.policy.js => seen'.policy.js = server'.policy.js
           /\ edits' = edits /\ server'.bundle = server.bundle
           /\ patchStatusConditions => server'.policy.status.hash = server.policy.status.hash
<1>1. server.policy # None
  BY DEF StatusKept
<1>2. CASE patchStatus
  <2>1. edits' = edits /\ server'.bundle = server.bundle /\ ~patchStatusConditions
    BY <1>2, StatusFacts, ConditionsFacts DEF StatusStep, userVars, TypeOK
  <2> QED BY <1>2, <2>1, StatusWritten
<1>3. CASE patchStatusConditions
  <2>1. ConditionsStep /\ pc = "patch" /\ edits' = edits
    BY <1>3, ConditionsFacts DEF userVars
  <2>2. /\ Patched(ConditionFields).js = server.policy.js
        /\ Patched(ConditionFields).status.hash = server.policy.status.hash
    BY <1>1, <2>1, PatchedFacts DEF ConditionFields, OtherFields
  <2>3. CASE NoWrite \/ Refused("conditions")
    BY <2>1, <2>3 DEF NoWrite, Refused
  <2>4. CASE Written("policy", Patched(ConditionFields))
    <3>1. /\ server'.policy = Patched(ConditionFields) /\ seen'.policy = Patched(ConditionFields)
          /\ server'.bundle = server.bundle
      BY <2>4, WrittenPart DEF Parts
    <3> QED BY <2>1, <2>2, <3>1
  <2>5. "status" \notin scenario.faults
    BY DEF StatusKept
  <2> QED BY <2>1, <2>3, <2>4, <2>5 DEF ConditionsStep, Unanswered, Fault
<1> QED BY <1>2, <1>3

\* An edit is the only one: what was read of the old source was read before it.
LEMMA OrderKept ==
    ASSUME TypeOK, StatusInv, OrderInv, Next
    PROVE  OrderInv'
<1> DEFINE hash == server.policy.status.hash
<1> SUFFICES ASSUME OneEdit'
             PROVE  /\ seen'.policy.js # server'.policy.js =>
                           /\ edits' = 1
                           /\ hash' \in {Empty, seen'.policy.js}
                           /\ pc' # "idle" => work'.policy.js = seen'.policy.js
                    /\ pc' # "idle" /\ work'.policy.js # server'.policy.js =>
                           edits' = 1 /\ hash' \in {Empty, work'.policy.js}
                    /\ hash' \notin {Empty, server'.policy.js} => edits' = 1
  BY DEF OrderInv
<1>1. OneEdit /\ StatusKept /\ scenario.edits <= 1 /\ server'.policy # None
  BY KeptBefore, Readings DEF OneEdit, StatusKept
<1>2. /\ seen.policy.js # server.policy.js =>
             /\ edits = 1
             /\ hash \in {Empty, seen.policy.js}
             /\ pc # "idle" => work.policy.js = seen.policy.js
      /\ pc # "idle" /\ work.policy.js # server.policy.js => edits = 1 /\ hash \in {Empty, work.policy.js}
      /\ hash \notin {Empty, server.policy.js} => edits = 1
  BY <1>1 DEF OrderInv
<1> HIDE DEF hash
<1>3. edits \in 0 .. 1 /\ (edits' \in {edits, edits + 1} => edits' \in 0 .. 1)
  <2>1. TypeOK' /\ scenario' = scenario
    BY NextKeepsTypes, Readings
  <2>2. scenario.edits \in Nat /\ edits \in 0 .. scenario.edits /\ edits' \in 0 .. scenario.edits
    BY <2>1, ScenarioTypes, TypesSplit DEF TypeOK
  <2> QED BY <1>1, <2>2
<1>4. \/ pc' = "idle"
      \/ pc # "idle" /\ work'.policy = work.policy
      \/ work'.policy = seen.policy /\ Reconcile
  <2>1. CASE Reconcile
    BY <2>1, ReconcileFacts DEF ReconcileStep
  <2> QED BY <2>1, Readings DEF SameReading
<1>5. CASE patchStatus
  <2>1. pc = "status" /\ pc' = "idle" /\ hash' = work.policy.js
    BY <1>1, <1>5, StatusFacts, StatusWritten, AfterFacts DEF StatusStep, OtherFields, hash
  <2>2. seen'.policy.js # server'.policy.js => UNCHANGED <<server, seen>>
    BY <1>1, <1>5, StatusWritten
  <2>3. UNCHANGED <<server, seen>> => hash' = hash
    BY DEF hash
  <2> QED BY <1>1, <1>2, <1>5, <2>1, <2>2, <2>3, PatchesKeepSource
<1>6. CASE patchStatusConditions
  <2>1. /\ server'.policy.js = server.policy.js /\ seen'.policy.js \in {seen.policy.js, server'.policy.js}
        /\ edits' = edits /\ hash' = hash
    BY <1>1, <1>6, PatchesKeepSource DEF hash
  <2>2. pc # "idle" /\ work'.policy = work.policy
    BY <1>6, ConditionsFacts DEF ConditionsStep, Deferring, SameReading
  <2> QED BY <1>2, <2>1, <2>2
<1>7. CASE /\ server'.policy = server.policy /\ seen'.policy \in {seen.policy, server.policy}
           /\ edits' \in {edits, edits + 1}
  <2>1. hash' = hash /\ (edits = 1 => edits' = 1)
    BY <1>3, <1>7 DEF hash
  <2>2. CASE Reconcile
    <3>1. seen' = seen
      BY <2>2, ReconcileFacts DEF ReconcileStep
    <3> QED BY <1>2, <1>4, <1>7, <2>1, <3>1
  <2>3. CASE ~Reconcile
    BY <1>2, <1>4, <1>7, <2>1, <2>3
  <2> QED BY <2>2, <2>3
<1>8. CASE /\ seen' = seen /\ UNCHANGED <<pc, work>> /\ edits < scenario.edits /\ edits' = edits + 1
           /\ server'.policy.status = server.policy.status
  <2>1. edits = 0 /\ edits' = 1 /\ hash' = hash
    <3>1. scenario.edits \in Nat
      BY ScenarioTypes
    <3> QED BY <1>1, <1>3, <1>8, <3>1 DEF hash
  <2> QED BY <1>2, <1>8, <2>1
<1> QED BY <1>1, <1>5, <1>6, <1>7, <1>8, PolicySteps

\* It stays so.
LEMMA WithdrawnKept ==
    ASSUME TypeOK, StatusInv, StatusKept', Next, NEW js, Withdrawn(js)
    PROVE  scenario'.edits <= 1 /\ edits' = 1 /\ server'.policy.js # js /\ seen'.policy.js = server'.policy.js
<1>1. StatusKept /\ scenario' = scenario /\ scenario.edits <= 1 /\ edits = 1
  BY KeptBefore, Readings DEF Withdrawn
<1>2. edits' \in {edits, edits + 1} => edits' = 1
  <2>1. edits' \in 0 .. scenario.edits
    BY <1>1, NextKeepsTypes DEF TypeOK
  <2>2. scenario.edits \in Nat
    BY ScenarioTypes
  <2> QED BY <1>1, <2>1, <2>2
<1>3. CASE patchStatusConditions \/ patchStatus
  BY <1>1, <1>3, PatchesKeepSource DEF Withdrawn
<1>4. CASE /\ server'.policy = server.policy /\ seen'.policy \in {seen.policy, server.policy}
           /\ edits' \in {edits, edits + 1}
  BY <1>1, <1>2, <1>4 DEF Withdrawn
<1>5. ~(edits < scenario.edits)
  <2>1. scenario.edits \in Nat
    BY ScenarioTypes
  <2> QED BY <1>1, <2>1
<1> QED BY <1>3, <1>4, <1>5, PolicySteps

\* Only compileBundle writes a bundle, if users do not delete it.
LEMMA BuiltKept ==
    ASSUME TypeOK, StatusInv, BundleKept', Next, NEW js \in Sources, BuiltFrom(js), ~compileBundle
    PROVE  BuiltFrom(js)'
<1>1. StatusKept' /\ StatusKept /\ "bundle" \notin scenario.faults /\ server.policy # None
  BY KeptBefore, Readings DEF BundleKept, StatusKept
<1>2. CASE server.bundle = js
  BY <1>1, <1>2, BundleSteps, ConstantsAssumption DEF BuiltFrom, Withdrawn, Bundles
<1>3. CASE Withdrawn(js)
  BY <1>1, <1>3, WithdrawnKept DEF BuiltFrom, Withdrawn
<1> QED BY <1>2, <1>3 DEF BuiltFrom, Withdrawn

\* Only compileBundle finds out whether the policy compiles.
LEMMA CompiledOnce ==
    ASSUME TypeOK, Next, ~compileBundle
    PROVE  /\ pc' = "compile" => pc = "compile" \/ pc = "idle"
           /\ pc' \in AfterCompile =>
                  /\ pc \in AfterCompile /\ work'.policy = work.policy
                  /\ work'.status.compiled = work.status.compiled
<1>1. CASE Reconcile
  BY <1>1, ReconcileFacts DEF ReconcileStep, AfterCompile
<1>2. CASE DeleteWebhook
  BY <1>2, DeleteFacts DEF DeleteStep, SameReading, AfterCompile
<1>3. CASE Disabled \/ List
  BY <1>3, DisabledFacts, ListFacts DEF DisabledStep, ListStep, SameReading, AfterCompile, TypeOK
<1>4. CASE SyncWebhook \/ RecreateWebhook
  BY <1>4, SyncChanges DEF SameReading, AfterCompile
<1>5. CASE syncControllerPolicy
  <2>1. pc = "controller" /\ \E ready \in {"True", "False"} : ControllerStep(ready)
    BY <1>5, ControllerFacts
  <2> QED BY <2>1, ReadyKept DEF ControllerStep, SameReading, AfterCompile
<1>6. CASE patchStatusConditions
  BY <1>6, ConditionsFacts DEF ConditionsStep, Deferring, SameReading, AfterCompile
<1>7. CASE patchStatus \/ Restart
  BY <1>7, StatusFacts, RestartFacts DEF StatusStep, RestartStep, AfterCompile
<1>8. CASE Environment
  BY <1>8, EnvironmentFacts DEF EnvironmentStep
<1> QED BY <1>1, <1>2, <1>3, <1>4, <1>5, <1>6, <1>7, <1>8 DEF Next, Step, Environment

\* With one edit, a hash other than that of the source which was read is that of a withdrawn one.
LEMMA Superseded ==
    ASSUME OneEdit, OrderInv, pc # "idle",
           server.policy.status.hash \notin {Empty, work.policy.js}
    PROVE  Withdrawn(server.policy.status.hash)
BY DEF OneEdit, OrderInv, Withdrawn

\* compileBundle builds the bundle before the two patches say so.
LEMMA BuiltInvKept ==
    ASSUME TypeOK, WorkInv, StatusInv, OrderInv, BuiltInv, Next
    PROVE  BuiltInv'
<1> DEFINE s == server.policy.status
<1> SUFFICES ASSUME BundleKept'
             PROVE  /\ pc' \in {"idle", "compile"} \/ scenario.edits <= 1 =>
                           (s'.compiled = "True" /\ s'.hash # Empty => BuiltFrom(s.hash)')
                    /\ pc' \in AfterCompile /\ work'.status.compiled = "True" /\ work'.policy.js # Empty =>
                           BuiltFrom(work.policy.js)'
  BY Readings DEF BuiltInv
<1>1. BundleKept /\ StatusKept /\ StatusKept' /\ server.policy # None /\ server'.policy # None
      /\ scenario' = scenario
  BY KeptBefore, Readings DEF BundleKept, StatusKept
<1>2. /\ pc \in {"idle", "compile"} \/ scenario.edits <= 1 =>
             (s.compiled = "True" /\ s.hash # Empty => BuiltFrom(s.hash))
      /\ pc \in AfterCompile /\ work.status.compiled = "True" /\ work.policy.js # Empty =>
             BuiltFrom(work.policy.js)
  BY <1>1 DEF BuiltInv
<1>3. /\ s \in Statuses /\ s.hash \in Sources
      /\ pc # "idle" => work.policy.js \in Sources
  BY <1>1 DEF TypeOK, Policies, Statuses
<1> HIDE DEF s
<1>4. CASE compileBundle
  <2>1. PICK value \in {"none", "True", "False"} : CompileStep(value)
    BY <1>4, CompileFacts
  <2>2. /\ pc = "compile" /\ pc' # "idle" /\ pc' # "compile" /\ work'.policy = work.policy
        /\ work'.status.compiled = value
    BY <1>4, <2>1 DEF compileBundle, CompileStep, CompiledAs, SameReading, TypeOK, Statuses
  <2>3. work.status = s
    BY <1>1, <2>2 DEF WorkInv, StatusInv, s
  <2>4. CASE NoWrite /\ (value = "True" => work.policy.js = Empty \/
                                (value = work.status.compiled /\ work.policy.js = work.status.hash))
    <3>1. server' = server /\ seen' = seen /\ edits' = edits /\ s' = s
      BY <1>4, <2>4 DEF NoWrite, compileBundle, userVars, s
    <3>2. value = "True" /\ work.policy.js # Empty => value = work.status.compiled /\ work.policy.js = work.status.hash
      BY <2>4
    <3> QED BY <1>1, <1>2, <2>2, <2>3, <3>1, <3>2 DEF BuiltFrom, Withdrawn
  <2>5. CASE /\ work.policy.js # Empty /\ Outdated
             /\ \/ value = "True" /\ Written("bundle", work.policy.js)
                \/ value = "none" /\ Unanswered("write", "bundle", work.policy.js)
                \/ value = "none" /\ Refused("write")
    <3>1. value = "True" => server'.bundle = work.policy.js
      BY <2>5, WrittenPart DEF Parts
    <3>2. server'.policy = server.policy /\ s' = s
      BY <2>5, WrittenPart DEF Parts, Unanswered, Refused, TypeOK, s
    <3>3. scenario.edits <= 1 /\ s.compiled = "True" /\ s.hash # Empty => BuiltFrom(s.hash)'
      <4> SUFFICES ASSUME scenario.edits <= 1, s.compiled = "True", s.hash # Empty
                   PROVE  BuiltFrom(s.hash)'
        OBVIOUS
      <4>1. s.hash # work.policy.js
        BY <2>3, <2>5 DEF Outdated
      <4>2. Withdrawn(s.hash)
        BY <1>1, <2>2, <4>1, Superseded DEF OneEdit, s
      <4> QED BY <1>1, <1>3, <3>2, <4>2, WithdrawnKept DEF BuiltFrom, Withdrawn
    <3> QED BY <1>1, <2>2, <3>1, <3>2, <3>3 DEF BuiltFrom, Withdrawn
  <2> QED BY <2>1, <2>4, <2>5 DEF CompileStep
<1>5. CASE patchStatus
  <2>1. pc = "status" /\ pc' = "idle" /\ ~compileBundle
    BY <1>5, StatusFacts DEF StatusStep, compileBundle
  <2>2. s'.compiled = work.status.compiled /\ s'.hash = work.policy.js
    BY <1>1, <1>5, <2>1, StatusWritten, AfterFacts DEF ConditionFields, OtherFields, s
  <2>3. work.status.compiled = "True" /\ work.policy.js # Empty => BuiltFrom(work.policy.js)
    BY <1>2, <2>1 DEF AfterCompile
  <2>4. \A js \in Sources : BuiltFrom(js) => server'.bundle = js \/
            (scenario'.edits <= 1 /\ edits' = 1 /\ server'.policy.js # js /\ seen'.policy.js = server'.policy.js)
    BY <2>1, BuiltKept DEF BuiltFrom, Withdrawn
  <2> QED BY <1>3, <2>1, <2>2, <2>3, <2>4 DEF AfterCompile, BuiltFrom, Withdrawn
<1>6. CASE patchStatusConditions
  <2>1. pc = "patch" /\ pc' = "status" /\ ~compileBundle /\ work'.policy = work.policy /\ work'.status = work.status
        /\ After' = After
    BY <1>6, ConditionsFacts, AfterKept DEF ConditionsStep, compileBundle, Deferring, SameReading
  <2>2. s'.hash = s.hash
    BY <1>1, <1>6, PatchesKeepSource DEF s
  <2>3. s'.compiled = work.status.compiled
    BY <1>1, <2>1, StatusInvKept, AfterFacts DEF StatusInv, ConditionFields, s
  <2>4. work.status.compiled = "True" /\ work.policy.js # Empty => BuiltFrom(work.policy.js)
    BY <1>2, <2>1 DEF AfterCompile
  <2>5. scenario.edits <= 1 /\ s'.compiled = "True" /\ s.hash # Empty => BuiltFrom(s.hash)
    <3>1. CASE s.hash = work.policy.js
      BY <2>3, <2>4, <3>1
    <3>2. CASE s.hash # work.policy.js
      BY <1>1, <2>1, <3>2, Superseded DEF OneEdit, Withdrawn, BuiltFrom, s
    <3> QED BY <3>1, <3>2
  <2>6. \A js \in Sources : BuiltFrom(js) => server'.bundle = js \/
            (scenario'.edits <= 1 /\ edits' = 1 /\ server'.policy.js # js /\ seen'.policy.js = server'.policy.js)
    BY <2>1, BuiltKept DEF BuiltFrom, Withdrawn
  <2> QED BY <1>3, <2>1, <2>2, <2>4, <2>5, <2>6 DEF BuiltFrom, Withdrawn
<1>7. CASE ~compileBundle /\ ~patchStatus /\ ~patchStatusConditions
  <2>1. s' = s
    BY <1>1, <1>7, PolicySteps DEF s
  <2>2. pc' \in {"idle", "compile"} \/ scenario.edits <= 1 => pc \in {"idle", "compile"} \/ scenario.edits <= 1
    <3>1. pc' = "idle" /\ pc # "idle" => "restart" \in scenario.faults
      BY <1>7, Readings, RestartFacts DEF Reconcile, RestartStep
    <3> QED BY <1>1, <1>7, <3>1, CompiledOnce DEF BundleKept
  <2>3. /\ pc' \in AfterCompile => pc \in AfterCompile /\ work'.policy = work.policy
                                   /\ work'.status.compiled = work.status.compiled
        /\ pc \in AfterCompile => pc # "idle"
    BY <1>7, CompiledOnce DEF AfterCompile
  <2>4. \A js \in Sources : BuiltFrom(js) => server'.bundle = js \/
            (scenario'.edits <= 1 /\ edits' = 1 /\ server'.policy.js # js /\ seen'.policy.js = server'.policy.js)
    BY <1>7, BuiltKept DEF BuiltFrom, Withdrawn
  <2> QED BY <1>2, <1>3, <2>1, <2>2, <2>3, <2>4 DEF BuiltFrom, Withdrawn
<1> QED BY <1>4, <1>5, <1>6, <1>7

-----------------------------------------------------------------------------
(* The last webhook.                                                        *)

\* The reconciler changes the webhook configurations in three of its steps only.
LEMMA StepWrites ==
    ASSUME TypeOK, Step, ~DeleteWebhook, ~SyncWebhook, ~RecreateWebhook
    PROVE  /\ faults' \in {faults, faults + 1}
           /\ server'.webhooks = server.webhooks /\ seen'.webhooks = seen.webhooks
           /\ pc' = "others" => List
<1>1. server \in Stores /\ seen \in Stores
  BY TypesSplit DEF StepTypes
<1>2. CASE Reconcile
  BY <1>2, ReconcileFacts DEF ReconcileStep
<1>3. CASE compileBundle
  <2>1. PICK value : CompileStep(value)
    BY <1>3, CompileFacts
  <2>2. server'.webhooks = server.webhooks /\ seen'.webhooks = seen.webhooks /\ faults' \in {faults, faults + 1}
    BY <2>1, WrittenPart, UnansweredPart DEF CompileStep, NoWrite, Refused, Fault, Parts
  <2>3. pc' # "others"
    BY <2>1 DEF CompileStep, CompiledAs
  <2> QED BY <2>2, <2>3
<1>4. CASE Disabled \/ List \/ syncControllerPolicy
  <2>1. NoWrite /\ (pc' = "others" => List)
    BY <1>4, DisabledFacts, ControllerFacts DEF Disabled, List, syncControllerPolicy, DisabledStep, ControllerStep
  <2> QED BY <2>1 DEF NoWrite
<1>5. CASE patchStatusConditions
  <2>1. ConditionsStep /\ pc' = "status"
    BY <1>5, ConditionsFacts DEF ConditionsStep
  <2>2. server'.webhooks = server.webhooks /\ seen'.webhooks = seen.webhooks /\ faults' \in {faults, faults + 1}
    BY <2>1, WrittenPart, UnansweredPart DEF ConditionsStep, NoWrite, Refused, Fault, Parts
  <2> QED BY <2>1, <2>2
<1>6. CASE patchStatus
  <2>1. StatusStep
    BY <1>6, StatusFacts
  <2>2. server'.webhooks = server.webhooks /\ seen'.webhooks = seen.webhooks
    BY <1>1, <2>1 DEF StatusStep, Stores
  <2> QED BY <2>1, <2>2 DEF StatusStep
<1> QED BY <1>2, <1>3, <1>4, <1>5, <1>6 DEF Step

\* Who changes the webhook configurations in the server, if users do not.
LEMMA WebhookWrites ==
    ASSUME TypeOK, Next, WebhooksKept, ~DeleteWebhook, ~SyncWebhook, ~RecreateWebhook
    PROVE  /\ faults' \in {faults, faults + 1}
           /\ \/ /\ server'.webhooks = server.webhooks
                 /\ seen'.webhooks \in {seen.webhooks, server.webhooks}
              \/ server.policy = None
           /\ pc' = "others" => List \/ UNCHANGED <<pc, work>>
<1>1. server \in Stores /\ seen \in Stores
  BY TypesSplit DEF StepTypes
<1>2. CASE Environment
  <2>1. EnvironmentStep
    BY <1>2, EnvironmentFacts
  <2>2. UNCHANGED <<pc, work, faults>>
    BY <2>1 DEF EnvironmentStep
  <2>3. CASE UNCHANGED server /\ \E part \in Parts : seen' = [seen EXCEPT ![part] = server[part]]
    BY <1>1, <2>2, <2>3 DEF Stores, Parts
  <2>4. CASE UNCHANGED seen /\ \E value : server' = [server EXCEPT !.policy = value] \/ server' = [server EXCEPT !.bundle = value]
    BY <1>1, <2>2, <2>4 DEF Stores
  <2>5. CASE server.policy = None
    BY <2>2, <2>5
  <2>6. "webhook" \notin scenario.faults
    BY DEF WebhooksKept
  <2> QED BY <2>1, <2>3, <2>4, <2>5, <2>6, ZenonT(30) DEF EnvironmentStep
<1>3. CASE Restart
  BY <1>3, RestartFacts DEF RestartStep
<1> QED BY <1>2, <1>3, StepWrites DEF Next, Environment

\* How the reconciler writes them; a failure is counted.
Writing(value) ==
    \/ Written("webhooks", value)
    \/ Unanswered("write", "webhooks", value)
    \/ UNCHANGED <<server, seen>> /\ faults' \in {faults, faults + 1}

LEMMA WritingFacts ==
    ASSUME TypeOK, NEW value, Writing(value)
    PROVE  \/ server'.webhooks = value /\ seen'.webhooks = value /\ faults' = faults
           \/ server'.webhooks = value /\ seen' = seen /\ faults' = faults + 1
           \/ UNCHANGED <<server, seen>> /\ faults' \in {faults, faults + 1}
BY WrittenPart, UnansweredPart DEF Writing, Parts

LEMMA DeleteWrites ==
    ASSUME TypeOK, NEW w, DeleteStep(w)
    PROVE  /\ Writing({v \in server.webhooks : v.name # w.name})
           /\ \/ pc' = pc /\ work'.todo \subseteq work.todo /\ faults' = faults
              \/ pc' = "patch"
<1>1. CASE pc' = "patch"
  BY <1>1 DEF DeleteStep, Writing, NoWrite, Refused, Fault
<1>2. CASE pc' # "patch"
  BY <1>2 DEF DeleteStep, Writing, NoWrite, Written
<1> QED BY <1>1, <1>2

LEMMA SyncWrites ==
    ASSUME TypeOK, SyncWebhook \/ RecreateWebhook, faults' = faults
    PROVE  \/ /\ seen'.webhooks \in {seen.webhooks, server'.webhooks}
              /\ server.webhooks \subseteq server'.webhooks
              /\ pc' = "patch"
           \/ seen'.webhooks = server'.webhooks /\ pc' = "recreate"
<1>1. server \in Stores /\ faults \in Nat
  BY TypesSplit, ScenarioTypes DEF StepTypes
<1>2. \A value : ~Unanswered("write", "webhooks", value) /\ ~Refused("write")
  BY <1>1 DEF Unanswered, Refused, Fault
<1>3. \A value : Written("webhooks", value) => server'.webhooks = value /\ seen'.webhooks = value
  BY WrittenPart DEF Parts
<1>4. CASE SyncWebhook
  <2>1. CASE SyncStep
    BY <1>2, <1>3, <1>4, <2>1, SyncChanges DEF SyncStep, Applied, SyncedAs, NoWrite
  <2>2. CASE RemoveStep
    BY <1>3, <2>2 DEF RemoveStep
  <2> QED BY <1>4, <2>1, <2>2, SyncFacts
<1>5. CASE RecreateWebhook
  <2>1. RecreateStep /\ pc' = "patch"
    BY <1>5, RecreateFacts DEF RecreateStep, SyncedAs
  <2>2. CASE NoWrite
    BY <2>1, <2>2 DEF NoWrite
  <2>3. CASE server' = [server EXCEPT !.webhooks = Recreated] /\ UNCHANGED <<seen, queued, faults>>
    BY <1>1, <2>1, <2>3 DEF Stores, Recreated
  <2> QED BY <1>2, <2>1, <2>2, <2>3 DEF RecreateStep
<1> QED BY <1>4, <1>5

\* A failure is counted.
LEMMA FaultsCounted ==
    ASSUME TypeOK, Next
    PROVE  faults \in Nat /\ faults' \in Nat /\ faults' >= faults
<1>1. faults \in Nat
  BY ScenarioTypes DEF TypeOK
<1>2. CASE DeleteWebhook
  <2>1. PICK w \in work.todo : DeleteStep(w)
    BY <1>2, DeleteFacts
  <2>2. faults' \in {faults, faults + 1}
    BY <2>1, DeleteWrites, WritingFacts
  <2> QED BY <1>1, <2>2
<1>3. CASE SyncWebhook
  <2>1. faults' \in {faults, faults + 1}
    BY <1>3, SyncFacts DEF SyncStep, RemoveStep, Applied, Written, Unanswered, Refused, NoWrite, Fault
  <2> QED BY <1>1, <2>1
<1>4. CASE RecreateWebhook
  <2>1. faults' \in {faults, faults + 1}
    BY <1>4, RecreateFacts DEF RecreateStep, Unanswered, Refused, NoWrite, Fault
  <2> QED BY <1>1, <2>1
<1>5. CASE Step /\ ~DeleteWebhook /\ ~SyncWebhook /\ ~RecreateWebhook
  BY <1>1, <1>5, StepWrites
<1>6. CASE Environment \/ Restart
  <2>1. faults' \in {faults, faults + 1}
    BY <1>6, EnvironmentFacts, RestartFacts DEF EnvironmentStep, RestartStep
  <2> QED BY <1>1, <2>1
<1> QED BY <1>2, <1>3, <1>4, <1>5, <1>6 DEF Next, Environment

\* Without a failure, what is not in the cache yet is what was created anew, and nothing is in the
\* cache that is not in the server: the configuration that List keeps is there.
LEMMA EnforceKept ==
    ASSUME TypeOK, WebhookInv, EnforceInv, Next
    PROVE  EnforceInv'
<1> SUFFICES ASSUME WebhooksKept, faults' = 0, server'.policy # None
             PROVE  /\ NamesOf(seen'.webhooks) \subseteq NamesOf(server'.webhooks)
                    /\ pc' = "others" => work'.name \in NamesOf(server'.webhooks) \cup {None}
  BY Readings DEF EnforceInv, WebhooksKept, NamesOf
<1>1. faults = 0 /\ faults' = faults /\ server.policy # None
  BY FaultsCounted, PolicyBefore
<1>2. /\ NamesOf(seen.webhooks) \subseteq NamesOf(server.webhooks)
      /\ pc = "others" => work.name \in NamesOf(server.webhooks) \cup {None}
  BY <1>1 DEF EnforceInv
<1>3. CASE DeleteWebhook
  <2>1. PICK w \in work.todo : DeleteStep(w)
    BY <1>3, DeleteFacts
  <2> DEFINE rest == {v \in server.webhooks : v.name # w.name}
  <2>2. \/ server'.webhooks = rest /\ seen'.webhooks = rest
        \/ server' = server /\ seen' = seen
    <3>1. faults' # faults + 1
      BY <1>1
    <3> QED BY <1>1, <2>1, <3>1, DeleteWrites, WritingFacts
  <2>3. NamesOf(seen'.webhooks) \subseteq NamesOf(server'.webhooks)
    BY <1>2, <2>2
  <2>4. ASSUME pc' = "others"
        PROVE  work'.name \in NamesOf(server'.webhooks) \cup {None}
    <3>1. pc = "others" /\ work'.name = work.name /\ w.name # work.name
      BY <2>1, <2>4 DEF DeleteStep, WebhookInv
    <3>2. work.name \in NamesOf(server.webhooks) => work.name \in NamesOf(rest)
      BY <3>1 DEF NamesOf
    <3> QED BY <1>2, <2>2, <3>1, <3>2
  <2> QED BY <2>3, <2>4
<1>4. CASE SyncWebhook \/ RecreateWebhook
  <2>1. pc' # "others"
    BY <1>4, SyncChanges
  <2> QED BY <1>1, <1>2, <1>4, <2>1, SyncWrites DEF NamesOf
<1>5. CASE ~DeleteWebhook /\ ~SyncWebhook /\ ~RecreateWebhook
  <2>1. /\ server'.webhooks = server.webhooks
        /\ seen'.webhooks \in {seen.webhooks, server.webhooks}
        /\ pc' = "others" => List \/ UNCHANGED <<pc, work>>
    BY <1>1, <1>5, WebhookWrites
  <2>2. NamesOf(seen'.webhooks) \subseteq NamesOf(server'.webhooks)
    BY <1>2, <2>1
  <2>3. CASE List
    <3>1. ListStep /\ pc = "list"
      BY <2>3, ListFacts
    <3>2. CASE work'.name = work.name
      <4>1. work'.name = None
        BY <3>1, <3>2 DEF WebhookInv
      <4> QED BY <2>2, <4>1
    <3>3. CASE \E keep \in seen.webhooks : work'.name = keep.name
      BY <1>2, <2>1, <3>3 DEF NamesOf
    <3> QED BY <2>2, <3>1, <3>2, <3>3 DEF ListStep
  <2> QED BY <1>2, <2>1, <2>2, <2>3
<1> QED BY <1>3, <1>4, <1>5

-----------------------------------------------------------------------------
(* The invariant holds.                                                     *)

\* There are no webhook configurations and nothing runs at first.
LEMMA InitInv ==
    ASSUME Init
    PROVE  IInv
<1>1. TypeOK
  BY InitTypes
<1>2. /\ pc = "idle" /\ queued /\ work = NoWork /\ controllerPolicyHash = None /\ running = None
      /\ seen = server /\ edits = 0 /\ faults = 0
  BY DEF Init
<1>3. server.policy.status = NewStatus /\ server.policy # None /\ server.webhooks = {}
  <2>1. scenario.sources \subseteq Sources /\ scenario.rules \subseteq Rules
    BY <1>1, ScenarioTypes
  <2>2. server.policy \in [js : scenario.sources, rules : scenario.rules \ Invalid, status : {NewStatus}]
        /\ server.webhooks = {}
    BY DEF Init
  <2>3. server.policy \in Policies
    <3>1. NewStatus \in Statuses
      BY ConstantsAssumption DEF NewStatus, Statuses
    <3> QED BY <2>1, <2>2, <3>1 DEF Policies
  <2> QED BY <2>2, <2>3, ConstantsAssumption
<1>4. /\ NoWork.status = NewStatus /\ NoWork.todo = {} /\ ~NoWork.again /\ ~NoWork.err /\ NoWork.bundle = None
      /\ NewStatus.compiled = "none" /\ NewStatus.hash = Empty
  BY DEF NoWork, NewStatus
<1>5. ReadInv /\ WorkInv /\ RecordInv
  BY <1>2, <1>4 DEF ReadInv, WorkInv, RecordInv, Quiet, Deferred
<1>6. StopInv /\ RunInv
  BY <1>2 DEF StopInv, RunInv, Finished, Quiet
<1>7. StatusInv /\ HashInv
  BY <1>2, <1>3, <1>4 DEF StatusInv, HashInv
<1>8. WebhookInv
  BY <1>2, <1>3, <1>4 DEF WebhookInv, Unique, Finished, Quiet
<1>9. OrderInv /\ BuiltInv
  BY <1>2, <1>3, <1>4 DEF OrderInv, BuiltInv, AfterCompile
<1>10. EnforceInv
  BY <1>2, <1>3 DEF EnforceInv
<1> QED BY <1>1, <1>5, <1>6, <1>7, <1>8, <1>9, <1>10 DEF IInv

\* Every step, and a stutter, keeps the invariant.
LEMMA NextKeepsInv ==
    ASSUME IInv, [Next]_vars
    PROVE  IInv'
<1>1. CASE Next
  <2>1. pc \in Deferred => work.todo = {}
    BY DEF IInv, WebhookInv, Deferred
  <2>2. TypeOK' /\ ReadInv' /\ WorkInv' /\ RecordInv'
    BY <1>1, NextKeepsTypes, ReadKept, WorkKept, RecordKept DEF IInv
  <2>3. StopInv' /\ RunInv'
    BY <1>1, <2>1, StopKept, RunKept DEF IInv
  <2>4. StatusInv' /\ HashInv'
    BY <1>1, StatusInvKept, HashKept DEF IInv
  <2>5. WebhookInv' /\ EnforceInv'
    BY <1>1, WebhooksKeptInv, EnforceKept DEF IInv
  <2>6. OrderInv' /\ BuiltInv'
    BY <1>1, OrderKept, BuiltInvKept DEF IInv
  <2> QED BY <2>2, <2>3, <2>4, <2>5, <2>6 DEF IInv
<1>2. CASE UNCHANGED vars
  <2>1. TypeOK'
    BY <1>2, NextKeepsTypes DEF IInv
  <2>2. UNCHANGED <<server, seen, queued, pc, work, controllerPolicyHash, running, scenario, edits, faults>>
    BY <1>2 DEF vars
  <2>3. ReadInv' /\ WorkInv'
    BY <2>2 DEF IInv, ReadInv, WorkInv
  <2>4. RecordInv' /\ StatusInv'
    <3>1. After' = After
      BY <2>2, AfterKept
    <3>2. RecordInv'
      BY <2>2, <3>1 DEF IInv, RecordInv, Quiet, ConditionFields
    <3>3. StatusInv'
      BY <2>2, <3>1 DEF IInv, StatusInv, StatusKept
    <3> QED BY <3>2, <3>3
  <2>5. StopInv' /\ RunInv'
    BY <2>2 DEF IInv, StopInv, RunInv, Finished, Quiet, LatestStatus, LatestPolicy, Bundled, StatusKept
  <2>6. HashInv' /\ EnforceInv'
    BY <2>2 DEF IInv, HashInv, Bundled, StatusKept, CurrentStatus, EnforceInv, WebhooksKept, NamesOf
  <2>7. WebhookInv'
    <3>1. /\ Finished' = Finished /\ LatestStatus' = LatestStatus /\ LatestPolicy' = LatestPolicy
          /\ NamesOf(server.webhooks)' = NamesOf(server.webhooks)
          /\ Unique(server.webhooks)' = Unique(server.webhooks) /\ Unique(seen.webhooks)' = Unique(seen.webhooks)
      BY <2>2 DEF NamesOf, Unique, Finished, Quiet, LatestStatus, LatestPolicy
    <3> QED BY <2>2, <3>1 DEF IInv, WebhookInv, Remains
  <2>8. OrderInv' /\ BuiltInv'
    BY <2>2 DEF IInv, OrderInv, OneEdit, BuiltInv, BuiltFrom, Withdrawn, BundleKept, StatusKept
  <2> QED BY <2>1, <2>3, <2>4, <2>5, <2>6, <2>7, <2>8 DEF IInv
<1> QED BY <1>1, <1>2

\* Reconcile, the deferred function, users, the cache and restarts keep the invariant.
THEOREM Invariant == Spec => []IInv
BY InitInv, NextKeepsInv, PTL DEF Spec

\* The work of a reconcile, the caches and the status have their types, and what belongs to one
\* type of policy (its webhooks, or its call of the manager) is done for policies of that type only.
THEOREM TypeCorrect == Spec => []TypeOK
<1>1. IInv => TypeOK
  BY DEF IInv
<1> QED BY <1>1, Invariant, PTL

-----------------------------------------------------------------------------
(* What a policy settles in.                                                *)

\* What the invariant says of a policy that settled.
LEMMA SettledFacts ==
    ASSUME IInv, Settled
    PROVE  /\ pc = "idle" /\ seen = server /\ server.policy # None
           /\ work.todo = {} /\ Quiet /\ Finished
           /\ LatestStatus = server.policy.status /\ LatestPolicy = server.policy
           /\ LET s == server.policy.status
              IN /\ Reported(s)
                 /\ s.summary = Summary(s)
                 /\ s.phase = "Failed" <=> "False" \in {s.compiled, s.ready}
                 /\ s.hash = server.policy.js
<1>1. pc = "idle" /\ ~queued /\ seen = server /\ server.policy # None /\ work = NoWork
  BY DEF Settled, IInv, TypeOK
<1>2. Quiet /\ Finished /\ work.todo = {}
  BY <1>1 DEF Quiet, Finished, NoWork
<1> QED BY <1>1, <1>2 DEF LatestStatus, LatestPolicy, IInv, RecordInv

\* A policy that settled is enforced by exactly one webhook configuration, with the rules it has
\* now, if it compiled, and by none otherwise, although lists are late and creations are repeated.
THEOREM WebhooksFollow == Spec => []WebhookFollowsPolicy
<1>1. ASSUME IInv, Settled, scenario.type = "Webhook"
      PROVE  IF server.policy.status.compiled = "True"
             THEN \E n \in Names : server.webhooks = {[name |-> n, rules |-> server.policy.rules]}
             ELSE server.webhooks = {}
  <2>1. /\ seen = server /\ work.todo = {} /\ Finished
        /\ LatestStatus = server.policy.status /\ LatestPolicy = server.policy
    BY <1>1, SettledFacts
  <2>2. \A keep : Remains(keep) => server.webhooks \subseteq keep
    BY <2>1 DEF Remains, NamesOf
  <2>3. CASE server.policy.status.compiled = "True"
    <3>1. PICK keep \in server.webhooks : keep.rules = server.policy.rules /\ Remains({keep})
      BY <1>1, <2>1, <2>3 DEF IInv, WebhookInv
    <3>2. server.webhooks = {keep}
      BY <2>2, <3>1
    <3>3. keep \in Webhooks
      BY <1>1, <3>1 DEF IInv, TypeOK
    <3>4. keep.name \in Names /\ keep = [name |-> keep.name, rules |-> server.policy.rules]
      BY <3>1, <3>3 DEF Webhooks
    <3> QED BY <2>3, <3>2, <3>4
  <2>4. CASE server.policy.status.compiled # "True"
    <3>1. Remains({})
      BY <1>1, <2>1, <2>4 DEF IInv, WebhookInv
    <3> QED BY <2>2, <2>4, <3>1
  <2> QED BY <2>3, <2>4
<1>2. IInv => WebhookFollowsPolicy
  BY <1>1 DEF WebhookFollowsPolicy
<1> QED BY <1>2, Invariant, PTL

\* What a settled policy runs was built from the javascript it has now: the hash is only recorded
\* after the bundle and the conditions are written, so that a step that is lost is repeated.
THEOREM BundlesFollow == Spec => []BundleFollowsSource
<1>1. ASSUME IInv, Settled,
             scenario.faults \cap {"status", "conditions", "bundle"} = {},
             scenario.edits <= 1 \/ scenario.faults \cap {"write", "restart"} = {},
             server.policy.js # Empty, server.policy.status.compiled = "True"
      PROVE  server.bundle = server.policy.js
  <2>1. pc = "idle" /\ server.policy # None /\ server.policy.status.hash = server.policy.js
    BY <1>1, SettledFacts
  <2>2. BundleKept
    BY <1>1, <2>1 DEF BundleKept, StatusKept
  <2>3. BuiltFrom(server.policy.js)
    BY <1>1, <2>1, <2>2 DEF IInv, BuiltInv
  <2> QED BY <2>3 DEF BuiltFrom, Withdrawn
<1>2. IInv => BundleFollowsSource
  BY <1>1 DEF BundleFollowsSource
<1> QED BY <1>2, Invariant, PTL

\* The phase and Ready tell of a settled policy whether a condition is false, although the phase
\* is computed before Ready is, and each of the two patches may be lost.
THEOREM PhasesTell == Spec => []PhaseTellsFailure
<1>1. IInv => PhaseTellsFailure
  BY SettledFacts DEF PhaseTellsFailure
<1> QED BY <1>1, Invariant, PTL

\* A policy that does not compile or is deleted is not run, and one that is ready is, with the
\* rules it has now, through edits, failures of the manager and restarts.
THEOREM ControllersFollow == Spec => []ControllerFollowsPolicy
<1>1. ASSUME IInv, pc = "idle", ~queued, seen = server
      PROVE  \/ running = None
             \/ server.policy # None /\ server.policy.status.compiled = "True"
  <2>1. CASE server.policy = None
    BY <1>1, <2>1 DEF IInv, ReadInv
  <2>2. CASE server.policy # None
    <3>1. Settled
      BY <1>1, <2>2 DEF Settled
    <3> QED BY <1>1, <2>2, <3>1, SettledFacts DEF IInv, StopInv
  <2> QED BY <2>1, <2>2
<1>2. ASSUME IInv, scenario.faults \cap {"bundler", "status", "conditions", "bundle"} = {},
             Settled, scenario.type = "Controller",
             server.policy.status.compiled = "True", server.policy.status.ready = "True"
      PROVE  running = server.policy.rules
  <2>1. /\ Finished /\ server.policy # None
        /\ LatestStatus = server.policy.status /\ LatestPolicy = server.policy
    BY <1>2, SettledFacts
  <2>2. Bundled
    BY <1>2, <2>1 DEF Bundled, StatusKept
  <2> QED BY <1>2, <2>1, <2>2 DEF IInv, RunInv
<1>3. IInv => ControllerFollowsPolicy
  BY <1>1, <1>2 DEF ControllerFollowsPolicy, BrokenPolicyStops, BundledPolicyRuns, ReadyPolicyRuns
<1> QED BY <1>3, Invariant, PTL

\* While no call fails, the reconciler takes away the last webhook of a policy that it found
\* compiled only to create it anew: of duplicates it keeps one that the server has.
THEOREM LastOneStays == Spec => LastWebhookStays
<1>1. ASSUME IInv, Next, Step, pc # "idle", faults' = 0, server.policy # None, server.webhooks # {},
             "webhook" \notin scenario.faults, work.status.compiled # "False"
      PROVE  server'.webhooks # {} \/ pc' = "recreate"
  <2>1. TypeOK /\ WorkInv /\ WebhookInv /\ EnforceInv /\ WebhooksKept
    BY <1>1 DEF IInv, WebhooksKept
  <2>2. faults = 0 /\ faults' = faults
    BY <1>1, <2>1, FaultsCounted
  <2>3. CASE DeleteWebhook
    <3>1. PICK w \in work.todo : DeleteStep(w)
      BY <2>1, <2>3, DeleteFacts
    <3>2. pc = "others"
      BY <1>1, <2>1, <2>3, DeleteFacts DEF WorkInv
    <3>3. work.name \in NamesOf(server.webhooks) /\ w.name # work.name
      BY <1>1, <2>1, <2>2, <3>1, <3>2 DEF WebhookInv, EnforceInv
    <3>4. {v \in server.webhooks : v.name # w.name} # {}
      BY <3>3 DEF NamesOf
    <3>5. server'.webhooks \in {server.webhooks, {v \in server.webhooks : v.name # w.name}}
      BY <2>1, <3>1, DeleteWrites, WritingFacts
    <3> QED BY <1>1, <3>4, <3>5
  <2>4. CASE SyncWebhook \/ RecreateWebhook
    BY <1>1, <2>1, <2>2, <2>4, SyncWrites
  <2>5. CASE ~DeleteWebhook /\ ~SyncWebhook /\ ~RecreateWebhook
    BY <1>1, <2>1, <2>5, StepWrites
  <2> QED BY <2>3, <2>4, <2>5
<1>2. IInv /\ [Next]_vars =>
        [Step /\ pc # "idle" /\ faults' = 0 /\ server.policy # None /\ server.webhooks # {}
         /\ "webhook" \notin scenario.faults /\ work.status.compiled # "False"
              => server'.webhooks # {} \/ pc' = "recreate"]_vars
  BY <1>1
<1> QED BY <1>2, Invariant, PTL DEF Spec, LastWebhookStays
=============================================================================
