# A TLA+ development of jsPolicy

jsPolicy runs JavaScript policies in Kubernetes: as admission webhooks (Mutating and
Validating policies) and as controllers (Controller policies). This directory holds
TLA+ modules for the parts of it that are hard to test, the TLC configurations that
model-check them, and proofs that TLAPS checks. Paths are relative to the
repository; `pkg/...` is what the models are translated from.

    tlc -config VMPool.cfg VMPool          # module and cfg of every run: PROJECT.json
    tlapm VMPoolProofs.tla                 # and every other module with Proofs or Refinement in its name

## 1. The system

| Component | State | Operations | Module |
|---|---|---|---|
| Sandbox pool (`pkg/vm`, `pkg/vm/vmpool`, `runScript` of `pkg/webhook/handler.go`) | a weighted semaphore, a stack of V8 isolates, per isolate its context and V8's termination flag | `Get`, `RunScriptWithTimeout`, `Put` with `RecreateContext` | VMPool, SandboxPool |
| Blocking client (`pkg/blockingcacheclient`) | none of its own: the API server and a cache that lags | `Create`, `Update`, `Patch`, `Delete`, each followed by a poll of the cache | CacheClient |
| Admission (`pkg/webhook/webhook.go`, `handler.go`) | none between requests | `ServeHTTP`, `Handle` | Admission |
| Audit log (`pkg/webhook/audit.go`) | `JsPolicyViolations` of a policy | `LogRequest`, one goroutine for each denied request | AuditLog |
| Policy reports (`pkg/webhook/report.go`) | `PolicyReport` of a namespace | `ReportRequest`, the same | PolicyReport |
| Validation (`pkg/webhook/validation`) | none | a function of the old and the new spec | Validation |
| Controller policies (`pkg/controller`, `pkg/cache`) | handlers, running policies, informers with their last use, work queues | `Update`, `Delete`, the collector of informers, event handlers, workers | PolicyManager |
| Reconciler (`pkg/controllers`, `pkg/util/patch`, `pkg/util/apply`) | JsPolicy with status, JsPolicyBundle, webhook configurations, hash of what was started | `Reconcile` and what it calls | Reconciler |
| Conditions (`pkg/util/conditions`, `pkg/util/patch`) | conditions of a status | `Set`, `Delete`, `SetSummary`, `NewPatch`, `Apply`, `patchStatusConditions` | Conditions |
| Certificates, leader election, webhook configuration (`pkg/util/secret`, `pkg/util/certhelper`, `pkg/leaderelection`, `pkg/store`, `cmd/jspolicy`) | a Secret and its files, a lease, a ValidatingWebhookConfiguration | `EnsureCertSecrets`, `StartLeaderElection`, `EnsureValidatingWebhookConfiguration` | Startup |
| Bundler (`pkg/bundle`) | files in a temporary directory | `Bundle` | succeeds or fails, in Reconciler |
| API types, generated clients, helpers | - | - | not modelled |

How they interact:

- A webhook request takes a VM from the pool, runs the bundle of the policy under a
  timeout and puts the VM back in a goroutine of its own. If the script denies or fails, one
  more goroutine logs or reports it through the blocking client. Users store policies
  through another webhook of the same process, which validates them.
- A reconcile compiles `spec.javascript` into a JsPolicyBundle, then keeps one webhook
  configuration for the policy, or calls the policy manager, and at last patches conditions
  and status. Every write is an event that queues the policy again.
- The policy manager registers a handler for every kind that a policy selects with
  an informer that it shares with other policies and with the scripts themselves, which
  read objects through the same cache. Workers take keys from a queue per policy,
  take a VM from the pool and run the bundle.
- Instances that start agree on one certificate, through a Secret; one of them leads, has the API
  server call it for policies, and runs the reconcilers.
- The cache is behind the API server at all times; only the blocking client narrows this.

What is hard, and so what the properties are about (every hazard has its line in
PROJECT.json):

- *Interleaving*: the pool's semaphore against cancelled requests; goroutines that append to one
  object; handlers, collector and `Update` around informers; users against a reconcile and against
  requests in progress; controllers that patch one status; instances that start together.
- *Timeouts and late answers*: the timer of a script against its result; a poll of the cache
  that gives up on a write that took effect; a lease that expires while its leader's write is on its way.
- *Stale reads*: everything is read from the cache, and the reconciler decides by a hash it saved before.
- *Partial failure*: bundle, conditions and hash are three writes; a lost reply of a Create of a
  randomly named webhook leaves a duplicate.
- *Ends that must come*: the pool's wake-ups, an uncounted retry, a reconciler that triggers itself, instances that
  exit on every conflict and start again.

## 2. Modules

### SandboxPool, VMPool, VMPoolProofs

`SandboxPool` is what the pool promises: sandboxes, each leased to at most one user, cleaned
before it is leased again. `VMPool` is the code: `golang.org/x/sync/semaphore` with its FIFO
of waiters (`Acquire`, `Granted`, `Cancelled`, `NotifyWaiters`, `Release`), the stack (`Pop`,
`Push`), `RunScriptWithTimeout` with the goroutine of the script beside the timer
(`RunScript`, `ScriptReturns`, `ScriptExits`, `ScriptCallsOut`, `CallbackReturns`,
`ScriptTerminated`, `ScriptResult`, `TimeoutFires`, `Drained`), and `Put` (`StartPrepare`,
`Prepared`, `PrepareTimesOut`, `Push`, `Release`). The semaphore's mutex makes each of its
operations one step. What a script computes is left out: it completes, throws, calls
`exit()`, or is terminated, and it may sit in a Go callback, where V8 does not look at
termination requests. `term` is V8's own flag: a request that finds no JavaScript running
is handled by the JavaScript that runs next.

`ImplementsSandboxPool` is the refinement: a sandbox is leased to the request that holds the VM
and clean when its context is fresh or only prepared. `VMPoolRefinement` proves it.

### CacheClient, CacheClientProofs

`CacheClient` models one object as the `history` of its versions and a cache that has `seen`
a prefix of it. A write succeeds, is refused with a conflict, "exists" or "not found", or is
an error that may have taken effect; after a success the client polls (`Polling`) until
`Seen`, or times out with an error. Revisions are numbers, and `TextGeq` compares
them as `blockUpdate` does, digit by digit. A Delete removes the object or, if it has finalizers, marks it
with a deletionTimestamp (`AfterDelete`) until the last of them is taken off (`Finalize`); `blockDelete` is
content with the mark. A `Patch` without a resourceVersion meets no conflict; one with it is an `Update`.
`CreateUnstructured` returns without a poll, as for types that `poll` cannot look up in the cache.
`MCCacheClient` has clients that write without a plan, for the guarantees of the client alone; Admission
and Conditions extend CacheClient.

### Validation, Admission, AuditLog, PolicyReport, AdmissionProofs

`Validation` is the function behind `/crds`: `ValidateJsPolicy` and `ValidateJsPolicyUpdate` with
`validateRule` over lists of resources with their wildcards. `Admission` composes it with the rest:
requests (`Find`, `ServeHTTP`, then the `Goroutine` that logs a denial) and users (`EditPolicy`, which
validation accepts or not, `DeletePolicy`, `RemoveLog`). `Find` has one outcome for everything that is
refused before the policy is executed: body, content type, decoding, path and the Get of the policy; `ServeHTTP` has one for a patch that `Complete` cannot make,
which is an error and no answer of the policy. `spec` is the copy of the policy that a request
read and that its goroutine still uses when the policy has changed. `AuditLog` and `PolicyReport` are
instantiated there, one of them at work, as `ENABLE_POLICY_REPORTS` says: one action for each call of
the client with what follows it, `pc` between them. The clusterwide report is handled like the one of
a namespace, and the status subresource is written like the object. How a script executes is
VMPool's; here it allows, denies, patches or fails.

### Conditions, ConditionsProofs

The conditions of one object under two controllers: the reconciler, which owns its conditions, and one
that owns none. `Begin` reads and marks a copy (`Marked`, the ways through `Reconcile`), with `Set` and
`SetSummary`; `Attempt` is one turn of the loop in `patchStatusConditions`: the latest object from the
cache, `MergeConflict`, `Apply`, and the patch with its version. `Stamped` is the aliasing of the code:
`Set` writes the time of the transition into the difference itself, where the next attempt finds it.
The time is that of a clock of whole seconds (`Tick`), as the code truncates it; any number of versions may be
written within one of them.

### Startup, StartupProofs

Several instances from `main` to the reconcilers: `GetNamespace` to `CreateSecret` are
`EnsureCertSecrets`, `Acquire`, `Renew`, `Reply`, `Tick` and `StopLeading` the leader election, `GetConfig` and
`PutConfig` the configuration with its stale read, `Register` the start of the reconcilers, which are given the CA.
`Init` is an installation or a new start in a cluster where jsPolicy has run before: the secret and the
configuration of that life may be left, of one certificate or of two.
Every error ends the process; it starts again without its files. `Crash` is also the call that takes
effect although the process is gone, and `Land` the write of the configuration that arrives later
still. A certificate is a number; it signs itself.

The lock is written when the server accepts the Update (`WriteLock`); who wrote it learns of it later (`Reply`) or
never (`LoseReply`). `age` is what the candidates count, from the last write; `since` is what a leader counts, from the
last reply. A candidate has no deadline for its Update, so a late reply makes it a leader with most of its
lease over: `slow` is set when a reply has taken so long that the lease may end before its leader does, or when a leader
does not stop on time. Clocks run at one rate, and the lock is not written after its writer has ended.

### PolicyManager, PolicyManagerProofs

`informer`, `lastUsed` and `pending` are the cache (`pkg/cache`) with notifications on their way;
`informers`, `policies`, `made` and `op` the manager with its lock and the calls of Update in
progress; `queue`, `again`, `delayed`, `running` the work queue of each controller
(client-go's `workqueue`: a key in process that is added again is kept for later).
A call of Update begins outside the lock (`CallUpdate`): it waits for the informers that are not in sync at that
moment (`SyncSeen`), and for no later one. Then it fails, when the kinds of the policy cannot be found
(`UpdateFails`), or takes the lock (`Update`); then there is one step for each informer it waits for
(`GetInformerForKind`, holding the lock), one that registers and starts (`StartController`) and
one for each kind that is requeued (`RequeueAll`). A worker drops a key when its Get fails with another error than
"not found" (`Read`); the cache of a controller that is in use has no such error. RequeueAll's own, of a selector that
cannot be parsed, is left out with the selectors. `attempted`, the version that was last
processed, is there for the properties.

### Reconciler, ReconcilerProofs

`server` and `seen` hold the policy, its bundle and its webhooks, in the API server and in the
cache; the parts of the cache lag independently. A reconcile is a sequence of steps `pc`, one for
each write: `Reconcile` reads, `compileBundle` bundles and writes, `DeleteWebhook`, `List`,
`SyncWebhook` or `syncControllerPolicy` follow, then the deferred function with
`patchStatusConditions` (optimistic lock, five tries) and `patchStatus` (no lock). The patch of a configuration
whose rules have changed is refused as invalid: it is sent as a JSON merge patch (`pkg/util/apply/patcher.go:107`) but was
made as a strategic one (line 114), so that it would leave a webhook of nothing but a name and rules. The code then deletes
the configuration (`PatchWebhook`) and creates it again (`RecreateWebhook`, lines 214-219). Each of these
steps ends in what the code does on success, on a refusal and on an error that took effect.
Users, the cache and restarts act between any two steps.

A `scenario` fixes what cannot change (the type of the policy, which validation makes
immutable) and bounds the rest: the sources and rules users choose from, the faults that occur
and how often.

Abstractions: one policy, as reconciles of one policy never overlap (the work queue) and policies
share nothing but the manager; a hash stands for the source that it was made of; random names
never collide; `observedGeneration`, reasons and messages are left out; a policy is not created
again after its deletion; a write that succeeds returns when the cache has it (CacheClient says
when this is so), but for the re-creation of a configuration, which is unstructured.

## 3. Runs

| Run | Instance | States | What it shows |
|---|---|---|---|
| VMPool | 3 requests, 2 VMs | 483 thousand | `ExclusiveVM`, `NoUnrunPolicyPasses`, `NeverPopsNil`, `NoIdlePermit`, the refinement of SandboxPool, and `VMReturns` |
| CacheClient | 2 clients, 5 writes, revisions from 8 | 166 thousand | what a write without an error guarantees: `WritesBlockUntilCached`, `NoLostUpdate` |
| CacheClientText | 1 client, 4 writes | violation | `UpdateBlocksUntilCached`: from revision 9 to 10 it does not |
| Admission | 2 requests, 1 edit, 5 policies, 1 deletion of the log, up to 2 earlier entries, sizes 1 and 2, 2 retries | 592 thousand | `LoggedOnce`, `NothingOverwritten`, `SummaryMatchesResults`, `DenialIsLogged`, `EntryTellsAnswer`, `AcceptedRulesDoNotRepeat`, `RequestEnds` |
| AdmissionFailure | 1 request | violation | `FailurePolicyDecides`: a failed execution is a denial |
| PolicyManager | 2 policies, 2 kinds, 2 controllers, 2 informers of a kind, 2 changes | 281 thousand | `HandlersFollowPolicies`, `NoChangeMissed`, `EveryChangeProcessed`, `EveryUpdateReturns` |
| PolicyManagerInstances | 1 policy, 2 controllers | violation | `OneInstancePerPolicy`: a removed controller works on |
| Reconciler | seven scenarios | 1.9 million | `WebhookFollowsPolicy`, `BundleFollowsSource`, `PhaseTellsFailure`, `ControllerFollowsPolicy`, `LastWebhookStays` |
| ReconcilerLive | two scenarios | 90 thousand | `Settles` |
| ReconcilerStale | one scenario | violation | `ReadyPolicyRuns`: a repaired policy is ready and does not run |
| Conditions | 2 controllers, 2 attempts, begins up to 4 versions, 4 first states, 2 seconds, revisions from 9 | 1.2 million | `OthersKept`, `NothingOverwritten`, `PatchedAsAWhole`, `ReadyIsWorst`, `TimeFollowsState` |
| Startup | 2 instances, lease 4, deadline 1, period 1, 2 failures | 771 thousand | `TrustedInstances`, `OneLeader`, `LeaderConfigured`, `LeaderSettles` |

VMPool, Admission, PolicyManager, Reconciler, Conditions and Startup have one type invariant each, which also ties
their control state to the rest.

Why the bounds suffice:

- VMPool: with 3 requests on 2 VMs one request waits while others are cancelled, time out and return;
  the proofs cover any number of both.
- CacheClient: revisions start at 8, so that they cross from one digit to two; five writes allow
  create, update, delete and create again with a write of the other client in between, and a deletion that
  a finalizer holds up.
- Admission: the log is filled by what is there at the start and two requests, so that it is trimmed under
  concurrency, also by requests that were handled with two sizes; one deletion separates two lives of the
  object; one edit comes between any two steps of a request.
- PolicyManager: `Bounded` in MCPolicyManager joins the smallest instances in which a policy's object comes
  and goes and its informer is made again, a handler is shared by two policies, and kinds are left and joined.
- Reconciler: three names, the one that is kept and two that lost replies can leave; two or three edits,
  so that one can be taken back; two (three) faults. The scenarios of MCReconciler put together
  the faults that interact, as all at once are out of reach.
- Conditions: two attempts are a conflict and a retry; four versions leave room for both controllers to
  patch from copies of different age. Revisions begin at 9, so that the first patch crosses from one digit to
  two, where the blocking client does not wait for it. In two seconds a state changes within one, and from one to
  the next.
- Startup: with two instances a secret is found, deleted and created by both in any order, from every state
  the namespace, the secret and the configuration may be in; two failures let each of them end once, or one
  of them twice. A late reply or a late stop is one of the failures. A lease of 4 leaves replies a time to be slow
  beside the deadline and the period. The proofs cover any number of instances and failures, and any lease.

Where deadlock is not checked the system may stop: every request is answered, every bound is reached.
VMPool checks it: there a request can always be made again.

### Fairness

- VMPool: goroutines run, V8 terminates JavaScript that it was asked to terminate, the timer
  fires. No fairness for a script to complete, nor for a Go callback to return: hence the
  exception in `VMReturns`.
- Admission: the cache receives what the server has (informers watch and relist), and each request and
  its goroutine run. A poll ends by its timeout at the latest.
- PolicyManager: informers sync and deliver, goroutines run, executions end (that is VMPool).
  `Update` has strong fairness, as Go's mutex hands itself over to one that has waited for a
  millisecond. A kind that cannot be listed is excluded by it: then Update holds the lock for ever.
- Startup: instances run and are started again, time passes, a candidate asks for the lease and a leader for
  its renewal every so often, a call is answered at some time (`Reply`), and a leader that cannot renew
  stops (`StopLeading`). Failures, late replies among them, are bounded and have no fairness.
- ReconcilerLive: a worker runs the reconcile, the informers of the three kinds watch.

### What holds only under a condition

TLC finds counterexamples without these conditions, which are therefore part of the properties:

- `BundleFollowsSource`: bundle, conditions and hash are written one after the other. If the patch of the
  status is lost and the edit taken back before the retry, the old hash matches and the bundle
  of the withdrawn edit stays. The same happens when a restart or a failed write comes between, or when
  the conditions stay in conflict for five tries while the hash is saved
  (`pkg/util/patch/helper.go:129` makes the second patch although the first one failed).
- `ControllerFollowsPolicy`: the hash of what was started (`controllerPolicyHash`) is kept when the
  policy is stopped because its bundle does not compile (ReconcilerStale), and when `Update`
  fails; if the status that says so is lost, the next reconcile finds it ready.
- `LastWebhookStays`: no failed call, no user who deletes webhooks, and a policy that is still there; and the gap
  between the Delete and the Create of one configuration is real: for that long the API server does not ask jsPolicy, and
  for rules that it does not accept it does not ask again. If a Create and then the deletion of the duplicate it
  left are both unanswered, List may keep the one that is gone and delete the other.
- `WritesBlockUntilCached`: for a Create if the object was not deleted before, as `blockCreate` takes the
  cached copy of a deleted predecessor for the object it waits for; for an Update or a Patch within a number of digits,
  see CacheClientText, and for a Patch if the object is still the one that was read; after a Delete the object is not in the
  cache or has its deletionTimestamp there; the Create of an unstructured object does not wait at all.
- `NothingOverwritten` of Admission: a log may lose several entries at once when requests were handled with different
  sizes, and a report that was longer than `POLICY_REPORT_MAX_EVENTS` stays so, as one result goes for one that comes.
- `DenialIsLogged`: unless the goroutine met an error, or, for a report, used up its retries.
- `AcceptedRulesDoNotRepeat`: a wildcard of subresources must come before what it selects, and of the entries
  without a subresource only the last one counts against `*` (`pkg/webhook/validation/generic.go:68`
  assigns `hasResourceWithoutSubresource` anew for each of them).
- `ReadyIsWorst`: not when a controller that owns no conditions changes one that Ready sums up, nor when a patch
  returned before the cache had it, without an answer or because the revisions 9 and 10 were compared as text (the
  ghost variable `lost`): the next reconcile computes Ready from a copy that is out of date, and the conditions
  it did not change stay as the patch made them.
- `TrustedInstances`: if at most one instance found an invalid secret. A second one deletes what the first has made of
  it (`pkg/util/secret/store.go` deletes by name), and the first goes on serving with a certificate that
  nobody else knows. The CA of the configuration is the one they serve with only once a leader has written it: until then it may
  be that of an earlier life, whose secret is gone or invalid, and the API server does not trust any instance.
- `OneLeader`: if no reply to a write of the lock takes longer than the lease leaves beside the period and the
  deadline (60 - 15 - 40 = 5 seconds), and a leader stops on time (`~slow`). The leader election says of itself that
  it "does not guarantee that only one client is acting as a leader"
  (`vendor/k8s.io/client-go/tools/leaderelection/leaderelection.go:19`).
- `LeaderConfigured`: the same, or the condition of `TrustedInstances`: two leaders with one certificate write one CA.
- `Settles`: for rules that the API server accepts and for a compiled bundle that no user deletes; otherwise the
  reconciler requeues the policy for ever.

Two more remarks from the models: a termination request that V8 receives just after a script has
completed cuts off the preparation of the next context, and the policy that gets this VM fails
(state "bare" in VMPool, answered with an error and never with an approval: `NoUnrunPolicyPasses`); and
`LogRequest` passes its retry counter on unchanged, so it is called as often as there are conflicts, which
`RequestEnds` shows to be finite for finitely many requests.

### Disagreements between code and documentation

Four runs check what the repository says of itself and find it violated: CacheClientText (the comment of
the blocking client), PolicyManagerInstances (`docs/pages/functions/requeue.mdx`: "at all times only one
instance of this policy is running"), ReconcilerStale ("if controller policy we make sure we are
running it") and AdmissionFailure (`docs/pages/writing-policies/configuration.mdx`: "`Ignore` when jsPolicy fails
to execute the policy or it aborts with a runtime error"). PROJECT.json has the lines.

Met while modelling, each visible in one line and without a run:

- `configuration.mdx:91` writes `violationPolicy` in lower case, validation accepts `Deny`, `Warn` and `Dry` only.
- The default of `auditLogSize` is documented as 10 and is 20; a size of 40 is valid and taken for the default
  (`pkg/webhook/audit.go:66`).
- Failed executions are logged as violations, which the documentation says are requests that lead to `deny()`.
- `list()` of the sandbox returns undefined instead of an empty array (`json:"list,omitempty"`), and its
  label selector ignores `matchExpressions`.

## 4. Proofs

`VMPoolProofs` and `VMPoolRefinement` prove, for every finite set of requests and every non-empty finite set of VMs
(`RequestsAssumption`, `VMsAssumption`, the only assumptions):

- `TypeCorrect`: `Spec => []TypeOK`;
- `PoolNeverPanics`: a request with a permit finds a VM on the stack (`NeverPopsNil`), and no more permits are
  taken than there are VMs (`PermitsWithinSize`);
- `ExclusiveUse`: a VM is used by one request and is not in the pool meanwhile (`ExclusiveVM`);
- `NoLostWakeup`: while a request waits, all permits are taken (`NoIdlePermit`);
- `IsolatedExecution`: a script starts in a context that no policy has used, without a termination request of
  another (`StartsWithoutLeftovers`), and one that did not run is not taken for a pass (`NoUnrunPolicyPasses`);
- `PoolImplements`: `Spec => ImplementsSandboxPool`.

None of these is inductive. `IInv` adds what relates the semaphore to the rest:

- `QueueInv`: the waiters are the requests that wait, each once, and those granted are not among them;
- `PermitInv`: `cur` is the number of requests that own a permit, which is counted from where they are;
- `EveryVMSomewhere`: every VM is on the stack or held, so that a permit without a VM means one on the stack:
  with `PermitInv` and `ExclusiveVM` this is a count of VMs against permits, which proves `NeverPopsNil`;
- `ContextInv`, `TerminationInv`, `AnswerInv`: contexts on the stack are not used, a termination request is pending
  only where its own script or its own preparation absorbs it, and the answer a request reads belongs to its script.

The preservation is one lemma for each action and one step for each conjunct that the action disturbs; facts about
removing a waiter, popping, appending and counting are lemmas of their own. Each theorem is the invariant, by PTL,
and the implication from `IInv`. The refinement needs of it that a VM has one holder (`ExclusiveVM`), so that `Pop` and
`Push` change the lease of one sandbox, and that it is clean at both ends (`ContextInv`); `RunScript` soils, `Prepared`
cleans, `PrepareTimesOut` is a restart, and the other actions change neither `held` nor `ctx`.

`StartupProofs` proves, for every set of instances and every lease with
`RetryPeriod + RenewDeadline < LeaseDuration` (`StartupAssumption`; 15, 40 and 60 seconds in the code):

- `TypeCorrect`: `Spec => []TypeOK`;
- `SingleLeader`: `Spec => []OneLeader`, which has `~slow` as its premise;
- `LeaderIsConfigured`: `Spec => []LeaderConfigured`;
- `InstancesAreTrusted`: `Spec => []TrustedInstances`.

`LeaseInv` says, of behaviours in which nothing was too late so far, that who leads or waits for a reply holds the lock, and
that what it may still go on for, by its own count (`since`), ends before the lease does by that of the others
(`age`): nobody else writes the lock before. `SlowStays` is that what was too late stays so.
`ConfigInv` adds that a write on its way names a version that is not newer than the configuration, and, once a leader
is configured, an older one: a version is written once, so such a write is refused. `LeaderConfigured` alone is not
inductive, as it does not say what is on its way. `TrustInv` is the argument for the certificates: while at most one instance was misled by an
invalid secret, only that one deletes it, and what every instance serves with, what the configuration has once it was written and what
any write on its way has is the certificate in the secret. `CertInv` keeps certificates apart from no secret and from
an invalid one; a new one was never used before.

`PolicyManagerProofs` proves, for every finite set of policies (`ManagerAssumption`) and any number of kinds, controllers,
informers and changes:

- `TypeCorrect`: `Spec => []TypeOK`;
- `HandlersCorrect`: `Spec => []HandlersFollowPolicies`;
- `ChangesCorrect`: `Spec => []NoChangeMissed`.

The invariant is that of the lock, made explicit. `LockInv`: who is in addNoLock or RequeueAll holds the lock, a policy that
is being added does not run, and the informers it has found so far stay; so the handler that it registers with is
alive although the call let go of the processor many times. `HandlerInv`: inside the lock, too, the members of a handler
are exactly the running controllers that select its kind (`MembersInv`), and the informer of a handler lives.
`ChangeInv` says where each change that a controller owes is: queued, in process, notified, or still to be
requeued. The last case needs that the object is in the store of the informer (`ToBeRequeued`), since RequeueAll lists only
what is there; without this conjunct the invariant is too weak to survive RequeueAll. `RoomInv` counts the calls that will
make a controller against `MaxControllers`, the model's bound, which is why the set of policies has to be finite.

`CacheClientProofs` proves for MCCacheClient, for every set of clients:

- `WritesBlock`: `Spec => []WritesBlockUntilCached`;
- `UpdatesLoseNothing`: `Spec => NoLostUpdate`.

The revision of a version tells its place in `history` (`HistoryInv`), so a client that has read a revision has read
one version. Uids are never used again (`UidInv`, by counting the versions at which the object comes or goes): once
a cached object has another uid than the one that was updated, or is gone, that object does not come back. `CallInv`
and `WroteInv` place the version that an open or a finished call has written, and `ReadInv` what it was made of. The proof
needs revisions of at most two digits, as `TextGeq` compares digit by digit (`MaxWritesAssumption`); the result for an update
excludes the step to a greater number of digits, which CacheClientText refutes.

`ConditionsProofs` proves, for every set of controllers, every number of attempts and every first revision of 1 to 90
(`ConditionsAssumption`, `FirstRevisionAssumption`), three properties of the step that stores a patch and three of the states:

- `OthersAreKept`: `Spec => OthersKept`;
- `NothingIsOverwritten`: `Spec => NothingOverwritten`;
- `TimesFollowStates`: `Spec => TimeFollowsState`;
- `TypeCorrect`: `Spec => []TypeOK`;
- `PatchesAreWhole`: `Spec => []PatchedAsAWhole`;
- `ReadyIsTheWorst`: `OneReconciler => (Spec => []ReadyIsWorst)`.

The patch is prepared from the copy in the cache and stored in place of the server's version, so the step only says
what it should if the two are the same. `HistoryInv` gives that: the revision of a version tells its place in `history`,
so equal revisions are one version (`SameVersion`), and a patch that the optimistic lock lets through was prepared from
the server's version (`PatchesLatest`). It also says that the times of a version are not later than the clock, which `Set` reads. `DiffInv` types the difference that a controller carries from
one attempt to the next, whose times `Set` has changed meanwhile (`StampedProperties`). `WholeInv` says that a
controller that waits, or has returned without an error, has a version with all its changes; a patch without changes
needs `Cached` as that version.

`ReadyIsTheWorst` holds for one reconciler (`OneReconciler`: `Reconcilers` has at most one member), which is what leader
election and the work queue give; with two, the later of two patches that were both accepted would be summed up from a
copy without the other. `ReadyInv` follows the reconciler: while it is idle, or between two attempts, the conditions that it
owns are in the server as they are in its cache (`SameFrom(seen)`), because it has waited for its patch and nobody else
changes them; what it is about to patch makes Ready the worst of them, also after the merge with conditions of
others. While it waits, this is true of the version that it waits for. `lost` is the condition under which waiting
was in vain.

`AdmissionProofs` proves, for every set of requests, policies, edits and deletions of the log, every size, number of retries and
number of earlier entries (`AdmissionAssumption`; the earlier entries are of other requests), with Validation,
AuditLog, PolicyReport and CacheClient composed as in the code:

- `TypeCorrect`: `Spec => []TypeOK`;
- `EachIsLoggedOnce`: `Spec => []LoggedOnce`;
- `EntriesAreKept`: `Spec => []NothingOverwritten`;
- `SummariesCount`: `Spec => []SummaryMatchesResults`;
- `DenialsAreLogged`: `Spec => []DenialIsLogged`;
- `EntriesTellAnswers`: `Spec => []EntryTellsAnswer`;
- `RulesDoNotRepeat`: `Spec => []AcceptedRulesDoNotRepeat`.

None is inductive. `HistoryInv`: a revision tells its place, so an update that was accepted was made of the
version before it. `ControlInv`: what a goroutine holds is a version, and a goroutine that has no retry left has met a
conflict. `LoggedOnce` counts the writes of
the log that end in an entry of the request, and so a second copy beside the first. `EntryInv` is the heart: a request has an entry only when its goroutine waits for the cache or has ended, and
there is one version where this entry came; a goroutine that calls again after a conflict has therefore none, and a write
whose answer is lost is not repeated. The entry is the one that follows from the policy that the request was handled
with, which is kept in `spec`, and so is the answer. `ChainInv`: each version is the one before it and the entry of a request whose
size is the one it read. `SummaryInv` counts results by status in both places; adding a result and removing the
oldest change the count of one status each (`CountAdded`). `PolicyInv` carries what validation has accepted (sizes,
violation policies) to where it is used. AuditLog and PolicyReport have the same kinds of steps (look, create, update,
wait, return), which are stated once and proved of both.

`RulesDoNotRepeat` is about the function in Validation: an entry that does not clash with a wildcard of subresources before it
selects a resource, or a subresource, that the wildcard does not (`SelectsMore`, with a witness for each kind of entry).
It needs that a policy is a record with the fields of a spec, which `AdmissionAssumption` says.

`ReconcilerProofs` proves, for any sources, rules, names and scenarios (`ConstantsAssumption`: what stands for nothing is
none of them; `ScenariosAssumption`: a scenario is a record of the fields that Init reads):

- `TypeCorrect`: `Spec => []TypeOK`;
- `WebhooksFollow`: `Spec => []WebhookFollowsPolicy`;
- `BundlesFollow`: `Spec => []BundleFollowsSource`;
- `PhasesTell`: `Spec => []PhaseTellsFailure`;
- `ControllersFollow`: `Spec => []ControllerFollowsPolicy`;
- `LastOneStays`: `Spec => LastWebhookStays`.

The properties speak of a policy that settled; the invariant (`Invariant`: `Spec => []IInv`) says what is true on the way
there. Its basis is one fact about the work queue (`Unqueued`): as long as the policy is not queued, the cache has not changed
since Reconcile has read it. Every clause about a reconcile in progress is therefore under `~queued` (and `~work.again`
where an error would repeat it), and a step that breaks it queues the policy.

- `ReadInv`, `WorkInv`: what a reconcile has read is what the cache has, and where it is tells whether it compiled.
- `RecordInv`: the cache has the conditions after the first patch, and the whole status after the second. The phase is
  right because a reconcile that is not repeated has read the Ready condition that it computes: otherwise its
  first patch changes the cache and queues the policy.
- `WebhookInv`: what the server and the cache both have is among what is left to delete, but for the one that is kept
  (`Remains`); names are used once. A configuration that was listed and is gone does no harm, and one that was
  not listed comes with an event.
- `StopInv`, `RunInv`, `HashInv`: what runs follows from the last reconcile that was not repeated. `HashInv` carries
  the difficult case: the hash of what was last asked for matches and nothing runs. This is so only if the manager has
  failed, and then ControllerReady is false, in the status or on its way to it.
- `StatusInv`: in scenarios that lose no status, cache and server agree on it at any time, also between the two patches.
- `OrderInv`, `BuiltInv`: the compiled condition and the hash in the status imply a bundle of that source (`BuiltFrom`) while no
  reconcile is between its writes. With failed writes or restarts, this is only so if there is at most one edit: then the
  source that the hash names is either the current one or withdrawn for good (`Withdrawn`).
- `EnforceInv`: while users delete no webhooks, no call has failed and the policy exists, every configuration in the cache is in
  the server, and so is the one that is kept while duplicates are deleted. A configuration that was created anew may be in the
  server only: the reconcile that misses it creates a duplicate, and a later one cleans up.

The actions are turned first into facts about the fields they change (`CompileStep`, `SyncStep`, `ConditionsStep` and so
on), so that a conjunct is proved from what a step does and not from the EXCEPTs of the model.

Model-checked and not proved:

- liveness under fairness (`VMReturns`, `RequestEnds`, `EveryChangeProcessed`, `EveryUpdateReturns`, `Settles`,
  `LeaderSettles`), which TLAPS does not reach, as it does not reach ENABLED.

Induction over data and recursive operators are out of its reach too; the modules have no RECURSIVE operator, `Digits` is
bounded and has none either.

## 5. Not modelled

- *Shutdown* of the policy manager and *selectors* of its event handlers (which events reach a policy), indexes of the cache.
- *The functions of the sandbox* (`get`, `list`, `create`, `update`, `remove`, `fetch`, `env`, `readFile`, `atob`): each converts
  its arguments and makes one call; VMPool has them as a callback that may not return.
- *Flags, environment, metrics and the wiring of clients* in `main`: no state of their own.
- *Bundler*: npm and webpack in a child process, abstracted to success or failure.
- *SetMirror, SetAggregate and the step counter* of conditions: nobody calls them.
- *API types, generated clients, helpers*: no state.
- *A bundle that a user deletes* (`pkg/controllers/jspolicy.go:236`) and *rules that the API server does not accept*
  (`pkg/util/apply/patcher.go:219`) are modelled, in scenarios of Reconciler, without a property of their own: no
  document says what should happen.
- *`UPDATE_WEBHOOK=false`*, with which a leader does not write the configuration, and a write of the lock that arrives after
  its writer has ended.

## 6. Plan

Done, in this order: SandboxPool and VMPool with proofs; CacheClient, AuditLog, PolicyReport; PolicyManager;
Reconciler; Validation and Admission; Conditions; Startup with proofs; the refinement of SandboxPool; proofs about
patches, certificates, the policy manager, the blocking client, Ready, the log of denied requests, validation and the
reconciler.

Every invariant and every action property of the passing runs has its theorem; the four that are violated and the
liveness properties have none. Next:

1. Refinements: what one reconcile promises as an abstract specification of the status, and Admission's log as a
   bag of entries that is only added to and trimmed.
2. Lemmas that carry the liveness properties as far as TLAPS reaches: a measure for each bounded retry.
