---------------------------- MODULE PolicyManager ----------------------------
(***************************************************************************)
(* Controller policies (pkg/controller) on the informer cache (pkg/cache).   *)
(*                                                                         *)
(* The manager starts one policy controller, with a work queue and a worker, *)
(* per controller policy, and one handler per kind, registered on the        *)
(* informer of that kind, which puts the key of every changed object into    *)
(* the queues of its policies.  Informers are started on demand and a        *)
(* garbage collector stops those that nobody used for a while.  Reconcilers  *)
(* call Update and Delete, at most one per policy at a time.                 *)
(*                                                                         *)
(* One object of each kind is modelled, so that the key of an object is its  *)
(* kind; it exists in its odd versions.                                      *)
(***************************************************************************)
EXTENDS Integers, Sequences, FiniteSets

CONSTANTS Policies,       \* names of the controller policies
          Kinds,          \* group version kinds
          None,           \* no policy, no kind, no controller
          Rescheduling,   \* the policies that may call requeue()
          ReadByScripts,  \* the kinds that policies read when they are executed
          MaxControllers, \* bound on policy controllers ever made
          MaxVersion,     \* bound on the changes of an object
          MaxInformers    \* bound on the informers ever made for a kind

ASSUME ManagerAssumption ==
    /\ MaxControllers \in Nat /\ MaxVersion \in Nat /\ MaxInformers \in Nat
    /\ None \notin Policies \cup Kinds \cup Nat
    /\ IsFiniteSet(Policies)

Controllers == 1 .. MaxControllers

VARIABLES
    exists,    \* whether a policy is in the cache of JsPolicies
    version,   \* the version of each object in the API server
    informer,  \* the informer of each kind in the cache
    lastUsed,  \* "never", "recent" or "old"
    pending,   \* notifications that wait for the handler of each kind
    policiesLock,
    informers, \* the handler of each kind
    policies,  \* the running controller of each policy
    made,      \* the controllers made so far
    op,        \* the call of Update by the reconciler of each policy
    queue,     \* keys in the work queue of each controller
    again,     \* the key in process was added again
    delayed,   \* keys that AddRateLimited holds back
    running,   \* the key in process
    attempted  \* the version of each object that was last processed

cacheVars == <<version, informer, lastUsed>>
managerVars == <<policiesLock, informers, policies, made, op>>
queueVars == <<queue, again, delayed, running, attempted>>
vars == <<exists, cacheVars, pending, managerVars, queueVars>>

Exists(v) == v % 2 = 1

\* The id of an informer counts the informers made for its kind.
NoInformer == [id |-> 0, alive |-> FALSE, synced |-> FALSE, store |-> 0]
NoHandler == [informer |-> 0, members |-> {}]
NoCall == [step |-> "idle", kinds |-> {}, todo |-> {}]
NoKey == [key |-> None, read |-> FALSE]

Init ==
    /\ exists = [p \in Policies |-> TRUE]
    /\ version \in [Kinds -> {0, 1}]
    /\ informer = [k \in Kinds |-> NoInformer]
    /\ lastUsed = [k \in Kinds |-> "never"]
    /\ pending = [k \in Kinds |-> 0]
    /\ policiesLock = None
    /\ informers = [k \in Kinds |-> NoHandler]
    /\ policies = [p \in Policies |-> None]
    /\ made = << >>
    /\ op = [p \in Policies |-> NoCall]
    /\ queue = [c \in Controllers |-> << >>]
    /\ again = [c \in Controllers |-> FALSE]
    /\ delayed = [c \in Controllers |-> {}]
    /\ running = [c \in Controllers |-> NoKey]
    /\ attempted = [c \in Controllers |-> [k \in Kinds |-> 0]]

-----------------------------------------------------------------------------
(* The informer cache.                                                      *)

Ready(k) == informer[k].alive /\ informer[k].synced

\* addInformerToMap, by whoever gets the informer of k first.
AddInformerToMap(k) ==
    /\ ~informer[k].alive
    /\ informer[k].id < MaxInformers
    /\ informer' = [informer EXCEPT ![k] =
                        [id |-> @.id + 1, alive |-> TRUE, synced |-> FALSE, store |-> 0]]

\* update: the informer was read.
Used(k) == lastUsed' = [lastUsed EXCEPT ![k] = "recent"]

\* Calls of Update that are in WaitForCacheSync do not wait for k any longer.
SyncSeen(k) ==
    op' = [p \in Policies |-> IF op[p].step = "sync" THEN [op[p] EXCEPT !.todo = @ \ {k}] ELSE op[p]]

\* The first list of an informer: it has no handler before it is synced.
Sync(k) ==
    /\ informer[k].alive /\ ~informer[k].synced
    /\ informer' = [informer EXCEPT ![k] =
                        [id |-> @.id, alive |-> TRUE, synced |-> TRUE, store |-> version[k]]]
    /\ SyncSeen(k)
    /\ UNCHANGED <<exists, version, lastUsed, pending, policiesLock, informers, policies, made, queueVars>>

Listens(k) == informer[k].alive /\ informers[k].informer = informer[k].id

\* The watch updates the store, a relist to the current version, and then notifies.
Watch(k) ==
    /\ Ready(k)
    /\ \E v \in informer[k].store + 1 .. version[k] :
          /\ informer' = [informer EXCEPT ![k].store = v]
          /\ pending' = IF Listens(k) /\ (Exists(v) \/ Exists(informer[k].store))
                        THEN [pending EXCEPT ![k] = @ + 1] ELSE pending
    /\ UNCHANGED <<exists, version, lastUsed, managerVars, queueVars>>

\* A policy that is executed reads objects of kind k.
ScriptReads(k) ==
    /\ k \in ReadByScripts
    /\ \/ AddInformerToMap(k) /\ UNCHANGED lastUsed
       \/ Ready(k) /\ Used(k) /\ UNCHANGED informer
    /\ UNCHANGED <<exists, version, pending, managerVars, queueVars>>

\* The cleanup period of an informer passes without a read; the bound leaves room for
\* the informer that may be made after it.
Expire(k) ==
    /\ lastUsed[k] = "recent"
    /\ informer[k].id < MaxInformers
    /\ lastUsed' = [lastUsed EXCEPT ![k] = "old"]
    /\ UNCHANGED <<exists, version, informer, pending, managerVars, queueVars>>

\* The informers of pkg/cache: all but those in exclude that were not read for long.
GarbageCollect(exclude) ==
    LET old == {k \in Kinds \ exclude : lastUsed[k] = "old"}
    IN /\ informer' = [k \in Kinds |->
                          IF k \in old
                          THEN [NoInformer EXCEPT !.id = informer[k].id]
                          ELSE informer[k]]
       /\ lastUsed' = [k \in Kinds |-> IF k \in old THEN "never" ELSE lastUsed[k]]
       /\ pending' = [k \in Kinds |-> IF k \in old THEN 0 ELSE pending[k]]

-----------------------------------------------------------------------------
(* Work queues.                                                             *)

InQueue(c, k) == \E i \in 1 .. Len(queue[c]) : queue[c][i] = k

\* queue.Add(k) of the controllers in cs: a key is queued once, and again after
\* it was processed if it was added while it was.
Enqueue(cs, k) ==
    /\ again' = [c \in Controllers |-> again[c] \/ (c \in cs /\ running[c].key = k)]
    /\ queue' = [c \in Controllers |->
                    IF c \in cs /\ running[c].key # k /\ ~InQueue(c, k)
                    THEN Append(queue[c], k) ELSE queue[c]]

\* The worker of a controller takes a key.  It goes on doing so when the context
\* of the controller is cancelled: Until is only left when the queue shuts down,
\* and the queue is only shut down when Until is left.
Take(c) ==
    /\ running[c].key = None
    /\ queue[c] # << >>
    /\ running' = [running EXCEPT ![c] = [key |-> Head(queue[c]), read |-> FALSE]]
    /\ queue' = [queue EXCEPT ![c] = Tail(@)]
    /\ UNCHANGED <<exists, cacheVars, pending, managerVars, again, delayed, attempted>>

\* queue.Done
Done(c) ==
    /\ running' = [running EXCEPT ![c] = NoKey]
    /\ again' = [again EXCEPT ![c] = FALSE]
    /\ queue' = IF again[c] THEN [queue EXCEPT ![c] = Append(@, running[c].key)] ELSE queue

\* process reads the policy, which may be gone, and the object, whose informer is
\* started if need be.  That fails if the kind is unknown, or if the context of the controller
\* ends the wait: an error, after which the key is dropped.
Read(c) ==
    LET k == running[c].key
    IN /\ k # None /\ ~running[c].read
       /\ \/ /\ ~exists[made[c].policy]
             /\ Done(c)
             /\ UNCHANGED <<informer, lastUsed, attempted>>
          \/ /\ exists[made[c].policy]
             /\ AddInformerToMap(k)
             /\ UNCHANGED <<lastUsed, queue, again, running, attempted>>
          \/ /\ exists[made[c].policy]
             /\ ~Ready(k)
             /\ Done(c)
             /\ UNCHANGED <<informer, lastUsed, attempted>>
          \/ /\ exists[made[c].policy]
             /\ Ready(k) /\ Used(k)
             /\ running' = [running EXCEPT ![c].read = TRUE]
             /\ attempted' = [attempted EXCEPT ![c][k] = informer[k].store]
             /\ UNCHANGED <<informer, queue, again>>
    /\ UNCHANGED <<exists, version, pending, managerVars, delayed>>

\* The policy has run: it is done, it failed, which is ignored, or it has asked to
\* be rescheduled.
Processed(c) ==
    /\ running[c].read
    /\ Done(c)
    /\ \/ UNCHANGED delayed
       \/ /\ made[c].policy \in Rescheduling
          /\ delayed' = [delayed EXCEPT ![c] = @ \cup {running[c].key}]
    /\ UNCHANGED <<exists, cacheVars, pending, managerVars, attempted>>

\* The delay of AddRateLimited is over.
Reschedule(c) ==
    \E k \in delayed[c] :
        /\ delayed' = [delayed EXCEPT ![c] = @ \ {k}]
        /\ Enqueue({c}, k)
        /\ UNCHANGED <<exists, cacheVars, pending, managerVars, running, attempted>>

\* Mutant: deletions are not handled.
NotifyNoDelete(k) ==
    /\ pending[k] > 0
    /\ Listens(k)
    /\ pending' = [pending EXCEPT ![k] = @ - 1]
    /\ Enqueue({c \in informers[k].members : exists[made[c].policy] /\ Exists(informer[k].store)}, k)
    /\ UNCHANGED <<exists, cacheVars, managerVars, delayed, running, attempted>>

\* The handler of k is notified, of an addition, an update or a deletion.
Notify(k) ==
    /\ pending[k] > 0
    /\ Listens(k)
    /\ pending' = [pending EXCEPT ![k] = @ - 1]
    /\ Enqueue({c \in informers[k].members : exists[made[c].policy]}, k)
    /\ UNCHANGED <<exists, cacheVars, managerVars, delayed, running, attempted>>

-----------------------------------------------------------------------------
(* The manager.                                                             *)

Step(p, step, kinds, todo) ==
    op' = [op EXCEPT ![p] = [step |-> step, kinds |-> kinds, todo |-> todo]]

\* Update or addNoLock has handled kind k.
Advance(p, k) == op' = [op EXCEPT ![p].todo = @ \ {k}]

Lock(p) == policiesLock = None /\ policiesLock' = p

\* Mutant: the lock is not given back.
ReturnKeepsLock(p) == op' = [op EXCEPT ![p] = NoCall] /\ UNCHANGED policiesLock

Return(p) == op' = [op EXCEPT ![p] = NoCall] /\ policiesLock' = None

Called == {p \in Policies : op[p] # NoCall}

\* The reconciler calls Update, with the kinds that gvksFromPolicy will find; it waits for the
\* informers that are not synced at this moment.  The bound leaves room for the controller that
\* the call may make.
CallUpdate(p) ==
    /\ op[p] = NoCall
    /\ exists[p]
    /\ Len(made) + Cardinality(Called) < MaxControllers
    /\ \E kinds \in (SUBSET Kinds) \ {{}} :
          Step(p, "sync", kinds, {k \in Kinds : informer[k].alive /\ ~informer[k].synced})
    /\ UNCHANGED <<exists, cacheVars, pending, policiesLock, informers, policies, made, queueVars>>

Without(hs, p) ==
    [k \in Kinds |-> [hs[k] EXCEPT !.members = {c \in @ : made[c].policy # p}]]

\* RemovePolicy on every handler; cancelling the context has no effect (see Take).
deleteNoLock(p) ==
    /\ policies' = [policies EXCEPT ![p] = None]
    /\ informers' = Without(informers, p)

\* gvksFromPolicy finds no kinds, or cannot tell.
UpdateFails(p) ==
    /\ op[p].step = "sync" /\ op[p].todo = {}
    /\ op' = [op EXCEPT ![p] = NoCall]
    /\ UNCHANGED <<exists, cacheVars, pending, policiesLock, informers, policies, made, queueVars>>

\* Update takes the lock.  A new policy is added, one with other kinds is removed and added, for
\* one with the same kinds all objects are requeued.
Update(p) ==
    /\ op[p].step = "sync" /\ op[p].todo = {}
    /\ Lock(p)
    /\ \/ /\ policies[p] = None
          /\ Step(p, "informers", op[p].kinds, op[p].kinds)
          /\ UNCHANGED <<informers, policies>>
       \/ /\ policies[p] # None
          /\ made[policies[p]].kinds = op[p].kinds
          /\ Step(p, "requeue", op[p].kinds, op[p].kinds)
          /\ UNCHANGED <<informers, policies>>
       \/ /\ policies[p] # None
          /\ made[policies[p]].kinds # op[p].kinds
          /\ deleteNoLock(p)
          /\ Step(p, "informers", op[p].kinds, op[p].kinds)
    /\ UNCHANGED <<exists, cacheVars, pending, made, queueVars>>

\* addNoLock: the handler of each kind is there, or its informer is got, which
\* waits until it is synced, and a handler registered; or the informer fails.
GetInformerForKind(p) ==
    /\ op[p].step = "informers"
    /\ \E k \in op[p].todo :
          \/ /\ informers[k] # NoHandler
             /\ Advance(p, k)
             /\ UNCHANGED <<informer, pending, policiesLock, informers>>
          \/ /\ informers[k] = NoHandler
             /\ AddInformerToMap(k)
             /\ UNCHANGED <<pending, policiesLock, informers, op>>
          \/ /\ informers[k] = NoHandler
             /\ Ready(k)
             /\ informers' = [informers EXCEPT ![k] = [informer |-> informer[k].id, members |-> {}]]
             /\ pending' = [pending EXCEPT ![k] = IF Exists(informer[k].store) THEN 1 ELSE 0]
             /\ Advance(p, k)
             /\ UNCHANGED <<informer, policiesLock>>
          \/ /\ informers[k] = NoHandler /\ ~informer[k].alive
             /\ Return(p)
             /\ UNCHANGED <<informer, pending, informers>>
    /\ UNCHANGED <<exists, version, lastUsed, policies, made, queueVars>>

\* Mutant: the policy is added to no handler that was there before.
AddPolicyToNew(c, kinds) ==
    informers' = [k \in Kinds |->
                     IF k \in kinds /\ informers[k].members = {}
                     THEN [informers[k] EXCEPT !.members = {c}] ELSE informers[k]]

AddPolicy(c, kinds) ==
    informers' = [k \in Kinds |->
                     IF k \in kinds THEN [informers[k] EXCEPT !.members = @ \cup {c}] ELSE informers[k]]

\* addNoLock goes on: a new controller is added to the handlers and started.
StartController(p) ==
    LET c == Len(made) + 1
    IN /\ op[p].step = "informers"
       /\ op[p].todo = {}
       /\ made' = Append(made, [policy |-> p, kinds |-> op[p].kinds])
       /\ AddPolicy(c, op[p].kinds)
       /\ policies' = [policies EXCEPT ![p] = c]
       /\ Step(p, "requeue", op[p].kinds, op[p].kinds)
       /\ UNCHANGED <<exists, cacheVars, pending, policiesLock, queueVars>>

\* RequeueAll lists the objects of each kind and adds them to the queue, unless the
\* policy is gone.
RequeueAll(p) ==
    /\ op[p].step = "requeue"
    /\ exists[p]
    /\ \E k \in op[p].todo :
          /\ Ready(k) /\ Used(k)
          /\ IF Exists(informer[k].store) THEN Enqueue({policies[p]}, k) ELSE UNCHANGED <<queue, again>>
          /\ Advance(p, k)
    /\ UNCHANGED <<exists, version, informer, pending, policiesLock, informers, policies, made,
                    delayed, running, attempted>>

UpdateReturns(p) ==
    /\ op[p].step = "requeue"
    /\ op[p].todo = {} \/ ~exists[p]
    /\ Return(p)
    /\ UNCHANGED <<exists, cacheVars, pending, informers, policies, made, queueVars>>

\* Delete, in the lock: the policy is gone or does not compile any more.
Delete(p) ==
    /\ op[p] = NoCall
    /\ policiesLock = None
    /\ policies[p] # None
    /\ deleteNoLock(p)
    /\ UNCHANGED <<exists, cacheVars, pending, policiesLock, made, op, queueVars>>

\* Mutant: informers are collected whether or not policies use them.
CollectAll ==
    /\ policiesLock = None
    /\ informers' = [k \in Kinds |-> IF informers[k].members = {} THEN NoHandler ELSE informers[k]]
    /\ GarbageCollect({})
    /\ UNCHANGED <<exists, version, policiesLock, policies, made, op, queueVars>>

\* Every minute, in the lock: handlers without policies go, and informers that are
\* not used, neither by a handler nor by a reader.
garbageCollectInformers ==
    /\ policiesLock = None
    /\ informers' = [k \in Kinds |-> IF informers[k].members = {} THEN NoHandler ELSE informers[k]]
    /\ GarbageCollect({k \in Kinds : informers[k].members # {}})
    /\ UNCHANGED <<exists, version, policiesLock, policies, made, op, queueVars>>

-----------------------------------------------------------------------------

\* Objects change, and a policy is deleted for good.
ChangeObject(k) ==
    /\ version[k] < MaxVersion
    /\ version' = [version EXCEPT ![k] = @ + 1]
    /\ UNCHANGED <<exists, informer, lastUsed, pending, managerVars, queueVars>>

DeletePolicy(p) ==
    /\ exists[p]
    /\ exists' = [exists EXCEPT ![p] = FALSE]
    /\ UNCHANGED <<cacheVars, pending, managerVars, queueVars>>

Manager(p) ==
    \/ Update(p)
    \/ GetInformerForKind(p)
    \/ StartController(p)
    \/ RequeueAll(p)
    \/ UpdateReturns(p)

Worker(c) == Take(c) \/ Read(c) \/ Processed(c)

Next ==
    \/ \E k \in Kinds :
          Sync(k) \/ Watch(k) \/ Notify(k) \/ ScriptReads(k) \/ Expire(k) \/ ChangeObject(k)
    \/ \E p \in Policies : CallUpdate(p) \/ UpdateFails(p) \/ Manager(p) \/ Delete(p) \/ DeletePolicy(p)
    \/ \E c \in 1 .. Len(made) : Worker(c) \/ Reschedule(c)
    \/ garbageCollectInformers

Spec == Init /\ [][Next]_vars

\* Informers sync and go on watching, goroutines run, Go's mutex starves nobody, and a
\* policy that is executed ends, which is what VMPool is about.
FairSpec ==
    /\ Spec
    /\ \A k \in Kinds : WF_vars(Sync(k)) /\ WF_vars(Watch(k)) /\ WF_vars(Notify(k))
    /\ \A p \in Policies : SF_vars(Update(p)) /\ WF_vars(Manager(p))
    /\ \A c \in Controllers : WF_vars(c <= Len(made) /\ Worker(c))

-----------------------------------------------------------------------------
(* Properties.                                                              *)

IsRunning(c) == c \in 1 .. Len(made) /\ policies[made[c].policy] = c

TypeOK ==
    /\ policiesLock \in Policies \cup {None}
    /\ Len(made) <= MaxControllers
    /\ \A p \in Policies :
          /\ policies[p] = None \/ (policies[p] \in 1 .. Len(made) /\ made[policies[p]].policy = p)
          /\ op[p].step \in {"idle", "sync", "informers", "requeue"}
          /\ op[p].step \in {"informers", "requeue"} <=> policiesLock = p
          /\ op[p].step # "sync" => op[p].todo \subseteq op[p].kinds
    /\ \A k \in Kinds : informer[k].store <= version[k]

\* A handler is registered on the informer that the cache has and that is synced.
HandlersOnLiveInformers ==
    \A k \in Kinds : informers[k] # NoHandler => Listens(k) /\ informer[k].synced

\* Outside the lock the handlers serve the running policies, each for all its kinds.
HandlersServeRunningPolicies ==
    policiesLock = None =>
        \A k \in Kinds :
            informers[k].members = {c \in 1 .. Len(made) : IsRunning(c) /\ k \in made[c].kinds}

\* However policies come, go and change their kinds, the collector never stops an informer under
\* a handler, RequeueAll, which may run before Start has set the context of its controller, never
\* waits for a sync, no running policy lacks a handler, and nothing is added to the queue of one
\* that was deleted.
HandlersFollowPolicies == HandlersOnLiveInformers /\ HandlersServeRunningPolicies

\* The controller has yet to process the version of the object that the cache holds:
\* it is there and was not processed, or was processed and is there no more.
Owes(c, k) ==
    /\ attempted[c][k] # informer[k].store
    /\ Exists(informer[k].store) \/ Exists(attempted[c][k])

\* A key that will be processed, at the object's state of that time.
Scheduled(c, k) ==
    \/ InQueue(c, k)
    \/ running[c].key = k /\ (again[c] \/ ~running[c].read)
    \/ pending[k] > 0

\* No change is missed, however notifications, the start of a policy, the requeue of
\* all objects and the collector interleave: while its policy exists, what a running
\* controller owes is on its way to its worker.
NoChangeMissed ==
    \A c \in 1 .. Len(made) :
        IsRunning(c) /\ exists[made[c].policy] =>
            \A k \in made[c].kinds :
                \/ ~Owes(c, k)
                \/ Scheduled(c, k)
                \/ op[made[c].policy].step = "requeue" /\ k \in op[made[c].policy].todo

\* The worker of c has not processed the object as it is in the API server.
Behind(c, k) ==
    /\ attempted[c][k] # version[k]
    /\ Exists(version[k]) \/ Exists(attempted[c][k])

\* Every change of an object reaches the policies that run for its kind, until none that exists
\* is behind any more.
EveryChangeProcessed ==
    <>[](\A c \in 1 .. Len(made) : \A k \in made[c].kinds :
            IsRunning(c) /\ exists[made[c].policy] => ~Behind(c, k))

\* A reconciler that calls Update is not held up for ever.
EveryUpdateReturns == \A p \in Policies : op[p] # NoCall ~> op[p] = NoCall

\* requeue.mdx: "JsPolicy makes sure that at all times only one instance of this policy
\* is running, so you don't have to fear race conditions".
OneInstancePerPolicy ==
    \A c, d \in 1 .. Len(made) :
        c # d /\ made[c].policy = made[d].policy => ~(running[c].read /\ running[d].read)
=============================================================================
