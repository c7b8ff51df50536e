------------------------ MODULE PolicyManagerProofs ------------------------
(***************************************************************************)
(* The handlers of the informers serve exactly the policies that run, on     *)
(* informers that live, and no change of an object is missed: for any number *)
(* of policies, kinds, controllers and changes.                              *)
(***************************************************************************)
EXTENDS PolicyManager, FiniteSetTheorems, SequenceTheorems, TLAPS

-----------------------------------------------------------------------------
(* Types.                                                                   *)

Informer == [id : Nat, alive : BOOLEAN, synced : BOOLEAN, store : Nat]

\* An informer that is there has a number, which no handler has that is not there.
InformerTypes ==
    /\ version \in [Kinds -> Nat]
    /\ informer \in [Kinds -> Informer]
    /\ pending \in [Kinds -> Nat]
    /\ \A k \in Kinds : /\ informer[k].store <= version[k]
                        /\ informer[k].alive => informer[k].id # 0

Controller == [policy : Policies, kinds : SUBSET Kinds]
UpdateCall == [step : {"idle", "sync", "informers", "requeue"}, kinds : SUBSET Kinds, todo : SUBSET Kinds]

ManagerTypes ==
    /\ exists \in [Policies -> BOOLEAN]
    /\ policiesLock \in Policies \cup {None}
    /\ informers \in [Kinds -> [informer : Nat, members : SUBSET Nat]]
    /\ policies \in [Policies -> Nat \cup {None}]
    /\ made \in Seq(Controller) /\ Len(made) \in Nat
    /\ op \in [Policies -> UpdateCall]

QueueTypes ==
    /\ queue \in [Controllers -> Seq(Kinds)]
    /\ again \in [Controllers -> BOOLEAN]
    /\ delayed \in [Controllers -> SUBSET Kinds]
    /\ running \in [Controllers -> [key : Kinds \cup {None}, read : BOOLEAN]]
    /\ attempted \in [Controllers -> [Kinds -> Nat]]
    /\ \A c \in Controllers : running[c].read => running[c].key # None

-----------------------------------------------------------------------------
(* The inductive invariant.                                                 *)

\* There is room for the controllers that calls of Update may yet make.
Starting == {p \in Policies : op[p].step \in {"sync", "informers"}}
RoomInv == Len(made) + Cardinality(Starting) <= MaxControllers

\* Who holds the lock; and what addNoLock has found so far stays as it is.
LockOf(p) ==
    /\ op[p].step \in {"informers", "requeue"} <=> policiesLock = p
    /\ op[p].step # "sync" => op[p].todo \subseteq op[p].kinds
    /\ op[p].step = "informers" =>
          policies[p] = None /\ \A k \in op[p].kinds \ op[p].todo : informers[k] # NoHandler
    /\ policies[p] # None => policies[p] \in 1 .. Len(made) /\ made[policies[p]].policy = p

LockInv == \A p \in Policies : LockOf(p)

\* Inside the lock, too, the handlers serve the running policies.
Serves(c, k) == c \in 1 .. Len(made) /\ IsRunning(c) /\ k \in made[c].kinds
MembersInv == \A k \in Kinds : \A c \in Nat : c \in informers[k].members <=> Serves(c, k)

HandlerInv == HandlersOnLiveInformers /\ MembersInv

\* RequeueAll, which lists what there is, has yet to come to the object.
ToBeRequeued(c, k) ==
    /\ op[made[c].policy].step = "requeue"
    /\ k \in op[made[c].policy].todo
    /\ Exists(informer[k].store)

\* A controller that was not made has processed nothing.
NewControllers == \A c \in Controllers : c > Len(made) => \A k \in Kinds : attempted[c][k] = 0

Misses(c, k) == Serves(c, k) /\ exists[made[c].policy] /\ Owes(c, k)

ChangeInv ==
    /\ NewControllers
    /\ \A c \in Nat, k \in Kinds : Misses(c, k) => Scheduled(c, k) \/ ToBeRequeued(c, k)

-----------------------------------------------------------------------------
(* Work queues.                                                             *)

\* What is queued stays queued, and the key that is added is queued, or will be when the worker
\* is done with it.
LEMMA EnqueueProperties ==
    ASSUME QueueTypes, NEW cs, NEW k \in Kinds, Enqueue(cs, k)
    PROVE  /\ queue' \in [Controllers -> Seq(Kinds)] /\ again' \in [Controllers -> BOOLEAN]
           /\ \A c \in Controllers :
                 /\ again[c] => again'[c]
                 /\ \A l \in Kinds : InQueue(c, l) => InQueue(c, l)'
                 /\ c \in cs => InQueue(c, k)' \/ (running[c].key = k /\ again'[c])
<1>1. again' \in [Controllers -> BOOLEAN] /\ \A c \in Controllers : again[c] => again'[c]
  BY DEF Enqueue, QueueTypes
<1>2. ASSUME NEW c \in Controllers
      PROVE  /\ queue'[c] \in Seq(Kinds)
             /\ \A l \in Kinds : InQueue(c, l) => InQueue(c, l)'
             /\ c \in cs => InQueue(c, k)' \/ (running[c].key = k /\ again'[c])
  <2>1. queue[c] \in Seq(Kinds)
    BY DEF QueueTypes
  <2>2. CASE c \in cs /\ running[c].key # k /\ ~InQueue(c, k)
    <3>1. queue'[c] = Append(queue[c], k)
      BY <2>2 DEF Enqueue
    <3>2. /\ queue'[c] \in Seq(Kinds) /\ Len(queue'[c]) = Len(queue[c]) + 1
          /\ queue'[c][Len(queue[c]) + 1] = k
          /\ \A i \in 1 .. Len(queue[c]) : queue'[c][i] = queue[c][i]
      BY <2>1, <3>1, AppendProperties
    <3>3. Len(queue[c]) \in Nat
      BY <2>1
    <3> QED BY <3>2, <3>3 DEF InQueue
  <2>3. CASE ~(c \in cs /\ running[c].key # k /\ ~InQueue(c, k))
    <3>1. queue'[c] = queue[c]
      BY <2>3 DEF Enqueue
    <3>2. c \in cs /\ running[c].key = k => again'[c]
      BY DEF Enqueue
    <3> QED BY <2>1, <2>3, <3>1, <3>2 DEF InQueue
  <2> QED BY <2>2, <2>3
<1>3. queue' \in [Controllers -> Seq(Kinds)]
  BY <1>2 DEF Enqueue
<1> QED BY <1>1, <1>2, <1>3

\* The worker is done with a key: it is queued again if it was added meanwhile.
LEMMA DoneProperties ==
    ASSUME QueueTypes, NEW c \in Controllers, NEW k \in Kinds, running[c].key = k, Done(c)
    PROVE  /\ queue' \in [Controllers -> Seq(Kinds)] /\ again' \in [Controllers -> BOOLEAN]
           /\ running' \in [Controllers -> [key : Kinds \cup {None}, read : BOOLEAN]] /\ ~running'[c].read
           /\ \A d \in Controllers \ {c} : queue'[d] = queue[d] /\ again'[d] = again[d] /\ running'[d] = running[d]
           /\ \A l \in Kinds : InQueue(c, l) => InQueue(c, l)'
           /\ again[c] => InQueue(c, k)'
<1>1. NoKey \in [key : Kinds \cup {None}, read : BOOLEAN]
  BY DEF NoKey
<1>2. queue[c] \in Seq(Kinds)
  BY DEF QueueTypes
<1>3. CASE again[c]
  <2>1. queue' = [queue EXCEPT ![c] = Append(@, k)]
    BY <1>3 DEF Done
  <2>2. queue'[c] = Append(queue[c], k)
    BY <2>1 DEF QueueTypes
  <2>3. /\ queue'[c] \in Seq(Kinds) /\ Len(queue'[c]) = Len(queue[c]) + 1
        /\ queue'[c][Len(queue[c]) + 1] = k
        /\ \A i \in 1 .. Len(queue[c]) : queue'[c][i] = queue[c][i]
    BY <1>2, <2>2, AppendProperties
  <2>4. Len(queue[c]) \in Nat
    BY <1>2
  <2>5. InQueue(c, k)' /\ \A l \in Kinds : InQueue(c, l) => InQueue(c, l)'
    BY <2>3, <2>4 DEF InQueue
  <2>6. queue' \in [Controllers -> Seq(Kinds)]
    BY <2>1, <2>2, <2>3 DEF QueueTypes
  <2> QED BY <1>1, <2>1, <2>5, <2>6 DEF Done, NoKey, QueueTypes
<1>4. CASE ~again[c]
  BY <1>1, <1>4 DEF Done, NoKey, QueueTypes, InQueue
<1> QED BY <1>3, <1>4

\* The worker takes the first key; the others stay queued.
LEMMA TakeProperties ==
    ASSUME QueueTypes, NEW c \in Controllers, Take(c)
    PROVE  /\ queue' \in [Controllers -> Seq(Kinds)]
           /\ running' \in [Controllers -> [key : Kinds \cup {None}, read : BOOLEAN]]
           /\ \A d \in Controllers \ {c} : queue'[d] = queue[d] /\ running'[d] = running[d]
           /\ ~running'[c].read
           /\ \A l \in Kinds : InQueue(c, l) => InQueue(c, l)' \/ running'[c].key = l
<1>1. queue[c] \in Seq(Kinds) /\ queue[c] # << >>
  BY DEF QueueTypes, Take
<1>2. /\ Head(queue[c]) = queue[c][1] /\ Head(queue[c]) \in Kinds /\ Tail(queue[c]) \in Seq(Kinds)
      /\ Len(queue[c]) \in Nat \ {0} /\ Len(Tail(queue[c])) = Len(queue[c]) - 1
      /\ \A i \in 1 .. Len(Tail(queue[c])) : Tail(queue[c])[i] = queue[c][i + 1]
  BY <1>1, HeadTailProperties
<1>3. /\ queue' = [queue EXCEPT ![c] = Tail(queue[c])]
      /\ running' = [running EXCEPT ![c] = [key |-> Head(queue[c]), read |-> FALSE]]
  BY DEF Take
<1>4. queue'[c] = Tail(queue[c]) /\ running'[c] = [key |-> queue[c][1], read |-> FALSE]
  BY <1>2, <1>3 DEF QueueTypes
<1>5. ASSUME NEW l \in Kinds, NEW i \in 1 .. Len(queue[c]), queue[c][i] = l, i # 1
      PROVE  InQueue(c, l)'
  <2>1. i - 1 \in 1 .. Len(queue'[c]) /\ queue'[c][i - 1] = l
    BY <1>2, <1>4, <1>5
  <2> QED BY <2>1 DEF InQueue
<1>6. \A l \in Kinds : InQueue(c, l) => InQueue(c, l)' \/ running'[c].key = l
  <2> SUFFICES ASSUME NEW l \in Kinds, InQueue(c, l), running'[c].key # l
               PROVE  InQueue(c, l)'
    OBVIOUS
  <2>1. PICK i \in 1 .. Len(queue[c]) : queue[c][i] = l
    BY DEF InQueue
  <2> QED BY <1>4, <1>5, <2>1
<1>7. /\ queue' \in [Controllers -> Seq(Kinds)]
      /\ running' \in [Controllers -> [key : Kinds \cup {None}, read : BOOLEAN]]
  BY <1>2, <1>3 DEF QueueTypes
<1> QED BY <1>3, <1>4, <1>6, <1>7 DEF QueueTypes

-----------------------------------------------------------------------------
(* Types are kept.                                                          *)

Types == InformerTypes /\ ManagerTypes /\ QueueTypes

IInv == Types /\ RoomInv /\ LockInv /\ HandlerInv /\ ChangeInv

\* A controller that was made has a queue, and the call that makes one finds room.
LEMMA RoomForControllers ==
    ASSUME Types, RoomInv
    PROVE  /\ IsFiniteSet(Starting) /\ Cardinality(Starting) \in Nat
           /\ Len(made) \in Nat /\ Len(made) <= MaxControllers
           /\ \A c \in 1 .. Len(made) : c \in Controllers /\ made[c] \in Controller
<1>1. IsFiniteSet(Starting) /\ Cardinality(Starting) \in Nat
  BY ManagerAssumption, FS_Subset, FS_CardinalityType DEF Starting
<1>2. Len(made) \in Nat /\ \A c \in 1 .. Len(made) : made[c] \in Controller
  BY DEF Types, ManagerTypes
<1> QED BY <1>1, <1>2, ManagerAssumption DEF RoomInv, Controllers

-----------------------------------------------------------------------------
(* Calls of Update and the members of the handlers.                         *)

LEMMA MadeTypes ==
    ASSUME Types, NEW c \in 1 .. Len(made)
    PROVE  made[c] \in Controller /\ made[c].policy \in Policies /\ made[c].kinds \in SUBSET Kinds
<1>1. made[c] \in Controller
  BY DEF Types, ManagerTypes
<1> QED BY <1>1 DEF Controller

LEMMA AdvanceProperties ==
    ASSUME Types, NEW p \in Policies, NEW k, Advance(p, k)
    PROVE  /\ op' \in [Policies -> UpdateCall]
           /\ op'[p].step = op[p].step /\ op'[p].kinds = op[p].kinds /\ op'[p].todo = op[p].todo \ {k}
           /\ \A q \in Policies \ {p} : op'[q] = op[q]
<1>1. op \in [Policies -> UpdateCall]
  BY DEF Types, ManagerTypes
<1>2. op' = [op EXCEPT ![p] = [op[p] EXCEPT !.todo = op[p].todo \ {k}]]
  BY <1>1 DEF Advance
<1>3. op'[p] = [op[p] EXCEPT !.todo = op[p].todo \ {k}]
  BY <1>1, <1>2
<1>4. op[p].todo \ {k} \in SUBSET Kinds
  BY <1>1 DEF UpdateCall
<1>5. /\ op'[p] \in UpdateCall
      /\ op'[p].step = op[p].step /\ op'[p].kinds = op[p].kinds /\ op'[p].todo = op[p].todo \ {k}
  <2> DEFINE r == op[p]
             t == op[p].todo \ {k}
  <2>1. r \in UpdateCall /\ t \in SUBSET Kinds
    BY <1>1, <1>4
  <2>2. op'[p] = [r EXCEPT !.todo = t]
    BY <1>3
  <2> HIDE DEF r, t
  <2>3. [r EXCEPT !.todo = t] \in UpdateCall
    BY <2>1 DEF UpdateCall
  <2>4. op'[p].step = r.step /\ op'[p].kinds = r.kinds /\ op'[p].todo = t
    BY <2>1, <2>2 DEF UpdateCall
  <2> QED BY <2>2, <2>3, <2>4 DEF r, t
<1> QED BY <1>1, <1>2, <1>5

LEMMA StepProperties ==
    ASSUME Types, NEW p \in Policies, NEW s \in {"idle", "sync", "informers", "requeue"},
           NEW kinds \in SUBSET Kinds, NEW todo \in SUBSET Kinds, Step(p, s, kinds, todo)
    PROVE  /\ op' \in [Policies -> UpdateCall]
           /\ op'[p].step = s /\ op'[p].kinds = kinds /\ op'[p].todo = todo
           /\ \A q \in Policies \ {p} : op'[q] = op[q]
BY DEF Types, ManagerTypes, UpdateCall, Step

LEMMA ReturnProperties ==
    ASSUME Types, NEW p \in Policies, Return(p)
    PROVE  /\ op' \in [Policies -> UpdateCall]
           /\ op'[p].step = "idle" /\ op'[p].kinds = {} /\ op'[p].todo = {}
           /\ \A q \in Policies \ {p} : op'[q] = op[q]
           /\ policiesLock' = None
BY DEF Types, ManagerTypes, UpdateCall, Return, NoCall

LEMMA CallProperties ==
    ASSUME Types, NEW p \in Policies, CallUpdate(p)
    PROVE  /\ op[p] = NoCall /\ op' \in [Policies -> UpdateCall]
           /\ op'[p].step = "sync"
           /\ \A q \in Policies \ {p} : op'[q] = op[q]
<1> DEFINE unsynced == {k \in Kinds : informer[k].alive /\ ~informer[k].synced}
<1>1. PICK kinds \in (SUBSET Kinds) \ {{}} : Step(p, "sync", kinds, unsynced)
  BY DEF CallUpdate
<1>2. kinds \in SUBSET Kinds /\ unsynced \in SUBSET Kinds
  OBVIOUS
<1> HIDE DEF unsynced
<1>3. /\ op' \in [Policies -> UpdateCall]
      /\ op'[p].step = "sync"
      /\ \A q \in Policies \ {p} : op'[q] = op[q]
  BY <1>1, <1>2, StepProperties
<1> QED BY <1>3 DEF CallUpdate

\* Calls that are past WaitForCacheSync do not notice that an informer is synced.
LEMMA SyncSeenProperties ==
    ASSUME Types, NEW k \in Kinds, SyncSeen(k)
    PROVE  /\ op' \in [Policies -> UpdateCall]
           /\ \A q \in Policies : op'[q].step = op[q].step
           /\ \A q \in Policies : op[q].step # "sync" => op'[q] = op[q]
<1>1. ASSUME NEW q \in Policies
      PROVE  /\ op'[q] \in UpdateCall /\ op'[q].step = op[q].step
             /\ op[q].step # "sync" => op'[q] = op[q]
  <2> DEFINE r == op[q]
             t == op[q].todo \ {k}
  <2>1. r \in UpdateCall
    BY DEF Types, ManagerTypes
  <2>2. t \in SUBSET Kinds
    BY <2>1 DEF UpdateCall
  <2>3. op'[q] = IF r.step = "sync" THEN [r EXCEPT !.todo = t] ELSE r
    BY DEF SyncSeen
  <2> HIDE DEF r, t
  <2>4. [r EXCEPT !.todo = t] \in UpdateCall /\ [r EXCEPT !.todo = t].step = r.step
    BY <2>1, <2>2 DEF UpdateCall
  <2>5. op'[q] \in UpdateCall /\ op'[q].step = r.step /\ (r.step # "sync" => op'[q] = r)
    BY <2>1, <2>3, <2>4
  <2> QED BY <2>5 DEF r
<1> QED BY <1>1 DEF SyncSeen

\* A call that fails has changed nothing and does not hold the lock.
LEMMA FailProperties ==
    ASSUME Types, NEW p \in Policies, UpdateFails(p)
    PROVE  /\ op[p].step = "sync" /\ op' \in [Policies -> UpdateCall] /\ op'[p] = NoCall
           /\ \A q \in Policies \ {p} : op'[q] = op[q]
BY DEF Types, ManagerTypes, UpdateCall, UpdateFails, NoCall

LEMMA NoHandlerIs ==
    ASSUME NEW h \in [informer : Nat, members : SUBSET Nat], h.informer = 0, h.members = {}
    PROVE  h = NoHandler
<1>1. h = [informer |-> h.informer, members |-> h.members]
  OBVIOUS
<1> QED BY <1>1 DEF NoHandler

LEMMA AddPolicyProperties ==
    ASSUME Types, NEW c \in Nat, NEW kinds \in SUBSET Kinds, AddPolicy(c, kinds)
    PROVE  /\ informers' \in [Kinds -> [informer : Nat, members : SUBSET Nat]]
           /\ \A k \in Kinds : /\ informers'[k].informer = informers[k].informer
                               /\ informers'[k].members =
                                     informers[k].members \cup {d \in {c} : k \in kinds}
                               /\ informers[k] = NoHandler /\ k \notin kinds => informers'[k] = NoHandler
<1>1. ASSUME NEW k \in Kinds
      PROVE  /\ informers'[k] \in [informer : Nat, members : SUBSET Nat]
             /\ informers'[k].informer = informers[k].informer
             /\ informers'[k].members = informers[k].members \cup {d \in {c} : k \in kinds}
  <2>1. informers[k] \in [informer : Nat, members : SUBSET Nat]
    BY DEF Types, ManagerTypes
  <2>2. CASE k \in kinds
    <3>1. informers'[k] = [informers[k] EXCEPT !.members = informers[k].members \cup {c}]
      BY <2>2 DEF AddPolicy
    <3> QED BY <2>1, <2>2, <3>1
  <2>3. CASE k \notin kinds
    BY <2>1, <2>3 DEF AddPolicy
  <2> QED BY <2>2, <2>3
<1> QED BY <1>1 DEF AddPolicy

LEMMA DeleteProperties ==
    ASSUME Types, NEW p \in Policies, deleteNoLock(p)
    PROVE  /\ informers' \in [Kinds -> [informer : Nat, members : SUBSET Nat]]
           /\ policies' \in [Policies -> Nat \cup {None}]
           /\ policies'[p] = None /\ \A q \in Policies \ {p} : policies'[q] = policies[q]
           /\ \A k \in Kinds : /\ informers'[k].informer = informers[k].informer
                               /\ informers'[k].members = {c \in informers[k].members : made[c].policy # p}
                               /\ informers[k] = NoHandler => informers'[k] = NoHandler
<1>1. ASSUME NEW k \in Kinds
      PROVE  /\ informers'[k] \in [informer : Nat, members : SUBSET Nat]
             /\ informers'[k].informer = informers[k].informer
             /\ informers'[k].members = {c \in informers[k].members : made[c].policy # p}
  <2> DEFINE h == informers[k]
             ms == {c \in informers[k].members : made[c].policy # p}
  <2>1. h \in [informer : Nat, members : SUBSET Nat]
    BY DEF Types, ManagerTypes
  <2>2. ms \in SUBSET Nat
    BY <2>1
  <2>3. informers'[k] = [h EXCEPT !.members = ms]
    BY DEF deleteNoLock, Without
  <2> HIDE DEF h, ms
  <2>4. informers'[k] \in [informer : Nat, members : SUBSET Nat] /\ informers'[k].informer = h.informer /\ informers'[k].members = ms
    BY <2>1, <2>2, <2>3
  <2> QED BY <2>4 DEF h, ms
<1>2. ASSUME NEW k \in Kinds, informers[k] = NoHandler
      PROVE  informers'[k] = NoHandler
  <2>1. informers'[k].informer = 0 /\ informers'[k].members = {}
    BY <1>1, <1>2 DEF NoHandler
  <2> QED BY <1>1, <2>1, NoHandlerIs
<1> QED BY <1>1, <1>2 DEF deleteNoLock, Without, Types, ManagerTypes

\* The collector stops an informer, which keeps its number, or leaves it alone.
LEMMA CollectProperties ==
    ASSUME Types, NEW exclude, GarbageCollect(exclude)
    PROVE  /\ informer' \in [Kinds -> Informer]
           /\ pending' \in [Kinds -> Nat]
           /\ \A k \in Kinds : \/ informer'[k] = informer[k] /\ pending'[k] = pending[k]
                               \/ k \notin exclude /\ ~informer'[k].alive /\ informer'[k].store = 0
<1>1. ASSUME NEW k \in Kinds
      PROVE  /\ informer'[k] \in Informer /\ pending'[k] \in Nat
             /\ \/ informer'[k] = informer[k] /\ pending'[k] = pending[k]
                \/ k \notin exclude /\ ~informer'[k].alive /\ informer'[k].store = 0
  <2>1. informer[k] \in Informer /\ pending[k] \in Nat
    BY DEF Types, InformerTypes
  <2>2. CASE k \notin exclude /\ lastUsed[k] = "old"
    <3>1. informer'[k] = [NoInformer EXCEPT !.id = informer[k].id] /\ pending'[k] = 0
      BY <2>2 DEF GarbageCollect
    <3>2. informer'[k] = [id |-> informer[k].id, alive |-> FALSE, synced |-> FALSE, store |-> 0]
      BY <3>1 DEF NoInformer
    <3>3. informer[k].id \in Nat
      BY <2>1 DEF Informer
    <3>4. informer'[k] \in Informer /\ ~informer'[k].alive /\ informer'[k].store = 0
      BY <3>2, <3>3 DEF Informer
    <3> QED BY <2>2, <3>1, <3>4
  <2>3. CASE ~(k \notin exclude /\ lastUsed[k] = "old")
    <3>1. informer'[k] = informer[k] /\ pending'[k] = pending[k]
      BY <2>3 DEF GarbageCollect
    <3> QED BY <2>1, <3>1
  <2> QED BY <2>2, <2>3
<1> QED BY <1>1 DEF GarbageCollect

LEMMA InformerTypesStep ==
    ASSUME Types, RoomInv, [Next]_vars
    PROVE  InformerTypes'
<1>1. ASSUME NEW k \in Kinds, Sync(k)
      PROVE  InformerTypes'
  BY <1>1 DEF Sync, Types, InformerTypes, Informer
<1>2. ASSUME NEW k \in Kinds, Watch(k)
      PROVE  InformerTypes'
  <2>1. PICK v \in informer[k].store + 1 .. version[k] :
            /\ informer' = [informer EXCEPT ![k].store = v]
            /\ pending' = IF Listens(k) /\ (Exists(v) \/ Exists(informer[k].store))
                          THEN [pending EXCEPT ![k] = @ + 1] ELSE pending
    BY <1>2 DEF Watch
  <2>2. v \in Nat /\ v <= version[k] /\ version' = version
    BY <1>2 DEF Watch, Types, InformerTypes, Informer
  <2>3. pending' \in [Kinds -> Nat]
    BY <2>1 DEF Types, InformerTypes
  <2>4. informer' \in [Kinds -> Informer]
    BY <2>1, <2>2 DEF Types, InformerTypes, Informer
  <2> QED BY <2>1, <2>2, <2>3, <2>4 DEF Types, InformerTypes, Informer
<1>3. ASSUME NEW k \in Kinds, Notify(k)
      PROVE  InformerTypes'
  BY <1>3 DEF Notify, cacheVars, Types, InformerTypes
<1>4. ASSUME NEW k \in Kinds, ChangeObject(k)
      PROVE  InformerTypes'
  BY <1>4 DEF ChangeObject, Types, InformerTypes, Informer
<1>5. ASSUME NEW k \in Kinds, AddInformerToMap(k), UNCHANGED <<version, pending>>
      PROVE  InformerTypes'
  BY <1>5 DEF AddInformerToMap, Types, InformerTypes, Informer
<1>6. ASSUME NEW p \in Policies, GetInformerForKind(p)
      PROVE  InformerTypes'
  <2>1. PICK k \in op[p].todo :
            \/ UNCHANGED <<informer, pending>>
            \/ AddInformerToMap(k) /\ UNCHANGED pending
            \/ /\ pending' = [pending EXCEPT ![k] = IF Exists(informer[k].store) THEN 1 ELSE 0]
               /\ UNCHANGED informer
    BY <1>6 DEF GetInformerForKind
  <2>2. k \in Kinds /\ version' = version
    BY <1>6 DEF Types, ManagerTypes, UpdateCall, GetInformerForKind
  <2> QED BY <1>5, <2>1, <2>2 DEF Types, InformerTypes
<1>7. CASE garbageCollectInformers
  BY <1>7, CollectProperties DEF garbageCollectInformers, Types, InformerTypes, NoInformer
<1>8. ASSUME NEW c \in 1 .. Len(made), Read(c)
      PROVE  InformerTypes'
  <2>1. running[c].key \in Kinds \cup {None}
    BY RoomForControllers DEF Types, QueueTypes
  <2>2. UNCHANGED informer \/ (running[c].key \in Kinds /\ AddInformerToMap(running[c].key))
    BY <1>8, <2>1 DEF Read
  <2>3. UNCHANGED <<version, pending>>
    BY <1>8 DEF Read
  <2> QED BY <1>5, <2>2, <2>3 DEF Types, InformerTypes
<1>9. ASSUME NEW k \in Kinds, ScriptReads(k)
      PROVE  InformerTypes'
  BY <1>5, <1>9 DEF ScriptReads, Types, InformerTypes
<1>10. CASE UNCHANGED <<version, informer, pending>>
  BY <1>10 DEF Types, InformerTypes
<1>11. ASSUME NEW k \in Kinds, Expire(k)
       PROVE  InformerTypes'
  BY <1>10, <1>11 DEF Expire
<1>12. ASSUME NEW p \in Policies, CallUpdate(p) \/ UpdateFails(p) \/ Delete(p) \/ DeletePolicy(p)
       PROVE  InformerTypes'
  BY <1>10, <1>12 DEF CallUpdate, UpdateFails, Delete, DeletePolicy, cacheVars
<1>13. ASSUME NEW p \in Policies, Manager(p)
       PROVE  InformerTypes'
  BY <1>6, <1>10, <1>13 DEF Manager, Update, StartController, RequeueAll, UpdateReturns, cacheVars
<1>14. ASSUME NEW c \in 1 .. Len(made), Worker(c) \/ Reschedule(c)
       PROVE  InformerTypes'
  BY <1>8, <1>10, <1>14 DEF Worker, Take, Processed, Reschedule, cacheVars
<1>15. CASE UNCHANGED vars
  BY <1>10, <1>15 DEF vars, cacheVars
<1> QED BY <1>1, <1>2, <1>3, <1>4, <1>7, <1>9, <1>11, <1>12, <1>13, <1>14, <1>15 DEF Next

LEMMA ManagerTypesStep ==
    ASSUME Types, RoomInv, [Next]_vars
    PROVE  ManagerTypes'
<1>1. ASSUME NEW p \in Policies, CallUpdate(p)
      PROVE  ManagerTypes'
  BY <1>1, CallProperties DEF CallUpdate, Types, ManagerTypes
<1>2. ASSUME NEW p \in Policies, Update(p)
      PROVE  ManagerTypes'
  <2>1. op' \in [Policies -> UpdateCall]
    <3>1. op[p].kinds \in SUBSET Kinds
      BY DEF Types, ManagerTypes, UpdateCall
    <3>2. PICK s \in {"informers", "requeue"} : Step(p, s, op[p].kinds, op[p].kinds)
      BY <1>2 DEF Update
    <3> QED BY <3>1, <3>2, StepProperties
  <2>2. /\ informers' \in [Kinds -> [informer : Nat, members : SUBSET Nat]]
        /\ policies' \in [Policies -> Nat \cup {None}]
    BY <1>2, DeleteProperties DEF Update, Types, ManagerTypes
  <2> QED BY <1>2, <2>1, <2>2 DEF Update, Lock, Types, ManagerTypes
<1>3. ASSUME NEW p \in Policies, GetInformerForKind(p)
      PROVE  ManagerTypes'
  <2>1. op' \in [Policies -> UpdateCall]
    BY <1>3, AdvanceProperties, ReturnProperties DEF GetInformerForKind, Types, ManagerTypes
  <2>2. PICK k \in op[p].todo :
            \/ UNCHANGED informers
            \/ informers' = [informers EXCEPT ![k] = [informer |-> informer[k].id, members |-> {}]]
    BY <1>3 DEF GetInformerForKind
  <2>3. k \in Kinds
    BY DEF Types, ManagerTypes, UpdateCall
  <2>4. informer[k].id \in Nat
    BY <2>3 DEF Types, InformerTypes, Informer
  <2>5. informers' \in [Kinds -> [informer : Nat, members : SUBSET Nat]]
    BY <2>2, <2>3, <2>4 DEF Types, ManagerTypes
  <2> QED BY <1>3, <2>1, <2>5 DEF GetInformerForKind, Return, Types, ManagerTypes
<1>4. ASSUME NEW p \in Policies, StartController(p)
      PROVE  ManagerTypes'
  <2>1. op' \in [Policies -> UpdateCall]
    BY <1>4, StepProperties DEF StartController, Types, ManagerTypes, UpdateCall
  <2>2. [policy |-> p, kinds |-> op[p].kinds] \in Controller
    BY DEF Types, ManagerTypes, UpdateCall, Controller
  <2>3. made' \in Seq(Controller) /\ Len(made') \in Nat
    BY <1>4, <2>2, AppendProperties DEF StartController, Types, ManagerTypes
  <2>4. informers' \in [Kinds -> [informer : Nat, members : SUBSET Nat]]
    <3>1. Len(made) + 1 \in Nat /\ op[p].kinds \in SUBSET Kinds
      BY DEF Types, ManagerTypes, UpdateCall
    <3> QED BY <1>4, <3>1, AddPolicyProperties DEF StartController
  <2>5. policies' \in [Policies -> Nat \cup {None}]
    BY <1>4 DEF StartController, Types, ManagerTypes
  <2> QED BY <1>4, <2>1, <2>3, <2>4, <2>5 DEF StartController, Types, ManagerTypes
<1>5. ASSUME NEW p \in Policies, RequeueAll(p)
      PROVE  ManagerTypes'
  BY <1>5, AdvanceProperties DEF RequeueAll, Types, ManagerTypes
<1>6. ASSUME NEW p \in Policies, UpdateReturns(p)
      PROVE  ManagerTypes'
  BY <1>6, ReturnProperties DEF UpdateReturns, Types, ManagerTypes
<1>7. ASSUME NEW p \in Policies, Delete(p)
      PROVE  ManagerTypes'
  BY <1>7, DeleteProperties DEF Delete, Types, ManagerTypes
<1>8. ASSUME NEW p \in Policies, DeletePolicy(p)
      PROVE  ManagerTypes'
  BY <1>8 DEF DeletePolicy, managerVars, Types, ManagerTypes
<1>9. CASE garbageCollectInformers
  BY <1>9 DEF garbageCollectInformers, NoHandler, Types, ManagerTypes
<1>10. CASE UNCHANGED <<exists, managerVars>>
  BY <1>10 DEF managerVars, Types, ManagerTypes
<1>11. ASSUME NEW k \in Kinds,
              Watch(k) \/ Notify(k) \/ ScriptReads(k) \/ Expire(k) \/ ChangeObject(k)
       PROVE  ManagerTypes'
  BY <1>10, <1>11 DEF Watch, Notify, ScriptReads, Expire, ChangeObject
<1>12. ASSUME NEW c \in 1 .. Len(made), Worker(c) \/ Reschedule(c)
       PROVE  ManagerTypes'
  BY <1>10, <1>12 DEF Worker, Take, Read, Processed, Reschedule
<1>13. CASE UNCHANGED vars
  BY <1>10, <1>13 DEF vars
<1>14. ASSUME NEW k \in Kinds, Sync(k)
       PROVE  ManagerTypes'
  BY <1>14, SyncSeenProperties DEF Sync, Types, ManagerTypes
<1>15. ASSUME NEW p \in Policies, UpdateFails(p)
       PROVE  ManagerTypes'
  <2>1. op' \in [Policies -> UpdateCall]
    BY <1>15, FailProperties
  <2>2. UNCHANGED <<exists, policiesLock, informers, policies, made>>
    BY <1>15 DEF UpdateFails
  <2> QED BY <2>1, <2>2 DEF Types, ManagerTypes
<1> QED BY <1>1, <1>2, <1>3, <1>4, <1>5, <1>6, <1>7, <1>8, <1>9, <1>11, <1>12, <1>13, <1>14, <1>15
        DEF Next, Manager

LEMMA QueueTypesStep ==
    ASSUME Types, RoomInv, [Next]_vars
    PROVE  QueueTypes'
<1>1. ASSUME NEW c \in 1 .. Len(made), Take(c)
      PROVE  QueueTypes'
  BY <1>1, RoomForControllers, TakeProperties DEF Take, Types, QueueTypes
<1>2. ASSUME NEW c \in 1 .. Len(made), Read(c)
      PROVE  QueueTypes'
  <2> DEFINE k == running[c].key
  <2>1. c \in Controllers /\ k \in Kinds
    BY <1>2, RoomForControllers DEF Read, Types, QueueTypes
  <2>2. CASE Done(c) /\ UNCHANGED <<attempted, delayed>>
    BY <2>1, <2>2, DoneProperties DEF Types, QueueTypes
  <2>3. CASE UNCHANGED <<queue, again, running, attempted, delayed>>
    BY <2>3 DEF Types, QueueTypes
  <2>4. CASE /\ running' = [running EXCEPT ![c].read = TRUE]
             /\ attempted' = [attempted EXCEPT ![c][k] = informer[k].store]
             /\ UNCHANGED <<queue, again, delayed>>
    <3>1. informer[k].store \in Nat
      BY <2>1 DEF Types, InformerTypes, Informer
    <3>2. attempted' \in [Controllers -> [Kinds -> Nat]]
      BY <2>1, <2>4, <3>1 DEF Types, QueueTypes
    <3>3. /\ running' \in [Controllers -> [key : Kinds \cup {None}, read : BOOLEAN]]
          /\ \A d \in Controllers : running'[d].key = running[d].key
          /\ \A d \in Controllers \ {c} : running'[d] = running[d]
      BY <2>4 DEF Types, QueueTypes
    <3>4. running'[c].key # None
      BY <2>1, <3>3, ManagerAssumption
    <3> QED BY <2>4, <3>2, <3>3, <3>4 DEF Types, QueueTypes
  <2> QED BY <1>2, <2>2, <2>3, <2>4 DEF Read
<1>3. ASSUME NEW c \in 1 .. Len(made), Processed(c)
      PROVE  QueueTypes'
  <2>1. c \in Controllers /\ running[c].key \in Kinds
    BY <1>3, RoomForControllers DEF Processed, Types, QueueTypes
  <2>2. delayed' \in [Controllers -> SUBSET Kinds] /\ attempted' = attempted
    <3>1. \/ delayed' = delayed
          \/ delayed' = [delayed EXCEPT ![c] = delayed[c] \cup {running[c].key}]
      BY <1>3 DEF Processed
    <3>2. /\ delayed \in [Controllers -> SUBSET Kinds]
          /\ delayed[c] \cup {running[c].key} \in SUBSET Kinds
      BY <2>1 DEF Types, QueueTypes
    <3>3. delayed' \in [Controllers -> SUBSET Kinds]
      BY <3>1, <3>2
    <3>4. attempted' = attempted
      BY <1>3 DEF Processed
    <3> QED BY <3>3, <3>4
  <2>3. /\ queue' \in [Controllers -> Seq(Kinds)] /\ again' \in [Controllers -> BOOLEAN]
        /\ running' \in [Controllers -> [key : Kinds \cup {None}, read : BOOLEAN]] /\ ~running'[c].read
        /\ \A d \in Controllers \ {c} : running'[d] = running[d]
    BY <1>3, <2>1, DoneProperties DEF Processed, Types
  <2>4. attempted \in [Controllers -> [Kinds -> Nat]] /\ \A d \in Controllers : running[d].read => running[d].key # None
    BY DEF Types, QueueTypes
  <2> QED BY <2>2, <2>3, <2>4 DEF QueueTypes
<1>4. ASSUME NEW c \in 1 .. Len(made), Reschedule(c)
      PROVE  QueueTypes'
  <2>1. PICK k \in delayed[c] : delayed' = [delayed EXCEPT ![c] = @ \ {k}] /\ Enqueue({c}, k)
    BY <1>4 DEF Reschedule
  <2>2. c \in Controllers /\ k \in Kinds
    BY RoomForControllers DEF Types, QueueTypes
  <2> QED BY <1>4, <2>1, <2>2, EnqueueProperties DEF Reschedule, Types, QueueTypes
<1>5. ASSUME NEW k \in Kinds, Notify(k)
      PROVE  QueueTypes'
  BY <1>5, EnqueueProperties DEF Notify, Types, QueueTypes
<1>6. ASSUME NEW p \in Policies, RequeueAll(p)
      PROVE  QueueTypes'
  <2>1. PICK k \in op[p].todo : Enqueue({policies[p]}, k) \/ UNCHANGED <<queue, again>>
    BY <1>6 DEF RequeueAll
  <2>2. k \in Kinds
    BY DEF Types, ManagerTypes, UpdateCall
  <2> QED BY <1>6, <2>1, <2>2, EnqueueProperties DEF RequeueAll, Types, QueueTypes
<1>7. CASE UNCHANGED queueVars
  BY <1>7 DEF queueVars, Types, QueueTypes
<1>8. ASSUME NEW k \in Kinds,
             Sync(k) \/ Watch(k) \/ ScriptReads(k) \/ Expire(k) \/ ChangeObject(k)
      PROVE  QueueTypes'
  BY <1>7, <1>8 DEF Sync, Watch, ScriptReads, Expire, ChangeObject
<1>9. ASSUME NEW p \in Policies, CallUpdate(p) \/ UpdateFails(p) \/ Delete(p) \/ DeletePolicy(p)
      PROVE  QueueTypes'
  BY <1>7, <1>9 DEF CallUpdate, UpdateFails, Delete, DeletePolicy
<1>10. ASSUME NEW p \in Policies, Manager(p)
       PROVE  QueueTypes'
  BY <1>6, <1>7, <1>10 DEF Manager, Update, GetInformerForKind, StartController, UpdateReturns
<1>11. CASE garbageCollectInformers \/ UNCHANGED vars
  BY <1>7, <1>11 DEF garbageCollectInformers, vars
<1> QED BY <1>1, <1>2, <1>3, <1>4, <1>5, <1>8, <1>9, <1>10, <1>11 DEF Next, Worker

-----------------------------------------------------------------------------
(* Room and the lock.                                                       *)

\* Update takes the lock; a policy that goes on running is requeued.
LEMMA UpdateProperties ==
    ASSUME Types, NEW p \in Policies, Update(p)
    PROVE  /\ op[p].step = "sync" /\ policiesLock = None /\ policiesLock' = p /\ made' = made
           /\ op' \in [Policies -> UpdateCall]
           /\ op'[p].kinds = op[p].kinds /\ op'[p].todo = op[p].kinds
           /\ \A q \in Policies \ {p} : op'[q] = op[q] /\ policies'[q] = policies[q]
           /\ \/ op'[p].step = "informers" /\ policies'[p] = None
              \/ op'[p].step = "requeue" /\ policies'[p] = policies[p]
           /\ UNCHANGED <<informers, policies>> \/ deleteNoLock(p)
<1>1. op[p].step = "sync" /\ policiesLock = None /\ policiesLock' = p /\ made' = made
  BY DEF Update, Lock
<1>2. op[p].kinds \in SUBSET Kinds
  BY DEF Types, ManagerTypes, UpdateCall
<1>3. CASE Step(p, "informers", op[p].kinds, op[p].kinds)
  <2>1. /\ op' \in [Policies -> UpdateCall]
        /\ op'[p].step = "informers" /\ op'[p].kinds = op[p].kinds /\ op'[p].todo = op[p].kinds
        /\ \A q \in Policies \ {p} : op'[q] = op[q]
    BY <1>2, <1>3, StepProperties
  <2>2. (policies[p] = None /\ UNCHANGED <<informers, policies>>) \/ deleteNoLock(p)
    BY <2>1 DEF Update, Step, Types, ManagerTypes
  <2> QED BY <1>1, <2>1, <2>2, DeleteProperties
<1>4. CASE /\ Step(p, "requeue", op[p].kinds, op[p].kinds)
           /\ UNCHANGED <<informers, policies>>
  <2>1. /\ op' \in [Policies -> UpdateCall]
        /\ op'[p].step = "requeue" /\ op'[p].kinds = op[p].kinds /\ op'[p].todo = op[p].kinds
        /\ \A q \in Policies \ {p} : op'[q] = op[q]
    BY <1>2, <1>4, StepProperties
  <2> QED BY <1>1, <1>4, <2>1
<1> QED BY <1>3, <1>4 DEF Update

\* What the first controllers are does not change when one is made.
LEMMA MadeProperties ==
    ASSUME Types, NEW p \in Policies, StartController(p)
    PROVE  /\ op[p].step = "informers" /\ op[p].todo = {} /\ op[p].kinds \in SUBSET Kinds
           /\ Len(made') = Len(made) + 1
           /\ \A c \in 1 .. Len(made) : made'[c] = made[c]
           /\ made'[Len(made) + 1] = [policy |-> p, kinds |-> op[p].kinds]
           /\ policies' = [policies EXCEPT ![p] = Len(made) + 1]
           /\ op'[p].step = "requeue" /\ op'[p].kinds = op[p].kinds /\ op'[p].todo = op[p].kinds
           /\ \A q \in Policies \ {p} : op'[q] = op[q]
           /\ policiesLock' = policiesLock
<1>1. op[p].step = "informers" /\ op[p].todo = {} /\ op[p].kinds \in SUBSET Kinds
  BY DEF StartController, Types, ManagerTypes, UpdateCall
<1>2. [policy |-> p, kinds |-> op[p].kinds] \in Controller
  BY <1>1 DEF Controller
<1>3. made' = Append(made, [policy |-> p, kinds |-> op[p].kinds])
  BY DEF StartController
<1>4. /\ Len(made') = Len(made) + 1
      /\ \A c \in 1 .. Len(made) : made'[c] = made[c]
      /\ made'[Len(made) + 1] = [policy |-> p, kinds |-> op[p].kinds]
  BY <1>2, <1>3, AppendProperties DEF Types, ManagerTypes
<1>5. Step(p, "requeue", op[p].kinds, op[p].kinds)
  BY DEF StartController
<1>6. /\ op'[p].step = "requeue" /\ op'[p].kinds = op[p].kinds /\ op'[p].todo = op[p].kinds
      /\ \A q \in Policies \ {p} : op'[q] = op[q]
  BY <1>5 DEF Step, Types, ManagerTypes
<1>7. policies' = [policies EXCEPT ![p] = Len(made) + 1] /\ policiesLock' = policiesLock
  BY DEF StartController
<1> QED BY <1>1, <1>4, <1>6, <1>7

LEMMA RoomStep ==
    ASSUME Types, RoomInv, [Next]_vars
    PROVE  RoomInv'
<1>1. /\ IsFiniteSet(Starting) /\ Cardinality(Starting) \in Nat /\ Len(made) \in Nat
  BY RoomForControllers
<1>2. ASSUME made' = made, Starting' \subseteq Starting
      PROVE  RoomInv'
  <2>1. Cardinality(Starting') \in Nat /\ Cardinality(Starting') <= Cardinality(Starting)
    BY <1>1, <1>2, FS_Subset, FS_CardinalityType
  <2> QED BY <1>1, <1>2, <2>1, ManagerAssumption DEF RoomInv
<1>3. ASSUME NEW p \in Policies, CallUpdate(p)
      PROVE  RoomInv'
  <2>1. op[p] = NoCall /\ made' = made /\ Len(made) + Cardinality(Called) < MaxControllers
    BY <1>3 DEF CallUpdate
  <2>2. op'[p].step = "sync" /\ \A q \in Policies \ {p} : op'[q] = op[q]
    BY <1>3, CallProperties DEF CallUpdate
  <2>3. Starting \cup {p} \subseteq Called \cup {p} /\ IsFiniteSet(Called)
    BY ManagerAssumption, FS_Subset DEF Starting, Called, NoCall
  <2>4. Cardinality(Called) \in Nat /\ p \notin Called
    BY <2>1, <2>3, FS_CardinalityType DEF Called
  <2>5. IsFiniteSet(Called \cup {p}) /\ Cardinality(Called \cup {p}) = Cardinality(Called) + 1
    BY <2>3, <2>4, FS_AddElement
  <2>6. Starting' \subseteq Called \cup {p}
    BY <2>2, <2>3 DEF Starting
  <2>7. Cardinality(Starting') \in Nat /\ Cardinality(Starting') <= Cardinality(Called) + 1
    BY <2>5, <2>6, FS_Subset, FS_CardinalityType
  <2> QED BY <1>1, <2>1, <2>4, <2>7, ManagerAssumption DEF RoomInv
<1>4. ASSUME NEW p \in Policies, StartController(p)
      PROVE  RoomInv'
  <2>1. op[p].step = "informers" /\ op[p].kinds \in SUBSET Kinds
    BY <1>4 DEF StartController, Types, ManagerTypes, UpdateCall
  <2>2. op'[p].step = "requeue" /\ \A q \in Policies \ {p} : op'[q] = op[q]
    BY <1>4, MadeProperties
  <2>3. Starting' = Starting \ {p} /\ p \in Starting
    BY <2>1, <2>2 DEF Starting
  <2>4. Cardinality(Starting') = Cardinality(Starting) - 1
    BY <1>1, <2>3, FS_RemoveElement
  <2>5. Len(made') = Len(made) + 1
    <3>1. [policy |-> p, kinds |-> op[p].kinds] \in Controller
      BY <2>1 DEF Controller
    <3> QED BY <1>4, <3>1, AppendProperties DEF StartController, Types, ManagerTypes
  <2> QED BY <1>1, <2>4, <2>5, ManagerAssumption DEF RoomInv
<1>5. ASSUME NEW p \in Policies, Update(p)
      PROVE  RoomInv'
  BY <1>2, <1>5, UpdateProperties DEF Starting
<1>6. ASSUME NEW p \in Policies, GetInformerForKind(p)
      PROVE  RoomInv'
  BY <1>2, <1>6, AdvanceProperties, ReturnProperties DEF GetInformerForKind, Starting
<1>7. ASSUME NEW p \in Policies, RequeueAll(p)
      PROVE  RoomInv'
  BY <1>2, <1>7, AdvanceProperties DEF RequeueAll, Starting
<1>8. ASSUME NEW p \in Policies, UpdateReturns(p)
      PROVE  RoomInv'
  BY <1>2, <1>8, ReturnProperties DEF UpdateReturns, Starting
<1>9. CASE UNCHANGED <<made, op>>
  BY <1>2, <1>9 DEF Starting
<1>10. ASSUME NEW k \in Kinds,
              Watch(k) \/ Notify(k) \/ ScriptReads(k) \/ Expire(k) \/ ChangeObject(k)
       PROVE  RoomInv'
  BY <1>9, <1>10 DEF Watch, Notify, ScriptReads, Expire, ChangeObject, managerVars
<1>11. ASSUME NEW c \in 1 .. Len(made), Worker(c) \/ Reschedule(c)
       PROVE  RoomInv'
  BY <1>9, <1>11 DEF Worker, Take, Read, Processed, Reschedule, managerVars
<1>12. ASSUME NEW p \in Policies, Delete(p) \/ DeletePolicy(p)
       PROVE  RoomInv'
  BY <1>9, <1>12 DEF Delete, DeletePolicy, managerVars
<1>13. CASE garbageCollectInformers \/ UNCHANGED vars
  BY <1>9, <1>13 DEF garbageCollectInformers, vars, managerVars
<1>14. ASSUME NEW k \in Kinds, Sync(k)
       PROVE  RoomInv'
  <2>1. SyncSeen(k) /\ made' = made
    BY <1>14 DEF Sync
  <2>2. \A q \in Policies : op'[q].step = op[q].step
    BY <2>1, SyncSeenProperties
  <2> QED BY <1>2, <2>1, <2>2 DEF Starting
<1>15. ASSUME NEW p \in Policies, UpdateFails(p)
       PROVE  RoomInv'
  <2>1. made' = made
    BY <1>15 DEF UpdateFails
  <2>2. Starting' \subseteq Starting
    BY <1>15, FailProperties DEF Starting, NoCall
  <2> QED BY <1>2, <2>1, <2>2
<1> QED BY <1>3, <1>4, <1>5, <1>6, <1>7, <1>8, <1>10, <1>11, <1>12, <1>13, <1>14, <1>15 DEF Next, Manager

LEMMA LockStep ==
    ASSUME IInv, [Next]_vars
    PROVE  LockInv'
<1> USE DEF IInv
<1>1. CASE UNCHANGED managerVars
  BY <1>1 DEF managerVars, LockInv, LockOf
<1>2. ASSUME NEW p \in Policies, CallUpdate(p)
      PROVE  LockInv'
  <2>1. op'[p].step = "sync" /\ \A q \in Policies \ {p} : op'[q] = op[q]
    BY <1>2, CallProperties DEF CallUpdate
  <2>2. UNCHANGED <<policiesLock, informers, policies, made>> /\ op[p].step = "idle"
    BY <1>2 DEF CallUpdate, NoCall
  <2> QED BY <2>1, <2>2 DEF LockInv, LockOf
<1>3. ASSUME NEW p \in Policies, Update(p)
      PROVE  LockInv'
  <2>1. policiesLock = None /\ policiesLock' = p /\ made' = made
    BY <1>3, UpdateProperties
  <2>2. \A q \in Policies \ {p} : op'[q] = op[q] /\ policies'[q] = policies[q] /\ op[q].step \notin {"informers", "requeue"}
    BY <1>3, <2>1, UpdateProperties, ManagerAssumption DEF LockInv, LockOf
  <2>3. /\ op'[p].step \in {"informers", "requeue"} /\ op'[p].kinds = op[p].kinds /\ op'[p].todo = op[p].kinds
        /\ op'[p].step = "informers" => policies'[p] = None
        /\ policies'[p] # None => policies'[p] = policies[p]
    BY <1>3, UpdateProperties
  <2>4. \A q \in Policies \ {p} : LockOf(q)'
    BY <2>1, <2>2 DEF LockInv, LockOf
  <2>5. LockOf(p)'
    BY <2>1, <2>3 DEF LockInv, LockOf
  <2> QED BY <2>4, <2>5 DEF LockInv
<1>4. ASSUME NEW p \in Policies, GetInformerForKind(p)
      PROVE  LockInv'
  <2>1. op[p].step = "informers" /\ policiesLock = p /\ UNCHANGED <<policies, made>>
    BY <1>4 DEF GetInformerForKind, LockInv, LockOf
  <2>2. PICK k \in op[p].todo :
           \/ Advance(p, k) /\ policiesLock' = policiesLock /\ informers[k] # NoHandler /\ informers' = informers
           \/ UNCHANGED <<policiesLock, informers, op>>
           \/ /\ Advance(p, k) /\ policiesLock' = policiesLock /\ informer[k].alive
              /\ informers' = [informers EXCEPT ![k] = [informer |-> informer[k].id, members |-> {}]]
           \/ Return(p) /\ informers' = informers
    BY <1>4 DEF GetInformerForKind, Ready
  <2>3. k \in Kinds
    BY DEF Types, ManagerTypes, UpdateCall
  <2>4. ASSUME Advance(p, k), policiesLock' = policiesLock, informers'[k] # NoHandler,
               \A l \in Kinds \ {k} : informers'[l] = informers[l]
        PROVE  LockInv'
    <3>1. /\ op'[p].step = op[p].step /\ op'[p].kinds = op[p].kinds /\ op'[p].todo = op[p].todo \ {k}
          /\ \A q \in Policies \ {p} : op'[q] = op[q]
      BY <2>4, AdvanceProperties
    <3>2. LockOf(p)'
      <4>1. \A l \in op[p].kinds \ op[p].todo : l \in Kinds
        BY DEF Types, ManagerTypes, UpdateCall
      <4> QED BY <2>1, <2>3, <2>4, <3>1, <4>1 DEF LockInv, LockOf
    <3>3. \A q \in Policies \ {p} : LockOf(q)'
      BY <2>1, <2>4, <3>1 DEF LockInv, LockOf
    <3> QED BY <3>2, <3>3 DEF LockInv
  <2>5. CASE UNCHANGED <<policiesLock, informers, op>>
    BY <1>1, <2>1, <2>5 DEF managerVars
  <2>6. CASE Return(p) /\ informers' = informers
    BY <2>1, <2>6, ReturnProperties, ManagerAssumption DEF LockInv, LockOf
  <2>7. CASE /\ Advance(p, k) /\ policiesLock' = policiesLock /\ informer[k].alive
             /\ informers' = [informers EXCEPT ![k] = [informer |-> informer[k].id, members |-> {}]]
    <3>1. informer[k].id # 0
      BY <2>3, <2>7 DEF Types, InformerTypes
    <3>2. informers'[k].informer # 0 /\ \A l \in Kinds \ {k} : informers'[l] = informers[l]
      BY <2>3, <2>7, <3>1 DEF Types, ManagerTypes
    <3> QED BY <2>4, <2>7, <3>2 DEF NoHandler
  <2> QED BY <2>2, <2>4, <2>5, <2>6, <2>7
<1>5. ASSUME NEW p \in Policies, StartController(p)
      PROVE  LockInv'
  <2>1. policiesLock = p /\ policies \in [Policies -> Nat \cup {None}] /\ Len(made) \in Nat
    BY <1>5 DEF StartController, LockInv, LockOf, Types, ManagerTypes
  <2>2. LockOf(p)'
    <3>1. /\ op'[p].step = "requeue" /\ op'[p].todo = op'[p].kinds /\ policiesLock' = p
          /\ policies'[p] = Len(made) + 1 /\ Len(made') = Len(made) + 1
          /\ made'[Len(made) + 1] = [policy |-> p, kinds |-> op[p].kinds]
      BY <1>5, <2>1, MadeProperties
    <3>2. Len(made) + 1 \in 1 .. Len(made')
      BY <2>1, <3>1
    <3> QED BY <3>1, <3>2 DEF LockOf
  <2>3. ASSUME NEW q \in Policies \ {p}
        PROVE  LockOf(q)'
    <3>1. /\ op'[q] = op[q] /\ policiesLock' = policiesLock
          /\ policies' = [policies EXCEPT ![p] = Len(made) + 1]
          /\ Len(made') = Len(made) + 1 /\ \A c \in 1 .. Len(made) : made'[c] = made[c]
      BY <1>5, MadeProperties
    <3>2. policies'[q] = policies[q]
      BY <2>1, <3>1
    <3>3. LockOf(q) /\ policiesLock # q
      BY <2>1 DEF LockInv
    <3> QED BY <2>1, <3>1, <3>2, <3>3 DEF LockOf
  <2> QED BY <2>2, <2>3 DEF LockInv
<1>6. ASSUME NEW p \in Policies, RequeueAll(p)
      PROVE  LockInv'
  BY <1>6, AdvanceProperties DEF RequeueAll, LockInv, LockOf
<1>7. ASSUME NEW p \in Policies, UpdateReturns(p)
      PROVE  LockInv'
  <2>1. policiesLock = p /\ UNCHANGED <<informers, policies, made>>
    BY <1>7 DEF UpdateReturns, LockInv, LockOf
  <2> QED BY <1>7, <2>1, ReturnProperties, ManagerAssumption DEF UpdateReturns, LockInv, LockOf
<1>8. ASSUME NEW p \in Policies, Delete(p)
      PROVE  LockInv'
  <2>1. policiesLock = None /\ UNCHANGED <<policiesLock, made, op>>
    BY <1>8 DEF Delete
  <2>2. \A q \in Policies : op[q].step \notin {"informers", "requeue"}
    BY <2>1, ManagerAssumption DEF LockInv, LockOf
  <2> QED BY <1>8, <2>1, <2>2, DeleteProperties DEF Delete, LockInv, LockOf
<1>9. CASE garbageCollectInformers
  <2>1. policiesLock = None /\ UNCHANGED <<policiesLock, policies, made, op>>
    BY <1>9 DEF garbageCollectInformers
  <2>2. \A q \in Policies : op[q].step \notin {"informers", "requeue"}
    BY <2>1, ManagerAssumption DEF LockInv, LockOf
  <2> QED BY <2>1, <2>2 DEF LockInv, LockOf
<1>10. ASSUME NEW k \in Kinds,
              Watch(k) \/ Notify(k) \/ ScriptReads(k) \/ Expire(k) \/ ChangeObject(k)
       PROVE  LockInv'
  BY <1>1, <1>10 DEF Watch, Notify, ScriptReads, Expire, ChangeObject
<1>11. ASSUME NEW c \in 1 .. Len(made), Worker(c) \/ Reschedule(c)
       PROVE  LockInv'
  BY <1>1, <1>11 DEF Worker, Take, Read, Processed, Reschedule
<1>12. ASSUME NEW p \in Policies, DeletePolicy(p)
       PROVE  LockInv'
  BY <1>1, <1>12 DEF DeletePolicy
<1>13. CASE UNCHANGED vars
  BY <1>1, <1>13 DEF vars
<1>14. ASSUME NEW k \in Kinds, Sync(k)
       PROVE  LockInv'
  <2>1. SyncSeen(k) /\ UNCHANGED <<policiesLock, informers, policies, made>>
    BY <1>14 DEF Sync
  <2>2. \A q \in Policies : op'[q].step = op[q].step /\ (op[q].step # "sync" => op'[q] = op[q])
    BY <2>1, SyncSeenProperties
  <2> QED BY <2>1, <2>2 DEF LockInv, LockOf
<1>15. ASSUME NEW p \in Policies, UpdateFails(p)
       PROVE  LockInv'
  <2>1. UNCHANGED <<policiesLock, informers, policies, made>>
    BY <1>15 DEF UpdateFails
  <2>2. /\ op[p].step = "sync" /\ op'[p].step = "idle" /\ op'[p].todo = {}
        /\ \A q \in Policies \ {p} : op'[q] = op[q]
    BY <1>15, FailProperties DEF NoCall
  <2> QED BY <2>1, <2>2 DEF LockInv, LockOf
<1> QED BY <1>2, <1>3, <1>4, <1>5, <1>6, <1>7, <1>8, <1>9, <1>10, <1>11, <1>12, <1>13, <1>14, <1>15
        DEF Next, Manager

-----------------------------------------------------------------------------
(* Handlers.                                                                *)

\* A handler's informer goes on living while the informers that have a handler are left alone.
LEMMA HandlersStay ==
    ASSUME HandlerInv, UNCHANGED <<informers, policies, made>>,
           \A k \in Kinds : informers[k] # NoHandler =>
               informer'[k].alive = informer[k].alive /\ informer'[k].id = informer[k].id
                  /\ informer'[k].synced = informer[k].synced
    PROVE  HandlerInv'
BY DEF HandlerInv, HandlersOnLiveInformers, Listens, MembersInv, Serves, IsRunning

\* An informer without a handler is started.
LEMMA AddInformerKeepsHandlers ==
    ASSUME Types, HandlerInv, NEW k \in Kinds, AddInformerToMap(k), UNCHANGED <<informers, policies, made>>
    PROVE  HandlerInv'
<1>1. informers[k] = NoHandler
  BY DEF AddInformerToMap, HandlerInv, HandlersOnLiveInformers, Listens
<1>2. \A l \in Kinds \ {k} : informer'[l] = informer[l]
  BY DEF AddInformerToMap, Types, InformerTypes
<1> QED BY <1>1, <1>2, HandlersStay

\* A deleted policy leaves all its handlers.
LEMMA DeleteKeepsHandlers ==
    ASSUME Types, HandlerInv, NEW p \in Policies, deleteNoLock(p), UNCHANGED <<informer, made>>
    PROVE  HandlerInv'
<1>1. HandlersOnLiveInformers'
  BY DeleteProperties DEF HandlerInv, HandlersOnLiveInformers, Listens
<1>2. ASSUME NEW k \in Kinds, NEW c \in Nat
      PROVE  c \in informers'[k].members <=> Serves(c, k)'
  <2>1. c \in informers'[k].members <=> Serves(c, k) /\ made[c].policy # p
    BY DeleteProperties DEF HandlerInv, MembersInv
  <2>2. c \in 1 .. Len(made) => made[c].policy \in Policies
    BY MadeTypes
  <2>3. Serves(c, k)' <=> Serves(c, k) /\ made[c].policy # p
    BY <2>2, DeleteProperties, ManagerAssumption DEF Serves, IsRunning
  <2> QED BY <2>1, <2>3
<1> QED BY <1>1, <1>2 DEF HandlerInv, MembersInv

\* The policy of p that is started was not running, and its kinds have handlers.
LEMMA StartKeepsHandlers ==
    ASSUME IInv, NEW p \in Policies, StartController(p)
    PROVE  HandlerInv'
<1> DEFINE n == Len(made) + 1
<1>1. Types /\ HandlerInv /\ LockOf(p) /\ n \in Nat /\ informer' = informer
  BY DEF IInv, LockInv, StartController, cacheVars, Types, ManagerTypes
<1>2. policies[p] = None /\ \A k \in op[p].kinds : informers[k] # NoHandler
  BY <1>1, MadeProperties DEF LockOf
<1>3. AddPolicy(n, op[p].kinds) /\ op[p].kinds \in SUBSET Kinds
  BY <1>1, MadeProperties DEF StartController
<1>7. /\ Len(made') = n /\ Len(made) \in Nat /\ n = Len(made) + 1
      /\ \A c \in 1 .. Len(made) : made'[c] = made[c]
      /\ made'[n] = [policy |-> p, kinds |-> op[p].kinds]
      /\ policies' = [policies EXCEPT ![p] = n]
      /\ policies \in [Policies -> Nat \cup {None}]
  BY <1>1, MadeProperties DEF Types, ManagerTypes
<1> HIDE DEF n
<1>4. \A k \in Kinds : /\ informers'[k].informer = informers[k].informer
                       /\ informers'[k].members = informers[k].members \cup {d \in {n} : k \in op[p].kinds}
                       /\ informers'[k] # NoHandler => informers[k] # NoHandler
  BY <1>1, <1>2, <1>3, AddPolicyProperties
<1>5. HandlersOnLiveInformers'
  BY <1>1, <1>4 DEF HandlerInv, HandlersOnLiveInformers, Listens
<1>6. ASSUME NEW k \in Kinds, NEW c \in Nat
      PROVE  c \in informers'[k].members <=> Serves(c, k)'
  <2>1. c \in informers'[k].members <=> Serves(c, k) \/ (c = n /\ k \in op[p].kinds)
    BY <1>1, <1>4 DEF HandlerInv, MembersInv
  <2>3. CASE c = n
    <3>1. Serves(c, k)' <=> k \in op[p].kinds
      <4>1. Len(made') = n /\ made'[n].policy = p /\ made'[n].kinds = op[p].kinds /\ policies'[p] = n
        BY <1>7
      <4>2. c \in 1 .. Len(made')
        BY <1>7, <2>3
      <4> QED BY <2>3, <4>1, <4>2 DEF Serves, IsRunning
    <3>2. ~Serves(c, k)
      BY <1>7, <2>3 DEF Serves
    <3> QED BY <2>1, <2>3, <3>1, <3>2
  <2>4. CASE c # n
    <3>1. c \in 1 .. Len(made) => made[c].policy \in Policies /\ made'[c] = made[c]
      BY <1>1, <1>7, MadeTypes
    <3>2. Serves(c, k)' <=> Serves(c, k)
      <4>1. c \in 1 .. Len(made') <=> c \in 1 .. Len(made)
        BY <1>7, <2>4
      <4>2. c \in 1 .. Len(made) => (policies'[made[c].policy] = c <=> policies[made[c].policy] = c)
        BY <1>2, <1>7, <2>4, <3>1, ManagerAssumption
      <4> QED BY <3>1, <4>1, <4>2 DEF Serves, IsRunning
    <3> QED BY <2>1, <2>4, <3>2
  <2> QED BY <2>3, <2>4
<1> QED BY <1>5, <1>6 DEF HandlerInv, MembersInv

LEMMA HandlerStep ==
    ASSUME IInv, [Next]_vars
    PROVE  HandlerInv'
<1> USE DEF IInv
<1>1. CASE UNCHANGED <<informer, informers, policies, made>>
  BY <1>1, HandlersStay
<1>2. ASSUME NEW k \in Kinds, Sync(k)
      PROVE  HandlerInv'
  <2>1. informers[k] = NoHandler
    BY <1>2 DEF Sync, HandlerInv, HandlersOnLiveInformers
  <2>2. \A l \in Kinds \ {k} : informer'[l] = informer[l]
    BY <1>2 DEF Sync, Types, InformerTypes
  <2> QED BY <1>2, <2>1, <2>2, HandlersStay DEF Sync
<1>3. ASSUME NEW k \in Kinds, Watch(k)
      PROVE  HandlerInv'
  <2>1. PICK v \in informer[k].store + 1 .. version[k] : informer' = [informer EXCEPT ![k].store = v]
    BY <1>3 DEF Watch
  <2>2. \A l \in Kinds : informer'[l].alive = informer[l].alive /\ informer'[l].id = informer[l].id
                           /\ informer'[l].synced = informer[l].synced
    BY <2>1 DEF Types, InformerTypes, Informer
  <2> QED BY <1>3, <2>2, HandlersStay DEF Watch, managerVars
<1>4. ASSUME NEW k \in Kinds, ScriptReads(k)
      PROVE  HandlerInv'
  BY <1>1, <1>4, AddInformerKeepsHandlers DEF ScriptReads, managerVars
<1>5. ASSUME NEW c \in 1 .. Len(made), Read(c)
      PROVE  HandlerInv'
  <2>1. running[c].key \in Kinds \cup {None}
    BY RoomForControllers DEF Types, QueueTypes
  <2>2. UNCHANGED informer \/ (running[c].key \in Kinds /\ AddInformerToMap(running[c].key))
    BY <1>5, <2>1 DEF Read
  <2> QED BY <1>1, <1>5, <2>2, AddInformerKeepsHandlers DEF Read, managerVars
<1>6. ASSUME NEW p \in Policies, Update(p)
      PROVE  HandlerInv'
  <2>1. UNCHANGED <<informer, made>>
    BY <1>6 DEF Update, cacheVars
  <2> QED BY <1>1, <1>6, <2>1, UpdateProperties, DeleteKeepsHandlers
<1>7. ASSUME NEW p \in Policies, Delete(p)
      PROVE  HandlerInv'
  BY <1>7, DeleteKeepsHandlers DEF Delete, cacheVars
<1>8. ASSUME NEW p \in Policies, GetInformerForKind(p)
      PROVE  HandlerInv'
  <2>1. PICK k \in op[p].todo :
           \/ UNCHANGED <<informer, informers>>
           \/ AddInformerToMap(k) /\ UNCHANGED informers
           \/ /\ Ready(k) /\ informers[k] = NoHandler
              /\ informers' = [informers EXCEPT ![k] = [informer |-> informer[k].id, members |-> {}]]
              /\ UNCHANGED informer
    BY <1>8 DEF GetInformerForKind
  <2>2. k \in Kinds /\ UNCHANGED <<policies, made>>
    BY <1>8 DEF GetInformerForKind, Types, ManagerTypes, UpdateCall
  <2>3. CASE /\ Ready(k) /\ informers[k] = NoHandler
             /\ informers' = [informers EXCEPT ![k] = [informer |-> informer[k].id, members |-> {}]]
             /\ UNCHANGED informer
    <3>1. /\ informers'[k].informer = informer[k].id /\ informers'[k].members = informers[k].members
          /\ \A l \in Kinds \ {k} : informers'[l] = informers[l]
      BY <2>2, <2>3 DEF Types, ManagerTypes, NoHandler
    <3>2. HandlersOnLiveInformers'
      BY <2>2, <2>3, <3>1 DEF HandlerInv, HandlersOnLiveInformers, Listens, Ready
    <3>3. MembersInv'
      BY <2>2, <3>1 DEF HandlerInv, MembersInv, Serves, IsRunning
    <3> QED BY <3>2, <3>3 DEF HandlerInv
  <2> QED BY <1>1, <2>1, <2>2, <2>3, AddInformerKeepsHandlers
<1>9. CASE garbageCollectInformers
  <2>1. /\ \A k \in Kinds : informers'[k] = (IF informers[k].members = {} THEN NoHandler ELSE informers[k])
        /\ UNCHANGED <<policies, made>>
        /\ \A k \in Kinds : informers[k].members # {} => informer'[k] = informer[k]
    BY <1>9, CollectProperties DEF garbageCollectInformers
  <2>2. HandlersOnLiveInformers'
    BY <2>1 DEF HandlerInv, HandlersOnLiveInformers, Listens
  <2>3. ASSUME NEW k \in Kinds
        PROVE  informers'[k].members = informers[k].members
    <3>1. NoHandler.members = {}
      BY DEF NoHandler
    <3> QED BY <2>1, <3>1
  <2>4. MembersInv'
    BY <2>1, <2>3 DEF HandlerInv, MembersInv, Serves, IsRunning
  <2> QED BY <2>2, <2>4 DEF HandlerInv
<1>10. ASSUME NEW k \in Kinds, Notify(k) \/ Expire(k) \/ ChangeObject(k)
       PROVE  HandlerInv'
  BY <1>1, <1>10 DEF Notify, Expire, ChangeObject, cacheVars, managerVars
<1>11. ASSUME NEW p \in Policies, CallUpdate(p) \/ UpdateFails(p) \/ DeletePolicy(p) \/ RequeueAll(p) \/ UpdateReturns(p)
       PROVE  HandlerInv'
  BY <1>1, <1>11 DEF CallUpdate, UpdateFails, DeletePolicy, RequeueAll, UpdateReturns, cacheVars, managerVars
<1>12. ASSUME NEW c \in 1 .. Len(made), Take(c) \/ Processed(c) \/ Reschedule(c)
       PROVE  HandlerInv'
  BY <1>1, <1>12 DEF Take, Processed, Reschedule, cacheVars, managerVars
<1>13. CASE UNCHANGED vars
  BY <1>1, <1>13 DEF vars, cacheVars, managerVars
<1> QED BY <1>2, <1>3, <1>4, <1>5, <1>6, <1>7, <1>8, <1>9, <1>10, <1>11, <1>12, <1>13, StartKeepsHandlers
        DEF Next, Manager, Worker

-----------------------------------------------------------------------------
(* Changes.                                                                 *)

\* The kinds of a controller that runs have handlers, on informers that live.
LEMMA ServedKinds ==
    ASSUME IInv, NEW c \in Nat, NEW k \in Kinds, Serves(c, k)
    PROVE  /\ c \in 1 .. Len(made) /\ c \in Controllers /\ made[c].policy \in Policies
           /\ c \in informers[k].members /\ informers[k] # NoHandler /\ Listens(k)
           /\ policies[made[c].policy] = c
<1>1. Types /\ RoomInv /\ MembersInv /\ HandlersOnLiveInformers
  BY DEF IInv, HandlerInv
<1>2. c \in 1 .. Len(made) /\ policies[made[c].policy] = c
  BY DEF Serves, IsRunning
<1>3. c \in informers[k].members
  BY <1>1 DEF MembersInv
<1>4. informers[k] # NoHandler
  BY <1>3 DEF NoHandler
<1> QED BY <1>1, <1>2, <1>3, <1>4, MadeTypes, RoomForControllers DEF HandlersOnLiveInformers

\* Queues stay as they are, and so do the store and the notifications of every handler.
LEMMA ChangesStay ==
    ASSUME IInv, UNCHANGED <<made, queueVars>>,
           \A p \in Policies : exists'[p] => exists[p],
           \A c \in Nat, k \in Kinds : Serves(c, k)' => Serves(c, k),
           \A k \in Kinds : informers[k] # NoHandler =>
               informer'[k].store = informer[k].store /\ pending'[k] = pending[k],
           \A p \in Policies : op[p].step = "requeue" /\ op[p].todo # {} /\ exists[p] => op'[p] = op[p]
    PROVE  ChangeInv'
<1>1. NewControllers'
  BY DEF IInv, ChangeInv, NewControllers, queueVars
<1>2. ASSUME NEW c \in Nat, NEW k \in Kinds, Misses(c, k)'
      PROVE  Scheduled(c, k)' \/ ToBeRequeued(c, k)'
  <2>1. Serves(c, k)
    BY <1>2 DEF Misses
  <2>2. /\ made[c].policy \in Policies
        /\ informer'[k].store = informer[k].store /\ pending'[k] = pending[k]
    BY <2>1, ServedKinds
  <2>3. Misses(c, k)
    BY <1>2, <2>1, <2>2 DEF Misses, Owes, queueVars
  <2>4. Scheduled(c, k) => Scheduled(c, k)'
    BY <2>2 DEF Scheduled, InQueue, queueVars
  <2>5. ToBeRequeued(c, k) => ToBeRequeued(c, k)'
    BY <2>2, <2>3 DEF ToBeRequeued, Misses
  <2> QED BY <2>3, <2>4, <2>5 DEF IInv, ChangeInv
<1> QED BY <1>1, <1>2 DEF ChangeInv

\* A change that matters to somebody is notified.
LEMMA WatchKeepsChanges ==
    ASSUME IInv, NEW k \in Kinds, Watch(k)
    PROVE  ChangeInv'
<1> USE DEF IInv
<1>1. UNCHANGED <<exists, policies, made, op, queueVars>>
  BY DEF Watch, managerVars
<1>2. NewControllers'
  BY <1>1 DEF ChangeInv, NewControllers, queueVars
<1>3. PICK v \in informer[k].store + 1 .. version[k] :
          /\ informer' = [informer EXCEPT ![k].store = v]
          /\ pending' = IF Listens(k) /\ (Exists(v) \/ Exists(informer[k].store))
                        THEN [pending EXCEPT ![k] = @ + 1] ELSE pending
  BY DEF Watch
<1>4. ASSUME NEW c \in Nat, NEW l \in Kinds, Misses(c, l)'
      PROVE  Scheduled(c, l)' \/ ToBeRequeued(c, l)'
  <2>1. Serves(c, l) /\ exists[made[c].policy] /\ Owes(c, l)'
    BY <1>1, <1>4 DEF Misses, Serves, IsRunning
  <2>2. Listens(l) /\ pending \in [Kinds -> Nat]
    BY <2>1, ServedKinds DEF Types, InformerTypes
  <2>3. CASE l = k /\ (Exists(v) \/ Exists(informer[k].store))
    BY <1>3, <2>2, <2>3 DEF Scheduled
  <2>4. CASE l = k /\ ~Exists(v) /\ ~Exists(informer[k].store)
    <3>1. informer'[k].store = v /\ pending'[k] = pending[k]
      BY <1>3, <2>4 DEF Types, InformerTypes, Informer
    <3>2. Exists(attempted[c][k])
      BY <1>1, <2>1, <2>4, <3>1 DEF Owes, queueVars
    <3>3. Misses(c, k) /\ ~ToBeRequeued(c, k)
      BY <2>1, <2>4, <3>2 DEF Misses, Owes, ToBeRequeued
    <3>4. Scheduled(c, k)
      BY <3>3 DEF ChangeInv
    <3> QED BY <1>1, <2>4, <3>1, <3>4 DEF Scheduled, InQueue, queueVars
  <2>5. CASE l # k
    <3>1. informer'[l] = informer[l] /\ pending'[l] = pending[l]
      BY <1>3, <2>5 DEF Types, InformerTypes
    <3>2. Misses(c, l)
      BY <1>1, <2>1, <3>1 DEF Misses, Owes, queueVars
    <3>3. Scheduled(c, l) \/ ToBeRequeued(c, l)
      BY <3>2 DEF ChangeInv
    <3>4. Scheduled(c, l) => Scheduled(c, l)'
      BY <1>1, <3>1 DEF Scheduled, InQueue, queueVars
    <3>5. ToBeRequeued(c, l) => ToBeRequeued(c, l)'
      BY <1>1, <3>1 DEF ToBeRequeued
    <3> QED BY <3>3, <3>4, <3>5
  <2> QED BY <2>3, <2>4, <2>5
<1> QED BY <1>2, <1>4 DEF ChangeInv

\* Nothing but queues changes: what was scheduled stays so.
LEMMA QueuesKeepChanges ==
    ASSUME IInv, UNCHANGED <<exists, informer, policies, made, attempted>>,
           \A c \in Controllers, k \in Kinds :
               Misses(c, k) => /\ Scheduled(c, k) => Scheduled(c, k)'
                               /\ ToBeRequeued(c, k) => Scheduled(c, k)' \/ ToBeRequeued(c, k)'
    PROVE  ChangeInv'
<1>1. NewControllers'
  BY DEF IInv, ChangeInv, NewControllers
<1>2. ASSUME NEW c \in Nat, NEW k \in Kinds, Misses(c, k)'
      PROVE  Scheduled(c, k)' \/ ToBeRequeued(c, k)'
  <2>1. Misses(c, k)
    BY <1>2 DEF Misses, Serves, IsRunning, Owes
  <2>2. c \in Controllers
    BY <2>1, ServedKinds DEF Misses
  <2> QED BY <2>1, <2>2 DEF IInv, ChangeInv
<1> QED BY <1>1, <1>2 DEF ChangeInv

LEMMA TakeKeepsChanges ==
    ASSUME IInv, NEW c \in 1 .. Len(made), Take(c)
    PROVE  ChangeInv'
<1>1. c \in Controllers /\ QueueTypes
  BY RoomForControllers DEF IInv, Types
<1>2. /\ UNCHANGED <<exists, informer, policies, made, op, attempted, pending, again>>
      /\ running[c].key = None
  BY DEF Take, cacheVars, managerVars
<1>3. ASSUME NEW d \in Controllers, NEW k \in Kinds
      PROVE  /\ Scheduled(d, k) => Scheduled(d, k)'
             /\ ToBeRequeued(d, k) => ToBeRequeued(d, k)'
  <2>1. CASE d = c
    <3>1. /\ InQueue(c, k) => InQueue(c, k)' \/ running'[c].key = k
          /\ ~running'[c].read
      BY <1>1, TakeProperties
    <3> QED BY <1>2, <2>1, <3>1, ManagerAssumption DEF Scheduled, ToBeRequeued
  <2>2. CASE d # c
    <3>1. queue'[d] = queue[d] /\ running'[d] = running[d]
      BY <1>1, <2>2, TakeProperties
    <3> QED BY <1>2, <3>1 DEF Scheduled, ToBeRequeued, InQueue
  <2> QED BY <2>1, <2>2
<1> QED BY <1>2, <1>3, QueuesKeepChanges

\* Nobody is waited for by a key that is done, unless it was added again or its policy is gone.
LEMMA DoneKeepsChanges ==
    ASSUME IInv, NEW c \in Controllers, NEW l \in Kinds, running[c].key = l, Done(c),
           UNCHANGED <<exists, informer, policies, made, op, attempted, pending>>,
           running[c].read \/ ~exists[made[c].policy]
    PROVE  ChangeInv'
<1>1. QueueTypes
  BY DEF IInv, Types
<1>2. ASSUME NEW d \in Controllers, NEW k \in Kinds, Misses(d, k)
      PROVE  /\ Scheduled(d, k) => Scheduled(d, k)'
             /\ ToBeRequeued(d, k) => ToBeRequeued(d, k)'
  <2>1. CASE d = c
    <3>1. running[c].read
      BY <1>2, <2>1 DEF Misses
    <3>2. InQueue(c, k) => InQueue(c, k)'
      BY <1>1, DoneProperties
    <3>3. again[c] => InQueue(c, l)'
      BY <1>1, DoneProperties
    <3> QED BY <2>1, <3>1, <3>2, <3>3 DEF Scheduled, ToBeRequeued
  <2>2. CASE d # c
    <3>1. queue'[d] = queue[d] /\ running'[d] = running[d] /\ again'[d] = again[d]
      BY <1>1, <2>2, DoneProperties
    <3> QED BY <3>1 DEF Scheduled, ToBeRequeued, InQueue
  <2> QED BY <2>1, <2>2
<1> QED BY <1>2, QueuesKeepChanges

\* The kind of a controller that runs has an informer that is synced: only one that does not run
\* any more drops a key that it could not read.
LEMMA FailedReadKeepsChanges ==
    ASSUME IInv, NEW c \in Controllers, NEW l \in Kinds, running[c].key = l, Done(c), ~Ready(l),
           UNCHANGED <<exists, informer, policies, made, op, attempted, pending>>
    PROVE  ChangeInv'
<1>1. QueueTypes /\ HandlersOnLiveInformers
  BY DEF IInv, Types, HandlerInv
<1>2. ASSUME NEW d \in Controllers, NEW k \in Kinds, Misses(d, k)
      PROVE  /\ Scheduled(d, k) => Scheduled(d, k)'
             /\ ToBeRequeued(d, k) => ToBeRequeued(d, k)'
  <2>1. d \in Nat /\ Serves(d, k)
    BY <1>2 DEF Misses, Controllers
  <2>2. Ready(k)
    BY <1>1, <2>1, ServedKinds DEF HandlersOnLiveInformers, Listens, Ready
  <2>3. CASE d = c
    <3>1. k # l /\ (InQueue(c, k) => InQueue(c, k)')
      BY <1>1, <2>2, DoneProperties
    <3> QED BY <2>3, <3>1 DEF Scheduled, ToBeRequeued
  <2>4. CASE d # c
    <3>1. queue'[d] = queue[d] /\ running'[d] = running[d] /\ again'[d] = again[d]
      BY <1>1, <2>4, DoneProperties
    <3> QED BY <3>1 DEF Scheduled, ToBeRequeued, InQueue
  <2> QED BY <2>3, <2>4
<1> QED BY <1>2, QueuesKeepChanges

\* The worker reads the object: it owes it no more.
LEMMA ReadKeepsChanges ==
    ASSUME IInv, NEW c \in 1 .. Len(made), Read(c)
    PROVE  ChangeInv'
<1> DEFINE k == running[c].key
<1>1. /\ c \in Controllers /\ Types /\ Len(made) \in Nat /\ k \in Kinds
      /\ UNCHANGED <<exists, version, pending, policies, made, op, informers, delayed>>
  BY RoomForControllers DEF IInv, Read, Types, QueueTypes, managerVars
<1>2. CASE ~exists[made[c].policy] /\ Done(c) /\ UNCHANGED <<informer, attempted>>
  BY <1>1, <1>2, DoneKeepsChanges
<1>3. CASE AddInformerToMap(k) /\ UNCHANGED <<queue, again, running, attempted>>
  <2>1. \A l \in Kinds : informers[l] # NoHandler => informer'[l].store = informer[l].store
    BY <1>1, <1>3 DEF AddInformerToMap, IInv, HandlerInv, HandlersOnLiveInformers, Listens, InformerTypes, Types
  <2> QED BY <1>1, <1>3, <2>1, ChangesStay DEF queueVars, Serves, IsRunning
<1>4. CASE /\ running' = [running EXCEPT ![c].read = TRUE]
           /\ attempted' = [attempted EXCEPT ![c][k] = informer[k].store]
           /\ UNCHANGED <<informer, queue, again>>
  <2>1. /\ attempted'[c][k] = informer[k].store
        /\ \A l \in Kinds \ {k} : attempted'[c][l] = attempted[c][l]
        /\ \A d \in Controllers \ {c} : attempted'[d] = attempted[d] /\ running'[d] = running[d]
        /\ running'[c].key = k
    BY <1>1, <1>4 DEF Types, QueueTypes
  <2>2. NewControllers'
    BY <1>1, <2>1 DEF IInv, ChangeInv, NewControllers, Controllers
  <2>3. ASSUME NEW d \in Nat, NEW l \in Kinds, Misses(d, l)'
        PROVE  Scheduled(d, l)' \/ ToBeRequeued(d, l)'
    <3>1. Serves(d, l) /\ exists[made[d].policy] /\ Owes(d, l)'
      BY <1>1, <2>3 DEF Misses, Serves, IsRunning
    <3>2. d \in Controllers
      BY <3>1, ServedKinds
    <3>3. ~(d = c /\ l = k)
      BY <1>4, <2>1, <3>1 DEF Owes
    <3>4. attempted'[d][l] = attempted[d][l]
      BY <2>1, <3>2, <3>3
    <3>5. Misses(d, l)
      BY <1>4, <3>1, <3>4 DEF Misses, Owes
    <3>6. Scheduled(d, l) => Scheduled(d, l)'
      BY <1>1, <1>4, <2>1, <3>2, <3>3 DEF Scheduled, InQueue
    <3>7. ToBeRequeued(d, l) => ToBeRequeued(d, l)'
      BY <1>1, <1>4 DEF ToBeRequeued
    <3> QED BY <3>5, <3>6, <3>7 DEF IInv, ChangeInv
  <2> QED BY <2>2, <2>3 DEF ChangeInv
<1>5. CASE ~Ready(k) /\ Done(c) /\ UNCHANGED <<informer, attempted>>
  BY <1>1, <1>5, FailedReadKeepsChanges
<1> QED BY <1>1, <1>2, <1>3, <1>4, <1>5 DEF Read

\* Whatever is added to queues, what was scheduled stays so.
LEMMA EnqueueKeepsScheduled ==
    ASSUME QueueTypes, NEW cs, NEW k \in Kinds, Enqueue(cs, k), running' = running,
           NEW c \in Controllers, NEW l \in Kinds, l # k => pending'[l] = pending[l]
    PROVE  /\ Scheduled(c, l) => Scheduled(c, l)' \/ (l = k /\ pending[k] > 0)
           /\ c \in cs => Scheduled(c, k)'
<1>1. InQueue(c, l) => InQueue(c, l)'
  BY EnqueueProperties
<1>2. again[c] => again'[c]
  BY EnqueueProperties
<1>3. c \in cs => InQueue(c, k)' \/ (running[c].key = k /\ again'[c])
  BY EnqueueProperties
<1> QED BY <1>1, <1>2, <1>3 DEF Scheduled

\* The handler of k is notified: all its policies that exist get the key.
LEMMA NotifyKeepsChanges ==
    ASSUME IInv, NEW k \in Kinds, Notify(k)
    PROVE  ChangeInv'
<1> DEFINE cs == {c \in informers[k].members : exists[made[c].policy]}
<1>1. /\ UNCHANGED <<exists, informer, policies, made, op, attempted, running>> /\ QueueTypes
      /\ Enqueue(cs, k)
      /\ \A l \in Kinds : l # k => pending'[l] = pending[l]
  BY DEF Notify, cacheVars, managerVars, IInv, Types, InformerTypes
<1>2. ASSUME NEW c \in Controllers, NEW l \in Kinds, Misses(c, l)
      PROVE  /\ Scheduled(c, l) => Scheduled(c, l)'
             /\ ToBeRequeued(c, l) => ToBeRequeued(c, l)'
  <2>1. c \in Nat /\ (l = k => c \in cs)
    BY <1>2, ServedKinds DEF Misses, Controllers
  <2>2. Scheduled(c, l) => Scheduled(c, l)'
    <3> HIDE DEF cs
    <3> QED BY <1>1, <2>1, EnqueueKeepsScheduled
  <2> QED BY <1>1, <2>2 DEF ToBeRequeued
<1> QED BY <1>1, <1>2, QueuesKeepChanges

LEMMA RescheduleKeepsChanges ==
    ASSUME IInv, NEW c \in 1 .. Len(made), Reschedule(c)
    PROVE  ChangeInv'
<1>1. PICK k \in delayed[c] : Enqueue({c}, k)
  BY DEF Reschedule
<1>2. UNCHANGED <<exists, informer, policies, made, op, attempted, running, pending>> /\ QueueTypes
  BY DEF Reschedule, cacheVars, managerVars, IInv, Types
<1>3. c \in Controllers /\ k \in Kinds
  BY <1>2, RoomForControllers DEF IInv, QueueTypes
<1>4. ASSUME NEW d \in Controllers, NEW l \in Kinds
      PROVE  /\ Scheduled(d, l) => Scheduled(d, l)'
             /\ ToBeRequeued(d, l) => ToBeRequeued(d, l)'
  <2>1. /\ InQueue(d, l) => InQueue(d, l)'
        /\ again[d] => again'[d]
    BY <1>1, <1>2, <1>3, EnqueueProperties
  <2> QED BY <1>2, <2>1 DEF Scheduled, ToBeRequeued
<1> QED BY <1>2, <1>4, QueuesKeepChanges

\* An object that is there and was to be requeued is queued.
LEMMA RequeueKeepsChanges ==
    ASSUME IInv, NEW p \in Policies, RequeueAll(p)
    PROVE  ChangeInv'
<1>1. UNCHANGED <<exists, informer, policies, made, attempted, running, pending>> /\ QueueTypes
  BY DEF RequeueAll, IInv, Types
<1>2. PICK k \in op[p].todo :
          /\ IF Exists(informer[k].store) THEN Enqueue({policies[p]}, k) ELSE UNCHANGED <<queue, again>>
          /\ Advance(p, k)
  BY DEF RequeueAll
<1>3. k \in Kinds
  BY DEF IInv, Types, ManagerTypes, UpdateCall
<1>4. /\ op'[p].step = op[p].step /\ op'[p].todo = op[p].todo \ {k}
      /\ \A q \in Policies \ {p} : op'[q] = op[q]
  BY <1>2, AdvanceProperties DEF IInv
<1>5. ASSUME NEW c \in Controllers, NEW l \in Kinds, Misses(c, l)
      PROVE  /\ Scheduled(c, l) => Scheduled(c, l)'
             /\ ToBeRequeued(c, l) => Scheduled(c, l)' \/ ToBeRequeued(c, l)'
  <2>1. c \in Nat /\ made[c].policy \in Policies /\ policies[made[c].policy] = c
    BY <1>5, ServedKinds DEF Misses, Controllers
  <2>2. Scheduled(c, l) => Scheduled(c, l)'
    <3>1. CASE Exists(informer[k].store)
      <4>1. /\ InQueue(c, l) => InQueue(c, l)'
            /\ again[c] => again'[c]
        BY <1>1, <1>2, <1>3, <3>1, EnqueueProperties
      <4> QED BY <1>1, <4>1 DEF Scheduled
    <3>2. CASE ~Exists(informer[k].store)
      BY <1>1, <1>2, <3>2 DEF Scheduled, InQueue
    <3> QED BY <3>1, <3>2
  <2>3. ASSUME ToBeRequeued(c, l)
        PROVE  Scheduled(c, l)' \/ ToBeRequeued(c, l)'
    <3>1. CASE made[c].policy = p /\ l = k
      <4>1. Enqueue({c}, k)
        BY <1>2, <2>1, <2>3, <3>1 DEF ToBeRequeued
      <4> QED BY <1>1, <1>3, <3>1, <4>1, EnqueueKeepsScheduled
    <3>2. CASE made[c].policy # p \/ l # k
      BY <1>1, <1>4, <2>1, <2>3, <3>2 DEF ToBeRequeued
    <3> QED BY <3>1, <3>2
  <2> QED BY <2>2, <2>3
<1> QED BY <1>1, <1>5, QueuesKeepChanges

\* A controller that is new owes what there is, which is requeued.
LEMMA StartKeepsChanges ==
    ASSUME IInv, [Next]_vars, NEW p \in Policies, StartController(p)
    PROVE  ChangeInv'
<1> DEFINE n == Len(made) + 1
<1>1. Types /\ HandlerInv /\ LockOf(p) /\ HandlerInv' /\ UNCHANGED <<exists, informer, pending, queueVars>>
  BY StartKeepsHandlers DEF IInv, LockInv, StartController, cacheVars
<1>2. /\ Len(made') = n /\ Len(made) \in Nat /\ n = Len(made) + 1
      /\ \A c \in 1 .. Len(made) : made'[c] = made[c]
      /\ made'[n] = [policy |-> p, kinds |-> op[p].kinds]
      /\ op'[p].step = "requeue" /\ op'[p].todo = op[p].kinds
      /\ \A q \in Policies \ {p} : op'[q] = op[q]
  BY <1>1, MadeProperties DEF Types, ManagerTypes
<1>3. policies[p] = None /\ op[p].kinds \in SUBSET Kinds
  BY <1>1, MadeProperties DEF LockOf
<1>4. n \in Controllers
  <2>1. RoomInv' /\ Starting' \in SUBSET Policies
    BY <1>1, RoomStep DEF IInv, Starting
  <2>2. Cardinality(Starting') \in Nat
    BY <2>1, ManagerAssumption, FS_Subset, FS_CardinalityType
  <2> QED BY <1>2, <2>1, <2>2, ManagerAssumption DEF RoomInv, Controllers
<1>5. \A k \in Kinds : informers'[k].members \subseteq informers[k].members \cup {n}
  <2>1. AddPolicy(n, op[p].kinds) /\ n \in Nat
    BY <1>2 DEF StartController
  <2> QED BY <1>1, <1>3, <2>1, AddPolicyProperties
<1> HIDE DEF n
<1>6. NewControllers'
  BY <1>1, <1>2 DEF IInv, ChangeInv, NewControllers, queueVars, Controllers
<1>7. ASSUME NEW c \in Nat, NEW k \in Kinds, Misses(c, k)'
      PROVE  Scheduled(c, k)' \/ ToBeRequeued(c, k)'
  <2>1. CASE c = n
    <3>1. attempted'[c][k] = 0
      BY <1>1, <1>2, <1>4, <2>1 DEF IInv, ChangeInv, NewControllers, queueVars
    <3>2. Exists(informer'[k].store)
      BY <1>7, <3>1 DEF Misses, Owes, Exists
    <3>3. k \in op[p].kinds
      BY <1>2, <1>7, <2>1 DEF Misses, Serves
    <3> QED BY <1>2, <2>1, <3>2, <3>3 DEF ToBeRequeued
  <2>2. CASE c # n
    <3>1. Serves(c, k)
      BY <1>1, <1>5, <1>7, <2>2 DEF Misses, HandlerInv, MembersInv
    <3>2. c \in 1 .. Len(made) /\ made[c].policy \in Policies /\ made[c].policy # p
      BY <1>3, <3>1, ServedKinds, ManagerAssumption
    <3>3. made'[c] = made[c] /\ op'[made[c].policy] = op[made[c].policy]
      BY <1>2, <3>2
    <3>4. Misses(c, k)
      BY <1>1, <1>7, <3>1, <3>3 DEF Misses, Owes, queueVars
    <3>5. Scheduled(c, k) => Scheduled(c, k)'
      BY <1>1 DEF Scheduled, InQueue, queueVars
    <3>6. ToBeRequeued(c, k) => ToBeRequeued(c, k)'
      BY <1>1, <3>3 DEF ToBeRequeued
    <3> QED BY <3>4, <3>5, <3>6 DEF IInv, ChangeInv
  <2> QED BY <2>1, <2>2
<1> QED BY <1>6, <1>7 DEF ChangeInv

LEMMA ChangeStep ==
    ASSUME IInv, [Next]_vars
    PROVE  ChangeInv'
<1>1. ASSUME UNCHANGED <<made, op, policies, exists, queueVars>>,
             \A k \in Kinds : informers[k] # NoHandler =>
                 informer'[k].store = informer[k].store /\ pending'[k] = pending[k]
      PROVE  ChangeInv'
  BY <1>1, ChangesStay DEF Serves, IsRunning
<1>2. ASSUME NEW k \in Kinds, AddInformerToMap(k)
      PROVE  \A l \in Kinds : informers[l] # NoHandler => informer'[l].store = informer[l].store
  BY <1>2 DEF AddInformerToMap, IInv, HandlerInv, HandlersOnLiveInformers, Listens, InformerTypes, Types
<1>4. ASSUME NEW k \in Kinds, ScriptReads(k) \/ Expire(k) \/ ChangeObject(k)
      PROVE  ChangeInv'
  <2>1. UNCHANGED informer \/ AddInformerToMap(k)
    BY <1>4 DEF ScriptReads, Expire, ChangeObject
  <2>2. UNCHANGED <<made, op, policies, exists, pending, queueVars>>
    BY <1>4 DEF ScriptReads, Expire, ChangeObject, managerVars
  <2> QED BY <1>1, <1>2, <2>1, <2>2
<1>5. CASE garbageCollectInformers
  <2>1. \A k \in Kinds : informers[k].members # {} => informer'[k] = informer[k] /\ pending'[k] = pending[k]
    BY <1>5, CollectProperties DEF garbageCollectInformers, IInv
  <2>2. UNCHANGED <<made, op, policies, exists, queueVars>>
    BY <1>5 DEF garbageCollectInformers
  <2>3. NewControllers'
    BY <2>2 DEF IInv, ChangeInv, NewControllers, queueVars
  <2>4. ASSUME NEW c \in Nat, NEW k \in Kinds, Misses(c, k)'
        PROVE  Scheduled(c, k)' \/ ToBeRequeued(c, k)'
    <3>1. Serves(c, k)
      BY <2>2, <2>4 DEF Misses, Serves, IsRunning
    <3>2. informer'[k] = informer[k] /\ pending'[k] = pending[k]
      BY <2>1, <3>1, ServedKinds
    <3> QED BY <2>2, <2>4, <3>1, <3>2
            DEF IInv, ChangeInv, Misses, Owes, Scheduled, InQueue, ToBeRequeued, queueVars
  <2> QED BY <2>3, <2>4 DEF ChangeInv
<1>6. ASSUME UNCHANGED <<made, exists, queueVars>>,
             \A p \in Policies : op[p].step = "requeue" /\ op[p].todo # {} /\ exists[p] => op'[p] = op[p],
             \A p \in Policies : policies'[p] # None => policies'[p] = policies[p],
             \A k \in Kinds : informers[k] # NoHandler =>
                 informer'[k].store = informer[k].store /\ pending'[k] = pending[k]
      PROVE  ChangeInv'
  <2>1. ASSUME NEW c \in Nat, NEW k \in Kinds, Serves(c, k)'
        PROVE  Serves(c, k)
    BY <1>6, <2>1, MadeTypes, ManagerAssumption DEF Serves, IsRunning, IInv
  <2> QED BY <1>6, <2>1, ChangesStay
<1>3. ASSUME NEW k \in Kinds, Sync(k)
      PROVE  ChangeInv'
  <2>1. \A l \in Kinds : informers[l] # NoHandler => informer'[l].store = informer[l].store
    BY <1>3 DEF Sync, IInv, HandlerInv, HandlersOnLiveInformers, InformerTypes, Types
  <2>2. SyncSeen(k) /\ Types
    BY <1>3 DEF Sync, IInv
  <2>3. \A q \in Policies : op[q].step # "sync" => op'[q] = op[q]
    BY <2>2, SyncSeenProperties
  <2>4. \A q \in Policies : op[q].step = "requeue" => op'[q] = op[q]
    BY <2>3
  <2>5. UNCHANGED <<made, exists, queueVars, policies, pending>>
    BY <1>3 DEF Sync
  <2> QED BY <1>6, <2>1, <2>4, <2>5
<1>7. ASSUME NEW p \in Policies, CallUpdate(p)
      PROVE  ChangeInv'
  <2>1. \A q \in Policies : op[q].step = "requeue" => op'[q] = op[q]
    BY <1>7, CallProperties DEF IInv, NoCall
  <2> QED BY <1>6, <1>7, <2>1 DEF CallUpdate, cacheVars
<1>8. ASSUME NEW p \in Policies, Update(p)
      PROVE  ChangeInv'
  <2>1. /\ \A q \in Policies : op[q].step = "requeue" => op'[q] = op[q]
        /\ \A q \in Policies : policies'[q] # None => policies'[q] = policies[q]
    BY <1>8, UpdateProperties DEF IInv
  <2>2. UNCHANGED <<made, exists, queueVars, informer, pending>>
    BY <1>8 DEF Update, cacheVars
  <2> QED BY <1>6, <2>1, <2>2
<1>9. ASSUME NEW p \in Policies, GetInformerForKind(p)
      PROVE  ChangeInv'
  <2>1. PICK k \in op[p].todo :
           /\ \/ UNCHANGED <<informer, pending>>
              \/ AddInformerToMap(k) /\ UNCHANGED pending
              \/ /\ informers[k] = NoHandler /\ UNCHANGED informer
                 /\ pending' = [pending EXCEPT ![k] = IF Exists(informer[k].store) THEN 1 ELSE 0]
           /\ Advance(p, k) \/ Return(p) \/ UNCHANGED op
    BY <1>9 DEF GetInformerForKind
  <2>2. k \in Kinds /\ op[p].step = "informers" /\ UNCHANGED <<made, exists, policies, queueVars>>
    BY <1>9 DEF GetInformerForKind, IInv, Types, ManagerTypes, UpdateCall
  <2>3. \A q \in Policies : op[q].step = "requeue" => op'[q] = op[q]
    BY <2>1, <2>2, AdvanceProperties, ReturnProperties DEF IInv
  <2>4. \A l \in Kinds : informers[l] # NoHandler =>
            informer'[l].store = informer[l].store /\ pending'[l] = pending[l]
    BY <1>2, <2>1, <2>2 DEF IInv, Types, InformerTypes
  <2> QED BY <1>6, <2>2, <2>3, <2>4
<1>10. ASSUME NEW p \in Policies, UpdateReturns(p)
       PROVE  ChangeInv'
  <2>1. \A q \in Policies : op[q].step = "requeue" /\ op[q].todo # {} /\ exists[q] => op'[q] = op[q]
    BY <1>10, ReturnProperties DEF UpdateReturns, IInv
  <2> QED BY <1>6, <1>10, <2>1 DEF UpdateReturns, cacheVars
<1>11. ASSUME NEW p \in Policies, Delete(p)
       PROVE  ChangeInv'
  <2>1. \A q \in Policies : policies'[q] # None => policies'[q] = policies[q]
    BY <1>11, DeleteProperties DEF Delete, IInv
  <2> QED BY <1>6, <1>11, <2>1 DEF Delete, cacheVars
<1>12. ASSUME NEW p \in Policies, DeletePolicy(p)
       PROVE  ChangeInv'
  <2>1. \A q \in Policies : exists'[q] => exists[q]
    BY <1>12 DEF DeletePolicy, IInv, Types, ManagerTypes
  <2> QED BY <1>12, <2>1, ChangesStay DEF DeletePolicy, cacheVars, managerVars, Serves, IsRunning
<1>13. ASSUME NEW c \in 1 .. Len(made), Processed(c)
       PROVE  ChangeInv'
  <2>1. c \in Controllers /\ running[c].key \in Kinds
    BY <1>13, RoomForControllers DEF Processed, IInv, Types, QueueTypes
  <2> QED BY <1>13, <2>1, DoneKeepsChanges DEF Processed, cacheVars, managerVars
<1>14. ASSUME NEW p \in Policies, UpdateFails(p)
       PROVE  ChangeInv'
  <2>1. \A q \in Policies : op[q].step = "requeue" => op'[q] = op[q]
    BY <1>14, FailProperties DEF IInv
  <2> QED BY <1>6, <1>14, <2>1 DEF UpdateFails, cacheVars
<1>15. CASE UNCHANGED vars
  BY <1>1, <1>15 DEF vars, cacheVars, managerVars
<1> QED BY <1>3, <1>4, <1>5, <1>7, <1>8, <1>9, <1>10, <1>11, <1>12, <1>13, <1>14, <1>15,
           WatchKeepsChanges, NotifyKeepsChanges, TakeKeepsChanges, ReadKeepsChanges,
           RescheduleKeepsChanges, RequeueKeepsChanges, StartKeepsChanges
        DEF Next, Manager, Worker

-----------------------------------------------------------------------------
(* The invariant holds, and what follows from it.                           *)

LEMMA InitInvariant ==
    ASSUME Init
    PROVE  IInv
<1> USE DEF Init
<1>1. InformerTypes
  <2>1. NoInformer \in Informer
    BY DEF Informer, NoInformer
  <2>2. informer \in [Kinds -> Informer]
    BY <2>1
  <2>3. \A k \in Kinds : informer[k].store = 0 /\ ~informer[k].alive
    BY DEF NoInformer
  <2>4. version \in [Kinds -> Nat] /\ pending \in [Kinds -> Nat]
    OBVIOUS
  <2> QED BY <2>2, <2>3, <2>4 DEF InformerTypes
<1>2. ManagerTypes
  BY DEF ManagerTypes, NoHandler, UpdateCall, NoCall
<1>3. QueueTypes
  BY DEF QueueTypes, NoKey
<1>4. made = << >> /\ Len(made) = 0 /\ 1 .. Len(made) = {}
  OBVIOUS
<1>5. RoomInv
  <2>1. Starting = {}
    BY DEF Starting, NoCall
  <2> QED BY <1>4, <2>1, FS_EmptySet, ManagerAssumption DEF RoomInv
<1>6. LockInv
  BY ManagerAssumption DEF LockInv, LockOf, NoCall
<1>7. \A c, k : ~Serves(c, k)
  BY <1>4 DEF Serves
<1>8. HandlerInv
  BY <1>7 DEF HandlerInv, HandlersOnLiveInformers, MembersInv, NoHandler
<1>9. ChangeInv
  BY <1>7 DEF ChangeInv, NewControllers, Misses
<1> QED BY <1>1, <1>2, <1>3, <1>5, <1>6, <1>8, <1>9 DEF IInv, Types

\* Types, room for controllers, the lock, the handlers and the changes, which need each other.
THEOREM Invariant == Spec => []IInv
<1>1. Init => IInv
  BY InitInvariant
<1>2. IInv /\ [Next]_vars => IInv'
  <2> SUFFICES ASSUME IInv, [Next]_vars PROVE IInv'
    OBVIOUS
  <2>1. Types /\ RoomInv
    BY DEF IInv
  <2>2. Types' /\ RoomInv'
    BY <2>1, InformerTypesStep, ManagerTypesStep, QueueTypesStep, RoomStep DEF Types
  <2> QED BY <2>2, LockStep, HandlerStep, ChangeStep DEF IInv
<1> QED BY <1>1, <1>2, PTL DEF Spec

\* The lock of the manager is held by the one call of Update that is past it, a policy's controller
\* is one that was made for it, and no more controllers are made than there is room for.
THEOREM TypeCorrect == Spec => []TypeOK
<1>1. IInv => TypeOK
  <2> SUFFICES ASSUME IInv PROVE TypeOK
    OBVIOUS
  <2>1. ASSUME NEW p \in Policies
        PROVE  /\ policies[p] = None \/ (policies[p] \in 1 .. Len(made) /\ made[policies[p]].policy = p)
               /\ op[p].step \in {"idle", "sync", "informers", "requeue"}
               /\ op[p].step \in {"informers", "requeue"} <=> policiesLock = p
               /\ op[p].step # "sync" => op[p].todo \subseteq op[p].kinds
    BY DEF IInv, LockInv, LockOf, Types, ManagerTypes, UpdateCall
  <2>2. policiesLock \in Policies \cup {None} /\ \A k \in Kinds : informer[k].store <= version[k]
    BY DEF IInv, Types, ManagerTypes, InformerTypes
  <2> QED BY <2>1, <2>2, RoomForControllers DEF IInv, TypeOK
<1> QED BY <1>1, Invariant, PTL

\* However policies come, go and change their kinds, for every number of policies and kinds: the
\* collector never stops an informer under a handler, and outside the lock a handler serves exactly
\* the controllers that run and have its kind.
THEOREM HandlersCorrect == Spec => []HandlersFollowPolicies
<1>1. IInv => HandlersFollowPolicies
  <2> SUFFICES ASSUME IInv PROVE HandlersFollowPolicies
    OBVIOUS
  <2>1. Types /\ HandlersOnLiveInformers /\ MembersInv
    BY DEF IInv, HandlerInv
  <2>2. ASSUME NEW k \in Kinds
        PROVE  informers[k].members = {c \in 1 .. Len(made) : IsRunning(c) /\ k \in made[c].kinds}
    <3>1. informers[k].members \subseteq Nat
      BY <2>1 DEF Types, ManagerTypes
    <3>2. 1 .. Len(made) \subseteq Nat
      BY <2>1 DEF Types, ManagerTypes
    <3> QED BY <2>1, <3>1, <3>2 DEF MembersInv, Serves
  <2> QED BY <2>1, <2>2 DEF HandlersFollowPolicies, HandlersServeRunningPolicies
<1> QED BY <1>1, Invariant, PTL

\* What a running controller owes is on its way to its worker: in its queue, in process and unread,
\* to be processed again, notified and not yet handled, or still to be requeued by Update.
THEOREM ChangesCorrect == Spec => []NoChangeMissed
<1>1. IInv => NoChangeMissed
  <2> SUFFICES ASSUME IInv, NEW c \in 1 .. Len(made), IsRunning(c), exists[made[c].policy],
                      NEW k \in made[c].kinds, Owes(c, k)
               PROVE  \/ Scheduled(c, k)
                      \/ op[made[c].policy].step = "requeue" /\ k \in op[made[c].policy].todo
    BY DEF NoChangeMissed
  <2>1. k \in Kinds /\ c \in Nat
    BY MadeTypes, RoomForControllers DEF IInv
  <2>2. Misses(c, k)
    BY DEF Misses, Serves
  <2> QED BY <2>1, <2>2 DEF IInv, ChangeInv, ToBeRequeued
<1> QED BY <1>1, Invariant, PTL
=============================================================================
