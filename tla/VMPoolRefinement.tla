-------------------------- MODULE VMPoolRefinement --------------------------
(***************************************************************************)
(* The pool of VMs implements SandboxPool, for any number of requests and    *)
(* VMs: Pop leases a VM, RunScript soils it, Prepared cleans it, Push gives   *)
(* it back, and no other step shows.                                         *)
(***************************************************************************)
EXTENDS VMPoolProofs

\* Holder, for any assignment h of VMs to requests.
HolderIn(h, v) == IF \E r \in Requests : h[r] = v
                  THEN CHOOSE r \in Requests : h[r] = v
                  ELSE NoVM

Lease == [v \in VMs |-> HolderIn(held, v)]

CleanVMs == {v \in VMs : ctx[v] # "used"}

LEMMA OneHolder ==
    ASSUME NEW h, NEW v, NEW r \in Requests, h[r] = v,
           \A s \in Requests : h[s] = v => s = r
    PROVE  HolderIn(h, v) = r
BY DEF HolderIn

LEMMA NoHolder ==
    ASSUME NEW h, NEW v, \A r \in Requests : h[r] # v
    PROVE  HolderIn(h, v) = NoVM
BY DEF HolderIn

\* Who holds a VM depends only on the requests that hold it.
LEMMA SameHolder ==
    ASSUME NEW h, NEW g, NEW v, \A r \in Requests : h[r] = v <=> g[r] = v
    PROVE  HolderIn(h, v) = HolderIn(g, v)
BY DEF HolderIn

\* The variables of SandboxPool as functions of those of VMPool.
LEMMA Mapping ==
    /\ Abstract!Init <=> Lease = [v \in VMs |-> NoVM] /\ CleanVMs = VMs
    /\ Abstract!Restart <=> Lease' = [v \in VMs |-> NoVM] /\ CleanVMs' = VMs
    /\ UNCHANGED Abstract!vars <=> Lease' = Lease /\ CleanVMs' = CleanVMs
    /\ \A v \in VMs, r \in Requests :
          Abstract!Lease(v, r) <=> /\ Lease[v] = NoVM /\ v \in CleanVMs
                                   /\ Lease' = [Lease EXCEPT ![v] = r]
                                   /\ CleanVMs' = CleanVMs
    /\ \A v \in VMs :
          /\ Abstract!Soil(v) <=> /\ Lease[v] # NoVM /\ Lease' = Lease
                                  /\ CleanVMs' = CleanVMs \ {v}
          /\ Abstract!Clean(v) <=> /\ Lease[v] # NoVM /\ Lease' = Lease
                                   /\ CleanVMs' = CleanVMs \cup {v}
          /\ Abstract!Return(v) <=> /\ Lease[v] # NoVM /\ v \in CleanVMs
                                    /\ Lease' = [Lease EXCEPT ![v] = NoVM]
                                    /\ CleanVMs' = CleanVMs
BY DEF Lease, CleanVMs, HolderIn, Holder, Abstract!Init, Abstract!Restart, Abstract!vars,
       Abstract!Lease, Abstract!Soil, Abstract!Clean, Abstract!Return

\* The VM of a request is leased to it.
LEMMA Leased ==
    ASSUME TypeOK, ExclusiveVM, NEW r \in Requests, held[r] # NoVM
    PROVE  held[r] \in VMs /\ Lease[held[r]] = r /\ r # NoVM
<1>1. held[r] \in VMs /\ \A s \in Requests : held[s] = held[r] => s = r
  BY DEF TypeOK, ExclusiveVM
<1> QED BY <1>1, OneHolder, VMsAssumption DEF Lease

\* A new pool, also the one of a process that replaces another.
LEMMA NewPool ==
    ASSUME held = [r \in Requests |-> NoVM], ctx = [v \in VMs |-> "fresh"]
    PROVE  Lease = [v \in VMs |-> NoVM] /\ CleanVMs = VMs
BY NoHolder, VMsAssumption DEF Lease, CleanVMs

LEMMA PopLeases ==
    ASSUME IInv, NEW r \in Requests, Pop(r)
    PROVE  \E v \in VMs : Abstract!Lease(v, r)
<1>1. PICK i \in 1 .. Len(stack) :
         held' = [held EXCEPT ![r] = stack[i]] /\ stack[i] \in VMs
  BY PoppedVM DEF IInv
<1> DEFINE v == stack[i]
<1>2. /\ held \in [Requests -> VMs \cup {NoVM}] /\ held[r] = NoVM /\ ctx' = ctx
  BY DEF Pop, IInv, TypeOK, Holding, sandbox
<1>3. /\ \A s \in Requests : held[s] # v
      /\ v \in CleanVMs /\ v \in VMs
  BY <1>1 DEF IInv, ExclusiveVM, ContextInv, StartsWithoutLeftovers, CleanVMs
<1>4. Lease[v] = NoVM
  BY <1>3, NoHolder DEF Lease
<1>5. HolderIn(held', v) = r
  <2>1. held'[r] = v /\ \A s \in Requests : held'[s] = v => s = r
    BY <1>1, <1>2, <1>3
  <2> QED BY <2>1, OneHolder
<1>6. ASSUME NEW w \in VMs, w # v PROVE HolderIn(held', w) = HolderIn(held, w)
  <2>1. \A s \in Requests : held'[s] = w <=> held[s] = w
    BY <1>1, <1>2, <1>6, VMsAssumption
  <2> QED BY <2>1, SameHolder
<1>7. Lease' = [Lease EXCEPT ![v] = r]
  BY <1>3, <1>5, <1>6 DEF Lease
<1>8. CleanVMs' = CleanVMs
  BY <1>2 DEF CleanVMs
<1> QED BY <1>3, <1>4, <1>7, <1>8, Mapping

LEMMA PushReturns ==
    ASSUME IInv, NEW r \in Requests, Push(r)
    PROVE  \E v \in VMs : Abstract!Return(v)
<1> DEFINE v == held[r]
<1>1. v \in VMs /\ held' = [held EXCEPT ![r] = NoVM]
  BY PushedVM DEF IInv
<1>2. held \in [Requests -> VMs \cup {NoVM}] /\ ctx' = ctx /\ v \in CleanVMs
  BY <1>1 DEF Push, IInv, TypeOK, sandbox, ContextInv, CleanVMs
<1>3. Lease[v] # NoVM
  BY <1>1, Leased, VMsAssumption DEF IInv
<1>4. HolderIn(held', v) = NoVM
  <2>1. \A s \in Requests : held'[s] # v
    BY <1>1, <1>2, VMsAssumption DEF IInv, ExclusiveVM
  <2> QED BY <2>1, NoHolder
<1>5. ASSUME NEW w \in VMs, w # v PROVE HolderIn(held', w) = HolderIn(held, w)
  <2>1. \A s \in Requests : held'[s] = w <=> held[s] = w
    BY <1>1, <1>2, <1>5, VMsAssumption
  <2> QED BY <2>1, SameHolder
<1>6. Lease' = [Lease EXCEPT ![v] = NoVM]
  BY <1>1, <1>4, <1>5 DEF Lease
<1>7. CleanVMs' = CleanVMs
  BY <1>2 DEF CleanVMs
<1> QED BY <1>1, <1>2, <1>3, <1>6, <1>7, Mapping

\* A script that runs soils its sandbox; in a context without deny and allow it fails,
\* and there is nothing to soil.
LEMMA RunSoils ==
    ASSUME IInv, NEW r \in Requests, RunScript(r)
    PROVE  \/ \E v \in VMs : Abstract!Soil(v)
           \/ UNCHANGED Abstract!vars
<1> DEFINE v == held[r]
<1>1. /\ ctx' = [ctx EXCEPT ![v] = IF @ = "bare" THEN "bare" ELSE "used"]
      /\ held' = held /\ v # NoVM /\ ctx \in [VMs -> ContextState]
  BY DEF RunScript, IInv, TypeOK, Holding
<1>2. v \in VMs /\ Lease[v] # NoVM
  BY <1>1, Leased DEF IInv
<1>3. Lease' = Lease
  BY <1>1 DEF Lease
<1>4. CASE ctx[v] = "bare"
  <2>1. CleanVMs' = CleanVMs
    BY <1>1, <1>2, <1>4 DEF CleanVMs
  <2> QED BY <1>3, <2>1, Mapping
<1>5. CASE ctx[v] # "bare"
  <2>1. CleanVMs' = CleanVMs \ {v}
    BY <1>1, <1>2, <1>5 DEF CleanVMs
  <2> QED BY <1>2, <1>3, <2>1, Mapping
<1> QED BY <1>4, <1>5

LEMMA PreparedCleans ==
    ASSUME IInv, NEW r \in Requests, Prepared(r)
    PROVE  \E v \in VMs : Abstract!Clean(v)
<1> DEFINE v == held[r]
<1>1. /\ ctx' = [ctx EXCEPT ![v] = IF v \in term THEN "bare" ELSE "fresh"]
      /\ held' = held /\ v # NoVM /\ ctx \in [VMs -> ContextState]
  BY DEF Prepared, IInv, TypeOK, Holding
<1>2. v \in VMs /\ Lease[v] # NoVM
  BY <1>1, Leased DEF IInv
<1>3. Lease' = Lease
  BY <1>1 DEF Lease
<1>4. CleanVMs' = CleanVMs \cup {v}
  BY <1>1, <1>2 DEF CleanVMs
<1> QED BY <1>2, <1>3, <1>4, Mapping

\* Every other step is invisible to the users of sandboxes.
LEMMA NothingShows ==
    ASSUME held' = held, ctx' = ctx
    PROVE  UNCHANGED Abstract!vars
BY Mapping DEF Lease, CleanVMs

LEMMA StepImplements ==
    ASSUME IInv, [Next]_vars
    PROVE  [Abstract!Next]_Abstract!vars
<1>1. CASE UNCHANGED vars
  BY <1>1, NothingShows DEF vars
<1>2. ASSUME NEW r \in Requests,
             \/ Acquire(r) \/ Granted(r) \/ Cancelled(r)
             \/ MarshalFails(r) \/ ScriptReturns(r) \/ ScriptExits(r)
             \/ ScriptCallsOut(r) \/ CallbackReturns(r) \/ ScriptTerminated(r)
             \/ ScriptResult(r) \/ TimeoutFires(r) \/ Drained(r) \/ ReadResponse(r)
             \/ StartPrepare(r) \/ Release(r)
      PROVE  UNCHANGED Abstract!vars
  <2>1. held' = held /\ ctx' = ctx
    BY <1>2 DEF Acquire, Granted, Cancelled, MarshalFails, ScriptReturns, ScriptExits,
                ScriptCallsOut, CallbackReturns, ScriptTerminated, ScriptResult,
                TimeoutFires, Drained, ReadResponse, StartPrepare, Release, sandbox
  <2> QED BY <2>1, NothingShows
<1>3. ASSUME NEW r \in Requests, PrepareTimesOut(r) PROVE Abstract!Restart
  <2>1. held' = [s \in Requests |-> NoVM] /\ ctx' = [v \in VMs |-> "fresh"]
    BY <1>3 DEF PrepareTimesOut, NewVMPool
  <2>2. Lease' = [v \in VMs |-> NoVM] /\ CleanVMs' = VMs
    BY <2>1, NoHolder, VMsAssumption DEF Lease, CleanVMs
  <2> QED BY <2>2, Mapping
<1>4. CASE Next
  BY <1>2, <1>3, <1>4, PopLeases, PushReturns, RunSoils, PreparedCleans
     DEF Next, Abstract!Next
<1> QED BY <1>1, <1>4

\* The pool, semaphore, stack and contexts together, implements SandboxPool
\* (vmpool.go): a VM is leased to one request at a time, and no request gets a VM in
\* which another one's policy has run and which was not prepared anew.
THEOREM PoolImplements == Spec => ImplementsSandboxPool
<1>1. Init => Abstract!Init
  BY NewPool, Mapping DEF Init, NewVMPool
<1>2. IInv /\ [Next]_vars => [Abstract!Next]_Abstract!vars
  BY StepImplements
<1> QED BY <1>1, <1>2, Invariance, PTL DEF Spec, ImplementsSandboxPool, Abstract!Spec
=============================================================================
