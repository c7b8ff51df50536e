---------------------------- MODULE VMPoolProofs ----------------------------
(***************************************************************************)
(* Proofs about VMPool, for every set of requests and of VMs.               *)
(***************************************************************************)
EXTENDS VMPool, FiniteSetTheorems, SequenceTheorems, TLAPS

LEMMA SizeIsPositive == Size \in Nat \ {0} /\ IsFiniteSet(VMs)
BY VMsAssumption, FS_CardinalityType, FS_EmptySet DEF Size

\* Removing an element of a sequence: the result is one shorter and its elements
\* come from the other positions.
LEMMA WithoutProperties ==
    ASSUME NEW S, NEW s \in Seq(S), NEW i \in 1 .. Len(s)
    PROVE  /\ Without(s, i) \in Seq(S)
           /\ Len(Without(s, i)) = Len(s) - 1
           /\ \A j \in 1 .. Len(s) - 1 :
                 Without(s, i)[j] = IF j < i THEN s[j] ELSE s[j + 1]
<1> DEFINE n == Len(s) - 1
<1>1. n \in Nat
  BY LenProperties
<1>2. Without(s, i) \in [1 .. n -> S]
  BY <1>1, ElementOfSeq DEF Without
<1>3. Without(s, i) \in Seq(S)
  BY <1>1, <1>2, SeqDef
<1>4. Len(Without(s, i)) = n
  BY <1>1, <1>2, <1>3, LenProperties
<1> QED BY <1>3, <1>4 DEF Without

\* Popping a stack: the last element goes, the others keep their places.
LEMMA PopProperties ==
    ASSUME NEW S, NEW s \in Seq(S), s # << >>
    PROVE  /\ Len(s) \in Nat \ {0} /\ s[Len(s)] \in S
           /\ SubSeq(s, 1, Len(s) - 1) \in Seq(S)
           /\ Len(SubSeq(s, 1, Len(s) - 1)) = Len(s) - 1
           /\ \A i \in 1 .. Len(s) - 1 : SubSeq(s, 1, Len(s) - 1)[i] = s[i]
<1> DEFINE n == Len(s) - 1
<1>1. Len(s) \in Nat \ {0}
  BY EmptySeq
<1>2. \A i \in 1 .. Len(s) : s[i] \in S
  BY ElementOfSeq
<1>3. n \in Nat /\ \A i \in 1 .. n : s[i] \in S
  BY <1>1, <1>2
<1> HIDE DEF n
<1>4. /\ SubSeq(s, 1, n) \in Seq(S)
      /\ Len(SubSeq(s, 1, n)) = IF 1 <= n THEN n - 1 + 1 ELSE 0
      /\ \A i \in 1 .. n - 1 + 1 : SubSeq(s, 1, n)[i] = s[1 + i - 1]
  BY <1>3, SubSeqProperties
<1>5. \A i \in 1 .. n : i \in 1 .. n - 1 + 1 /\ 1 + i - 1 = i
  BY <1>3
<1>6. \A i \in 1 .. n : SubSeq(s, 1, n)[i] = s[i]
  BY <1>4, <1>5
<1>7. Len(SubSeq(s, 1, n)) = n
  BY <1>3, <1>4
<1> QED BY <1>1, <1>2, <1>4, <1>6, <1>7 DEF n

-----------------------------------------------------------------------------
(* Type correctness.                                                        *)

LEMMA OrdersAreSequences == ASSUME NEW st \in Orders(VMs) PROVE st \in Seq(VMs)
BY SizeIsPositive, SeqDef DEF Orders, Size

LEMMA NotifyTyped ==
    ASSUME NEW c \in Int, NEW w \in Seq(Requests), NEW g \in SUBSET Requests,
           NotifyWaiters(c, w, g)
    PROVE  cur' \in Int /\ waiters' \in Seq(Requests) /\ granted' \in SUBSET Requests
<1>1. CASE w # << >>
  BY <1>1, HeadTailProperties DEF NotifyWaiters
<1>2. CASE w = << >>
  BY <1>2 DEF NotifyWaiters
<1> QED BY <1>1, <1>2

LEMMA TypeOKStep == TypeOK /\ [Next]_vars => TypeOK'
<1> SUFFICES ASSUME TypeOK, [Next]_vars PROVE TypeOK'
  OBVIOUS
<1> USE DEF TypeOK
<1>1. CASE UNCHANGED vars
  BY <1>1 DEF vars
<1>2. ASSUME NEW r \in Requests, Acquire(r) PROVE TypeOK'
  <2>1. Append(waiters, r) \in Seq(Requests)
    BY AppendProperties
  <2>2. CASE cur < Size /\ waiters = << >>
    <3>1. /\ pc[r] = "idle"
          /\ cur' = cur + 1 /\ waiters' = waiters
          /\ pc' = [pc EXCEPT ![r] = "pop"]
          /\ outcome' = [outcome EXCEPT ![r] = "none"]
          /\ fate' = [fate EXCEPT ![r] = "none"]
          /\ UNCHANGED <<granted, stack, held, script, term, ctx>>
      BY <1>2, <2>2 DEF Acquire, Goto
    <3> QED BY <3>1 DEF Location, Holding, Fate
  <2>3. CASE ~(cur < Size /\ waiters = << >>)
    BY <1>2, <2>1, <2>3 DEF Acquire, Goto, Location, Holding, Fate
  <2> QED BY <2>2, <2>3
<1>3. ASSUME NEW r \in Requests, Granted(r) PROVE TypeOK'
  BY <1>3 DEF Granted, Goto, Location, Holding, sandbox
<1>4. ASSUME NEW r \in Requests, Cancelled(r) PROVE TypeOK'
  <2>1. CASE r \in granted
    BY <1>4, <2>1 DEF Cancelled, Goto, Location, Holding, sandbox
  <2>2. CASE r \notin granted
    <3> DEFINE left == /\ pc[r] = "wait" /\ outcome' = [outcome EXCEPT ![r] = "error"]
                       /\ pc' = [pc EXCEPT ![r] = "idle"] /\ UNCHANGED <<stack, held, sandbox>>
    <3>0. left
      BY <1>4, <2>2 DEF Cancelled, Goto
    <3>1. PICK i \in 1 .. Len(waiters) :
             IF i = 1 THEN NotifyWaiters(cur, Tail(waiters), granted)
             ELSE waiters' = Without(waiters, i) /\ UNCHANGED <<cur, granted>>
      BY <1>4, <2>2 DEF Cancelled
    <3>2. Tail(waiters) \in Seq(Requests)
      BY <3>1, EmptySeq, HeadTailProperties
    <3>3. CASE i = 1
      <4>1. cur' \in Int /\ waiters' \in Seq(Requests) /\ granted' \subseteq Requests
        BY <3>1, <3>2, <3>3, NotifyTyped
      <4> QED BY <3>0, <4>1 DEF Location, Holding, sandbox
    <3>4. CASE i # 1
      <4>1. cur' \in Int /\ waiters' \in Seq(Requests) /\ granted' \subseteq Requests
        BY <3>1, <3>4, WithoutProperties
      <4> QED BY <3>0, <4>1 DEF Location, Holding, sandbox
    <3> QED BY <3>3, <3>4
  <2> QED BY <2>1, <2>2
<1>5. ASSUME NEW r \in Requests, Pop(r) PROVE TypeOK'
  <2>1. stack[Len(stack)] \in VMs /\ stack' \in Seq(VMs)
    BY <1>5, PopProperties DEF Pop
  <2> QED BY <1>5, <2>1, VMsAssumption DEF Pop, Goto, Location, Holding, sandbox, semaphore
<1>6. ASSUME NEW r \in Requests, MarshalFails(r) PROVE TypeOK'
  BY <1>6 DEF MarshalFails, Goto, Location, Holding, sandbox, semaphore
<1>7. ASSUME NEW r \in Requests, RunScript(r) PROVE TypeOK'
  <2>1. ctx' \in [VMs -> ContextState]
    BY <1>7 DEF RunScript, ContextState, Holding
  <2> QED BY <1>7, <2>1
          DEF RunScript, Goto, Location, Holding, semaphore, ScriptState
<1>8. ASSUME NEW r \in Requests, ScriptReturns(r) PROVE TypeOK'
  BY <1>8 DEF ScriptReturns, Holding, semaphore, ScriptState, Fate
<1>9. ASSUME NEW r \in Requests, ScriptExits(r) PROVE TypeOK'
  <2>1. held[r] \in VMs
    BY <1>9 DEF ScriptExits, Holding
  <2> QED BY <1>9, <2>1 DEF ScriptExits, semaphore, ScriptState
<1>10. ASSUME NEW r \in Requests, ScriptCallsOut(r) PROVE TypeOK'
  BY <1>10 DEF ScriptCallsOut, semaphore, ScriptState
<1>11. ASSUME NEW r \in Requests, CallbackReturns(r) PROVE TypeOK'
  BY <1>11 DEF CallbackReturns, semaphore, ScriptState
<1>12. ASSUME NEW r \in Requests, ScriptTerminated(r) PROVE TypeOK'
  BY <1>12 DEF ScriptTerminated, semaphore, ScriptState, Fate
<1>13. ASSUME NEW r \in Requests, ScriptResult(r) PROVE TypeOK'
  BY <1>13 DEF ScriptResult, Goto, Location, Holding, semaphore, ScriptState
<1>14. ASSUME NEW r \in Requests, TimeoutFires(r) PROVE TypeOK'
  BY <1>14 DEF TimeoutFires, Goto, Location, Holding, semaphore
<1>15. ASSUME NEW r \in Requests, Drained(r) PROVE TypeOK'
  BY <1>15 DEF Drained, Goto, Location, Holding, semaphore, ScriptState
<1>16. ASSUME NEW r \in Requests, ReadResponse(r) PROVE TypeOK'
  BY <1>16 DEF ReadResponse, Answer, Goto, Location, Holding, semaphore, sandbox
<1>17. ASSUME NEW r \in Requests, StartPrepare(r) PROVE TypeOK'
  BY <1>17 DEF StartPrepare, Goto, Location, Holding, semaphore, ScriptState
<1>18. ASSUME NEW r \in Requests, Prepared(r) PROVE TypeOK'
  <2>1. ctx' \in [VMs -> ContextState]
    BY <1>18 DEF Prepared, ContextState, Holding
  <2> QED BY <1>18, <2>1
          DEF Prepared, Goto, Location, Holding, semaphore, ScriptState
<1>19. ASSUME NEW r \in Requests, PrepareTimesOut(r) PROVE TypeOK'
  <2>1. stack' \in Seq(VMs)
    BY <1>19, OrdersAreSequences DEF PrepareTimesOut, NewVMPool
  <2> QED BY <1>19, <2>1, EmptySeq
          DEF PrepareTimesOut, NewVMPool, Location, Holding, ScriptState, Fate,
              ContextState
<1>20. ASSUME NEW r \in Requests, Push(r) PROVE TypeOK'
  <2>1. stack' \in Seq(VMs)
    BY <1>20, AppendProperties DEF Push, Holding
  <2> QED BY <1>20, <2>1 DEF Push, Goto, Location, Holding, semaphore, sandbox
<1>21. ASSUME NEW r \in Requests, Release(r) PROVE TypeOK'
  <2>1. cur' \in Int /\ waiters' \in Seq(Requests) /\ granted' \subseteq Requests
    BY <1>21, NotifyTyped DEF Release
  <2> QED BY <1>21, <2>1 DEF Release, Goto, Location, Holding, sandbox
<1> QED
  BY <1>1, <1>2, <1>3, <1>4, <1>5, <1>6, <1>7, <1>8, <1>9, <1>10, <1>11, <1>12,
     <1>13, <1>14, <1>15, <1>16, <1>17, <1>18, <1>19, <1>20, <1>21
  DEF Next

\* Type correctness of the pool: in particular a request refers to a VM exactly
\* from Get's Pop to Put's Push.
THEOREM TypeCorrect == Spec => []TypeOK
<1>1. Init => TypeOK
  <2> SUFFICES ASSUME Init PROVE TypeOK
    OBVIOUS
  <2>1. stack \in Seq(VMs)
    BY OrdersAreSequences DEF Init, NewVMPool
  <2> QED BY <2>1, EmptySeq
          DEF Init, NewVMPool, TypeOK, Location, Holding, ScriptState, Fate,
              ContextState
<1> QED BY <1>1, TypeOKStep, PTL DEF Spec

-----------------------------------------------------------------------------
(* The semaphore and its queue.                                             *)

\* A step of a request that has a VM and keeps it: nothing the pool looks at
\* changes.
Inside(r) ==
    /\ UNCHANGED <<semaphore, stack, held>>
    /\ pc[r] \in Holding
    /\ \E l \in Holding : pc' = [pc EXCEPT ![r] = l]

LEMMA StepKinds ==
    ASSUME TypeOK, Next
    PROVE  \E r \in Requests :
              \/ Acquire(r) \/ Granted(r) \/ Cancelled(r) \/ Pop(r) \/ Push(r)
              \/ Release(r) \/ PrepareTimesOut(r) \/ Inside(r)
<1>1. PICK r \in Requests :
        \/ Acquire(r) \/ Granted(r) \/ Cancelled(r) \/ Pop(r)
        \/ MarshalFails(r) \/ RunScript(r)
        \/ ScriptReturns(r) \/ ScriptExits(r) \/ ScriptCallsOut(r)
        \/ CallbackReturns(r) \/ ScriptTerminated(r)
        \/ ScriptResult(r) \/ TimeoutFires(r) \/ Drained(r) \/ ReadResponse(r)
        \/ StartPrepare(r) \/ Prepared(r) \/ PrepareTimesOut(r)
        \/ Push(r) \/ Release(r)
  BY DEF Next
<1>2. pc = [pc EXCEPT ![r] = pc[r]]
  BY DEF TypeOK
<1>3. CASE \/ ScriptReturns(r) \/ ScriptExits(r) \/ ScriptCallsOut(r)
           \/ CallbackReturns(r) \/ ScriptTerminated(r)
  BY <1>2, <1>3 DEF ScriptReturns, ScriptExits, ScriptCallsOut, CallbackReturns,
                    ScriptTerminated, Inside, Holding, semaphore
<1>4. CASE \/ MarshalFails(r) \/ RunScript(r) \/ ScriptResult(r) \/ TimeoutFires(r)
           \/ Drained(r) \/ ReadResponse(r) \/ StartPrepare(r) \/ Prepared(r)
  BY <1>4 DEF MarshalFails, RunScript, ScriptResult, TimeoutFires, Drained,
              ReadResponse, StartPrepare, Prepared, Inside, Holding, semaphore, Goto
<1> QED BY <1>1, <1>3, <1>4

\* A waiter withdraws: no permit is free, so nobody is notified.
LEMMA Withdrawal ==
    ASSUME TypeOK, NoIdlePermit, NEW r \in Requests, Cancelled(r), r \notin granted
    PROVE  \E i \in 1 .. Len(waiters) :
              /\ waiters[i] = r
              /\ cur' = cur /\ granted' = granted
              /\ pc' = [pc EXCEPT ![r] = "idle"]
              /\ Len(waiters') = Len(waiters) - 1
              /\ \A j \in 1 .. Len(waiters) - 1 :
                    waiters'[j] = IF j < i THEN waiters[j] ELSE waiters[j + 1]
<1>1. PICK i \in 1 .. Len(waiters) :
        /\ waiters[i] = r
        /\ IF i = 1 THEN NotifyWaiters(cur, Tail(waiters), granted)
           ELSE waiters' = Without(waiters, i) /\ UNCHANGED <<cur, granted>>
  BY DEF Cancelled
<1>2. waiters \in Seq(Requests) /\ waiters # << >> /\ Len(waiters) \in Nat
  BY <1>1, EmptySeq, LenProperties DEF TypeOK
<1>3. pc' = [pc EXCEPT ![r] = "idle"]
  BY DEF Cancelled, Goto
<1>4. CASE i = 1
  <2>1. cur' = cur /\ granted' = granted /\ waiters' = Tail(waiters)
    BY <1>1, <1>2, <1>4, SizeIsPositive DEF NotifyWaiters, NoIdlePermit
  <2>2. /\ Len(Tail(waiters)) = Len(waiters) - 1
        /\ \A j \in 1 .. Len(Tail(waiters)) : Tail(waiters)[j] = waiters[j + 1]
    BY <1>2, HeadTailProperties
  <2> QED BY <1>1, <1>2, <1>3, <1>4, <2>1, <2>2
<1>5. CASE i # 1
  BY <1>1, <1>2, <1>3, <1>5, WithoutProperties
<1> QED BY <1>4, <1>5

\* A permit is given back: the front of the queue gets it, if there is one.
LEMMA Handover ==
    ASSUME TypeOK, PermitInv, NoIdlePermit, NEW r \in Requests, Release(r)
    PROVE  /\ pc[r] = "release" /\ pc' = [pc EXCEPT ![r] = "idle"]
           /\ \/ /\ waiters = << >> /\ waiters' = << >>
                 /\ cur' = cur - 1 /\ granted' = granted
              \/ /\ waiters # << >> /\ Len(waiters') = Len(waiters) - 1
                 /\ \A j \in 1 .. Len(waiters) - 1 : waiters'[j] = waiters[j + 1]
                 /\ cur' = cur /\ granted' = granted \cup {waiters[1]}
                 /\ cur = Size
<1>1. /\ pc[r] = "release" /\ pc' = [pc EXCEPT ![r] = "idle"]
      /\ NotifyWaiters(cur - 1, waiters, granted)
  BY DEF Release, Goto
<1>2. CASE waiters = << >>
  BY <1>1, <1>2 DEF NotifyWaiters
<1>3. CASE waiters # << >>
  <2>1. cur = Size /\ cur - 1 < Size /\ cur - 1 + 1 = cur
    BY <1>3, SizeIsPositive DEF NoIdlePermit
  <2>2. cur' = cur /\ waiters' = Tail(waiters) /\ granted' = granted \cup {Head(waiters)}
    BY <1>1, <1>3, <2>1 DEF NotifyWaiters
  <2>3. /\ Len(Tail(waiters)) = Len(waiters) - 1
        /\ \A j \in 1 .. Len(Tail(waiters)) : Tail(waiters)[j] = waiters[j + 1]
        /\ Head(waiters) = waiters[1]
    BY <1>3, HeadTailProperties DEF TypeOK
  <2> QED BY <1>1, <1>3, <2>1, <2>2, <2>3
<1> QED BY <1>2, <1>3

LEMMA QueueStep ==
    ASSUME TypeOK, QueueInv, PermitInv, NoIdlePermit, Next
    PROVE  QueueInv'
<1>1. PICK r \in Requests :
         \/ Acquire(r) \/ Granted(r) \/ Cancelled(r) \/ Pop(r) \/ Push(r)
         \/ Release(r) \/ PrepareTimesOut(r) \/ Inside(r)
  BY StepKinds
<1> /\ waiters \in Seq(Requests) /\ Len(waiters) \in Nat
    /\ \A i \in 1 .. Len(waiters) : waiters[i] \in Requests
    /\ granted \subseteq Requests /\ pc \in [Requests -> Location]
  BY LenProperties, ElementOfSeq DEF TypeOK
<1> USE DEF QueueInv
<1>2. CASE Acquire(r)
  <2>1. CASE cur < Size /\ waiters = << >>
    <3>1. /\ waiters' = waiters /\ granted' = granted /\ pc[r] = "idle"
          /\ pc' = [pc EXCEPT ![r] = "pop"]
      BY <1>2, <2>1 DEF Acquire, Goto
    <3> QED BY <3>1
  <2>2. CASE ~(cur < Size /\ waiters = << >>)
    <3>1. /\ waiters' = Append(waiters, r) /\ granted' = granted /\ pc[r] = "idle"
          /\ pc' = [pc EXCEPT ![r] = "wait"]
      BY <1>2, <2>2 DEF Acquire, Goto
    <3>2. /\ Len(waiters') = Len(waiters) + 1
          /\ \A i \in 1 .. Len(waiters) : waiters'[i] = waiters[i]
          /\ waiters'[Len(waiters) + 1] = r
      BY <3>1, AppendProperties
    <3>3. \A i \in 1 .. Len(waiters) : waiters[i] # r
      BY <3>1
    <3> QED BY <3>1, <3>2, <3>3
  <2> QED BY <2>1, <2>2
<1>3. CASE r \in granted /\ (Granted(r) \/ Cancelled(r))
  <2>1. /\ waiters' = waiters /\ granted' = granted \ {r}
        /\ pc' = [pc EXCEPT ![r] = "pop"]
    BY <1>3 DEF Granted, Cancelled, Goto
  <2> QED BY <1>3, <2>1
<1>4. CASE r \notin granted /\ Cancelled(r)
  <2>1. PICK i \in 1 .. Len(waiters) :
              /\ waiters[i] = r
              /\ granted' = granted
              /\ pc' = [pc EXCEPT ![r] = "idle"]
              /\ Len(waiters') = Len(waiters) - 1
              /\ \A j \in 1 .. Len(waiters) - 1 :
                    waiters'[j] = IF j < i THEN waiters[j] ELSE waiters[j + 1]
    BY <1>4, Withdrawal
  <2>2. \A s \in granted' : pc'[s] = "wait"
    BY <1>4, <2>1
  <2>3. \A j \in 1 .. Len(waiters') :
           waiters'[j] # r /\ \E k \in 1 .. Len(waiters) : waiters'[j] = waiters[k]
    BY <2>1
  <2>4. \A j \in 1 .. Len(waiters') :
           pc'[waiters'[j]] = "wait" /\ waiters'[j] \notin granted'
    BY <2>1, <2>3
  <2>5. \A j, k \in 1 .. Len(waiters') : waiters'[j] = waiters'[k] => j = k
    BY <2>1
  <2> QED BY <2>2, <2>4, <2>5
<1>5. CASE Release(r)
  <2>1. pc[r] = "release" /\ pc' = [pc EXCEPT ![r] = "idle"]
    BY <1>5, Handover
  <2>2. CASE waiters = << >> /\ waiters' = << >> /\ granted' = granted
    BY <2>1, <2>2
  <2>3. CASE /\ waiters # << >> /\ Len(waiters') = Len(waiters) - 1
             /\ \A j \in 1 .. Len(waiters) - 1 : waiters'[j] = waiters[j + 1]
             /\ granted' = granted \cup {waiters[1]}
    <3>1. 1 \in 1 .. Len(waiters)
      BY <2>3, EmptySeq
    <3>2. \A j \in 1 .. Len(waiters') :
             /\ j + 1 \in 1 .. Len(waiters) /\ waiters'[j] = waiters[j + 1]
             /\ waiters'[j] # waiters[1] /\ waiters'[j] # r
      BY <2>1, <2>3, <3>1
    <3>3. \A s \in granted' : pc'[s] = "wait"
      BY <2>1, <2>3, <3>1
    <3>4. \A j \in 1 .. Len(waiters') :
             pc'[waiters'[j]] = "wait" /\ waiters'[j] \notin granted'
      BY <2>1, <2>3, <3>2, SMTT(20)
    <3>5. \A j, k \in 1 .. Len(waiters') : waiters'[j] = waiters'[k] => j = k
      BY <3>2
    <3> QED BY <3>3, <3>4, <3>5
  <2> QED BY <1>5, <2>2, <2>3, Handover
<1>6. CASE PrepareTimesOut(r)
  <2>1. waiters' = << >> /\ granted' = {}
    BY <1>6 DEF PrepareTimesOut, NewVMPool
  <2> QED BY <2>1
<1>7. CASE Pop(r) \/ Push(r) \/ Inside(r)
  <2>1. /\ waiters' = waiters /\ granted' = granted
        /\ pc[r] # "wait" /\ \E l \in Location : pc' = [pc EXCEPT ![r] = l]
    BY <1>7 DEF Pop, Push, Inside, semaphore, Goto, Holding, Location
  <2> QED BY <2>1
<1> QED BY <1>1, <1>2, <1>3, <1>4, <1>5, <1>6, <1>7 DEF Granted

LEMMA PermitsFinite == ASSUME TypeOK PROVE IsFiniteSet(Permits)
<1>1. Permits \in SUBSET Requests
  BY DEF Permits, TypeOK
<1> QED BY <1>1, RequestsAssumption, FS_Subset

LEMMA PermitStep ==
    ASSUME TypeOK, QueueInv, PermitInv, NoIdlePermit, Next
    PROVE  PermitInv' /\ NoIdlePermit'
<1>1. PICK r \in Requests :
         \/ Acquire(r) \/ Granted(r) \/ Cancelled(r) \/ Pop(r) \/ Push(r)
         \/ Release(r) \/ PrepareTimesOut(r) \/ Inside(r)
  BY StepKinds
<1> /\ waiters \in Seq(Requests) /\ Len(waiters) \in Nat
    /\ granted \subseteq Requests /\ pc \in [Requests -> Location]
    /\ cur \in Int /\ Size \in Nat \ {0} /\ IsFiniteSet(Permits)
  BY LenProperties, SizeIsPositive, PermitsFinite DEF TypeOK
<1> DEFINE Same == Permits' = Permits /\ cur' = cur
<1>2. ASSUME Same, waiters' = << >> \/ waiters # << >>
      PROVE  PermitInv' /\ NoIdlePermit'
  BY <1>2 DEF PermitInv, NoIdlePermit, Size
<1>3. CASE Acquire(r)
  <2>1. CASE cur < Size /\ waiters = << >>
    <3>1. /\ cur' = cur + 1 /\ waiters' = << >> /\ granted' = granted
          /\ pc[r] = "idle" /\ pc' = [pc EXCEPT ![r] = "pop"]
      BY <1>3, <2>1 DEF Acquire, Goto
    <3>2. Permits' = Permits \cup {r} /\ r \notin Permits
      BY <3>1 DEF Permits, QueueInv, Holding
    <3>3. Cardinality(Permits') = Cardinality(Permits) + 1
      BY <3>2, FS_AddElement
    <3> QED BY <2>1, <3>1, <3>3 DEF PermitInv, NoIdlePermit, Size
  <2>2. CASE ~(cur < Size /\ waiters = << >>)
    <3>1. /\ cur' = cur /\ granted' = granted
          /\ pc[r] = "idle" /\ pc' = [pc EXCEPT ![r] = "wait"]
      BY <1>3, <2>2 DEF Acquire, Goto
    <3>2. Permits' = Permits
      BY <3>1 DEF Permits, Holding
    <3> QED BY <2>2, <3>1, <3>2 DEF PermitInv, NoIdlePermit, Size
  <2> QED BY <2>1, <2>2
<1>4. CASE r \in granted /\ (Granted(r) \/ Cancelled(r))
  <2>1. /\ waiters' = waiters /\ granted' = granted \ {r} /\ cur' = cur
        /\ pc' = [pc EXCEPT ![r] = "pop"]
    BY <1>4 DEF Granted, Cancelled, Goto
  <2>2. Permits' = Permits
    BY <1>4, <2>1 DEF Permits
  <2> QED BY <1>2, <2>1, <2>2
<1>5. CASE r \notin granted /\ Cancelled(r)
  <2>1. /\ cur' = cur /\ granted' = granted /\ pc' = [pc EXCEPT ![r] = "idle"]
        /\ waiters # << >>
    BY <1>5, Withdrawal, EmptySeq
  <2>2. Permits' = Permits
    BY <1>5, <2>1 DEF Permits, Holding, Cancelled
  <2> QED BY <1>2, <2>1, <2>2
<1>6. CASE Release(r)
  <2>1. pc[r] = "release" /\ pc' = [pc EXCEPT ![r] = "idle"]
    BY <1>6, Handover
  <2>2. r \in Permits /\ r \notin granted
    BY <2>1 DEF Permits, QueueInv
  <2>3. CASE waiters' = << >> /\ cur' = cur - 1 /\ granted' = granted
    <3>1. Permits' = Permits \ {r}
      BY <2>1, <2>2, <2>3 DEF Permits, Holding
    <3>2. Cardinality(Permits') = Cardinality(Permits) - 1
      BY <2>2, <3>1, FS_RemoveElement
    <3> QED BY <2>3, <3>2 DEF PermitInv, NoIdlePermit, Size
  <2>4. CASE /\ waiters # << >> /\ cur' = cur /\ granted' = granted \cup {waiters[1]}
    <3> DEFINE h == waiters[1]
    <3>1. h \in Requests /\ pc[h] = "wait" /\ h \notin granted
      BY <2>4, EmptySeq, ElementOfSeq DEF QueueInv
    <3>2. Permits' = (Permits \ {r}) \cup {h} /\ h \notin Permits
      BY <2>1, <2>2, <2>4, <3>1 DEF Permits, Holding
    <3>3. /\ IsFiniteSet(Permits \ {r})
          /\ Cardinality(Permits \ {r}) = Cardinality(Permits) - 1
      BY <2>2, FS_RemoveElement
    <3>4. Cardinality(Permits') = Cardinality(Permits)
      <4>1. Cardinality((Permits \ {r}) \cup {h}) = Cardinality(Permits \ {r}) + 1
        BY <3>2, <3>3, FS_AddElement
      <4>2. Cardinality(Permits) \in Nat
        BY FS_CardinalityType
      <4> QED BY <3>2, <3>3, <4>1, <4>2
    <3>5. cur = Size
      BY <2>4 DEF NoIdlePermit
    <3> QED BY <2>4, <3>4, <3>5 DEF PermitInv, NoIdlePermit, Size
  <2> QED BY <1>6, <2>3, <2>4, Handover
<1>7. CASE PrepareTimesOut(r)
  <2>1. /\ cur' = 0 /\ waiters' = << >> /\ granted' = {}
        /\ pc' = [s \in Requests |-> "idle"]
    BY <1>7 DEF PrepareTimesOut, NewVMPool
  <2>2. Permits' = {}
    BY <2>1 DEF Permits, Holding
  <2> QED BY <2>1, <2>2, FS_EmptySet DEF PermitInv, NoIdlePermit, Size
<1>8. CASE Pop(r) \/ Push(r) \/ Inside(r)
  <2>1. UNCHANGED semaphore
    BY <1>8 DEF Pop, Push, Inside
  <2>2. /\ pc[r] \in Holding \cup {"pop"}
        /\ \E l \in Holding \cup {"release"} : pc' = [pc EXCEPT ![r] = l]
    BY <1>8 DEF Pop, Push, Inside, Goto, Holding
  <2>3. Permits' = Permits
    BY <2>1, <2>2 DEF Permits, Holding, semaphore
  <2> QED BY <2>1, <2>3 DEF semaphore, PermitInv, NoIdlePermit, Size
<1> QED BY <1>1, <1>3, <1>4, <1>5, <1>6, <1>7, <1>8 DEF Granted

-----------------------------------------------------------------------------
(* The stack and the VMs in use.                                            *)

\* A stack that holds Size VMs, each once, holds them all.
LEMMA OrdersCover ==
    ASSUME NEW st \in Orders(VMs)
    PROVE  /\ Len(st) = Size
           /\ \A i, j \in 1 .. Len(st) : st[i] = st[j] => i = j
           /\ \A v \in VMs : \E i \in 1 .. Len(st) : st[i] = v
<1>1. Size \in Nat /\ IsFiniteSet(VMs)
  BY SizeIsPositive
<1>2. st \in [1 .. Size -> VMs] /\ \A i, j \in 1 .. Size : st[i] = st[j] => i = j
  BY DEF Orders, Size
<1>3. st \in Seq(VMs) /\ Len(st) = Size
  BY <1>1, <1>2, OrdersAreSequences, LenProperties
<1>4. st \in Injection(1 .. Size, VMs)
  BY <1>2 DEF Injection, IsInjective
<1>5. IsFiniteSet(1 .. Size) /\ Cardinality(1 .. Size) = Size
  BY <1>1, FS_Interval
<1>6. st \in Surjection(1 .. Size, VMs)
  BY <1>1, <1>4, <1>5, FS_Injection DEF Size
<1> QED BY <1>2, <1>3, <1>6 DEF Surjection

LEMMA PoolStep ==
    ASSUME TypeOK, ExclusiveVM, EveryVMSomewhere, Next
    PROVE  ExclusiveVM' /\ EveryVMSomewhere'
<1>1. PICK r \in Requests :
         \/ Acquire(r) \/ Granted(r) \/ Cancelled(r) \/ Pop(r) \/ Push(r)
         \/ Release(r) \/ PrepareTimesOut(r) \/ Inside(r)
  BY StepKinds
<1> /\ stack \in Seq(VMs) /\ Len(stack) \in Nat
    /\ \A i \in 1 .. Len(stack) : stack[i] \in VMs
    /\ held \in [Requests -> VMs \cup {NoVM}] /\ NoVM \notin VMs
  BY LenProperties, ElementOfSeq, VMsAssumption DEF TypeOK
<1> USE DEF ExclusiveVM, EveryVMSomewhere
<1>2. CASE Acquire(r) \/ Granted(r) \/ Cancelled(r) \/ Release(r) \/ Inside(r)
  <2>1. stack' = stack /\ held' = held
    BY <1>2 DEF Acquire, Granted, Cancelled, Release, Inside
  <2> QED BY <2>1
<1>3. CASE Pop(r)
  <2> DEFINE n == Len(stack)
  <2>1. n \in Nat \ {0} /\ held[r] = NoVM
    BY <1>3, EmptySeq DEF Pop, TypeOK, Holding
  <2>2. /\ held' = [held EXCEPT ![r] = stack[n]]
        /\ stack' = SubSeq(stack, 1, n - 1)
    BY <1>3 DEF Pop
  <2>3. Len(stack') = n - 1 /\ \A i \in 1 .. n - 1 : stack'[i] = stack[i]
    BY <1>3, <2>2, PopProperties DEF Pop
  <2>4. EveryVMSomewhere'
    <3> SUFFICES ASSUME NEW v \in VMs
                 PROVE  \/ \E i \in 1 .. Len(stack') : stack'[i] = v
                        \/ \E s \in Requests : held'[s] = v
      OBVIOUS
    <3>1. CASE \E s \in Requests : held[s] = v
      BY <2>1, <2>2, <3>1
    <3>2. ASSUME NEW i \in 1 .. n, stack[i] = v
          PROVE  \/ \E k \in 1 .. Len(stack') : stack'[k] = v
                 \/ \E s \in Requests : held'[s] = v
      BY <2>1, <2>2, <2>3, <3>2
    <3> QED BY <3>1, <3>2
  <2>5. ExclusiveVM'
    <3>1. \A s, t \in Requests : held'[s] = held'[t] /\ held'[s] # NoVM => s = t
      BY <2>1, <2>2
    <3>2. \A i \in 1 .. Len(stack') : \A s \in Requests : held'[s] # stack'[i]
      BY <2>1, <2>2, <2>3
    <3>3. \A i, j \in 1 .. Len(stack') : stack'[i] = stack'[j] => i = j
      BY <2>1, <2>3, SMTT(20)
    <3> QED BY <3>1, <3>2, <3>3
  <2> QED BY <2>4, <2>5
<1>4. CASE Push(r)
  <2> DEFINE n == Len(stack)
  <2>1. held[r] \in VMs
    BY <1>4 DEF Push, TypeOK, Holding
  <2>2. held' = [held EXCEPT ![r] = NoVM] /\ stack' = Append(stack, held[r])
    BY <1>4 DEF Push
  <2>3. /\ Len(stack') = n + 1 /\ stack'[n + 1] = held[r]
        /\ \A i \in 1 .. n : stack'[i] = stack[i]
    BY <2>1, <2>2, AppendProperties
  <2>4. EveryVMSomewhere'
    <3> SUFFICES ASSUME NEW v \in VMs
                 PROVE  \/ \E i \in 1 .. Len(stack') : stack'[i] = v
                        \/ \E s \in Requests : held'[s] = v
      OBVIOUS
    <3>1. ASSUME NEW i \in 1 .. n, stack[i] = v
          PROVE  \E k \in 1 .. Len(stack') : stack'[k] = v
      BY <2>3, <3>1
    <3>2. ASSUME NEW s \in Requests, held[s] = v
          PROVE  \/ \E k \in 1 .. Len(stack') : stack'[k] = v
                 \/ \E t \in Requests : held'[t] = v
      BY <2>2, <2>3, <3>2
    <3> QED BY <3>1, <3>2
  <2>5. ExclusiveVM'
    <3>1. \A s, t \in Requests : held'[s] = held'[t] /\ held'[s] # NoVM => s = t
      BY <2>2
    <3>2. \A i \in 1 .. Len(stack') : \A s \in Requests : held'[s] # stack'[i]
      BY <2>1, <2>2, <2>3
    <3>3. \A i, j \in 1 .. Len(stack') : stack'[i] = stack'[j] => i = j
      BY <2>3
    <3> QED BY <3>1, <3>2, <3>3
  <2> QED BY <2>4, <2>5
<1>5. CASE PrepareTimesOut(r)
  <2>1. stack' \in Orders(VMs) /\ held' = [s \in Requests |-> NoVM]
    BY <1>5 DEF PrepareTimesOut, NewVMPool
  <2>2. \A i \in 1 .. Len(stack') : stack'[i] \in VMs
    BY <2>1, OrdersAreSequences, ElementOfSeq
  <2> QED BY <2>1, <2>2, OrdersCover
<1> QED BY <1>1, <1>2, <1>3, <1>4, <1>5

\* A request that holds a permit and has not popped yet finds a VM: otherwise
\* every VM would be in use by one of the other permit holders.
LEMMA PermitMeansVM ==
    ASSUME TypeOK, PermitInv, ExclusiveVM, EveryVMSomewhere
    PROVE  NeverPopsNil
<1> SUFFICES ASSUME NEW r \in Requests, pc[r] = "pop", stack = << >>
             PROVE  FALSE
  BY DEF NeverPopsNil
<1> DEFINE Others == Permits \ {r}
           user == [v \in VMs |-> CHOOSE s \in Requests : held[s] = v]
<1>1. IsFiniteSet(Permits) /\ r \in Permits
  BY PermitsFinite DEF Permits
<1>2. IsFiniteSet(Others) /\ Cardinality(Others) = Cardinality(Permits) - 1
  BY <1>1, FS_RemoveElement
<1>3. \A v \in VMs : user[v] \in Requests /\ held[user[v]] = v
  <2>1. Len(stack) = 0
    BY EmptySeq
  <2>2. \A v \in VMs : \E s \in Requests : held[s] = v
    BY <2>1 DEF EveryVMSomewhere
  <2> QED BY <2>2
<1>4. \A v \in VMs : user[v] \in Others
  BY <1>3, VMsAssumption, SMTT(20) DEF TypeOK, Permits, Holding
<1>5. user \in Injection(VMs, Others)
  <2>1. user \in [VMs -> Others]
    BY <1>4
  <2>2. \A v, w \in VMs : user[v] = user[w] => v = w
    BY <1>3
  <2> QED BY <2>1, <2>2 DEF Injection, IsInjective
<1>6. Cardinality(VMs) <= Cardinality(Others)
  BY <1>2, <1>5, FS_Injection
<1> QED BY <1>1, <1>2, <1>6, SizeIsPositive, FS_CardinalityType DEF PermitInv, Size

-----------------------------------------------------------------------------
(* Contexts, termination requests and answers.                              *)

\* Putting back and taking out are the only steps that move a VM.
LEMMA PoppedVM ==
    ASSUME TypeOK, NEW r \in Requests, Pop(r)
    PROVE  \E i \in 1 .. Len(stack) :
              /\ held' = [held EXCEPT ![r] = stack[i]] /\ stack[i] \in VMs
              /\ \A j \in 1 .. Len(stack') : j \in 1 .. Len(stack) /\ stack'[j] = stack[j]
<1>1. /\ stack # << >> /\ stack' = SubSeq(stack, 1, Len(stack) - 1)
      /\ held' = [held EXCEPT ![r] = stack[Len(stack)]]
  BY DEF Pop
<1>2. /\ Len(stack) \in Nat \ {0} /\ stack[Len(stack)] \in VMs
      /\ Len(stack') = Len(stack) - 1
      /\ \A j \in 1 .. Len(stack) - 1 : stack'[j] = stack[j]
  BY <1>1, PopProperties DEF TypeOK
<1>3. Len(stack) \in 1 .. Len(stack)
  BY <1>2
<1>4. \A j \in 1 .. Len(stack') : j \in 1 .. Len(stack) /\ stack'[j] = stack[j]
  BY <1>2
<1> QED BY <1>1, <1>2, <1>3, <1>4

LEMMA PushedVM ==
    ASSUME TypeOK, NEW r \in Requests, Push(r)
    PROVE  /\ held[r] \in VMs /\ held' = [held EXCEPT ![r] = NoVM]
           /\ \A j \in 1 .. Len(stack') :
                 \/ stack'[j] = held[r]
                 \/ j \in 1 .. Len(stack) /\ stack'[j] = stack[j]
<1>1. held[r] \in VMs
  BY DEF Push, TypeOK, Holding
<1>2. stack \in Seq(VMs) /\ stack' = Append(stack, held[r]) /\ Len(stack) \in Nat
  BY LenProperties DEF TypeOK, Push
<1>3. /\ Len(stack') = Len(stack) + 1 /\ stack'[Len(stack) + 1] = held[r]
      /\ \A j \in 1 .. Len(stack) : stack'[j] = stack[j]
  BY <1>1, <1>2, AppendProperties
<1> QED BY <1>1, <1>2, <1>3 DEF Push

LEMMA ContextStep ==
    ASSUME TypeOK, ExclusiveVM, ContextInv, Next
    PROVE  ContextInv'
<1>1. PICK r \in Requests :
        \/ Acquire(r) \/ Granted(r) \/ Cancelled(r) \/ Pop(r)
        \/ MarshalFails(r) \/ RunScript(r)
        \/ ScriptReturns(r) \/ ScriptExits(r) \/ ScriptCallsOut(r)
        \/ CallbackReturns(r) \/ ScriptTerminated(r)
        \/ ScriptResult(r) \/ TimeoutFires(r) \/ Drained(r) \/ ReadResponse(r)
        \/ StartPrepare(r) \/ Prepared(r) \/ PrepareTimesOut(r)
        \/ Push(r) \/ Release(r)
  BY DEF Next
<1> /\ pc \in [Requests -> Location] /\ held \in [Requests -> VMs \cup {NoVM}]
    /\ ctx \in [VMs -> ContextState] /\ NoVM \notin VMs
    /\ \A s \in Requests : held[s] # NoVM <=> pc[s] \in Holding
  BY VMsAssumption DEF TypeOK
<1> USE DEF ContextInv, StartsWithoutLeftovers
<1>2. CASE Pop(r)
  <2>1. PICK i \in 1 .. Len(stack) :
              /\ held' = [held EXCEPT ![r] = stack[i]] /\ stack[i] \in VMs
              /\ \A j \in 1 .. Len(stack') : j \in 1 .. Len(stack) /\ stack'[j] = stack[j]
    BY <1>2, PoppedVM
  <2>2. pc' = [pc EXCEPT ![r] = "got"] /\ ctx' = ctx
    BY <1>2 DEF Pop, Goto, sandbox
  <2> QED BY <2>1, <2>2
<1>3. CASE Push(r)
  <2>1. pc[r] = "push" /\ pc' = [pc EXCEPT ![r] = "release"] /\ ctx' = ctx
    BY <1>3 DEF Push, Goto, sandbox
  <2> QED BY <1>3, <2>1, PushedVM
<1>4. CASE RunScript(r)
  <2>1. /\ pc[r] = "got" /\ pc' = [pc EXCEPT ![r] = "run"] /\ stack' = stack
        /\ held' = held /\ held[r] \in VMs
        /\ \E c \in ContextState : ctx' = [ctx EXCEPT ![held[r]] = c]
    BY <1>4 DEF RunScript, Goto, Holding, ContextState
  <2>2. \A i \in 1 .. Len(stack) : stack[i] # held[r]
    BY DEF ExclusiveVM
  <2>3. \A s \in Requests : s # r /\ pc[s] \in {"got", "push"} => held[s] # held[r]
    BY <2>1 DEF ExclusiveVM, Holding
  <2> QED BY <2>1, <2>2, <2>3
<1>5. CASE Prepared(r)
  <2>1. /\ pc[r] = "prepare" /\ pc' = [pc EXCEPT ![r] = "push"] /\ stack' = stack
        /\ held' = held /\ held[r] \in VMs
        /\ \E c \in {"bare", "fresh"} : ctx' = [ctx EXCEPT ![held[r]] = c]
    BY <1>5 DEF Prepared, Goto, Holding
  <2>2. \A i \in 1 .. Len(stack) : stack[i] # held[r]
    BY DEF ExclusiveVM
  <2>3. \A s \in Requests : s # r /\ pc[s] \in {"got", "push"} => held[s] # held[r]
    BY <2>1 DEF ExclusiveVM, Holding
  <2> QED BY <2>1, <2>2, <2>3
<1>6. CASE PrepareTimesOut(r)
  <2>1. /\ ctx' = [v \in VMs |-> "fresh"] /\ pc' = [s \in Requests |-> "idle"]
        /\ stack' \in Orders(VMs)
    BY <1>6 DEF PrepareTimesOut, NewVMPool
  <2>2. \A i \in 1 .. Len(stack') : stack'[i] \in VMs
    BY <2>1, OrdersAreSequences, ElementOfSeq
  <2> QED BY <2>1, <2>2
<1>7. CASE \/ Acquire(r) \/ Granted(r) \/ Cancelled(r) \/ Release(r)
  <2>1. /\ stack' = stack /\ held' = held /\ ctx' = ctx
        /\ \E l \in {"wait", "pop", "idle"} : pc' = [pc EXCEPT ![r] = l]
    BY <1>7 DEF Acquire, Granted, Cancelled, Release, Goto, sandbox
  <2> QED BY <2>1
<1>8. CASE \/ MarshalFails(r) \/ ScriptResult(r) \/ TimeoutFires(r) \/ Drained(r)
           \/ ReadResponse(r) \/ StartPrepare(r)
  <2>1. /\ stack' = stack /\ held' = held /\ ctx' = ctx
        /\ \E l \in {"put", "read", "drain", "prepare"} : pc' = [pc EXCEPT ![r] = l]
    BY <1>8 DEF MarshalFails, ScriptResult, TimeoutFires, Drained, ReadResponse,
                StartPrepare, Goto, sandbox
  <2> QED BY <2>1
<1>9. CASE \/ ScriptReturns(r) \/ ScriptExits(r) \/ ScriptCallsOut(r)
           \/ CallbackReturns(r) \/ ScriptTerminated(r)
  <2>1. stack' = stack /\ held' = held /\ ctx' = ctx /\ pc' = pc
    BY <1>9 DEF ScriptReturns, ScriptExits, ScriptCallsOut, CallbackReturns,
                ScriptTerminated
  <2> QED BY <2>1
<1> QED BY <1>1, <1>2, <1>3, <1>4, <1>5, <1>6, <1>7, <1>8, <1>9

LEMMA TerminationStep ==
    ASSUME TypeOK, ExclusiveVM, TerminationInv, Next
    PROVE  TerminationInv'
<1>1. PICK r \in Requests :
        \/ Acquire(r) \/ Granted(r) \/ Cancelled(r) \/ Pop(r)
        \/ MarshalFails(r) \/ RunScript(r)
        \/ ScriptReturns(r) \/ ScriptExits(r) \/ ScriptCallsOut(r)
        \/ CallbackReturns(r) \/ ScriptTerminated(r)
        \/ ScriptResult(r) \/ TimeoutFires(r) \/ Drained(r) \/ ReadResponse(r)
        \/ StartPrepare(r) \/ Prepared(r) \/ PrepareTimesOut(r)
        \/ Push(r) \/ Release(r)
  BY DEF Next
<1> /\ pc \in [Requests -> Location] /\ held \in [Requests -> VMs \cup {NoVM}]
    /\ script \in [Requests -> ScriptState] /\ term \subseteq VMs /\ NoVM \notin VMs
    /\ \A s \in Requests : held[s] # NoVM <=> pc[s] \in Holding
  BY VMsAssumption DEF TypeOK
<1> USE DEF TerminationInv
<1>2. CASE Pop(r)
  <2>1. PICK i \in 1 .. Len(stack) :
              /\ held' = [held EXCEPT ![r] = stack[i]] /\ stack[i] \in VMs
              /\ \A j \in 1 .. Len(stack') : j \in 1 .. Len(stack) /\ stack'[j] = stack[j]
    BY <1>2, PoppedVM
  <2>2. pc' = [pc EXCEPT ![r] = "got"] /\ term' = term /\ script' = script
    BY <1>2 DEF Pop, Goto, sandbox
  <2> QED BY <2>1, <2>2
<1>3. CASE Push(r)
  <2>1. /\ pc[r] = "push" /\ pc' = [pc EXCEPT ![r] = "release"]
        /\ term' = term /\ script' = script
    BY <1>3 DEF Push, Goto, sandbox
  <2> QED BY <1>3, <2>1, PushedVM
<1>4. CASE ScriptExits(r) \/ TimeoutFires(r)
  <2>1. /\ pc[r] \in {"run", "drain"} /\ stack' = stack /\ held' = held
        /\ term' = term \cup {held[r]} /\ held[r] \in VMs
    BY <1>4 DEF ScriptExits, TimeoutFires, Holding
  <2>2. \/ /\ pc' = pc /\ script' = [script EXCEPT ![r] = "exiting"]
        \/ /\ pc' = [pc EXCEPT ![r] = "drain"] /\ script' = script
    BY <1>4 DEF ScriptExits, TimeoutFires, Goto
  <2>3. \A i \in 1 .. Len(stack) : stack[i] # held[r]
    BY DEF ExclusiveVM
  <2>4. \A s \in Requests : s # r => held[s] # held[r]
    BY <2>1 DEF ExclusiveVM
  <2> QED BY <2>1, <2>2, <2>3, <2>4
<1>5. CASE ScriptTerminated(r) \/ Prepared(r)
  <2>1. /\ stack' = stack /\ held' = held /\ term' = term \ {held[r]}
        /\ \E l \in Location : pc' = [pc EXCEPT ![r] = l]
        /\ \E c \in ScriptState : script' = [script EXCEPT ![r] = c]
    <3>1. pc = [pc EXCEPT ![r] = pc[r]]
      OBVIOUS
    <3> QED BY <1>5, <3>1
            DEF ScriptTerminated, Prepared, Goto, ScriptState, Location
  <2> QED BY <2>1
<1>6. CASE PrepareTimesOut(r)
  <2>1. term' = {}
    BY <1>6 DEF PrepareTimesOut, NewVMPool
  <2> QED BY <2>1
<1>7. CASE Acquire(r) \/ Granted(r) \/ Cancelled(r) \/ Release(r)
  <2>1. /\ stack' = stack /\ held' = held /\ term' = term /\ script' = script
        /\ pc[r] \in {"idle", "wait", "release"}
        /\ \E l \in Location : pc' = [pc EXCEPT ![r] = l]
    BY <1>7 DEF Acquire, Granted, Cancelled, Release, Goto, sandbox, Location
  <2> QED BY <2>1
<1>8. CASE \/ MarshalFails(r) \/ RunScript(r) \/ ScriptResult(r)
           \/ ReadResponse(r)
  <2>1. /\ stack' = stack /\ held' = held /\ term' = term
        /\ \/ pc[r] \in {"got", "read"}
           \/ pc[r] = "run" /\ script[r] = "ended"
        /\ \E l \in Location : pc' = [pc EXCEPT ![r] = l]
        /\ \E c \in ScriptState : script' = [script EXCEPT ![r] = c]
    <3>1. script = [script EXCEPT ![r] = script[r]]
      OBVIOUS
    <3> QED BY <1>8, <3>1 DEF MarshalFails, RunScript, ScriptResult, ReadResponse,
                              Goto, sandbox, Location, ScriptState
  <2>2. held[r] \notin term
    BY <2>1
  <2> QED BY <2>1, <2>2
<1>9. CASE Drained(r) \/ StartPrepare(r)
  <2>1. /\ stack' = stack /\ held' = held /\ term' = term
        /\ \E l \in {"put", "prepare"} : pc' = [pc EXCEPT ![r] = l]
        /\ \E c \in ScriptState : script' = [script EXCEPT ![r] = c]
    BY <1>9 DEF Drained, StartPrepare, Goto, ScriptState
  <2> QED BY <2>1
<1>10. CASE ScriptReturns(r) \/ ScriptCallsOut(r) \/ CallbackReturns(r)
  <2>1. /\ stack' = stack /\ held' = held /\ term' = term /\ pc' = pc
        /\ script[r] \in {"js", "callback"}
        /\ \E c \in ScriptState : script' = [script EXCEPT ![r] = c]
    BY <1>10 DEF ScriptReturns, ScriptCallsOut, CallbackReturns, ScriptState
  <2> QED BY <2>1
<1> QED BY <1>1, <1>2, <1>3, <1>4, <1>5, <1>6, <1>7, <1>8, <1>9, <1>10

LEMMA AnswerStep ==
    ASSUME TypeOK, TerminationInv, AnswerInv, Next
    PROVE  AnswerInv'
<1>1. PICK r \in Requests :
        \/ Acquire(r) \/ Granted(r) \/ Cancelled(r) \/ Pop(r)
        \/ MarshalFails(r) \/ RunScript(r)
        \/ ScriptReturns(r) \/ ScriptExits(r) \/ ScriptCallsOut(r)
        \/ CallbackReturns(r) \/ ScriptTerminated(r)
        \/ ScriptResult(r) \/ TimeoutFires(r) \/ Drained(r) \/ ReadResponse(r)
        \/ StartPrepare(r) \/ Prepared(r) \/ PrepareTimesOut(r)
        \/ Push(r) \/ Release(r)
  BY DEF Next
<1> /\ pc \in [Requests -> Location] /\ script \in [Requests -> ScriptState]
    /\ fate \in [Requests -> Fate] /\ outcome \in [Requests -> {"none", "ok", "error"}]
  BY DEF TypeOK
<1> USE DEF AnswerInv
<1>2. CASE Acquire(r)
  <2>1. /\ \E l \in {"pop", "wait"} : pc' = [pc EXCEPT ![r] = l]
        /\ outcome' = [outcome EXCEPT ![r] = "none"]
        /\ fate' = [fate EXCEPT ![r] = "none"] /\ script' = script
    BY <1>2 DEF Acquire, Goto
  <2> QED BY <2>1
<1>3. CASE ScriptTerminated(r)
  <2>1. /\ pc[r] \in {"run", "drain"} /\ pc' = pc /\ outcome' = outcome
        /\ script' = [script EXCEPT ![r] = "ended"]
        /\ fate' = [fate EXCEPT ![r] = IF script[r] = "exiting" THEN "exited"
                                       ELSE "terminated"]
        /\ pc[r] = "run" => script[r] = "exiting"
    BY <1>3 DEF ScriptTerminated, TerminationInv
  <2> QED BY <2>1
<1>4. CASE ScriptReturns(r)
  <2>1. /\ pc[r] \in {"run", "drain"} /\ pc' = pc /\ outcome' = outcome
        /\ script' = [script EXCEPT ![r] = "ended"]
        /\ \E f \in {"completed", "threw"} : fate' = [fate EXCEPT ![r] = f]
    BY <1>4 DEF ScriptReturns
  <2> QED BY <2>1
<1>5. CASE ScriptExits(r) \/ ScriptCallsOut(r) \/ CallbackReturns(r)
  <2>1. /\ pc' = pc /\ outcome' = outcome /\ fate' = fate
        /\ \E c \in {"exiting", "callback", "js"} : script' = [script EXCEPT ![r] = c]
    BY <1>5 DEF ScriptExits, ScriptCallsOut, CallbackReturns
  <2> QED BY <2>1
<1>6. CASE ReadResponse(r)
  <2>1. /\ pc[r] = "read" /\ pc' = [pc EXCEPT ![r] = "put"]
        /\ fate' = fate /\ script' = script
        /\ \/ outcome' = [outcome EXCEPT ![r] = "error"]
           \/ outcome' = [outcome EXCEPT ![r] = "ok"] /\ fate[r] # "threw"
    BY <1>6 DEF ReadResponse, Answer, Goto, sandbox
  <2> QED BY <2>1
<1>7. CASE MarshalFails(r) \/ Drained(r)
  <2>1. /\ pc' = [pc EXCEPT ![r] = "put"] /\ fate' = fate
        /\ outcome' = [outcome EXCEPT ![r] = "error"]
        /\ \A s \in Requests : s # r => script'[s] = script[s]
    BY <1>7 DEF MarshalFails, Drained, Goto, sandbox
  <2> QED BY <2>1
<1>8. CASE Cancelled(r) /\ r \notin granted
  <2>1. /\ pc' = [pc EXCEPT ![r] = "idle"] /\ fate' = fate /\ script' = script
        /\ outcome' = [outcome EXCEPT ![r] = "error"]
    BY <1>8 DEF Cancelled, Goto, sandbox
  <2> QED BY <2>1
<1>9. CASE Granted(r) \/ (Cancelled(r) /\ r \in granted) \/ Pop(r)
  <2>1. /\ pc[r] \in {"wait", "pop"} /\ fate' = fate /\ script' = script
        /\ \E l \in {"pop", "got"} : pc' = [pc EXCEPT ![r] = l]
        /\ outcome' = outcome
    BY <1>9 DEF Granted, Cancelled, Pop, Goto, sandbox
  <2> QED BY <2>1
<1>10. CASE RunScript(r) \/ TimeoutFires(r)
  <2>1. /\ pc[r] \in {"got", "run"} /\ fate' = fate /\ outcome' = outcome
        /\ \/ /\ pc' = [pc EXCEPT ![r] = "run"]
              /\ script' = [script EXCEPT ![r] = "js"]
           \/ /\ pc' = [pc EXCEPT ![r] = "drain"] /\ script' = script
    BY <1>10 DEF RunScript, TimeoutFires, Goto
  <2> QED BY <2>1
<1>11. CASE ScriptResult(r)
  <2>1. /\ pc[r] = "run" /\ script[r] = "ended" /\ pc' = [pc EXCEPT ![r] = "read"]
        /\ fate' = fate /\ outcome' = outcome
        /\ script' = [script EXCEPT ![r] = "none"]
    BY <1>11 DEF ScriptResult, Goto
  <2> QED BY <2>1
<1>12. CASE StartPrepare(r) \/ Prepared(r) \/ Push(r) \/ Release(r)
  <2>1. /\ \E l \in {"prepare", "push", "release", "idle"} : pc' = [pc EXCEPT ![r] = l]
        /\ fate' = fate /\ outcome' = outcome
        /\ \E c \in ScriptState : script' = [script EXCEPT ![r] = c]
    <3>1. script = [script EXCEPT ![r] = script[r]]
      OBVIOUS
    <3> QED BY <1>12, <3>1
            DEF StartPrepare, Prepared, Push, Release, Goto, sandbox, ScriptState
  <2> QED BY <2>1
<1>13. CASE PrepareTimesOut(r)
  <2>1. /\ pc' = [s \in Requests |-> "idle"] /\ outcome' = [s \in Requests |-> "none"]
    BY <1>13 DEF PrepareTimesOut, NewVMPool
  <2> QED BY <2>1
<1> QED BY <1>1, <1>2, <1>3, <1>4, <1>5, <1>6, <1>7, <1>8, <1>9, <1>10, <1>11,
           <1>12, <1>13

-----------------------------------------------------------------------------
(* Safety.                                                                  *)

LEMMA InitIInv == Init => IInv
<1> SUFFICES ASSUME Init PROVE IInv
  OBVIOUS
<1> USE DEF Init, NewVMPool
<1>1. TypeOK
  <2>1. stack \in Seq(VMs)
    BY OrdersAreSequences
  <2> QED BY <2>1, EmptySeq
          DEF TypeOK, Location, Holding, ScriptState, Fate, ContextState
<1>2. QueueInv /\ NoIdlePermit
  BY EmptySeq DEF QueueInv, NoIdlePermit
<1>3. PermitInv
  <2>1. Permits = {}
    BY DEF Permits, Holding
  <2> QED BY <2>1, FS_EmptySet, SizeIsPositive DEF PermitInv
<1>4. \A i \in 1 .. Len(stack) : stack[i] \in VMs
  BY OrdersAreSequences, ElementOfSeq
<1>5. ExclusiveVM /\ EveryVMSomewhere
  BY <1>4, OrdersCover, VMsAssumption DEF ExclusiveVM, EveryVMSomewhere
<1>6. ContextInv /\ TerminationInv /\ AnswerInv
  BY <1>4 DEF ContextInv, StartsWithoutLeftovers, TerminationInv, AnswerInv
<1> QED BY <1>1, <1>2, <1>3, <1>5, <1>6 DEF IInv

LEMMA IInvStep == IInv /\ [Next]_vars => IInv'
<1> SUFFICES ASSUME IInv, [Next]_vars PROVE IInv'
  OBVIOUS
<1>1. CASE Next
  BY <1>1, TypeOKStep, QueueStep, PermitStep, PoolStep, ContextStep,
     TerminationStep, AnswerStep DEF IInv
<1>2. CASE UNCHANGED vars
  BY <1>2 DEF IInv, vars, TypeOK, QueueInv, PermitInv, Permits, NoIdlePermit,
              ExclusiveVM, EveryVMSomewhere, ContextInv, StartsWithoutLeftovers,
              TerminationInv, AnswerInv
<1> QED BY <1>1, <1>2

LEMMA Invariance == Spec => []IInv
BY InitIInv, IInvStep, PTL DEF Spec

\* vmpool.go's two panics are unreachable: Get always finds a VM on the stack, and
\* the semaphore is never released more often than it was acquired.
THEOREM PoolNeverPanics == Spec => [](NeverPopsNil /\ PermitsWithinSize)
<1>1. IInv => NeverPopsNil
  BY PermitMeansVM DEF IInv
<1>2. IInv => PermitsWithinSize
  <2> SUFFICES ASSUME IInv PROVE PermitsWithinSize
    OBVIOUS
  <2>1. cur = Cardinality(Permits) /\ cur <= Size /\ IsFiniteSet(Permits)
    BY PermitsFinite DEF IInv, PermitInv
  <2>2. cur \in Nat
    BY <2>1, FS_CardinalityType
  <2> QED BY <2>1, <2>2, SizeIsPositive DEF PermitsWithinSize
<1> QED BY <1>1, <1>2, Invariance, PTL

\* No two executions ever share an isolate, and an isolate in use is not in the pool.
THEOREM ExclusiveUse == Spec => []ExclusiveVM
<1>1. IInv => ExclusiveVM
  BY DEF IInv
<1> QED BY <1>1, Invariance, PTL

\* No request blocks in Get while a permit is free: no wake-up is lost.
THEOREM NoLostWakeup == Spec => []NoIdlePermit
<1>1. IInv => NoIdlePermit
  BY DEF IInv
<1> QED BY <1>1, Invariance, PTL

\* A policy never runs in the context of another execution, and an execution whose
\* script neither ended nor called exit() is never reported as passed.
THEOREM IsolatedExecution == Spec => [](StartsWithoutLeftovers /\ NoUnrunPolicyPasses)
<1>1. IInv => StartsWithoutLeftovers /\ NoUnrunPolicyPasses
  BY DEF IInv, ContextInv, AnswerInv, NoUnrunPolicyPasses
<1> QED BY <1>1, Invariance, PTL
=============================================================================
