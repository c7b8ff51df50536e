--------------------------- MODULE StartupProofs ---------------------------
(***************************************************************************)
(* Who leads, and with which certificate, for any number of instances and    *)
(* any lease that is longer than a leader may go without renewing it.        *)
(***************************************************************************)
EXTENDS Startup, FiniteSetTheorems, TLAPS

\* As long as nothing was too late: an instance that thinks it leads, or that is about to learn
\* that it does, holds the lock, and the lease will be longer than it goes on.
LeaseInv ==
    /\ pc \in [Instances -> Steps]
    /\ age \in Nat /\ since \in [Instances -> 0 .. LastRenewal]
    /\ \A i \in Leaders : i = holder /\ age + LastRenewal < LeaseDuration + since[i]
    /\ waiting \subseteq Instances
    /\ \A i \in waiting : i = holder /\ age + LastRenewal < LeaseDuration

LeaderSteps == {"get config", "put config", "register", "leading"}

\* A leader gives up before its lease is over.
LEMMA Lease == LastRenewal \in Nat /\ LeaseDuration \in Nat /\ LastRenewal < LeaseDuration
BY StartupAssumption DEF LastRenewal

\* What was too late stays so.
LEMMA SlowStays ==
    ASSUME [Next]_vars, ~slow'
    PROVE  ~slow
<1>1. ASSUME NEW i \in Instances, Run(i) PROVE slow' = slow
  BY <1>1 DEF Run, Start, GetNamespace, CreateNamespace, GetSecret, DeleteSecret, CreateSecret,
              GetConfig, PutConfig, Register, leaseState, lockState
<1>2. ASSUME NEW i \in Instances, Acquire(i) \/ Renew(i) \/ Reply(i) \/ LoseReply(i)
      PROVE  slow' = slow
  BY <1>2 DEF Acquire, Renew, WriteLock, Reply, LoseReply, lockState
<1>3. ASSUME NEW i \in Instances, StopLeading(i) \/ Crash(i) PROVE slow' = slow
  BY <1>3 DEF StopLeading, Crash, lockState
<1>4. CASE Tick
  BY <1>4 DEF Tick
<1>5. CASE Land \/ UNCHANGED vars
  BY <1>5 DEF Land, vars, leaseState, lockState
<1> QED BY <1>1, <1>2, <1>3, <1>4, <1>5 DEF Next

\* A step after which the lead is held by nobody who did not have it, and the lease is as it was.
LeadKept ==
    /\ pc' \in [Instances -> Steps] /\ Leaders' \subseteq Leaders /\ waiting' \subseteq waiting
    /\ UNCHANGED <<holder, age>>
    /\ since' \in [Instances -> 0 .. LastRenewal]
    /\ \A i \in Leaders' : since'[i] = since[i]

LEMMA KeepsLead ==
    ASSUME LeaseInv, LeadKept
    PROVE  LeaseInv'
<1>1. holder' = holder /\ age' = age /\ LastRenewal' = LastRenewal
  BY DEF LeadKept, LastRenewal
<1>2. \A i \in Leaders' : i = holder' /\ age' + LastRenewal' < LeaseDuration + since'[i]
  BY <1>1 DEF LeaseInv, LeadKept
<1>3. \A i \in waiting' : i = holder' /\ age' + LastRenewal' < LeaseDuration
  BY <1>1 DEF LeaseInv, LeadKept
<1> QED BY <1>1, <1>2, <1>3 DEF LeaseInv, LeadKept

\* Exit, the step of a failing instance, leaves one leader less.
LEMMA ExitLeads ==
    ASSUME NEW i \in Instances, LeaseInv, Exit(i), UNCHANGED <<holder, age>>
    PROVE  LeadKept
<1>1. pc' \in [Instances -> Steps] /\ Leaders' \subseteq Leaders \ {i}
  BY DEF LeaseInv, Exit, Goto, Leaders, Steps
<1>2. 0 \in 0 .. LastRenewal
  BY Lease
<1>3. since' \in [Instances -> 0 .. LastRenewal] /\ \A j \in Instances \ {i} : since'[j] = since[j]
  BY <1>2 DEF LeaseInv, Exit
<1>4. \A j \in Leaders' : j \in Instances \ {i}
  BY <1>1 DEF Leaders
<1> QED BY <1>1, <1>3, <1>4 DEF LeadKept, Exit

\* Where a step of instance i goes does not make a leader of it.
LEMMA GotoLeads ==
    ASSUME NEW i \in Instances, NEW step \in Steps, LeaseInv,
           Goto(i, step), step \in LeaderSteps => i \in Leaders, UNCHANGED leaseState
    PROVE  LeadKept
<1>1. pc' \in [Instances -> Steps] /\ Leaders' \subseteq Leaders
  BY DEF LeaseInv, Goto, Leaders, Steps, LeaderSteps
<1> QED BY <1>1 DEF LeaseInv, LeadKept, leaseState, lockState

\* The steps of main never make a leader and leave the lease alone.
LEMMA RunLeads ==
    ASSUME NEW i \in Instances, LeaseInv, Run(i)
    PROVE  LeadKept
<1>1. CASE Start(i)
  BY <1>1, GotoLeads, "namespace" \in Steps DEF Start, Steps, LeaderSteps
<1>2. CASE GetNamespace(i)
  BY <1>2, GotoLeads DEF GetNamespace, Steps, LeaderSteps
<1>3. CASE CreateNamespace(i)
  <2>1. CASE namespace
    BY <1>3, <2>1, ExitLeads DEF CreateNamespace, lockState
  <2>2. CASE ~namespace
    BY <1>3, <2>2, GotoLeads DEF CreateNamespace, Steps, LeaderSteps, leaseState
  <2> QED BY <2>1, <2>2
<1>4. CASE GetSecret(i)
  BY <1>4, GotoLeads DEF GetSecret, Steps, LeaderSteps
<1>5. CASE DeleteSecret(i)
  <2>1. CASE secret = 0
    BY <1>5, <2>1, ExitLeads DEF DeleteSecret, lockState
  <2>2. CASE secret # 0
    BY <1>5, <2>2, GotoLeads DEF DeleteSecret, Steps, LeaderSteps, leaseState
  <2> QED BY <2>1, <2>2
<1>6. CASE CreateSecret(i)
  BY <1>6, GotoLeads DEF CreateSecret, Steps, LeaderSteps
<1>7. CASE GetConfig(i)
  BY <1>7, GotoLeads DEF GetConfig, Steps, LeaderSteps, Leaders
<1>8. CASE PutConfig(i)
  <2>1. CASE config' # config
    BY <1>8, <2>1, GotoLeads DEF PutConfig, Steps, LeaderSteps, Leaders, leaseState
  <2>2. CASE config' = config
    BY <1>8, <2>2, ExitLeads DEF PutConfig, lockState
  <2> QED BY <2>1, <2>2
<1>9. CASE Register(i)
  BY <1>9, GotoLeads DEF Register, Steps, LeaderSteps, Leaders
<1> QED BY <1>1, <1>2, <1>3, <1>4, <1>5, <1>6, <1>7, <1>8, <1>9 DEF Run

\* The lock is written when nobody else leads, or is about to: it is free or its own, or is older
\* than any leader lets it become.
LEMMA WriterLeads ==
    ASSUME LeaseInv, NEW i \in Instances, WriteLock(i)
    PROVE  LeaseInv'
<1>1. age \in Nat /\ since \in [Instances -> 0 .. LastRenewal] /\ LastRenewal' = LastRenewal
  BY DEF LeaseInv, LastRenewal
<1>2. /\ holder \in {NoInstance, i} \/ age = LeaseDuration
      /\ pc' = pc /\ since' = since /\ holder' = i /\ age' = 0 /\ waiting' = waiting \cup {i}
  BY DEF WriteLock, MayLock
<1>3. ASSUME NEW j \in Leaders PROVE j = i
  <2>1. j \in Instances /\ j = holder /\ age + LastRenewal < LeaseDuration + since[j]
    BY DEF LeaseInv, Leaders
  <2>2. since[j] <= LastRenewal /\ since[j] \in Nat
    BY <1>1, <2>1, Lease
  <2>3. age # LeaseDuration
    BY <1>1, <2>1, <2>2, Lease
  <2> QED BY <1>2, <2>1, <2>3, StartupAssumption
<1>4. \A j \in Instances : 0 + LastRenewal < LeaseDuration + since[j]
  BY <1>1, Lease
<1>5. ASSUME NEW j \in waiting PROVE j = i
  <2>1. j \in Instances /\ j = holder /\ age + LastRenewal < LeaseDuration
    BY DEF LeaseInv
  <2>2. age # LeaseDuration
    BY <1>1, <2>1, Lease
  <2> QED BY <1>2, <2>1, <2>2, StartupAssumption
<1>6. Leaders' = Leaders /\ Leaders \subseteq Instances
  BY <1>2 DEF Leaders
<1>7. waiting' \subseteq Instances /\ pc' \in [Instances -> Steps] /\ age' \in Nat
  BY <1>2 DEF LeaseInv
<1>8. \A j \in Leaders' : j = holder' /\ age' + LastRenewal' < LeaseDuration + since'[j]
  BY <1>1, <1>2, <1>3, <1>4, <1>6
<1>9. \A j \in waiting' : j = holder' /\ age' + LastRenewal' < LeaseDuration
  BY <1>1, <1>2, <1>5, Lease
<1> QED BY <1>1, <1>2, <1>7, <1>8, <1>9 DEF LeaseInv

\* Time passes: the lease gets older, and so does the last reply of each leader, unless it is
\* at the deadline already, which is too late.
LEMMA TickLeads ==
    ASSUME LeaseInv, Tick, ~slow'
    PROVE  LeaseInv'
<1>0. /\ pc \in [Instances -> Steps] /\ age \in Nat /\ since \in [Instances -> 0 .. LastRenewal]
      /\ LastRenewal' = LastRenewal /\ LeaseDuration \in Nat /\ LastRenewal \in Nat
      /\ LastRenewal < LeaseDuration
  BY Lease DEF LeaseInv, LastRenewal
<1>1. UNCHANGED <<pc, holder, waiting>> /\ age' \in {age, age + 1}
  BY DEF Tick
<1>2. since' = [i \in Instances |-> IF i \in Leaders /\ since[i] < LastRenewal
                                    THEN since[i] + 1 ELSE since[i]]
  BY DEF Tick
<1>3. ~TooLate
  BY DEF Tick
<1>4. Leaders' = Leaders /\ Leaders \subseteq Instances
  BY <1>1 DEF Leaders
<1>5. ASSUME NEW i \in Instances PROVE since'[i] \in 0 .. LastRenewal
  BY <1>0, <1>2
<1>6. ASSUME NEW i \in Leaders
      PROVE  i = holder' /\ age' + LastRenewal' < LeaseDuration + since'[i]
  <2>1. i \in Instances /\ i = holder /\ age + LastRenewal < LeaseDuration + since[i]
    BY <1>4 DEF LeaseInv
  <2>2. since[i] \in 0 .. LastRenewal /\ since[i] # LastRenewal
    BY <1>0, <1>3, <2>1 DEF TooLate
  <2>3. since'[i] = since[i] + 1
    BY <1>0, <1>2, <2>1, <2>2
  <2> QED BY <1>0, <1>1, <2>1, <2>2, <2>3
<1>7. ASSUME NEW i \in waiting
      PROVE  i = holder' /\ age' + LastRenewal' < LeaseDuration
  <2>1. i = holder /\ age + LastRenewal < LeaseDuration
    BY DEF LeaseInv
  <2>2. age + 1 + LastRenewal # LeaseDuration
    BY <1>3, <2>1 DEF TooLate
  <2>3. age + 1 + LastRenewal < LeaseDuration
    BY <1>0, <2>1, <2>2
  <2>4. age' + LastRenewal < LeaseDuration
    BY <1>0, <1>1, <2>1, <2>3
  <2>5. i = holder'
    BY <1>1, <2>1
  <2> QED BY <1>0, <2>4, <2>5
<1>8. since' \in [Instances -> 0 .. LastRenewal] /\ age' \in Nat /\ waiting' \subseteq Instances
  BY <1>0, <1>1, <1>2, <1>5 DEF LeaseInv
<1> QED BY <1>0, <1>1, <1>4, <1>6, <1>7, <1>8 DEF LeaseInv

\* Whoever gets the reply to its write holds the lock, for long enough.
LEMMA ReplyLeads ==
    ASSUME LeaseInv, NEW i \in Instances, Reply(i)
    PROVE  LeaseInv'
<1>0. /\ pc \in [Instances -> Steps] /\ age \in Nat /\ since \in [Instances -> 0 .. LastRenewal]
      /\ LastRenewal' = LastRenewal /\ LeaseDuration \in Nat /\ LastRenewal \in Nat
  BY Lease DEF LeaseInv, LastRenewal
<1>1. /\ i \in waiting /\ waiting' = waiting \ {i} /\ since' = [since EXCEPT ![i] = 0]
      /\ holder' = holder /\ age' = age
      /\ pc' = [pc EXCEPT ![i] = "get config"] \/ pc' = pc
  BY DEF Reply, Goto, lockState
<1>2. i = holder /\ age + LastRenewal < LeaseDuration
  BY <1>1 DEF LeaseInv
<1>3. pc' \in [Instances -> Steps] /\ \A j \in Leaders' : j \in Instances /\ (j \in Leaders \/ j = i)
  BY <1>0, <1>1 DEF Leaders, Steps
<1>4. since' \in [Instances -> 0 .. LastRenewal] /\ since'[i] = 0
  <2>1. 0 \in 0 .. LastRenewal
    BY <1>0
  <2> QED BY <1>0, <1>1, <2>1
<1>6. i = holder' /\ age' + LastRenewal' < LeaseDuration + since'[i]
  <2>1. LeaseDuration + since'[i] = LeaseDuration
    BY <1>0, <1>4
  <2>2. i = holder'
    BY <1>1, <1>2
  <2> QED BY <1>0, <1>1, <1>2, <2>1, <2>2
<1>5. ASSUME NEW j \in Leaders'
      PROVE  j = holder' /\ age' + LastRenewal' < LeaseDuration + since'[j]
  <2>1. CASE j = i
    BY <1>6, <2>1
  <2>2. CASE j # i
    <3>1. j \in Leaders /\ j \in Instances
      BY <1>3, <2>2
    <3>2. since'[j] = since[j] /\ j = holder /\ age + LastRenewal < LeaseDuration + since[j]
      BY <1>0, <1>1, <2>2, <3>1 DEF LeaseInv
    <3> QED BY <1>0, <1>1, <3>2
  <2> QED BY <2>1, <2>2
<1> QED BY <1>0, <1>1, <1>3, <1>4, <1>5 DEF LeaseInv

\* The inductive step, as long as nothing is too late.
LEMMA LeaseStep == LeaseInv /\ [Next]_vars /\ ~slow' => LeaseInv'
<1> SUFFICES ASSUME LeaseInv, [Next]_vars, ~slow' PROVE LeaseInv'
  OBVIOUS
<1>0. /\ pc \in [Instances -> Steps] /\ age \in Nat /\ since \in [Instances -> 0 .. LastRenewal]
      /\ LastRenewal' = LastRenewal /\ LeaseDuration \in Nat /\ LastRenewal \in Nat
  BY Lease DEF LeaseInv, LastRenewal
<1>1. CASE Tick
  BY <1>1, TickLeads
<1>2. CASE Land \/ UNCHANGED vars
  <2>1. UNCHANGED <<pc, holder, age, since, waiting>>
    BY <1>2 DEF Land, vars, leaseState, lockState
  <2>2. Leaders' = Leaders
    BY <2>1 DEF Leaders
  <2> QED BY <1>0, <2>1, <2>2, KeepsLead DEF LeadKept
<1>3. ASSUME NEW i \in Instances, Run(i) PROVE LeaseInv'
  BY <1>3, RunLeads, KeepsLead
<1>4. ASSUME NEW i \in Instances, Acquire(i) \/ Renew(i) PROVE LeaseInv'
  BY <1>4, WriterLeads DEF Acquire, Renew
<1>5. ASSUME NEW i \in Instances, Reply(i) PROVE LeaseInv'
  BY <1>5, ReplyLeads
<1>6. ASSUME NEW i \in Instances, LoseReply(i) PROVE LeaseInv'
  <2>1. UNCHANGED <<pc, holder, age, since>> /\ waiting' \subseteq waiting
    BY <1>6 DEF LoseReply, lockState
  <2>2. Leaders' = Leaders
    BY <2>1 DEF Leaders
  <2> QED BY <1>0, <2>1, <2>2, KeepsLead DEF LeadKept
<1>7. ASSUME NEW i \in Instances, StopLeading(i) \/ Crash(i) PROVE LeaseInv'
  BY <1>7, ExitLeads, KeepsLead DEF StopLeading, Crash, lockState
<1> QED BY <1>1, <1>2, <1>3, <1>4, <1>5, <1>6, <1>7 DEF Next

\* Nobody leads beside the holder of the lock, as long as nothing was too late.
LEMMA OneHolder == (~slow => LeaseInv) => OneLeader
<1> SUFFICES ASSUME LeaseInv PROVE Cardinality(Leaders) <= 1
  BY DEF OneLeader
<1>1. Leaders \subseteq {holder}
  BY DEF LeaseInv
<1>2. IsFiniteSet({holder}) /\ Cardinality({holder}) = 1
  BY FS_Singleton
<1>3. Cardinality(Leaders) <= Cardinality({holder}) /\ Cardinality(Leaders) \in Nat
  BY <1>1, <1>2, FS_Subset, FS_CardinalityType
<1> QED BY <1>2, <1>3

LEMMA LeaseInit == Init => LeaseInv
BY Lease DEF Init, LeaseInv, Leaders, Steps

\* As long as a reply to a write of the lock takes less than the rest of the lease and a leader
\* stops on time, two instances never lead at the same time: a leader that cannot renew the
\* lease exits before another instance may take it (pkg/leaderelection).
THEOREM SingleLeader == Spec => []OneLeader
<1>1. Init => (~slow => LeaseInv)
  BY LeaseInit
<1>2. (~slow => LeaseInv) /\ [Next]_vars => (~slow => LeaseInv)'
  BY LeaseStep, SlowStays
<1> QED BY <1>1, <1>2, OneHolder, PTL DEF Spec

-----------------------------------------------------------------------------
(* The configuration.  Writes that were prepared from the present version     *)
(* may be under way only as long as no leader has got past its own write.     *)

Configured == {i \in Instances : pc[i] \in {"register", "leading"}}

Versions ==
    /\ config.version \in Nat
    /\ secret \in Nat /\ made \in Nat
    /\ files \in [Instances -> Nat] /\ read \in [Instances -> Nat]

ConfigInv ==
    /\ Versions
    /\ \A i \in Instances : read[i] <= config.version
    /\ \A w \in late : w.version \in Nat /\ w.version <= config.version
    /\ \A i \in Configured : config.ca = files[i] /\ \A w \in late : w.version < config.version

\* A step that leaves the configuration, its writes and the files of its leader alone.
LEMMA ConfigKept ==
    ASSUME ConfigInv, Versions', UNCHANGED config, late' \subseteq late, Configured' \subseteq Configured,
           \A i \in Configured' : files'[i] = files[i],
           \A i \in Instances : read'[i] <= config.version
    PROVE  ConfigInv'
BY DEF ConfigInv, Versions

\* An instance that exits forgets what it has read, as if nothing was there.
LEMMA NoVersionBeforeNone == \A n \in Nat : 0 <= n
OBVIOUS

\* While an instance writes the configuration no leader has got past its own write.
LEMMA WriterAlone ==
    ASSUME LeaseInv, NEW i \in Instances, pc[i] = "put config"
    PROVE  Configured = {}
<1>1. i \in Leaders /\ Configured \subseteq Leaders
  BY DEF Leaders, Configured
<1>2. \A j \in Leaders : j = holder
  BY DEF LeaseInv
<1> QED BY <1>1, <1>2 DEF Configured

\* The step of an instance that is no leader, and becomes none that is past its write.
LEMMA BeforeConfig ==
    ASSUME LeaseInv, ConfigInv, Versions', NEW i \in Instances, NEW step \in Steps,
           pc[i] \notin {"register", "leading"}, step \notin {"register", "leading"}, Goto(i, step),
           \A j \in Instances \ {i} : files'[j] = files[j],
           UNCHANGED <<read, config, late>>
    PROVE  ConfigInv'
<1>1. Configured' \subseteq Configured /\ \A j \in Configured' : j # i
  BY DEF LeaseInv, Goto, Configured
<1>2. \A j \in Configured' : j \in Instances
  BY DEF Configured
<1> QED BY <1>1, <1>2, ConfigKept DEF ConfigInv, Versions

\* The step of an instance that exits: its write of the configuration may be under way.
LEMMA ExitConfig ==
    ASSUME LeaseInv, ConfigInv, NEW i \in Instances, Exit(i), secret' \in Nat, made' \in Nat,
           UNCHANGED config,
           late' = late \/ (pc[i] = "put config"
                            /\ late' = late \cup {[version |-> read[i], ca |-> files[i]]})
    PROVE  ConfigInv'
<1>1. Configured' \subseteq Configured /\ \A j \in Configured' : j \in Instances /\ j # i
  BY DEF LeaseInv, Exit, Goto, Configured
<1>2. Versions' /\ \A j \in Instances : read'[j] <= config.version
  <2>1. Versions'
    BY DEF ConfigInv, Versions, Exit
  <2>3. 0 <= config.version
    BY NoVersionBeforeNone DEF ConfigInv, Versions
  <2>2. \A j \in Instances : read'[j] \in {0, read[j]} /\ read[j] <= config.version
    BY DEF ConfigInv, Versions, Exit
  <2> QED BY <2>1, <2>2, <2>3
<1>3. \A j \in Configured' : files'[j] = files[j]
  BY <1>1 DEF ConfigInv, Versions, Exit
<1>4. CASE late' = late
  BY <1>1, <1>2, <1>3, <1>4, ConfigKept
<1>5. CASE pc[i] = "put config" /\ late' = late \cup {[version |-> read[i], ca |-> files[i]]}
  <2>1. Configured' = {}
    BY <1>1, <1>5, WriterAlone
  <2>2. \A w \in late' : w.version \in Nat /\ w.version <= config.version
    <3> SUFFICES ASSUME NEW w \in late' PROVE w.version \in Nat /\ w.version <= config.version
      OBVIOUS
    <3>1. CASE w \in late
      BY <3>1 DEF ConfigInv
    <3>2. CASE w = [version |-> read[i], ca |-> files[i]]
      BY <3>2 DEF ConfigInv, Versions
    <3> QED BY <1>5, <3>1, <3>2
  <2> QED BY <1>2, <2>1, <2>2 DEF ConfigInv
<1> QED BY <1>4, <1>5

\* A certificate is generated for the instance alone.
LEMMA Generates ==
    ASSUME Versions, NEW i \in Instances, Generate(i)
    PROVE  /\ files' \in [Instances -> Nat] /\ made' \in Nat
           /\ \A j \in Instances \ {i} : files'[j] = files[j]
<1>1. CASE files[i] # 0
  BY <1>1 DEF Generate, Versions
<1>2. CASE files[i] = 0
  <2>1. made \in Nat /\ Generated(made + 1) \in Nat
    BY DEF Versions, Generated
  <2> QED BY <1>2, <2>1 DEF Generate, Versions
<1> QED BY <1>1, <1>2

\* What an instance does before it leads.
LEMMA CertsConfig ==
    ASSUME LeaseInv, ConfigInv, NEW i \in Instances,
           Start(i) \/ GetNamespace(i) \/ CreateNamespace(i) \/ GetSecret(i) \/ DeleteSecret(i) \/ CreateSecret(i)
    PROVE  ConfigInv'
<1> USE DEF certState, configState
<1>0. Versions /\ pc \in [Instances -> Steps]
  BY DEF ConfigInv, LeaseInv
<1>1. CASE Start(i)
  BY <1>0, <1>1, BeforeConfig, "namespace" \in Steps DEF Start, Versions, Steps
<1>2. CASE GetNamespace(i)
  BY <1>0, <1>2, BeforeConfig DEF GetNamespace, Versions, Steps
<1>3. CASE CreateNamespace(i)
  <2>1. CASE namespace
    BY <1>0, <1>3, <2>1, ExitConfig DEF CreateNamespace, Versions
  <2>2. CASE ~namespace
    BY <1>0, <1>3, <2>2, BeforeConfig DEF CreateNamespace, Versions, Steps
  <2> QED BY <2>1, <2>2
<1>4. CASE GetSecret(i)
  <2>1. CASE secret = 0
    <3>1. Goto(i, "create") /\ Generate(i) /\ UNCHANGED <<secret, read, config, late>> /\ pc[i] = "get"
      BY <1>4, <2>1 DEF GetSecret, Invalid
    <3>2. Versions' /\ \A j \in Instances \ {i} : files'[j] = files[j]
      BY <1>0, <3>1, Generates DEF Versions
    <3> QED BY <3>1, <3>2, BeforeConfig, "create" \in Steps DEF Steps
  <2>2. CASE secret = Invalid
    <3>1. Goto(i, "delete") /\ UNCHANGED <<files, made, secret, read, config, late>> /\ pc[i] = "get"
      BY <1>4, <2>2 DEF GetSecret, Invalid
    <3>2. Versions'
      BY <1>0, <3>1 DEF Versions
    <3> QED BY <3>1, <3>2, BeforeConfig, "delete" \in Steps DEF Steps
  <2>3. CASE secret \notin {0, Invalid}
    BY <1>0, <1>4, <2>3, BeforeConfig DEF GetSecret, Versions, Steps
  <2> QED BY <2>1, <2>2, <2>3
<1>5. CASE DeleteSecret(i)
  <2>1. CASE secret = 0
    BY <1>0, <1>5, <2>1, ExitConfig DEF DeleteSecret, Versions
  <2>2. CASE secret # 0
    <3>1. Goto(i, "create") /\ Generate(i) /\ secret' = 0 /\ UNCHANGED <<read, config, late>> /\ pc[i] = "delete"
      BY <1>5, <2>2 DEF DeleteSecret
    <3>2. Versions' /\ \A j \in Instances \ {i} : files'[j] = files[j]
      BY <1>0, <3>1, Generates DEF Versions
    <3> QED BY <3>1, <3>2, BeforeConfig, "create" \in Steps DEF Steps
  <2> QED BY <2>1, <2>2
<1>6. CASE CreateSecret(i)
  BY <1>0, <1>6, BeforeConfig DEF CreateSecret, Versions, Steps
<1> QED BY <1>1, <1>2, <1>3, <1>4, <1>5, <1>6

\* What a write of the configuration comes to.
LEMMA WrittenConfig ==
    ASSUME NEW version \in Nat, NEW ca, Written(version, ca)
    PROVE  IF version = config.version
           THEN config'.version = version + 1 /\ config'.ca = ca ELSE config' = config
BY DEF Written

\* A write of version n + 1 makes every write that was prepared before it too old.
LEMMA Older ==
    ASSUME NEW n \in Nat, NEW w \in Nat, w <= n
    PROVE  w <= n + 1 /\ w < n + 1 /\ n + 1 \in Nat
OBVIOUS

\* The update of the configuration: nobody else is past its own, and it goes on only if its
\* write came through, exits otherwise.
LEMMA PutConfigStep ==
    ASSUME LeaseInv, ConfigInv, NEW i \in Instances, PutConfig(i)
    PROVE  ConfigInv'
<1>1. Versions /\ read[i] \in Nat /\ pc[i] = "put config" /\ Configured = {}
  BY WriterAlone DEF ConfigInv, Versions, PutConfig
<1>2. Written(read[i], files[i]) /\ UNCHANGED <<late, secret, made>>
  BY DEF PutConfig, certState
<1>3. CASE config' # config
  <2>1. config'.version = config.version + 1 /\ config'.ca = files[i]
    BY <1>1, <1>2, <1>3, WrittenConfig
  <2>2. Goto(i, "register") /\ UNCHANGED <<files, read>>
    BY <1>3 DEF PutConfig
  <2>3. Configured' = {i}
    BY <1>1, <2>2 DEF Configured, Goto, LeaseInv
  <2>4. Versions' /\ \A j \in Instances : read'[j] <= config'.version
    BY <1>1, <1>2, <2>1, <2>2, Older DEF ConfigInv, Versions
  <2>5. \A w \in late' : w.version \in Nat /\ w.version <= config'.version /\ w.version < config'.version
    BY <1>1, <1>2, <2>1, Older DEF ConfigInv, Versions
  <2> QED BY <2>1, <2>2, <2>3, <2>4, <2>5 DEF ConfigInv
<1>4. CASE config' = config
  <2>1. Exit(i)
    BY <1>4 DEF PutConfig
  <2> QED BY <1>1, <1>2, <1>4, <2>1, ExitConfig DEF Versions
<1> QED BY <1>3, <1>4

\* A write that arrives late changes the configuration only before a leader has written it.
LEMMA LandStep ==
    ASSUME LeaseInv, ConfigInv, Land
    PROVE  ConfigInv'
<1>1. PICK w \in late : Written(w.version, w.ca) /\ late' = late \ {w}
  BY DEF Land
<1>2. Versions /\ w.version \in Nat /\ w.version <= config.version
  BY <1>1 DEF ConfigInv
<1>3. UNCHANGED <<pc, files, secret, made, read>> /\ Configured' = Configured
  BY DEF Land, certState, Configured
<1>4. CASE w.version # config.version
  <2>1. config' = config
    BY <1>1, <1>2, <1>4, WrittenConfig
  <2> QED BY <1>1, <1>2, <1>3, <2>1, ConfigKept DEF ConfigInv, Versions, Configured
<1>5. CASE w.version = config.version
  <2>1. config'.version = config.version + 1
    BY <1>1, <1>2, <1>5, WrittenConfig
  <2>2. Configured' = {}
    <3> SUFFICES ASSUME NEW i \in Configured PROVE FALSE
      BY <1>3
    <3>1. w.version < config.version
      BY <1>1 DEF ConfigInv
    <3> QED BY <1>2, <1>5, <3>1 DEF Versions
  <2>3. Versions' /\ \A j \in Instances : read'[j] <= config'.version
    BY <1>2, <1>3, <2>1, Older DEF ConfigInv, Versions
  <2>4. \A x \in late' : x.version \in Nat /\ x.version <= config'.version
    BY <1>1, <1>2, <2>1, Older DEF ConfigInv, Versions
  <2> QED BY <2>2, <2>3, <2>4 DEF ConfigInv
<1> QED BY <1>4, <1>5

\* The read of the configuration, which may be stale.
LEMMA GetConfigStep ==
    ASSUME LeaseInv, ConfigInv, NEW i \in Instances, GetConfig(i)
    PROVE  ConfigInv'
<1>1. PICK v \in 0 .. config.version : read' = [read EXCEPT ![i] = v]
  BY DEF GetConfig
<1>2. Versions /\ v \in Nat /\ v <= config.version
  BY <1>1 DEF ConfigInv, Versions
<1>3. UNCHANGED <<files, secret, made, config, late>> /\ Configured' \subseteq Configured
  BY DEF GetConfig, certState, Configured, Goto, LeaseInv
<1>4. Versions' /\ \A j \in Instances : read'[j] <= config.version
  BY <1>1, <1>2, <1>3 DEF ConfigInv, Versions
<1> QED BY <1>3, <1>4, ConfigKept DEF Configured

\* An instance registers its reconcilers, or writes the lock, or hears of that.
LEMMA LeadConfig ==
    ASSUME LeaseInv, ConfigInv, NEW i \in Instances,
           Register(i) \/ Acquire(i) \/ Renew(i) \/ Reply(i) \/ LoseReply(i)
    PROVE  ConfigInv'
<1>1. UNCHANGED <<files, secret, made, config, late, read>>
  BY DEF Register, Acquire, Renew, WriteLock, Reply, LoseReply, certState, configState
<1>2. Configured' \subseteq Configured
  <2>1. pc \in [Instances -> Steps]
    BY DEF LeaseInv
  <2>2. CASE Register(i)
    BY <2>1, <2>2 DEF Register, Goto, Configured
  <2>3. CASE Acquire(i) \/ Renew(i) \/ LoseReply(i)
    BY <2>3 DEF Acquire, Renew, WriteLock, LoseReply, Configured
  <2>4. CASE Reply(i)
    BY <2>1, <2>4 DEF Reply, Goto, Configured
  <2> QED BY <2>2, <2>3, <2>4
<1> QED BY <1>1, <1>2, ConfigKept DEF ConfigInv, Versions, Configured

\* Crashes, and leaders that could not renew the lease.
LEMMA FailConfig ==
    ASSUME LeaseInv, ConfigInv, NEW i \in Instances, Crash(i) \/ StopLeading(i)
    PROVE  ConfigInv'
<1>1. Versions /\ Exit(i) /\ MayLand(i) /\ UNCHANGED <<made, config>>
  BY DEF Crash, StopLeading, certState, ConfigInv
<1>2. secret' \in {secret, 0, files[i]}
  BY DEF Crash, StopLeading, certState
<1>3. secret' \in Nat /\ made' \in Nat
  BY <1>1, <1>2 DEF Versions
<1>4. late' = late \/ (pc[i] = "put config"
                        /\ late' = late \cup {[version |-> read[i], ca |-> files[i]]})
  BY <1>1 DEF MayLand
<1> QED BY <1>1, <1>3, <1>4, ExitConfig

\* The inductive step.
LEMMA ConfigStep == LeaseInv /\ ConfigInv /\ [Next]_vars => ConfigInv'
<1> SUFFICES ASSUME LeaseInv, ConfigInv, [Next]_vars PROVE ConfigInv'
  OBVIOUS
<1>1. CASE Tick
  BY <1>1, ConfigKept DEF Tick, certState, configState, ConfigInv, Versions, Configured
<1>2. CASE Land
  BY <1>2, LandStep
<1>3. ASSUME NEW i \in Instances, Run(i) PROVE ConfigInv'
  BY <1>3, CertsConfig, GetConfigStep, PutConfigStep, LeadConfig DEF Run
<1>4. ASSUME NEW i \in Instances, Acquire(i) \/ Renew(i) \/ Reply(i) \/ LoseReply(i)
      PROVE  ConfigInv'
  BY <1>4, LeadConfig
<1>5. ASSUME NEW i \in Instances, StopLeading(i) \/ Crash(i) PROVE ConfigInv'
  BY <1>5, FailConfig
<1>6. CASE UNCHANGED vars
  BY <1>6, ConfigKept DEF vars, ConfigInv, Versions, Configured
<1> QED BY <1>1, <1>2, <1>3, <1>4, <1>5, <1>6 DEF Next

-----------------------------------------------------------------------------
(* Certificates.                                                            *)

\* The instances that have got past the generation of their files, or the read of the secret.
WithFiles == {"create", "campaign", "get config", "put config", "register", "leading"}

ServingSteps == WithFiles \ {"create"}

CertInv ==
    /\ pc \in [Instances -> Steps]
    /\ made \in Nat /\ misled \in Nat
    /\ secret \in {0, Invalid} \cup Certs
    /\ files \in [Instances -> {0} \cup Certs]
    /\ caBundle \in [Instances -> {0} \cup Certs]
    /\ config.ca \in {0} \cup Certs
    /\ config.version > 0 => config.ca \in Certs
    /\ \A w \in late : w.ca \in Certs
    /\ \A i \in Instances : /\ pc[i] \in WithFiles => files[i] # 0
                            /\ caBundle[i] # 0 => pc[i] = "leading" /\ caBundle[i] = files[i]

\* Certificates are kept apart from no secret and from an invalid one, and are never taken back.
LEMMA CertsGrow ==
    ASSUME made \in Nat, made' \in {made, made + 1}
    PROVE  /\ 0 \notin Certs /\ Invalid \notin Certs /\ Invalid # 0
           /\ Certs \subseteq Certs' /\ Generated(made') \in Certs' /\ made' \in Nat
<1>0. ASSUME NEW n \in Nat PROVE {Generated(k) : k \in 0 .. n} = 2 .. n + 2
  <2>1. ASSUME NEW x \in 2 .. n + 2 PROVE x \in {Generated(k) : k \in 0 .. n}
    <3>1. x - 2 \in 0 .. n /\ Generated(x - 2) = x
      BY DEF Generated
    <3> QED BY <3>1
  <2> QED BY <2>1 DEF Generated
<1>1. Certs = 2 .. made + 2
  BY <1>0 DEF Certs
<1>2. made' \in Nat /\ Certs' = 2 .. made' + 2
  BY <1>0 DEF Certs
<1>3. Certs \subseteq Certs' /\ Generated(made') \in Certs'
  <2>1. ASSUME NEW n \in Nat, NEW m \in Nat, n <= m PROVE 2 .. n + 2 \subseteq 2 .. m + 2
    <3>1. ASSUME NEW x \in 2 .. n + 2 PROVE x \in 2 .. m + 2
      BY <2>1
    <3> QED BY <3>1
  <2>2. ASSUME NEW n \in Nat PROVE n + 2 \in 2 .. n + 2
    OBVIOUS
  <2>3. made <= made'
    OBVIOUS
  <2> QED BY <1>1, <1>2, <2>1, <2>2, <2>3 DEF Generated
<1>4. 0 \notin Certs /\ Invalid \notin Certs /\ Invalid # 0
  BY <1>1 DEF Invalid
<1> QED BY <1>2, <1>3, <1>4

\* A step of one instance: where it goes, the files it has then and the CA of its reconciler.
LEMMA InstanceStep ==
    ASSUME CertInv, NEW i \in Instances, NEW step \in Steps, Goto(i, step),
           made' \in {made, made + 1}, misled' \in Nat, secret' \in {0, Invalid} \cup Certs',
           NEW f \in {0} \cup Certs', files' = [files EXCEPT ![i] = f],
           NEW b \in {0, f}, caBundle' = [caBundle EXCEPT ![i] = b],
           step \in WithFiles => f # 0,
           b # 0 => step = "leading",
           config' = config \/ (config'.ca = files[i] /\ pc[i] \in WithFiles),
           \A w \in late' : w \in late \/ (w.ca = files[i] /\ pc[i] \in WithFiles)
    PROVE  CertInv'
<1>1. Certs \subseteq Certs' /\ made' \in Nat
  BY CertsGrow DEF CertInv
<1>2. /\ pc' \in [Instances -> Steps] /\ pc'[i] = step
      /\ files' \in [Instances -> {0} \cup Certs'] /\ files'[i] = f
      /\ caBundle' \in [Instances -> {0} \cup Certs'] /\ caBundle'[i] = b
      /\ \A j \in Instances \ {i} : pc'[j] = pc[j] /\ files'[j] = files[j] /\ caBundle'[j] = caBundle[j]
  BY <1>1 DEF CertInv, Goto
<1>3. /\ config'.ca \in {0} \cup Certs'
      /\ config'.version > 0 => config'.ca \in Certs'
  <2>1. CASE config' = config
    BY <1>1, <2>1 DEF CertInv
  <2>2. CASE config'.ca = files[i] /\ pc[i] \in WithFiles
    BY <1>1, <2>2 DEF CertInv
  <2> QED BY <2>1, <2>2
<1>4. \A w \in late' : w.ca \in Certs'
  BY <1>1 DEF CertInv
<1>5. ASSUME NEW j \in Instances
      PROVE  /\ pc'[j] \in WithFiles => files'[j] # 0
             /\ caBundle'[j] # 0 => pc'[j] = "leading" /\ caBundle'[j] = files'[j]
  BY <1>2 DEF CertInv
<1> QED BY <1>1, <1>2, <1>3, <1>4, <1>5 DEF CertInv

\* Nothing but the place and the files of an instance changes.
LEMMA PlainStep ==
    ASSUME CertInv, NEW i \in Instances, NEW step \in Steps, Goto(i, step),
           UNCHANGED <<files, made, caBundle, config, late>>, misled' \in Nat,
           secret' \in {0, Invalid} \cup Certs,
           step \in WithFiles => files[i] # 0, pc[i] # "leading"
    PROVE  CertInv'
<1>1. Certs' = Certs
  BY DEF Certs
<1>2. files' = [files EXCEPT ![i] = files[i]] /\ caBundle' = [caBundle EXCEPT ![i] = 0]
  BY DEF CertInv
<1>3. files[i] \in {0} \cup Certs'
  BY <1>1 DEF CertInv
<1> QED BY <1>1, <1>2, <1>3, InstanceStep

LEMMA ExitStep ==
    ASSUME CertInv, NEW i \in Instances, Exit(i), UNCHANGED <<made, config>>, misled' \in Nat,
           secret' \in {0, Invalid} \cup Certs, late' = late \/ MayLand(i)
    PROVE  CertInv'
<1>1. Certs' = Certs /\ "down" \in Steps /\ "down" \notin WithFiles
  BY DEF Certs, Steps, WithFiles
<1>2. \A w \in late' : w \in late \/ (w.ca = files[i] /\ pc[i] \in WithFiles)
  <2>1. CASE pc[i] = "put config" /\ late' = late \cup {[version |-> read[i], ca |-> files[i]]}
    <3>1. \A w \in late' : w \in late \/ w = [version |-> read[i], ca |-> files[i]]
      BY <2>1
    <3>2. pc[i] \in WithFiles
      BY <2>1 DEF WithFiles
    <3> QED BY <3>1, <3>2
  <2>2. CASE late' = late
    BY <2>2
  <2> QED BY <2>1, <2>2 DEF MayLand
<1>3. Goto(i, "down") /\ files' = [files EXCEPT ![i] = 0] /\ caBundle' = [caBundle EXCEPT ![i] = 0]
  BY DEF Exit
<1>4. config' = config
  OBVIOUS
<1> QED BY <1>1, <1>2, <1>3, <1>4, InstanceStep

LEMMA GenerateStep ==
    ASSUME CertInv, NEW i \in Instances, Goto(i, "create"), Generate(i), pc[i] # "leading",
           UNCHANGED <<misled, caBundle, config, late>>,
           secret' \in {0, Invalid} \cup Certs
    PROVE  CertInv'
<1>1. CASE files[i] # 0
  BY <1>1, PlainStep, "create" \in Steps DEF Generate, CertInv, Steps
<1>2. CASE files[i] = 0
  <2>1. made' = made + 1 /\ files' = [files EXCEPT ![i] = Generated(made')]
    BY <1>2 DEF Generate
  <2>2. Certs \subseteq Certs' /\ Generated(made') \in Certs' /\ Generated(made') # 0
    BY <2>1, CertsGrow DEF CertInv, Generated
  <2>3. caBundle' = [caBundle EXCEPT ![i] = 0] /\ misled' \in Nat
    BY DEF CertInv
  <2>4. config' = config /\ "create" \in Steps
    BY DEF Steps
  <2> QED BY <2>1, <2>2, <2>3, <2>4, InstanceStep
<1> QED BY <1>1, <1>2

LEMMA RunCerts ==
    ASSUME CertInv, NEW i \in Instances, Run(i)
    PROVE  CertInv'
<1> USE DEF certState, configState
<1>0. misled \in Nat /\ secret \in {0, Invalid} \cup Certs
  BY DEF CertInv
<1>1. CASE Start(i)
  BY <1>0, <1>1, PlainStep, "namespace" \in Steps DEF Start, Steps, WithFiles
<1>2. CASE GetNamespace(i)
  BY <1>0, <1>2, PlainStep DEF GetNamespace, Steps, WithFiles
<1>3. CASE CreateNamespace(i)
  <2>1. CASE namespace
    BY <1>0, <1>3, <2>1, ExitStep DEF CreateNamespace
  <2>2. CASE ~namespace
    BY <1>0, <1>3, <2>2, PlainStep, "get" \in Steps DEF CreateNamespace, Steps, WithFiles
  <2> QED BY <2>1, <2>2
<1>4. CASE GetSecret(i)
  <2>1. CASE secret = 0
    BY <1>0, <1>4, <2>1, GenerateStep DEF GetSecret, Invalid
  <2>2. CASE secret = Invalid
    <3>1. Goto(i, "delete") /\ misled' = misled + 1 /\ UNCHANGED <<files, made, secret, config, late, caBundle>>
      BY <1>4, <2>2 DEF GetSecret, Invalid
    <3>2. misled' \in Nat /\ pc[i] # "leading"
      BY <1>0, <1>4, <3>1 DEF GetSecret
    <3> QED BY <1>0, <3>1, <3>2, PlainStep, "delete" \in Steps DEF Steps, WithFiles
  <2>3. CASE secret \notin {0, Invalid}
    <3>1. /\ Goto(i, "campaign") /\ files' = [files EXCEPT ![i] = secret]
          /\ UNCHANGED <<made, misled, secret, config, late, caBundle>> /\ pc[i] = "get"
      BY <1>4, <2>3 DEF GetSecret
    <3>2. Certs' = Certs
      BY <3>1 DEF Certs
    <3>3. caBundle' = [caBundle EXCEPT ![i] = 0]
      BY <3>1 DEF CertInv
    <3>4. /\ secret \in {0} \cup Certs' /\ secret' \in {0, Invalid} \cup Certs' /\ secret # 0
          /\ "campaign" \in Steps /\ config' = config /\ misled' \in Nat /\ made' = made
      BY <1>0, <2>3, <3>1, <3>2 DEF Steps
    <3>5. late' = late
      BY <3>1
    <3> QED BY <3>1, <3>3, <3>4, <3>5, InstanceStep
  <2> QED BY <2>1, <2>2, <2>3
<1>5. CASE DeleteSecret(i)
  <2>1. CASE secret = 0
    BY <1>0, <1>5, <2>1, ExitStep DEF DeleteSecret
  <2>2. CASE secret # 0
    BY <1>0, <1>5, <2>2, GenerateStep DEF DeleteSecret
  <2> QED BY <2>1, <2>2
<1>6. CASE CreateSecret(i)
  <2>1. files[i] \in Certs
    BY <1>6 DEF CreateSecret, CertInv, WithFiles
  <2>2. "campaign" \in Steps /\ "get" \in Steps /\ files[i] # 0
    BY <1>6 DEF Steps, CreateSecret, CertInv, WithFiles
  <2>3. /\ secret' \in {0, Invalid} \cup Certs /\ pc[i] # "leading" /\ misled' \in Nat
        /\ UNCHANGED <<files, made, caBundle, config, late>>
    BY <1>0, <1>6, <2>1 DEF CreateSecret
  <2> QED BY <1>6, <2>2, <2>3, PlainStep DEF CreateSecret
<1>7. CASE GetConfig(i)
  BY <1>0, <1>7, PlainStep, "put config" \in Steps DEF GetConfig, Steps, WithFiles, CertInv
<1>8. CASE PutConfig(i)
  <2>1. CASE config' # config
    <3>1. /\ Goto(i, "register") /\ UNCHANGED <<files, caBundle, made, misled, secret, late>>
          /\ pc[i] = "put config" /\ config'.ca = files[i]
      BY <1>8, <2>1 DEF PutConfig, Written
    <3>2. Certs' = Certs /\ files[i] # 0 /\ "register" \in Steps /\ files[i] \in {0} \cup Certs
      BY <3>1 DEF Certs, CertInv, WithFiles, Steps
    <3>3. files' = [files EXCEPT ![i] = files[i]] /\ caBundle' = [caBundle EXCEPT ![i] = 0]
      BY <3>1 DEF CertInv
    <3>4. pc[i] \in WithFiles
      BY <3>1 DEF WithFiles
    <3> QED BY <1>0, <3>1, <3>2, <3>3, <3>4, InstanceStep
  <2>2. CASE config' = config
    BY <1>0, <1>8, <2>2, ExitStep DEF PutConfig
  <2> QED BY <2>1, <2>2
<1>9. CASE Register(i)
  <2>1. /\ Goto(i, "leading") /\ caBundle' = [caBundle EXCEPT ![i] = files[i]]
        /\ UNCHANGED <<files, made, misled, secret, late, config>> /\ pc[i] = "register"
    BY <1>9 DEF Register
  <2>2. Certs' = Certs /\ files[i] # 0 /\ "leading" \in Steps /\ files[i] \in {0} \cup Certs
    BY <2>1 DEF Certs, CertInv, WithFiles, Steps
  <2>3. files' = [files EXCEPT ![i] = files[i]] /\ config' = config
    BY <2>1 DEF CertInv
  <2> QED BY <1>0, <2>1, <2>2, <2>3, InstanceStep
<1> QED BY <1>1, <1>2, <1>3, <1>4, <1>5, <1>6, <1>7, <1>8, <1>9 DEF Run

\* A step that leaves the certificates, their users and the writes of them alone, but for one
\* that lands.
LEMMA CertsKept ==
    ASSUME CertInv, UNCHANGED <<made, misled, secret, files, caBundle>>, late' \subseteq late,
           config' = config \/ \E w \in late : config'.ca = w.ca, pc' = pc
    PROVE  CertInv'
<1>1. Certs' = Certs
  BY DEF Certs
<1> QED BY <1>1 DEF CertInv

LEMMA CertStep == CertInv /\ [Next]_vars => CertInv'
<1> SUFFICES ASSUME CertInv, [Next]_vars PROVE CertInv'
  OBVIOUS
<1> USE DEF certState, configState
<1>1. CASE Tick \/ Land \/ UNCHANGED vars
  BY <1>1, CertsKept DEF Tick, Land, Written, vars
<1>2. ASSUME NEW i \in Instances, Reply(i) PROVE CertInv'
  <2>1. CASE pc[i] = "campaign"
    BY <1>2, <2>1, PlainStep, "get config" \in Steps DEF Reply, Steps, WithFiles, CertInv
  <2>2. CASE pc[i] # "campaign"
    BY <1>2, <2>2, CertsKept DEF Reply
  <2> QED BY <2>1, <2>2
<1>3. ASSUME NEW i \in Instances, Acquire(i) \/ Renew(i) \/ LoseReply(i) PROVE CertInv'
  BY <1>3, CertsKept DEF Acquire, Renew, WriteLock, LoseReply
<1>4. ASSUME NEW i \in Instances, StopLeading(i) PROVE CertInv'
  BY <1>4, ExitStep DEF StopLeading, CertInv
<1>5. ASSUME NEW i \in Instances, Crash(i) PROVE CertInv'
  <2>1. secret' \in {secret, 0} \cup (IF pc[i] = "create" THEN {files[i]} ELSE {})
    BY <1>5 DEF Crash
  <2>2. secret' \in {0, Invalid} \cup Certs
    BY <2>1 DEF CertInv, WithFiles
  <2> QED BY <1>5, <2>2, ExitStep DEF Crash, CertInv
<1> QED BY <1>1, <1>2, <1>3, <1>4, <1>5, RunCerts DEF Next

-----------------------------------------------------------------------------
\* As long as one instance at most found an invalid secret, it is the only one that deletes it,
\* and every certificate in use is the one in the secret.
TrustInv ==
    misled <= 1 =>
        /\ \A i \in Instances : pc[i] = "delete" => secret = Invalid /\ misled = 1
        /\ \A i, j \in Instances : pc[i] = "delete" /\ pc[j] = "delete" => i = j
        /\ \A i \in Instances : pc[i] \in ServingSteps => files[i] = secret
        /\ config.version > 0 => config.ca = secret
        /\ \A w \in late : w.ca = secret

\* What each step that the secret, the certificates in use or the writes depend on does to them.
LEMMA TrustKept ==
    ASSUME TrustInv, NEW i \in Instances, NEW step \in Steps, CertInv, Goto(i, step),
           step \notin {"delete", "campaign"},
           step \in ServingSteps => pc[i] \in ServingSteps /\ files'[i] = files[i],
           \A j \in Instances \ {i} : files'[j] = files[j],
           UNCHANGED <<misled, secret>>,
           config' = config \/ (pc[i] \in ServingSteps /\ config'.ca = files[i]),
           \A w \in late' : w \in late \/ (pc[i] \in ServingSteps /\ w.ca = files[i])
    PROVE  TrustInv'
<1> SUFFICES ASSUME misled <= 1
             PROVE  (/\ \A j \in Instances : pc[j] = "delete" => secret = Invalid /\ misled = 1
                     /\ \A j, k \in Instances : pc[j] = "delete" /\ pc[k] = "delete" => j = k
                     /\ \A j \in Instances : pc[j] \in ServingSteps => files[j] = secret
                     /\ config.version > 0 => config.ca = secret
                     /\ \A w \in late : w.ca = secret)'
  BY DEF TrustInv
<1>1. pc'[i] = step /\ \A j \in Instances \ {i} : pc'[j] = pc[j]
  BY DEF Goto, CertInv
<1>2. pc[i] \in ServingSteps => files[i] = secret
  BY DEF TrustInv
<1>3. \A j \in Instances : pc'[j] = "delete" => j # i /\ pc[j] = "delete"
  BY <1>1
<1>4. \A j \in Instances : pc'[j] \in ServingSteps => pc[j] \in ServingSteps /\ files'[j] = files[j]
  BY <1>1
<1> QED BY <1>2, <1>3, <1>4 DEF TrustInv

\* While the secret is missing or invalid nobody serves, and no CA is configured or on its way.
LEMMA NothingServed ==
    ASSUME CertInv, TrustInv, misled <= 1, secret \in {0, Invalid}
    PROVE  /\ \A i \in Instances : pc[i] \notin ServingSteps
           /\ ~(config.version > 0) /\ late = {}
<1>1. 0 \notin Certs /\ Invalid \notin Certs
  <2>1. made \in Nat
    BY DEF CertInv
  <2> QED BY <2>1 DEF Certs, Generated, Invalid
<1>2. \A i \in Instances : pc[i] \in ServingSteps => files[i] = secret /\ files[i] \in Certs
  BY DEF TrustInv, CertInv, ServingSteps
<1> QED BY <1>1, <1>2 DEF TrustInv, CertInv

\* The secret is created, deleted or read by one instance, while nobody serves if it changes.
LEMMA SecretStep ==
    ASSUME CertInv, TrustInv, NEW i \in Instances, NEW step \in Steps, Goto(i, step),
           misled' \in Nat, UNCHANGED <<config>>, late' = late,
           \A j \in Instances \ {i} : files'[j] = files[j],
           step # "delete", misled' = misled,
           step \in ServingSteps => files'[i] = secret',
           \/ secret' = secret
           \/ secret = 0 \/ pc[i] = "delete"
    PROVE  TrustInv'
<1> SUFFICES ASSUME misled <= 1
             PROVE  (/\ \A j \in Instances : pc[j] = "delete" => secret = Invalid /\ misled = 1
                     /\ \A j, k \in Instances : pc[j] = "delete" /\ pc[k] = "delete" => j = k
                     /\ \A j \in Instances : pc[j] \in ServingSteps => files[j] = secret
                     /\ config.version > 0 => config.ca = secret
                     /\ \A w \in late : w.ca = secret)'
  BY DEF TrustInv
<1>1. pc'[i] = step /\ \A j \in Instances \ {i} : pc'[j] = pc[j]
  BY DEF Goto, CertInv
<1>2. \A j \in Instances : pc'[j] = "delete" => j # i /\ pc[j] = "delete"
  BY <1>1
<1>3. CASE secret' = secret
  BY <1>1, <1>2, <1>3 DEF TrustInv
<1>4. CASE secret = 0 \/ pc[i] = "delete"
  <2>1. secret \in {0, Invalid}
    BY <1>4 DEF TrustInv
  <2>2. \A j \in Instances : pc'[j] # "delete"
    BY <1>2, <1>4 DEF TrustInv, Invalid
  <2> QED BY <1>1, <2>1, <2>2, NothingServed
<1> QED BY <1>3, <1>4

LEMMA FindsInvalid ==
    ASSUME CertInv, TrustInv, NEW i \in Instances, Goto(i, "delete"), secret = Invalid,
           misled' = misled + 1, UNCHANGED <<files, secret, config, late>>, misled' <= 1
    PROVE  TrustInv'
<1>1. misled = 0 /\ misled' = 1
  BY DEF CertInv
<1>2. \A j \in Instances : pc[j] # "delete"
  BY <1>1 DEF TrustInv
<1>3. \A j \in Instances : pc'[j] = IF j = i THEN "delete" ELSE pc[j]
  BY DEF Goto, CertInv
<1>4. ~(config.version > 0) /\ late = {} /\ \A j \in Instances : pc[j] \notin ServingSteps
  BY <1>1, NothingServed
<1>5. "delete" \notin ServingSteps
  BY DEF ServingSteps, WithFiles
<1> QED BY <1>1, <1>2, <1>3, <1>4, <1>5 DEF TrustInv

LEMMA TrustStep == CertInv /\ TrustInv /\ [Next]_vars => TrustInv'
<1> SUFFICES ASSUME CertInv, TrustInv, [Next]_vars PROVE TrustInv'
  OBVIOUS
<1> USE DEF certState, configState
<1>1. CASE Tick \/ UNCHANGED vars
  BY <1>1 DEF Tick, vars, TrustInv
<1>2. CASE Land
  <2>1. PICK w \in late : Written(w.version, w.ca) /\ late' = late \ {w}
    BY <1>2 DEF Land
  <2>2. config' = config \/ config'.ca = w.ca
    BY <2>1 DEF Written
  <2>3. UNCHANGED <<pc, files, misled, secret>>
    BY <1>2 DEF Land
  <2> QED BY <2>1, <2>2, <2>3 DEF TrustInv
<1>3. ASSUME NEW i \in Instances, Start(i) \/ GetNamespace(i) \/ CreateNamespace(i) PROVE TrustInv'
  BY <1>3, TrustKept DEF Start, GetNamespace, CreateNamespace, Exit, Steps, ServingSteps, WithFiles, CertInv
<1>4. ASSUME NEW i \in Instances, GetSecret(i) PROVE TrustInv'
  <2>1. CASE secret = 0
    <3>1. Goto(i, "create") /\ Generate(i) /\ UNCHANGED <<misled, secret, config, late>>
      BY <1>4, <2>1 DEF GetSecret, Invalid
    <3>2. \A j \in Instances \ {i} : files'[j] = files[j]
      BY <3>1 DEF Generate, CertInv
    <3> QED BY <3>1, <3>2, TrustKept DEF Steps, ServingSteps, WithFiles
  <2>2. CASE secret = Invalid
    <3>1. Goto(i, "delete") /\ misled' = misled + 1 /\ UNCHANGED <<files, secret, config, late>>
      BY <1>4, <2>2 DEF GetSecret, Invalid
    <3>2. CASE misled' <= 1
      BY <2>2, <3>1, <3>2, FindsInvalid
    <3>3. CASE ~(misled' <= 1)
      BY <3>3 DEF TrustInv
    <3> QED BY <3>2, <3>3
  <2>3. CASE secret \notin {0, Invalid}
    <3>1. /\ Goto(i, "campaign") /\ files' = [files EXCEPT ![i] = secret]
          /\ UNCHANGED <<misled, secret, config, late>>
      BY <1>4, <2>3 DEF GetSecret
    <3>2. files'[i] = secret' /\ \A j \in Instances \ {i} : files'[j] = files[j]
      BY <3>1 DEF CertInv
    <3> QED BY <3>1, <3>2, SecretStep DEF Steps, CertInv
  <2> QED BY <2>1, <2>2, <2>3
<1>5. ASSUME NEW i \in Instances, DeleteSecret(i) PROVE TrustInv'
  <2>1. CASE secret = 0
    BY <1>5, <2>1, TrustKept DEF DeleteSecret, Exit, Steps, ServingSteps, WithFiles, CertInv
  <2>2. CASE secret # 0
    <3>1. /\ Goto(i, "create") /\ Generate(i) /\ pc[i] = "delete"
          /\ UNCHANGED <<misled, config, late>>
      BY <1>5, <2>2 DEF DeleteSecret
    <3>2. \A j \in Instances \ {i} : files'[j] = files[j]
      BY <3>1 DEF Generate, CertInv
    <3> QED BY <3>1, <3>2, SecretStep DEF Steps, ServingSteps, WithFiles, CertInv
  <2> QED BY <2>1, <2>2
<1>6. ASSUME NEW i \in Instances, CreateSecret(i) PROVE TrustInv'
  <2>1. CASE secret = 0
    BY <1>6, <2>1, SecretStep DEF CreateSecret, Steps, CertInv
  <2>2. CASE secret # 0
    BY <1>6, <2>2, TrustKept DEF CreateSecret, Steps, ServingSteps, WithFiles
  <2> QED BY <2>1, <2>2
<1>7. ASSUME NEW i \in Instances, GetConfig(i) \/ Register(i) \/ Reply(i) PROVE TrustInv'
  <2>1. CASE GetConfig(i) \/ Register(i)
    BY <2>1, TrustKept DEF GetConfig, Register, Steps, ServingSteps, WithFiles
  <2>2. CASE Reply(i) /\ pc[i] = "campaign"
    BY <2>2, TrustKept DEF Reply, Steps, ServingSteps, WithFiles
  <2>3. CASE Reply(i) /\ pc[i] # "campaign"
    BY <2>3 DEF Reply, TrustInv
  <2> QED BY <1>7, <2>1, <2>2, <2>3
<1>8. ASSUME NEW i \in Instances, PutConfig(i) PROVE TrustInv'
  <2>1. /\ pc[i] \in ServingSteps /\ UNCHANGED <<misled, secret, late>>
        /\ config' = config \/ config'.ca = files[i]
    BY <1>8 DEF PutConfig, Written, ServingSteps, WithFiles
  <2>2. CASE config' # config
    BY <1>8, <2>1, <2>2, TrustKept DEF PutConfig, Steps, ServingSteps, WithFiles
  <2>3. CASE config' = config
    BY <1>8, <2>1, <2>3, TrustKept DEF PutConfig, Exit, Steps, ServingSteps, WithFiles, CertInv
  <2> QED BY <2>2, <2>3
<1>9. ASSUME NEW i \in Instances, Acquire(i) \/ Renew(i) \/ LoseReply(i) PROVE TrustInv'
  BY <1>9 DEF Acquire, Renew, WriteLock, LoseReply, TrustInv
<1>10. ASSUME NEW i \in Instances, StopLeading(i) \/ Crash(i) PROVE TrustInv'
  <2>1. /\ Goto(i, "down") /\ misled' = misled /\ UNCHANGED config
        /\ \A j \in Instances \ {i} : files'[j] = files[j]
    BY <1>10 DEF StopLeading, Crash, Exit, CertInv
  <2>2. MayLand(i)
    BY <1>10 DEF StopLeading, Crash
  <2>3. CASE secret' = secret
    <3>1. \A w \in late' : w \in late \/ (pc[i] \in ServingSteps /\ w.ca = files[i])
      <4>1. CASE pc[i] = "put config" /\ late' = late \cup {[version |-> read[i], ca |-> files[i]]}
        <5>1. \A w \in late' : w \in late \/ w = [version |-> read[i], ca |-> files[i]]
          BY <4>1
        <5>2. pc[i] \in ServingSteps
          BY <4>1 DEF ServingSteps, WithFiles
        <5> QED BY <5>1, <5>2
      <4>2. CASE late' = late
        BY <4>2
      <4> QED BY <2>2, <4>1, <4>2 DEF MayLand
    <3> QED BY <2>1, <2>3, <3>1, TrustKept DEF Steps, ServingSteps, WithFiles
  <2>4. CASE secret' # secret
    <3>1. Crash(i) /\ (pc[i] = "delete" \/ (pc[i] = "create" /\ secret = 0))
      BY <1>10, <2>4 DEF StopLeading, Crash
    <3>2. late' = late
      BY <2>2, <3>1 DEF MayLand
    <3> QED BY <2>1, <3>1, <3>2, SecretStep DEF Steps, ServingSteps, WithFiles, CertInv
  <2> QED BY <2>3, <2>4
<1> QED BY <1>1, <1>2, <1>3, <1>4, <1>5, <1>6, <1>7, <1>8, <1>9, <1>10 DEF Next, Run

\* What the certificates start from.
LEMMA CertInit == Init => CertInv /\ TrustInv
<1> SUFFICES ASSUME Init PROVE CertInv /\ TrustInv
  OBVIOUS
<1>1. made = 1 /\ Generated(0) \in Certs /\ Generated(1) \in Certs
  <2>1. made = 1 /\ 0 \in 0 .. made /\ 1 \in 0 .. made
    BY DEF Init
  <2> QED BY <2>1 DEF Certs
<1>2. config.version = 0 /\ config.ca \in {0, Generated(0), Generated(1)}
  BY DEF Init
<1>3. secret \in {0, Invalid, Generated(0)}
  BY DEF Init
<1> QED BY <1>1, <1>2, <1>3 DEF Init, CertInv, TrustInv, Steps, ServingSteps, WithFiles

\* While one instance at most found an invalid secret, the API server can verify every
\* instance that serves, whoever of them leads (EnsureCertSecrets).
THEOREM InstancesAreTrusted == Spec => []TrustedInstances
<1>1. CertInv /\ TrustInv => TrustedInstances
  <2> SUFFICES ASSUME CertInv, TrustInv, misled <= 1 PROVE Trusted
    BY DEF TrustedInstances
  <2>1. \A i \in Serving : i \in Instances /\ files[i] = secret
    BY DEF Serving, TrustInv, ServingSteps, WithFiles
  <2> QED BY <2>1 DEF Trusted, TrustInv, CertInv
<1>2. CertInv /\ TrustInv /\ [Next]_vars => (CertInv /\ TrustInv)'
  BY CertStep, TrustStep
<1> QED BY CertInit, <1>1, <1>2, PTL DEF Spec

-----------------------------------------------------------------------------
(* Types.                                                                   *)

\* The instances that stand for leader, and those that lead.
Candidates == {i \in Instances : pc[i] \in LeaderSteps \cup {"campaign"}}

TypeInv ==
    /\ CertInv
    /\ holder \in Instances \cup {NoInstance} /\ age \in 0 .. LeaseDuration
    /\ since \in [Instances -> 0 .. LastRenewal]
    /\ waiting \subseteq Candidates
    /\ config.version \in Nat
    /\ Configured # {} => config.version > 0
    /\ read \in [Instances -> Nat]
    /\ \A w \in late : w.version \in Nat

\* An instance that waits for a reply stands for leader or leads, until it exits.
LEMMA RunCandidates ==
    ASSUME pc \in [Instances -> Steps], NEW i \in Instances, Run(i), waiting \subseteq Candidates
    PROVE  waiting' \subseteq Candidates'
<1>1. Exit(i) \/ UNCHANGED waiting
  BY DEF Run, Start, GetNamespace, CreateNamespace, GetSecret, DeleteSecret, CreateSecret,
         GetConfig, PutConfig, Register, leaseState
<1>2. CASE Exit(i)
  <2>1. waiting' = waiting \ {i} /\ pc' = [pc EXCEPT ![i] = "down"]
    BY <1>2 DEF Exit, Goto
  <2> QED BY <2>1 DEF Candidates
<1>3. CASE ~Exit(i)
  <2>1. pc[i] # "campaign" /\ \E step \in Steps :
            Goto(i, step) /\ (pc[i] \in LeaderSteps => step \in LeaderSteps)
    BY <1>3 DEF Run, Start, GetNamespace, CreateNamespace, GetSecret, DeleteSecret, CreateSecret,
                GetConfig, PutConfig, Register, Steps, LeaderSteps
  <2>2. PICK step \in Steps : Goto(i, step) /\ (pc[i] \in LeaderSteps => step \in LeaderSteps)
    BY <2>1
  <2> QED BY <1>1, <1>3, <2>1, <2>2 DEF Goto, Candidates
<1> QED BY <1>2, <1>3

\* The lease after a step.
LEMMA LeaseTypes ==
    ASSUME TypeInv, [Next]_vars
    PROVE  /\ holder' \in Instances \cup {NoInstance} /\ age' \in 0 .. LeaseDuration
           /\ since' \in [Instances -> 0 .. LastRenewal]
           /\ waiting' \subseteq Candidates'
<1>0. /\ holder \in Instances \cup {NoInstance} /\ age \in 0 .. LeaseDuration
      /\ since \in [Instances -> 0 .. LastRenewal] /\ waiting \subseteq Candidates
      /\ pc \in [Instances -> Steps]
      /\ LeaseDuration \in Nat /\ 0 \in 0 .. LeaseDuration
      /\ LastRenewal \in Nat /\ 0 \in 0 .. LastRenewal
  BY Lease DEF TypeInv, CertInv
<1>1. CASE Tick
  <2>1. UNCHANGED <<pc, holder, waiting>> /\ age' = IF age < LeaseDuration THEN age + 1 ELSE age
    BY <1>1 DEF Tick
  <2>2. since' = [i \in Instances |-> IF i \in Leaders /\ since[i] < LastRenewal
                                      THEN since[i] + 1 ELSE since[i]]
    BY <1>1 DEF Tick
  <2>3. \A i \in Instances : since'[i] \in 0 .. LastRenewal
    BY <1>0, <2>2
  <2>4. age' \in 0 .. LeaseDuration
    BY <1>0, <2>1
  <2>5. Candidates' = Candidates
    BY <2>1 DEF Candidates
  <2> QED BY <1>0, <2>1, <2>2, <2>3, <2>4, <2>5
<1>2. ASSUME NEW i \in Instances, Acquire(i) \/ Renew(i)
      PROVE  /\ holder' \in Instances \cup {NoInstance} /\ age' \in 0 .. LeaseDuration
             /\ since' \in [Instances -> 0 .. LastRenewal]
             /\ waiting' \subseteq Candidates'
  <2>1. holder' = i /\ age' = 0 /\ waiting' = waiting \cup {i} /\ UNCHANGED <<pc, since>>
    BY <1>2 DEF Acquire, Renew, WriteLock
  <2>2. i \in Candidates
    BY <1>2 DEF Acquire, Renew, Leaders, Candidates, LeaderSteps
  <2>3. Candidates' = Candidates
    BY <2>1 DEF Candidates
  <2> QED BY <1>0, <2>1, <2>2, <2>3
<1>3. ASSUME NEW i \in Instances, Reply(i) \/ LoseReply(i)
      PROVE  /\ UNCHANGED <<holder, age>>
             /\ since' \in [Instances -> 0 .. LastRenewal]
             /\ waiting' \subseteq Candidates'
  <2>1. /\ UNCHANGED <<holder, age>> /\ waiting' = waiting \ {i}
        /\ since' = since \/ since' = [since EXCEPT ![i] = 0]
        /\ pc' = pc \/ pc' = [pc EXCEPT ![i] = "get config"]
    BY <1>3 DEF Reply, LoseReply, Goto, lockState
  <2>2. Candidates \subseteq Candidates'
    BY <1>0, <2>1 DEF Candidates, LeaderSteps
  <2> QED BY <1>0, <2>1, <2>2
<1>4. ASSUME NEW i \in Instances, Run(i) \/ StopLeading(i) \/ Crash(i)
      PROVE  /\ UNCHANGED <<holder, age>>
             /\ since' \in [Instances -> 0 .. LastRenewal]
             /\ waiting' \subseteq Candidates'
  <2>1. UNCHANGED <<holder, age>> /\ (Exit(i) \/ UNCHANGED since)
    BY <1>4 DEF Run, Start, GetNamespace, CreateNamespace, GetSecret, DeleteSecret, CreateSecret,
                GetConfig, PutConfig, Register, StopLeading, Crash, leaseState, lockState
  <2>2. since' = since \/ since' = [since EXCEPT ![i] = 0]
    BY <2>1 DEF Exit
  <2>3. CASE Run(i)
    BY <1>0, <2>1, <2>2, <2>3, RunCandidates
  <2>4. CASE StopLeading(i) \/ Crash(i)
    <3>1. waiting' = waiting \ {i} /\ pc' = [pc EXCEPT ![i] = "down"]
      BY <2>4 DEF StopLeading, Crash, Exit, Goto
    <3>2. waiting' \subseteq Candidates'
      BY <1>0, <3>1 DEF Candidates
    <3> QED BY <1>0, <2>1, <2>2, <3>2
  <2> QED BY <1>4, <2>3, <2>4
<1>5. CASE Land \/ UNCHANGED vars
  <2>1. UNCHANGED <<pc, holder, age, since, waiting>>
    BY <1>5 DEF Land, vars, leaseState, lockState
  <2>2. Candidates' = Candidates
    BY <2>1 DEF Candidates
  <2> QED BY <1>0, <2>1, <2>2
<1> QED BY <1>0, <1>1, <1>2, <1>3, <1>4, <1>5 DEF Next

\* The versions of the configuration after a step.
LEMMA VersionTypes ==
    ASSUME TypeInv, [Next]_vars
    PROVE  /\ config'.version \in Nat /\ config'.version >= config.version
           /\ \A w \in late' : w.version \in Nat
<1>0. config.version \in Nat /\ read \in [Instances -> Nat] /\ \A w \in late : w.version \in Nat
  BY DEF TypeInv
<1>1. CASE Land
  BY <1>0, <1>1 DEF Land, Written
<1>2. CASE \E i \in Instances : PutConfig(i)
  <2>1. PICK i \in Instances : PutConfig(i)
    BY <1>2
  <2>2. late' = late /\ (config' = config \/ (read[i] = config.version /\ config'.version = read[i] + 1))
    BY <2>1 DEF PutConfig, Written
  <2>3. read[i] \in Nat
    BY <1>0
  <2> QED BY <1>0, <2>2, <2>3
<1>3. CASE \E i \in Instances : StopLeading(i) \/ Crash(i)
  <2>1. PICK i \in Instances : MayLand(i)
    BY <1>3 DEF StopLeading, Crash
  <2>2. UNCHANGED config
    BY <1>3 DEF StopLeading, Crash
  <2>3. \A w \in late' : w \in late \/ w = [version |-> read[i], ca |-> files[i]]
    <3>1. CASE late' = late \cup {[version |-> read[i], ca |-> files[i]]}
      BY <3>1
    <3>2. CASE late' = late
      BY <3>2
    <3> QED BY <2>1, <3>1, <3>2 DEF MayLand
  <2> QED BY <1>0, <2>2, <2>3
<1>4. CASE UNCHANGED <<config, late>>
  BY <1>0, <1>4
<1>5. CASE Tick \/ UNCHANGED vars \/ \E i \in Instances : Acquire(i) \/ Renew(i) \/ Reply(i) \/ LoseReply(i)
  BY <1>4, <1>5 DEF Tick, vars, Acquire, Renew, WriteLock, Reply, LoseReply, configState
<1>6. ASSUME NEW i \in Instances, Run(i), ~PutConfig(i) PROVE UNCHANGED <<config, late>>
  BY <1>6 DEF Run, Start, GetNamespace, CreateNamespace, GetSecret, DeleteSecret, CreateSecret,
              GetConfig, Register, configState
<1> QED BY <1>1, <1>2, <1>3, <1>4, <1>5, <1>6 DEF Next

\* What the instances have read of the configuration after a step.
LEMMA ReadTypes ==
    ASSUME TypeInv, [Next]_vars
    PROVE  read' \in [Instances -> Nat]
<1>0. config.version \in Nat /\ read \in [Instances -> Nat]
  BY DEF TypeInv
<1>1. ASSUME NEW i \in Instances, Exit(i) PROVE read' \in [Instances -> Nat]
  BY <1>0, <1>1 DEF Exit
<1>2. ASSUME NEW i \in Instances, GetConfig(i) PROVE read' \in [Instances -> Nat]
  <2>1. PICK v \in 0 .. config.version : read' = [read EXCEPT ![i] = v]
    BY <1>2 DEF GetConfig
  <2> QED BY <1>0, <2>1
<1>3. CASE UNCHANGED read
  BY <1>0, <1>3
<1>4. CASE Land \/ Tick \/ UNCHANGED vars \/ \E i \in Instances : Acquire(i) \/ Renew(i) \/ Reply(i) \/ LoseReply(i)
  BY <1>3, <1>4 DEF Land, Tick, vars, Acquire, Renew, WriteLock, Reply, LoseReply, configState
<1>5. ASSUME NEW i \in Instances, Run(i), ~GetConfig(i) PROVE Exit(i) \/ UNCHANGED read
  BY <1>5 DEF Run, Start, GetNamespace, CreateNamespace, GetSecret, DeleteSecret, CreateSecret,
              PutConfig, Register, configState
<1>6. ASSUME NEW i \in Instances, StopLeading(i) \/ Crash(i) PROVE Exit(i)
  BY <1>6 DEF StopLeading, Crash
<1> QED BY <1>1, <1>2, <1>3, <1>4, <1>5, <1>6 DEF Next

\* An instance gets past EnsureValidatingWebhookConfiguration by writing the configuration.
LEMMA ConfiguredSteps ==
    ASSUME pc \in [Instances -> Steps], [Next]_vars
    PROVE  \/ Configured' \subseteq Configured
           \/ \E i \in Instances : PutConfig(i) /\ config' # config
<1>1. ASSUME NEW i \in Instances, Exit(i) PROVE Configured' \subseteq Configured
  BY <1>1 DEF Exit, Goto, Configured
<1>2. CASE UNCHANGED pc
  BY <1>2 DEF Configured
<1>3. CASE Land \/ Tick \/ UNCHANGED vars \/ \E i \in Instances : Acquire(i) \/ Renew(i) \/ LoseReply(i)
  BY <1>2, <1>3 DEF Land, Tick, vars, Acquire, Renew, WriteLock, LoseReply
<1>4. ASSUME NEW i \in Instances, StopLeading(i) \/ Crash(i) PROVE Configured' \subseteq Configured
  BY <1>1, <1>4 DEF StopLeading, Crash
<1>5. ASSUME NEW i \in Instances, Reply(i) PROVE Configured' \subseteq Configured
  BY <1>5 DEF Reply, Goto, Configured
<1>6. ASSUME NEW i \in Instances, Run(i), ~PutConfig(i), ~Exit(i) PROVE Configured' \subseteq Configured
  <2>1. \E step \in Steps : Goto(i, step) /\ (step \in {"register", "leading"} => pc[i] = "register")
    BY <1>6 DEF Run, Start, GetNamespace, CreateNamespace, GetSecret, DeleteSecret, CreateSecret,
                GetConfig, Register, Steps
  <2>2. PICK step \in Steps : Goto(i, step) /\ (step \in {"register", "leading"} => pc[i] = "register")
    BY <2>1
  <2> QED BY <2>2 DEF Goto, Configured
<1>7. ASSUME NEW i \in Instances, PutConfig(i), config' = config PROVE Configured' \subseteq Configured
  BY <1>1, <1>7 DEF PutConfig
<1> QED BY <1>1, <1>3, <1>4, <1>5, <1>6, <1>7 DEF Next

LEMMA TypeStep == TypeInv /\ [Next]_vars => TypeInv'
<1> SUFFICES ASSUME TypeInv, [Next]_vars PROVE TypeInv'
  OBVIOUS
<1>1. CertInv'
  BY CertStep DEF TypeInv
<1>2. /\ config.version \in Nat /\ config'.version \in Nat /\ config'.version >= config.version
      /\ \A w \in late' : w.version \in Nat
  BY VersionTypes DEF TypeInv
<1>3. Configured' # {} => config'.version > 0
  <2>1. CASE Configured' \subseteq Configured
    <3>1. Configured' # {} => config.version > 0
      BY <2>1 DEF TypeInv
    <3> QED BY <1>2, <3>1
  <2>2. ASSUME NEW i \in Instances, PutConfig(i), config' # config PROVE config'.version > 0
    <3>1. config'.version = read[i] + 1 /\ read[i] \in Nat
      BY <2>2 DEF PutConfig, Written, TypeInv
    <3> QED BY <3>1
  <2>3. pc \in [Instances -> Steps]
    BY DEF TypeInv, CertInv
  <2> QED BY <2>1, <2>2, <2>3, ConfiguredSteps
<1> QED BY <1>1, <1>2, <1>3, LeaseTypes, ReadTypes DEF TypeInv

LEMMA TypeInit == Init => TypeInv
BY CertInit, Lease DEF Init, TypeInv, Configured, Candidates

\* An instance that serves has a certificate, only one that leads has reconcilers, which were
\* given its CA, and only candidates and leaders wait for the lock.
THEOREM TypeCorrect == Spec => []TypeOK
<1>1. TypeInv => TypeOK
  BY DEF TypeInv, TypeOK, CertInv, Serving, WithFiles, Candidates, Leaders, LeaderSteps
<1> QED BY <1>1, TypeInit, TypeStep, PTL DEF Spec
-----------------------------------------------------------------------------
(* The CA of the leaders.                                                   *)

\* As long as nothing is too late, one leader has written the configuration and all others are
\* too old to be written; after that, all leaders have the certificate of the secret.
LeaderInv ==
    /\ ~slow => LeaseInv /\ ConfigInv
    /\ TypeInv /\ TrustInv

\* A leader that is past EnsureValidatingWebhookConfiguration has its own CA in the
\* configuration: a write of an earlier leader that arrives late names an older version, and
\* leaders at the same time have one certificate (EnsureCertSecrets).
THEOREM LeaderIsConfigured == Spec => []LeaderConfigured
<1>1. Init => LeaderInv
  <2> SUFFICES ASSUME Init PROVE LeaderInv
    OBVIOUS
  <2>1. Configured = {}
    BY DEF Init, Configured
  <2>2. config.version = 0 /\ secret \in {0, Invalid, Generated(0)} /\ made = 1
    BY DEF Init
  <2>3. secret \in Nat /\ made \in Nat /\ files \in [Instances -> Nat] /\ read \in [Instances -> Nat]
    BY <2>2 DEF Init, Invalid, Generated
  <2>4. late = {} /\ \A i \in Instances : read[i] = 0
    BY DEF Init
  <2>5. ConfigInv
    BY <2>1, <2>2, <2>3, <2>4 DEF ConfigInv, Versions
  <2> QED BY <2>5, LeaseInit, TypeInit, CertInit DEF LeaderInv
<1>2. LeaderInv /\ [Next]_vars => LeaderInv'
  BY LeaseStep, ConfigStep, SlowStays, TypeStep, TrustStep DEF LeaderInv, TypeInv
<1>3. LeaderInv => LeaderConfigured
  <2> SUFFICES ASSUME LeaderInv, ~slow \/ misled <= 1, NEW i \in Leaders,
                      pc[i] \in {"register", "leading"}
               PROVE  config.ca = files[i]
    BY DEF LeaderConfigured
  <2>1. i \in Instances /\ i \in Configured
    BY DEF Leaders, Configured
  <2>2. CASE ~slow
    BY <2>1, <2>2 DEF LeaderInv, ConfigInv
  <2>3. CASE misled <= 1
    <3>1. config.version > 0
      BY <2>1 DEF LeaderInv, TypeInv
    <3>2. pc[i] \in ServingSteps
      BY DEF ServingSteps, WithFiles
    <3> QED BY <2>1, <2>3, <3>1, <3>2 DEF LeaderInv, TrustInv
  <2> QED BY <2>2, <2>3
<1> QED BY <1>1, <1>2, <1>3, PTL DEF Spec
=============================================================================
