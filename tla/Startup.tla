------------------------------ MODULE Startup ------------------------------
(***************************************************************************)
(* The start of the instances of jsPolicy, cmd/jspolicy/main.go: each makes   *)
(* sure that the secret with the certificate of the webhooks exists           *)
(* (pkg/util/secret, pkg/util/certhelper), serves with the files it got,      *)
(* stands for leader (pkg/leaderelection), and as leader writes the           *)
(* configuration that has the API server call jsPolicy for policies           *)
(* (pkg/store/validatingwebhookconfiguration) and starts the reconcilers.     *)
(*                                                                         *)
(* A certificate is a number; it signs itself, so that ca.crt is tls.crt.     *)
(* Time is counted in steps of the retry period.  Candidates count it from    *)
(* the last write of the lock, a leader from the last reply it got to one.    *)
(***************************************************************************)
EXTENDS Naturals, FiniteSets

CONSTANTS Instances,
          NoInstance,
          LeaseDuration, RenewDeadline, RetryPeriod,
          MaxFailures  \* bound on failed calls, crashes and stale reads

ASSUME StartupAssumption ==
    /\ NoInstance \notin Instances
    /\ LeaseDuration \in Nat /\ RenewDeadline \in Nat /\ RetryPeriod \in Nat
    /\ RetryPeriod + RenewDeadline < LeaseDuration
    /\ MaxFailures \in Nat

VARIABLES pc,         \* where each instance is
          files,      \* the certificate in each instance's WebhookCertFolder, 0 when none
          namespace,  \* whether the namespace exists
          secret,     \* the certificate in the secret: 0 without a secret, Invalid
          made,       \* certificates that were generated so far
          holder,     \* the identity in the lock of the leader election
          age,        \* time since the lock was written
          since,      \* time since each leader learnt that it had renewed the lock
          waiting,    \* the instances whose write of the lock was accepted, before they learn of it
          slow,       \* a reply or the end of a leader was so late that the lease may have been over
          config,     \* the ValidatingWebhookConfiguration; its version counts the writes of jsPolicy
          read,       \* the version each instance read of it
          caBundle,   \* the CA that the reconciler of each instance was given
          late,       \* writes of the configuration by instances that are gone
          failures,   \* so much went wrong so far
          misled      \* how often an instance has found an invalid secret

vars == <<pc, files, namespace, secret, made, holder, age, since, waiting, slow, config, read,
          caBundle, late, failures, misled>>

Invalid == 1  \* the secret is there without the three files, or with another type
Generated(n) == n + 2
Certs == {Generated(n) : n \in 0 .. made}

Steps == {"down", "namespace", "create namespace", "get", "delete", "create",
          "campaign", "get config", "put config", "register", "leading"}

\* The instances whose webhook server is up: main starts the manager when
\* EnsureCertSecrets has returned.
Serving == {i \in Instances : pc[i] \in {"campaign", "get config", "put config", "register", "leading"}}

\* The instances that think that they lead.
Leaders == {i \in Instances : pc[i] \in {"get config", "put config", "register", "leading"}}

Goto(i, step) == pc' = [pc EXCEPT ![i] = step]

\* The first start after an installation or in a cluster where jsPolicy has run before, whose
\* configuration and whose secret may be left, of one certificate or of two.
Init ==
    /\ pc = [i \in Instances |-> "down"]
    /\ files = [i \in Instances |-> 0]
    /\ namespace \in BOOLEAN
    /\ secret \in IF namespace THEN {0, Invalid, Generated(0)} ELSE {0}
    /\ made = 1
    /\ holder = NoInstance /\ age = 0
    /\ since = [i \in Instances |-> 0] /\ waiting = {} /\ slow = FALSE
    /\ config \in [version : {0}, ca : {0, Generated(0), Generated(1)}]
    /\ read = [i \in Instances |-> 0]
    /\ caBundle = [i \in Instances |-> 0]
    /\ late = {}
    /\ failures = 0
    /\ misled = 0

-----------------------------------------------------------------------------

\* Mutant: the reconciler outlives the process.
ExitKeepsBundle(i) ==
    /\ Goto(i, "down")
    /\ files' = [files EXCEPT ![i] = 0]
    /\ read' = [read EXCEPT ![i] = 0]
    /\ since' = [since EXCEPT ![i] = 0] /\ waiting' = waiting \ {i}
    /\ UNCHANGED caBundle

\* os.Exit, or a crash: the kubelet starts the container again, with an empty
\* file system and the same hostname.
Exit(i) ==
    /\ Goto(i, "down")
    /\ files' = [files EXCEPT ![i] = 0]
    /\ read' = [read EXCEPT ![i] = 0]
    /\ since' = [since EXCEPT ![i] = 0] /\ waiting' = waiting \ {i}
    /\ caBundle' = [caBundle EXCEPT ![i] = 0]

\* The write of the configuration that instance i was sending may arrive yet.
MayLand(i) ==
    late' \in IF pc[i] = "put config"
              THEN {late, late \cup {[version |-> read[i], ca |-> files[i]]}} ELSE {late}

Fail == failures < MaxFailures /\ failures' = failures + 1

certState == <<namespace, secret, made, misled>>
lockState == <<holder, age, slow>>
leaseState == <<lockState, since, waiting>>
configState == <<config, read, late, caBundle>>

Start(i) ==
    /\ pc[i] = "down"
    /\ Goto(i, "namespace")
    /\ UNCHANGED <<files, certState, leaseState, configState, failures>>

\* EnsureCertSecrets: another instance may create the namespace in between, which is
\* an error to this one.
GetNamespace(i) ==
    /\ pc[i] = "namespace"
    /\ Goto(i, IF namespace THEN "get" ELSE "create namespace")
    /\ UNCHANGED <<files, certState, leaseState, configState, failures>>

CreateNamespace(i) ==
    /\ pc[i] = "create namespace"
    /\ IF namespace
       THEN Exit(i) /\ UNCHANGED <<certState, config, late>>
       ELSE /\ Goto(i, "get")
            /\ namespace' = TRUE
            /\ UNCHANGED <<files, secret, made, misled, configState, since, waiting>>
    /\ UNCHANGED <<lockState, failures>>

\* generateCertificate keeps what the folder holds; then the three files are read.
Generate(i) ==
    IF files[i] # 0 THEN UNCHANGED <<files, made>>
    ELSE /\ made' = made + 1
         /\ files' = [files EXCEPT ![i] = Generated(made + 1)]

\* Mutant: the instance goes on with its own files when it finds a secret.
GetSecretKeepsFiles(i) ==
    /\ pc[i] = "get"
    /\ CASE secret = 0 -> Goto(i, "create") /\ Generate(i) /\ UNCHANGED misled
         [] secret = Invalid -> /\ Goto(i, "delete") /\ misled' = misled + 1
                                /\ UNCHANGED <<files, made>>
         [] OTHER -> /\ Goto(i, "campaign") /\ UNCHANGED <<made, misled>>
                     /\ files' = [files EXCEPT ![i] = IF @ = 0 THEN secret ELSE @]
    /\ UNCHANGED <<namespace, secret, leaseState, configState, failures>>

\* ensureSecret: its Get, and what it does before its next call of the server.
GetSecret(i) ==
    /\ pc[i] = "get"
    /\ \/ /\ secret = 0
          /\ Goto(i, "create") /\ Generate(i) /\ UNCHANGED misled
       \/ /\ secret = Invalid
          /\ Goto(i, "delete")
          /\ misled' = misled + 1
          /\ UNCHANGED <<files, made>>
       \/ /\ secret \notin {0, Invalid}
          /\ Goto(i, "campaign")
          /\ files' = [files EXCEPT ![i] = secret]
          /\ UNCHANGED <<made, misled>>
    /\ UNCHANGED <<namespace, secret, leaseState, configState, failures>>

\* The Delete names the secret, and not the one that was read.
DeleteSecret(i) ==
    /\ pc[i] = "delete"
    /\ IF secret = 0
       THEN Exit(i) /\ UNCHANGED <<certState, config, late>>
       ELSE /\ Goto(i, "create") /\ Generate(i)
            /\ secret' = 0
            /\ UNCHANGED <<namespace, misled, configState, since, waiting>>
    /\ UNCHANGED <<lockState, failures>>

\* "someone was faster here": then everything again.
CreateSecret(i) ==
    /\ pc[i] = "create"
    /\ IF secret = 0
       THEN secret' = files[i] /\ Goto(i, "campaign")
       ELSE UNCHANGED secret /\ Goto(i, "get")
    /\ UNCHANGED <<files, namespace, made, misled, leaseState, configState, failures>>

-----------------------------------------------------------------------------

\* Mutant: the lease is over for a candidate when a leader has to have renewed it.
MayLockEarly(i) == holder \in {NoInstance, i} \/ age >= RenewDeadline

\* The lock is free, is its own, also from before a restart, or was not written for LeaseDuration.
MayLock(i) == holder \in {NoInstance, i} \/ age = LeaseDuration

\* The Update of the lock is accepted; its reply is under way.
WriteLock(i) ==
    /\ i \notin waiting
    /\ MayLock(i)
    /\ holder' = i /\ age' = 0
    /\ waiting' = waiting \cup {i}
    /\ UNCHANGED <<pc, files, certState, since, slow, configState, failures>>

\* tryAcquireOrRenew of a candidate, which has no deadline, and of a leader.
Acquire(i) == pc[i] = "campaign" /\ WriteLock(i)
Renew(i) == i \in Leaders /\ age > 0 /\ WriteLock(i)

\* A candidate leads, and a leader has renewed the lease, when it gets the reply.
Reply(i) ==
    /\ i \in waiting
    /\ waiting' = waiting \ {i}
    /\ IF pc[i] = "campaign" THEN Goto(i, "get config") ELSE UNCHANGED pc
    /\ since' = [since EXCEPT ![i] = 0]
    /\ UNCHANGED <<files, certState, lockState, configState, failures>>

\* The reply is lost; what the instance does next is to try again.
LoseReply(i) ==
    /\ i \in waiting
    /\ Fail
    /\ waiting' = waiting \ {i}
    /\ UNCHANGED <<pc, files, certState, lockState, since, configState>>

\* A leader tries to renew RetryPeriod after the last reply, for RenewDeadline, and then exits.
LastRenewal == RetryPeriod + RenewDeadline

\* A reply comes so late that the leader may go on for longer than its lease, or a leader goes
\* on after its deadline.
TooLate ==
    \/ holder \in waiting /\ age + 1 + LastRenewal = LeaseDuration
    \/ \E i \in Leaders : since[i] = LastRenewal

Tick ==
    /\ holder # NoInstance
    /\ age < LeaseDuration \/ \E i \in Leaders : since[i] < LastRenewal
    /\ age' = IF age < LeaseDuration THEN age + 1 ELSE age
    /\ since' = [i \in Instances |-> IF i \in Leaders /\ since[i] < LastRenewal
                                    THEN since[i] + 1 ELSE since[i]]
    /\ IF TooLate THEN Fail /\ slow' = TRUE ELSE UNCHANGED <<failures, slow>>
    /\ UNCHANGED <<pc, files, certState, holder, waiting, configState>>

\* OnStoppedLeading: a round of renewals came to its deadline, as the server could not be reached
\* or another instance has the lock.  The first round begins at once, the others after RetryPeriod.
StopLeading(i) ==
    /\ i \in Leaders
    /\ since[i] >= RenewDeadline
    /\ IF holder = i THEN Fail ELSE UNCHANGED failures
    /\ Exit(i)
    /\ MayLand(i)
    /\ UNCHANGED <<certState, lockState, config>>

\* EnsureValidatingWebhookConfiguration reads through the cache, which may lag.
GetConfig(i) ==
    /\ pc[i] = "get config"
    /\ \E v \in 0 .. config.version :
          /\ read' = [read EXCEPT ![i] = v]
          /\ IF v = config.version THEN UNCHANGED failures ELSE Fail
    /\ Goto(i, "put config")
    /\ UNCHANGED <<files, certState, leaseState, config, caBundle, late>>

\* Mutant: the update does not name the version that was read.
WrittenAnyway(version, ca) == config' = [version |-> config.version + 1, ca |-> ca]

\* What the server makes of a Create or an Update that was prepared from a version.
Written(version, ca) ==
    config' = IF version = config.version THEN [version |-> version + 1, ca |-> ca] ELSE config

\* Mutant: the same write is tried again after a conflict.
PutConfigRetries(i) ==
    /\ pc[i] = "put config"
    /\ Written(read[i], files[i])
    /\ IF config' # config THEN Goto(i, "register") ELSE UNCHANGED pc
    /\ UNCHANGED <<files, read, caBundle, certState, leaseState, late, failures>>

\* An error is fatal.
PutConfig(i) ==
    /\ pc[i] = "put config"
    /\ Written(read[i], files[i])
    /\ IF config' # config
       THEN Goto(i, "register") /\ UNCHANGED <<files, read, caBundle, since, waiting>>
       ELSE Exit(i)
    /\ UNCHANGED <<certState, lockState, late, failures>>

\* A write that was on its way when its instance ended.
Land ==
    /\ \E w \in late : Written(w.version, w.ca) /\ late' = late \ {w}
    /\ UNCHANGED <<pc, files, certState, leaseState, read, caBundle, failures>>

\* controllers.Register reads ca.crt and starts the reconciler, main is done.
Register(i) ==
    /\ pc[i] = "register"
    /\ caBundle' = [caBundle EXCEPT ![i] = files[i]]
    /\ Goto(i, "leading")
    /\ UNCHANGED <<files, certState, leaseState, config, read, late, failures>>

\* An instance ends: a call fails, its reply is lost, or the process is killed.  The call
\* it was making may have been carried out, or, for the configuration, may yet be.
Crash(i) ==
    /\ pc[i] # "down"
    /\ Fail
    /\ Exit(i)
    /\ secret' \in CASE pc[i] = "delete" -> {secret, 0}
                     [] pc[i] = "create" /\ secret = 0 -> {secret, files[i]}
                     [] OTHER -> {secret}
    /\ namespace' \in {namespace, namespace \/ pc[i] = "create namespace"}
    /\ MayLand(i)
    /\ UNCHANGED <<made, misled, lockState, config>>

Run(i) ==
    \/ Start(i)
    \/ GetNamespace(i)
    \/ CreateNamespace(i)
    \/ GetSecret(i)
    \/ DeleteSecret(i)
    \/ CreateSecret(i)
    \/ GetConfig(i)
    \/ PutConfig(i)
    \/ Register(i)

Next ==
    \/ Tick \/ Land
    \/ \E i \in Instances :
          \/ Run(i) \/ Acquire(i) \/ Renew(i) \/ Reply(i) \/ LoseReply(i)
          \/ StopLeading(i) \/ Crash(i)

Spec == Init /\ [][Next]_vars

\* Processes run, time passes, candidates and leaders try again, calls are answered and a round
\* of renewals ends; nothing has to fail.
FairSpec ==
    /\ Spec
    /\ WF_vars(Tick)
    /\ \A i \in Instances :
          /\ WF_vars(Run(i)) /\ WF_vars(Acquire(i)) /\ WF_vars(Renew(i))
          /\ WF_vars(Reply(i)) /\ WF_vars(StopLeading(i))

-----------------------------------------------------------------------------

\* Types; an instance that serves has a certificate, one that was started without a
\* certificate has no reconciler, and only those that stand for leader, or lead, wait for the lock.
TypeOK ==
    /\ pc \in [Instances -> Steps]
    /\ secret \in {0, Invalid} \cup Certs
    /\ files \in [Instances -> {0} \cup Certs]
    /\ holder \in Instances \cup {NoInstance} /\ age \in 0 .. LeaseDuration
    /\ since \in [Instances -> 0 .. LastRenewal]
    /\ waiting \subseteq Leaders \cup {i \in Instances : pc[i] = "campaign"}
    /\ config.version \in Nat /\ config.ca \in {0} \cup Certs
    /\ \A i \in Serving : files[i] # 0
    /\ \A i \in Instances : caBundle[i] \in {0, files[i]}

\* main.go: "Make sure the certificates are there, this is safe with leader election".
\* Whoever leads, all instances serve with one certificate, it is the one of the reconcilers'
\* CaBundle, and of the configuration once any leader has written that.
Trusted ==
    \A i \in Serving :
        /\ config.version > 0 => config.ca = files[i]
        /\ \A j \in Serving : files[i] = files[j] /\ caBundle[j] \in {0, files[i]}

\* The same, unless two instances, or two starts of one, found an invalid secret: the
\* second of them deletes what the first has made of it.
TrustedInstances == misled <= 1 => Trusted

\* As long as the replies to writes of the lock take less than the LeaseDuration leaves beside
\* RetryPeriod and RenewDeadline, and a leader stops on time, two instances never lead at the
\* same time: their reconcilers would write the same webhook configurations.
OneLeader == ~slow => Cardinality(Leaders) <= 1

\* A leader that has passed EnsureValidatingWebhookConfiguration has its own CA in the
\* configuration, also when a write of an earlier leader arrives late.  Two leaders at a time
\* have one CA as long as TrustedInstances says so.
LeaderConfigured ==
    ~slow \/ misled <= 1 =>
        \A i \in Leaders : pc[i] \in {"register", "leading"} => config.ca = files[i]

\* Once nothing fails any more some instance leads for good, with reconcilers that run.
LeaderSettles == <>[](\E i \in Instances : pc[i] = "leading")
=============================================================================
