-------------------------- MODULE ConditionsProofs --------------------------
(***************************************************************************)
(* What a patch of conditions may change, for any number of controllers,     *)
(* attempts and versions.                                                    *)
(***************************************************************************)
EXTENDS Conditions, SequenceTheorems, TLAPS

-----------------------------------------------------------------------------
(* Conditions whose times are at most n.                                    *)

Texts == {"", "none", "True", "False", "Unknown", "Error", "Warning", "CompileFailed", "SyncFailed",
          "Mine"}

ConditionsAt(n) == [status : Texts, severity : Texts, reason : Texts, time : 0 .. n]

ValuesAt(n) == [Types -> ConditionsAt(n)]

LEMMA SetProperties ==
    ASSUME NEW n \in Nat, Now \in 0 .. n, NEW v \in ValuesAt(n), NEW t \in Types,
           NEW condition \in ConditionsAt(n)
    PROVE  /\ Set(v, t, condition) \in ValuesAt(n)
           /\ \A u \in Types \ {t} : Set(v, t, condition)[u] = v[u]
           /\ hasSameState(Set(v, t, condition)[t], condition)
           /\ v[t] # Absent /\ hasSameState(v[t], condition) => Set(v, t, condition)[t] = v[t]
           /\ v[t] # Absent /\ ~hasSameState(v[t], condition) =>
                 Set(v, t, condition)[t].time = Now
BY DEF Set, ValuesAt, ConditionsAt, hasSameState

LEMMA AbsentIsACondition == ASSUME NEW n \in Nat PROVE Absent \in ConditionsAt(n)
BY DEF Absent, Condition, ConditionsAt, Texts

\* The conditions that controllers mark.
LEMMA MarksAreConditions ==
    ASSUME NEW n \in Nat, NEW reason \in Texts, NEW severity \in Texts
    PROVE  /\ TrueCondition \in ConditionsAt(n) /\ FalseCondition(reason, severity) \in ConditionsAt(n)
           /\ UnknownCondition(reason) \in ConditionsAt(n)
<1>1. "" \in Texts /\ "True" \in Texts /\ "False" \in Texts /\ "Unknown" \in Texts
  BY Zenon DEF Texts
<1>2. ASSUME NEW status \in Texts, NEW s \in Texts, NEW r \in Texts
      PROVE  Condition(status, s, r) \in ConditionsAt(n)
  <2>1. 0 \in 0 .. n
    OBVIOUS
  <2> QED BY <2>1 DEF Condition, ConditionsAt
<1> QED BY <1>1, <1>2 DEF TrueCondition, FalseCondition, UnknownCondition

LEMMA SummaryProperties ==
    ASSUME NEW n \in Nat, Now \in 0 .. n, NEW v \in ValuesAt(n)
    PROVE  SetSummary(v) \in ValuesAt(n)
<1> DEFINE k == FirstCondition(v)
<1>1. k \in {0, 1, 2}
  <2> DEFINE inScope == {i \in DOMAIN Order : v[Order[i]] # Absent}
             rank(i) == mergePriority(v[Order[i]])
             top == {i \in inScope : \A j \in inScope : rank(i) <= rank(j)}
  <2>1. k = IF top = {} THEN 0 ELSE CHOOSE i \in top : \A j \in top : i <= j
    BY DEF FirstCondition
  <2>2. top \subseteq {1, 2}
    BY DEF Order
  <2>3. ASSUME top # {} PROVE \E i \in top : \A j \in top : i <= j
    <3>1. CASE 1 \in top
      BY <3>1, <2>2
    <3>2. CASE 1 \notin top
      BY <3>2, <2>2, <2>3
    <3> QED BY <3>1, <3>2
  <2> HIDE DEF top
  <2> QED BY <2>1, <2>2, <2>3
<1>2. CASE k = 0
  BY <1>2 DEF SetSummary
<1>3. CASE k \in {1, 2}
  <2>1. Order[k] \in Types
    BY <1>3 DEF Order, Types
  <2>2. [v[Order[k]] EXCEPT !.time = 0] \in ConditionsAt(n)
    BY <2>1 DEF ValuesAt, ConditionsAt
  <2> QED BY <2>2, <1>3, SetProperties, "Ready" \in Types DEF SetSummary, Types
<1> QED BY <1>1, <1>2, <1>3

\* What a controller makes of its copy has no later times.
LEMMA MarkedProperties ==
    ASSUME NEW n \in Nat, Now \in 0 .. n, NEW v \in ValuesAt(n), NEW c \in Clients,
           NEW after \in Marked(c, v)
    PROVE  after \in ValuesAt(n)
<1> DEFINE compiled == Set(v, "BundleCompiled", TrueCondition)
           failed == Set(v, "BundleCompiled", FalseCondition("CompileFailed", "Error"))
<1>1. compiled \in ValuesAt(n) /\ failed \in ValuesAt(n)
  BY SetProperties, MarksAreConditions DEF Types, Texts
<1>2. ASSUME NEW w \in {TrueCondition, FalseCondition("SyncFailed", "Error")}
      PROVE  Set(compiled, "WebhookReady", w) \in ValuesAt(n)
  BY <1>1, SetProperties, MarksAreConditions DEF Types, Texts
<1>3. ASSUME NEW t \in Types PROVE Delete_(v, t) \in ValuesAt(n)
  BY AbsentIsACondition DEF Delete_, ValuesAt
<1>4. CASE c \in Reconcilers
  <2>1. PICK w \in {Set(compiled, "WebhookReady", x) :
                       x \in {TrueCondition, FalseCondition("SyncFailed", "Error")}}
                   \cup {compiled, failed, v, Delete_(v, "BundleCompiled")} : after = SetSummary(w)
    BY <1>4 DEF Marked
  <2>2. w \in ValuesAt(n)
    BY <1>1, <1>2, <1>3 DEF Types
  <2> QED BY <2>1, <2>2, SummaryProperties
<1>5. CASE c \notin Reconcilers
  <2>1. \/ \E w \in {TrueCondition, FalseCondition("Mine", "Warning")} : after = Set(v, "Custom", w)
        \/ after = Delete_(v, "Custom")
        \/ after = Set(v, "WebhookReady", UnknownCondition("Mine"))
    BY <1>5 DEF Marked
  <2>2. /\ "Mine" \in Texts /\ "Warning" \in Texts
        /\ "Custom" \in Types /\ "WebhookReady" \in Types
    BY DEF Types, Texts
  <2>3. /\ TrueCondition \in ConditionsAt(n) /\ FalseCondition("Mine", "Warning") \in ConditionsAt(n)
        /\ UnknownCondition("Mine") \in ConditionsAt(n)
    BY <2>2, MarksAreConditions
  <2> QED BY <2>1, <2>2, <2>3, <1>3, SetProperties
<1> QED BY <1>4, <1>5

-----------------------------------------------------------------------------
(* Versions of the object.                                                  *)

LEMMA LaterConditions ==
    ASSUME NEW n \in Nat, NEW m \in Nat, n <= m
    PROVE  ConditionsAt(n) \subseteq ConditionsAt(m) /\ ValuesAt(n) \subseteq ValuesAt(m)
<1>1. 0 .. n \subseteq 0 .. m
  OBVIOUS
<1>2. ConditionsAt(n) \subseteq ConditionsAt(m)
  BY <1>1 DEF ConditionsAt
<1> QED BY <1>2 DEF ValuesAt

Values == (UNION {ValuesAt(n) : n \in Nat}) \cup {NoValue}

Version == [uid : Nat, rv : Int, val : Values, deleting : BOOLEAN]

LEMMA NoObjectIsAVersion == NoValue \in Values /\ NoObject \in Version
<1>1. NoValue \in Values
  BY DEF Values
<1> QED BY <1>1 DEF NoObject, Version

\* The revision of a version tells its place, and its conditions are not of the future.
HistoryInv ==
    /\ clock \in Nat \ {0}
    /\ history \in Seq(Version) /\ Len(history) \in Nat /\ Len(history) >= 2
    /\ seen \in 1 .. Len(history)
    /\ history[1] = NoObject
    /\ \A i \in 2 .. Len(history) :
          \/ history[i] = NoObject
          \/ history[i].rv = FirstRevision + i - 2 /\ history[i].val \in ValuesAt(clock)

Changes(n) == [before : ConditionsAt(n), after : ConditionsAt(n)]

\* What a controller is patching is not newer than the object.
DiffInv ==
    /\ DOMAIN diff = Clients
    /\ \A c \in Clients : /\ DOMAIN diff[c] \subseteq Types
                          /\ diff[c] \in [DOMAIN diff[c] -> Changes(clock)]

\* The cached object, when there is one.
LEMMA CachedVersion ==
    ASSUME HistoryInv, Cached # NoObject
    PROVE  /\ Cached \in Version /\ Cached.val \in ValuesAt(clock) /\ Now = clock /\ clock \in Nat \ {0}
           /\ Cached.rv = FirstRevision + seen - 2 /\ seen \in 2 .. Len(history)
<1>1. seen \in 2 .. Len(history) /\ Cached \in Version
  BY ElementOfSeq DEF HistoryInv, Cached
<1>2. Cached.val \in ValuesAt(clock) /\ Cached.rv = FirstRevision + seen - 2
  BY <1>1 DEF HistoryInv, Cached
<1> QED BY <1>1, <1>2 DEF Now, HistoryInv

\* Two versions with one revision are the same.
LEMMA SameVersion ==
    ASSUME HistoryInv, Cached # NoObject, Server # NoObject, Server.rv = Cached.rv
    PROVE  seen = Len(history) /\ Server = Cached
<1>1. Len(history) \in 2 .. Len(history) /\ Len(history) \in Nat
  BY DEF HistoryInv
<1>0. FirstRevision \in Int
  BY FirstRevisionAssumption
<1>2. Server.rv = FirstRevision + Len(history) - 2
  BY <1>1 DEF HistoryInv, Server
<1>3. seen = Len(history)
  BY <1>0, <1>1, <1>2, CachedVersion
<1> QED BY <1>3 DEF Server, Cached

LEMMA ApplyProperties ==
    ASSUME HistoryInv, DiffInv, NEW c \in Clients, Cached # NoObject
    PROVE  /\ Apply(c, Cached.val) \in ValuesAt(clock)
           /\ \A t \in Types \ DOMAIN diff[c] : Apply(c, Cached.val)[t] = Cached.val[t]
           /\ \A t \in DOMAIN diff[c] :
                 Apply(c, Cached.val)[t] = IF diff[c][t].after = Absent THEN Absent
                                           ELSE Set(Cached.val, t, diff[c][t].after)[t]
<1> DEFINE n == clock
<1>1. /\ n \in Nat /\ Now \in 0 .. n /\ Cached.val \in ValuesAt(n)
      /\ DOMAIN diff[c] \subseteq Types
  BY CachedVersion DEF HistoryInv, DiffInv
<1>2. ASSUME NEW t \in DOMAIN diff[c] PROVE diff[c][t].after \in ConditionsAt(n)
  BY DEF DiffInv, Changes
<1>3. ASSUME NEW t \in DOMAIN diff[c]
      PROVE  Set(Cached.val, t, diff[c][t].after) \in ValuesAt(n)
  BY <1>1, <1>2, SetProperties
<1>4. ASSUME NEW t \in Types PROVE Apply(c, Cached.val)[t] \in ConditionsAt(n)
  BY <1>1, <1>3, AbsentIsACondition DEF Apply, ValuesAt
<1>5. Apply(c, Cached.val) \in ValuesAt(n)
  BY <1>4 DEF Apply, ValuesAt
<1> QED BY <1>1, <1>5 DEF Apply

-----------------------------------------------------------------------------
(* Steps.                                                                   *)

\* An attempt gives up, is refused, or is stored.
LEMMA AttemptKinds ==
    ASSUME NEW c \in Clients, Attempt(c)
    PROVE  /\ seen' = seen /\ clock' = clock /\ Idle(c)
           /\ \/ history' = history /\ diff' = diff /\ Return(c, "error")
              \/ /\ Cached # NoObject /\ ~MergeConflict(c, Cached.val)
                 /\ diff' = [diff EXCEPT ![c] = Stamped(c, Cached.val)]
                 /\ \/ /\ history' = history
                       /\ \/ Return(c, "ok") /\ Apply(c, Cached.val) = Cached.val
                          \/ Return(c, "conflict") \/ Return(c, "notfound") \/ Return(c, "error")
                    \/ /\ Server # NoObject /\ Server.rv = Cached.rv
                       /\ Store(c, "update", Updated_(Cached, Apply(c, Cached.val)))
<1>1. CASE Refuse(c, "error") /\ UNCHANGED diff
  BY <1>1 DEF Attempt, Refuse, storeVars
<1>2. CASE /\ Cached # NoObject /\ ~MergeConflict(c, Cached.val)
           /\ diff' = [diff EXCEPT ![c] = Stamped(c, Cached.val)]
           /\ StatusPatch(c, Cached, Apply(c, Cached.val))
  <2>1. CASE Apply(c, Cached.val) = Cached.val
    BY <1>2, <2>1 DEF Attempt, StatusPatch, Unchanged, Refuse, storeVars
  <2>2. CASE Apply(c, Cached.val) # Cached.val
    BY <1>2, <2>2 DEF Attempt, StatusPatch, Update, Refuse, storeVars, Store
  <2> QED BY <2>1, <2>2
<1> QED BY <1>1, <1>2 DEF Attempt

LEMMA Stored ==
    ASSUME HistoryInv, NEW obj \in Version, history' = Append(history, obj), seen' = seen, clock' = clock,
           \/ obj = NoObject
           \/ obj.rv = NextRevision /\ obj.val \in ValuesAt(clock)
    PROVE  /\ HistoryInv' /\ Len(history') = Len(history) + 1
           /\ Server' = obj /\ \A i \in 1 .. Len(history) : history'[i] = history[i]
<1>1. /\ history' \in Seq(Version) /\ Len(history') = Len(history) + 1
      /\ history'[Len(history) + 1] = obj
      /\ \A i \in 1 .. Len(history) : history'[i] = history[i]
  BY AppendProperties DEF HistoryInv
<1>2. Len(history) \in Nat /\ Len(history) >= 2
  BY DEF HistoryInv
<1>3. ASSUME NEW i \in 2 .. Len(history')
      PROVE  \/ history'[i] = NoObject
             \/ history'[i].rv = FirstRevision + i - 2 /\ history'[i].val \in ValuesAt(clock)
  <2>1. CASE i = Len(history) + 1
    <3>1. Len(history) = i - 1 /\ NextRevision = FirstRevision + i - 2
      BY <1>2, <2>1, FirstRevisionAssumption DEF NextRevision
    <3> QED BY <1>1, <2>1, <3>1
  <2>2. CASE i # Len(history) + 1
    BY <1>1, <1>2, <2>2 DEF HistoryInv
  <2> QED BY <2>1, <2>2
<1>4. clock' \in Nat \ {0}
  BY DEF HistoryInv
<1> QED BY <1>1, <1>2, <1>3, <1>4 DEF HistoryInv, Server

\* The object that a patch makes.
LEMMA Patched ==
    ASSUME HistoryInv, DiffInv, NEW c \in Clients, Cached # NoObject,
           NEW obj, obj = Updated_(Cached, Apply(c, Cached.val))
    PROVE  obj \in Version /\ obj.val \in ValuesAt(clock) /\ obj # NoObject
<1>1. Cached.uid \in Nat /\ Apply(c, Cached.val) \in ValuesAt(clock) /\ clock \in Nat
  BY CachedVersion, ApplyProperties DEF Version, HistoryInv
<1>2. NextRevision \in Int /\ NextRevision # 0
  <2>1. Len(history) \in Nat /\ Len(history) >= 2
    BY DEF HistoryInv
  <2> QED BY <2>1, FirstRevisionAssumption DEF NextRevision
<1>3. Apply(c, Cached.val) \in Values
  BY <1>1 DEF Values
<1>4. Server.deleting \in BOOLEAN
  <2>1. Server \in Version
    BY ElementOfSeq DEF HistoryInv, Server
  <2> QED BY <2>1 DEF Version
<1> QED BY <1>1, <1>2, <1>3, <1>4 DEF Version, NoObject, Updated_

\* Whoever's patch changes the object applies it to the version that the server has.
LEMMA PatchesLatest ==
    ASSUME HistoryInv, DiffInv, NEW c \in Clients, Patches(c)
    PROVE  /\ Cached = Server /\ Cached # NoObject /\ ~MergeConflict(c, Server.val)
           /\ Server'.val = Apply(c, Cached.val)
<1>1. /\ Cached # NoObject /\ ~MergeConflict(c, Cached.val)
      /\ Server # NoObject /\ Server.rv = Cached.rv
      /\ history' = Append(history, Updated_(Cached, Apply(c, Cached.val)))
      /\ seen' = seen /\ clock' = clock
  BY AttemptKinds DEF Patches, Store
<1>2. Server = Cached
  BY <1>1, SameVersion
<1> DEFINE obj == Updated_(Cached, Apply(c, Cached.val))
<1>3. /\ obj \in Version /\ obj.val \in ValuesAt(clock) /\ obj.rv = NextRevision
      /\ obj.val = Apply(c, Cached.val)
  BY <1>1, Patched DEF Updated_
<1> HIDE DEF obj
<1>4. Server' = obj
  BY <1>1, <1>3, Stored DEF obj
<1> QED BY <1>1, <1>2, <1>3, <1>4

LEMMA StampedProperties ==
    ASSUME HistoryInv, DiffInv, NEW c \in Clients, Cached # NoObject
    PROVE  /\ DOMAIN Stamped(c, Cached.val) = DOMAIN diff[c]
           /\ Stamped(c, Cached.val) \in [DOMAIN diff[c] -> Changes(clock)]
           /\ \A t \in DOMAIN diff[c] :
                 hasSameState(Apply(c, Cached.val)[t], Stamped(c, Cached.val)[t].after)
<1> DEFINE n == clock
           latest == Cached.val
           applied == Apply(c, latest)
<1>1. /\ n \in Nat /\ Now \in 0 .. n /\ latest \in ValuesAt(n)
      /\ DOMAIN diff[c] \subseteq Types /\ applied \in ValuesAt(n)
  BY CachedVersion, ApplyProperties DEF HistoryInv, DiffInv
<1>2. ASSUME NEW t \in DOMAIN diff[c]
      PROVE  /\ Stamped(c, latest)[t] \in Changes(n)
             /\ hasSameState(applied[t], Stamped(c, latest)[t].after)
  <2>1. /\ diff[c][t] \in Changes(n) /\ t \in Types
        /\ applied[t] \in ConditionsAt(n) /\ latest[t] \in ConditionsAt(n)
        /\ diff[c][t].after \in ConditionsAt(n)
    BY <1>1 DEF DiffInv, Changes, ValuesAt
  <2>2. CASE diff[c][t].after = Absent
    <3>1. Stamped(c, latest)[t] = diff[c][t] /\ applied[t] = Absent
      BY <2>2, ApplyProperties DEF Stamped
    <3> QED BY <2>1, <2>2, <3>1 DEF hasSameState
  <2>3. CASE diff[c][t].after # Absent /\ t \notin Owned(c) /\ hasSameState(latest[t], diff[c][t].after)
    <3>1. Stamped(c, latest)[t] = diff[c][t] /\ applied[t] = Set(latest, t, diff[c][t].after)[t]
      BY <2>3, ApplyProperties DEF Stamped
    <3>2. hasSameState(Set(latest, t, diff[c][t].after)[t], diff[c][t].after)
      BY <1>1, <2>1, SetProperties
    <3> QED BY <2>1, <3>1, <3>2
  <2>4. CASE diff[c][t].after # Absent /\ ~(t \notin Owned(c) /\ hasSameState(latest[t], diff[c][t].after))
    <3>1. Stamped(c, latest)[t] = [diff[c][t] EXCEPT !.after = applied[t]]
      BY <2>4 DEF Stamped
    <3>2. Stamped(c, latest)[t] \in Changes(n) /\ Stamped(c, latest)[t].after = applied[t]
      BY <2>1, <3>1 DEF Changes
    <3> QED BY <3>2 DEF hasSameState
  <2> QED BY <2>2, <2>3, <2>4
<1> QED BY <1>2 DEF Stamped

\* The difference that a controller has begun with.
LEMMA BeginProperties ==
    ASSUME HistoryInv, DiffInv, NEW c \in Clients, Begin(c)
    PROVE  HistoryInv' /\ DiffInv'
<1>1. PICK after \in Marked(c, Cached.val) :
         diff' = [diff EXCEPT ![c] = NewPatch(Cached.val, after)]
  BY DEF Begin
<1>2. /\ Cached.val \in ValuesAt(clock) /\ Now \in 0 .. clock
      /\ clock \in Nat /\ UNCHANGED <<history, seen, clock>>
  BY CachedVersion DEF Begin, HistoryInv
<1>3. after \in ValuesAt(clock)
  BY <1>2, MarkedProperties
<1>4. /\ DOMAIN NewPatch(Cached.val, after) \subseteq Types
      /\ NewPatch(Cached.val, after) \in
             [DOMAIN NewPatch(Cached.val, after) -> Changes(clock)]
  BY <1>2, <1>3 DEF NewPatch, Changes, ValuesAt
<1>5. HistoryInv'
  BY <1>2 DEF HistoryInv
<1>6. DiffInv'
  <2>1. clock' = clock /\ DOMAIN diff' = Clients
    BY <1>1, <1>2 DEF DiffInv
  <2>2. ASSUME NEW d \in Clients
        PROVE  /\ DOMAIN diff'[d] \subseteq Types
               /\ diff'[d] \in [DOMAIN diff'[d] -> Changes(clock')]
    BY <1>1, <1>4, <2>1 DEF DiffInv
  <2> QED BY <2>1, <2>2 DEF DiffInv
<1> QED BY <1>5, <1>6

\* A version more, or not, and diff as it was, or stamped.
LEMMA DiffKept ==
    ASSUME DiffInv, NEW c \in Clients,
           clock \in Nat, clock' \in Nat, clock <= clock',
           \/ diff' = diff
           \/ \E s \in [DOMAIN diff[c] -> Changes(clock)] : diff' = [diff EXCEPT ![c] = s]
    PROVE  DiffInv'
<1>1. ConditionsAt(clock) \subseteq ConditionsAt(clock')
  BY LaterConditions
<1>2. Changes(clock) \subseteq Changes(clock')
  BY <1>1 DEF Changes
<1>3. CASE diff' = diff
  BY <1>2, <1>3 DEF DiffInv
<1>4. CASE \E s \in [DOMAIN diff[c] -> Changes(clock)] : diff' = [diff EXCEPT ![c] = s]
  <2>1. PICK s \in [DOMAIN diff[c] -> Changes(clock)] : diff' = [diff EXCEPT ![c] = s]
    BY <1>4
  <2>2. DOMAIN diff' = Clients
    BY <2>1 DEF DiffInv
  <2>3. ASSUME NEW d \in Clients
        PROVE  /\ DOMAIN diff'[d] \subseteq Types
               /\ diff'[d] \in [DOMAIN diff'[d] -> Changes(clock')]
    <3>1. CASE d = c
      BY <1>2, <2>1, <3>1 DEF DiffInv
    <3>2. CASE d # c
      BY <1>2, <2>1, <3>2 DEF DiffInv
    <3> QED BY <3>1, <3>2
  <2> QED BY <2>2, <2>3 DEF DiffInv
<1> QED BY <1>3, <1>4

LEMMA AttemptTypes ==
    ASSUME HistoryInv, DiffInv, NEW c \in Clients, Attempt(c)
    PROVE  HistoryInv' /\ DiffInv'
<1>1. clock \in Nat /\ clock' = clock /\ Len(history) \in Nat
  BY AttemptKinds DEF HistoryInv
<1>2. \/ diff' = diff
      \/ \E s \in [DOMAIN diff[c] -> Changes(clock)] : diff' = [diff EXCEPT ![c] = s]
  BY AttemptKinds, StampedProperties
<1>3. HistoryInv'
  <2>1. CASE history' = history
    <3>1. seen' = seen
      BY AttemptKinds
    <3>2. HistoryInv'
      BY <1>1, <2>1, <3>1 DEF HistoryInv
    <3> QED BY <3>2
  <2>2. CASE history' # history
    <3> DEFINE obj == Updated_(Cached, Apply(c, Cached.val))
    <3>1. Cached # NoObject /\ seen' = seen /\ history' = Append(history, obj)
      BY <2>2, AttemptKinds DEF Store
    <3>2. obj \in Version /\ obj.rv = NextRevision /\ obj.val \in ValuesAt(clock)
      BY <3>1, Patched DEF Updated_
    <3> HIDE DEF obj
    <3> QED BY <1>1, <3>1, <3>2, Stored
  <2> QED BY <2>1, <2>2
<1> QED BY <1>1, <1>2, <1>3, DiffKept

Inv == HistoryInv /\ DiffInv

LEMMA InvInit == Init => Inv
<1> SUFFICES ASSUME Init PROVE Inv
  OBVIOUS
<1>1. PICK v \in FirstConditions :
         history = << NoObject, [uid |-> 1, rv |-> FirstRevision, val |-> v, deleting |-> FALSE] >>
  BY DEF Init
<1>2. v \in ValuesAt(1)
  <2> DEFINE at1(condition) == [condition EXCEPT !.time = 1]
  <2>1. ASSUME NEW condition \in ConditionsAt(1) PROVE at1(condition) \in ConditionsAt(1)
    BY DEF ConditionsAt
  <2>2. "SyncFailed" \in Texts /\ "CompileFailed" \in Texts /\ "Error" \in Texts
    BY DEF Texts
  <2>3. /\ at1(TrueCondition) \in ConditionsAt(1)
        /\ at1(FalseCondition("SyncFailed", "Error")) \in ConditionsAt(1)
        /\ at1(FalseCondition("CompileFailed", "Error")) \in ConditionsAt(1)
    BY <2>1, <2>2, MarksAreConditions
  <2>4. NoConditions \in ValuesAt(1)
    BY AbsentIsACondition DEF NoConditions, ValuesAt
  <2> HIDE DEF at1
  <2> QED BY <2>3, <2>4 DEF FirstConditions, ValuesAt, Types, at1
<1>3. /\ Len(history) = 2 /\ history[1] = NoObject
      /\ history[2] = [uid |-> 1, rv |-> FirstRevision, val |-> v, deleting |-> FALSE]
  BY <1>1
<1>4. v \in Values /\ FirstRevision \in Int
  <2>1. 1 \in Nat
    OBVIOUS
  <2>2. v \in Values
    BY <1>2, <2>1, Zenon DEF Values
  <2> QED BY <2>2, FirstRevisionAssumption
<1>5. history \in Seq(Version)
  BY <1>1, <1>4, NoObjectIsAVersion DEF Version
<1>6. HistoryInv
  BY <1>2, <1>3, <1>4, <1>5 DEF HistoryInv, Init
<1>7. DiffInv
  BY DEF DiffInv, Init, NoPatch, NewPatch
<1> QED BY <1>6, <1>7 DEF Inv

LEMMA InvStep == Inv /\ [Next]_vars => Inv'
<1> SUFFICES ASSUME HistoryInv, DiffInv, [Next]_vars PROVE HistoryInv' /\ DiffInv'
  BY DEF Inv
<1>1. CASE UNCHANGED vars
  BY <1>1 DEF vars, HistoryInv, DiffInv
<1>2. CASE Deliver /\ UNCHANGED <<diff, tries, lost, clock>>
  BY <1>2 DEF Deliver, HistoryInv, DiffInv
<1>3. CASE Remove
  <2>1. NoObject \in Version
    BY NoObjectIsAVersion
  <2>2. HistoryInv'
    BY <1>3, <2>1, Stored DEF Remove
  <2> QED BY <1>3, <2>2 DEF Remove, DiffInv
<1>4. CASE Tick
  <2>1. /\ clock \in Nat /\ clock' \in Nat \ {0} /\ clock <= clock'
        /\ UNCHANGED <<history, seen, diff>>
    BY <1>4 DEF Tick, HistoryInv
  <2>2. ValuesAt(clock) \subseteq ValuesAt(clock')
    BY <2>1, LaterConditions
  <2>3. HistoryInv'
    BY <2>1, <2>2 DEF HistoryInv
  <2>4. Changes(clock) \subseteq Changes(clock')
    BY <2>1, LaterConditions DEF Changes
  <2>5. DiffInv'
    BY <2>1, <2>4 DEF DiffInv
  <2> QED BY <2>3, <2>5
<1>5. ASSUME NEW c \in Clients, Wait(c) PROVE HistoryInv' /\ DiffInv'
  BY <1>5 DEF Wait, Polling, PollSucceeds, PollTimesOut, storeVars, HistoryInv, DiffInv
<1> QED BY <1>1, <1>2, <1>3, <1>4, <1>5, BeginProperties, AttemptTypes DEF Next

LEMMA Invariance == Spec => []Inv
BY InvInit, InvStep, PTL DEF Spec

-----------------------------------------------------------------------------
(* The theorems.                                                            *)

\* patchStatusConditions changes no condition that its controller has not changed, however
\* old its copy is and however often it is refused.
THEOREM OthersAreKept == Spec => OthersKept
<1>1. Inv => (\A c \in Clients : Patches(c) => Kept(Types \ DOMAIN diff[c]))
  <2> SUFFICES ASSUME HistoryInv, DiffInv, NEW c \in Clients, Patches(c),
                      NEW t \in Types \ DOMAIN diff[c]
               PROVE  Server'.val[t] = Server.val[t]
    BY DEF Inv, Kept
  <2> QED BY PatchesLatest, ApplyProperties
<1> QED BY <1>1, Invariance, PTL DEF OthersKept

\* Apply reports a conflict rather than overwrite what another has made of a condition that the
\* controller does not own.
THEOREM NothingIsOverwritten == Spec => NothingOverwritten
<1>1. Inv => (\A c \in Clients : Patches(c) =>
                 \A t \in DOMAIN diff[c] \ Owned(c) :
                     Kept({t}) \/ hasSameState(Server.val[t], diff[c][t].before))
  <2> SUFFICES ASSUME HistoryInv, DiffInv, NEW c \in Clients, Patches(c),
                      NEW t \in DOMAIN diff[c] \ Owned(c),
                      ~hasSameState(Server.val[t], diff[c][t].before)
               PROVE  Server'.val[t] = Server.val[t]
    BY DEF Inv, Kept
  <2> DEFINE op == diff[c][t]
             l == Server.val[t]
             n == clock
  <2>1. /\ Cached = Server /\ Cached # NoObject /\ Server'.val = Apply(c, Cached.val)
        /\ ~MergeConflict(c, Server.val)
    BY PatchesLatest
  <2>2. /\ n \in Nat /\ Now \in 0 .. n /\ Server.val \in ValuesAt(n) /\ t \in Types
        /\ op.after \in ConditionsAt(n)
    BY <2>1, CachedVersion DEF HistoryInv, DiffInv, Changes
  <2>3. l # op.before
    BY DEF hasSameState
  <2>4. CASE op.after = Absent
    <3>1. l = Absent
      BY <2>1, <2>4 DEF MergeConflict
    <3>2. Server'.val[t] = Absent
      BY <2>1, <2>4, ApplyProperties
    <3> QED BY <3>1, <3>2
  <2>5. CASE op.after # Absent
    <3>1. l # Absent /\ hasSameState(l, op.after)
      BY <2>1, <2>3, <2>5 DEF MergeConflict
    <3>2. Server'.val[t] = Set(Server.val, t, op.after)[t]
      BY <2>1, <2>5, ApplyProperties
    <3> QED BY <2>2, <3>1, <3>2, SetProperties
  <2> QED BY <2>4, <2>5
<1> QED BY <1>1, Invariance, PTL DEF NothingOverwritten

\* A condition keeps its time as long as it keeps its state, and the others get the time of the
\* patch, which is no earlier than the one they had.
THEOREM TimesFollowStates == Spec => TimeFollowsState
<1>1. Inv => (\A c \in Clients : Patches(c) =>
                 \A t \in Types : Server.val[t] # Absent /\ Server'.val[t] # Absent =>
                     /\ Server.val[t].time <= clock
                     /\ Server'.val[t].time = IF hasSameState(Server.val[t], Server'.val[t])
                                             THEN Server.val[t].time ELSE clock)
  <2> SUFFICES ASSUME HistoryInv, DiffInv, NEW c \in Clients, Patches(c), NEW t \in Types,
                      Server.val[t] # Absent, Server'.val[t] # Absent
               PROVE  /\ Server.val[t].time <= clock
                      /\ hasSameState(Server.val[t], Server'.val[t]) =>
                            Server'.val[t].time = Server.val[t].time
                      /\ ~hasSameState(Server.val[t], Server'.val[t]) => Server'.val[t].time = clock
    BY DEF Inv
  <2> DEFINE l == Server.val[t]
             after == diff[c][t].after
  <2>1. /\ Cached = Server /\ Cached # NoObject /\ Server'.val = Apply(c, Cached.val)
    BY PatchesLatest
  <2>2. clock \in Nat /\ Now = clock /\ Now \in 0 .. clock /\ Server.val \in ValuesAt(clock)
    BY <2>1, CachedVersion
  <2>3. l.time <= clock
    BY <2>2 DEF ValuesAt, ConditionsAt
  <2>4. CASE t \notin DOMAIN diff[c]
    <3>1. Server'.val[t] = l
      BY <2>1, <2>4, ApplyProperties
    <3> QED BY <2>3, <3>1 DEF hasSameState
  <2>5. CASE t \in DOMAIN diff[c]
    <3>1. after \in ConditionsAt(clock)
      BY <2>5 DEF DiffInv, Changes
    <3>2. Server'.val[t] = Set(Server.val, t, after)[t]
      BY <2>1, <2>5, ApplyProperties
    <3>3. CASE hasSameState(l, after)
      <4>1. Server'.val[t] = l
        BY <2>2, <3>1, <3>2, <3>3, SetProperties
      <4> QED BY <2>3, <4>1 DEF hasSameState
    <3>4. CASE ~hasSameState(l, after)
      <4>1. Server'.val[t].time = clock /\ hasSameState(Server'.val[t], after)
        BY <2>2, <3>1, <3>2, <3>4, SetProperties
      <4>2. ~hasSameState(l, Server'.val[t])
        BY <3>4, <4>1 DEF hasSameState
      <4> QED BY <2>3, <4>1, <4>2
    <3> QED BY <3>3, <3>4
  <2> QED BY <2>4, <2>5
<1> QED BY <1>1, Invariance, PTL DEF TimeFollowsState

-----------------------------------------------------------------------------
(* The state of a patch.                                                    *)

\* The time of a condition is set.
IsStamped(v) == \A t \in Types : v[t] = Absent \/ v[t].time >= 1

\* A controller waits only while it is patching, the object does not come back, and it keeps its uid.
StateInv ==
    /\ tries \in [Clients -> 0 .. Steps] /\ DOMAIN call = Clients /\ DOMAIN result = Clients
    /\ \A c \in Clients : ~Idle(c) => tries[c] > 0
    /\ seen >= 2
    /\ \A i \in 2 .. Len(history) :
          \/ history[i] = NoObject /\ i = Len(history)
          \/ history[i].uid = 1 /\ IsStamped(history[i].val)

\* Version i has all the changes of c.
WholeAt(c, i) ==
    history[i] # NoObject /\ \A t \in DOMAIN diff[c] : hasSameState(history[i].val[t], diff[c][t].after)

WholeInv ==
    \A c \in Clients : result[c] = "ok" \/ ~Idle(c) => \E i \in 2 .. Len(history) : WholeAt(c, i)

\* Set sets the time.
LEMMA SetIsStamped ==
    ASSUME NEW n \in Nat, Now \in 1 .. n, NEW v \in ValuesAt(n), NEW t \in Types,
           v[t] = Absent \/ v[t].time >= 1, NEW condition \in ConditionsAt(n)
    PROVE  Set(v, t, condition)[t] # Absent /\ Set(v, t, condition)[t].time >= 1
<1>1. v[t] \in ConditionsAt(n) /\ Absent.time = 0
  BY DEF ValuesAt, Absent, Condition
<1>2. Set(v, t, condition)[t].time >= 1
  BY <1>1 DEF Set, ValuesAt, ConditionsAt
<1> QED BY <1>1, <1>2

LEMMA ApplyStamps ==
    ASSUME HistoryInv, DiffInv, StateInv, NEW c \in Clients, Cached # NoObject
    PROVE  /\ IsStamped(Cached.val) /\ IsStamped(Apply(c, Cached.val)) /\ Cached.uid = 1
           /\ \A t \in DOMAIN diff[c] :
                 Apply(c, Cached.val)[t] = Absent <=> diff[c][t].after = Absent
<1>1. /\ clock \in Nat /\ Now \in 1 .. clock /\ Cached.val \in ValuesAt(clock)
      /\ seen \in 2 .. Len(history) /\ DOMAIN diff[c] \subseteq Types
  BY CachedVersion DEF HistoryInv, DiffInv
<1>2. IsStamped(Cached.val) /\ Cached.uid = 1
  BY <1>1 DEF StateInv, Cached
<1>3. ASSUME NEW t \in DOMAIN diff[c], diff[c][t].after # Absent
      PROVE  Apply(c, Cached.val)[t] # Absent /\ Apply(c, Cached.val)[t].time >= 1
  <2>1. diff[c][t].after \in ConditionsAt(clock) /\ t \in Types
    BY <1>1 DEF DiffInv, Changes
  <2>2. Apply(c, Cached.val)[t] = Set(Cached.val, t, diff[c][t].after)[t]
    BY <1>3, ApplyProperties
  <2>3. Cached.val[t] = Absent \/ Cached.val[t].time >= 1
    BY <1>2, <2>1 DEF IsStamped
  <2> QED BY <1>1, <2>1, <2>2, <2>3, SetIsStamped
<1>4. ASSUME NEW t \in DOMAIN diff[c], diff[c][t].after = Absent
      PROVE  Apply(c, Cached.val)[t] = Absent
  BY <1>4, ApplyProperties
<1>5. IsStamped(Apply(c, Cached.val))
  <2>1. ASSUME NEW t \in Types, t \notin DOMAIN diff[c]
        PROVE  Apply(c, Cached.val)[t] = Cached.val[t]
    BY <2>1, ApplyProperties
  <2> QED BY <1>2, <1>3, <1>4, <2>1 DEF IsStamped
<1> QED BY <1>2, <1>3, <1>4, <1>5

LEMMA TriesReturned ==
    ASSUME StateInv, NEW c \in Clients, tries[c] > 0, Returned(c)
    PROVE  /\ tries' \in [Clients -> 0 .. Steps]
           /\ call'[c] # NoCall => tries'[c] > 0
           /\ \A d \in Clients \ {c} : tries'[d] = tries[d]
<1>1. Steps \in Nat \ {0} /\ tries \in [Clients -> 0 .. Steps] /\ tries[c] \in 0 .. Steps
  BY ConditionsAssumption DEF StateInv
<1>2. PICK n : /\ tries' = [tries EXCEPT ![c] = n]
               /\ n = CASE call'[c] # NoCall -> tries[c]
                         [] result'[c] = "conflict" /\ tries[c] < Steps -> tries[c] + 1
                         [] OTHER -> 0
  BY DEF Returned
<1>3. n \in 0 .. Steps /\ (call'[c] # NoCall => n > 0)
  BY <1>1, <1>2
<1> QED BY <1>1, <1>2, <1>3

\* Steps that only read, or add a version.
LEMMA StateKept ==
    ASSUME HistoryInv, StateInv, seen' \in seen .. Len(history),
           tries' \in [Clients -> 0 .. Steps], DOMAIN call' = Clients, DOMAIN result' = Clients,
           \A c \in Clients : call'[c] # NoCall => tries'[c] > 0,
           \/ history' = history
           \/ \E obj : /\ history' = Append(history, obj) /\ Server # NoObject
                       /\ obj = NoObject \/ (obj.uid = 1 /\ IsStamped(obj.val))
    PROVE  StateInv'
<1>1. Len(history) \in Nat /\ Len(history) >= 2 /\ seen \in 1 .. Len(history) /\ seen >= 2
  BY DEF HistoryInv, StateInv
<1>2. CASE history' = history
  BY <1>1, <1>2 DEF StateInv, Idle, IsStamped
<1>3. CASE history' # history
  <2>1. PICK obj : /\ history' = Append(history, obj) /\ Server # NoObject
                   /\ obj = NoObject \/ (obj.uid = 1 /\ IsStamped(obj.val))
    BY <1>3
  <2>2. /\ Len(history') = Len(history) + 1 /\ history'[Len(history) + 1] = obj
        /\ \A i \in 1 .. Len(history) : history'[i] = history[i]
    BY <2>1 DEF HistoryInv
  <2>3. ASSUME NEW i \in 2 .. Len(history')
        PROVE  \/ history'[i] = NoObject /\ i = Len(history')
               \/ history'[i].uid = 1 /\ IsStamped(history'[i].val)
    <3>1. CASE i = Len(history) + 1
      BY <2>1, <2>2, <3>1
    <3>2. CASE i # Len(history) + 1
      <4>1. i \in 2 .. Len(history) /\ i \in 1 .. Len(history)
        BY <1>1, <2>2, <3>2
      <4>2. history[i] = NoObject => i # Len(history)
        BY <2>1 DEF Server
      <4> QED BY <2>2, <4>1, <4>2 DEF StateInv
    <3> QED BY <3>1, <3>2
  <2> QED BY <1>1, <2>3 DEF StateInv, Idle, IsStamped
<1> QED BY <1>2, <1>3

\* What a poll does.
LEMMA WaitKinds ==
    ASSUME NEW c \in Clients, Wait(c)
    PROVE  /\ history' = history /\ seen' = seen /\ diff' = diff /\ clock' = clock /\ ~Idle(c) /\ Returned(c)
           /\ call' = [call EXCEPT ![c] = NoCall]
           /\ \E res \in {"ok", "error"} : result' = [result EXCEPT ![c] = res]
           /\ lost' = (lost \/ (c \in Reconcilers /\ ~Arrived(c)))
BY DEF Wait, Polling, PollSucceeds, PollTimesOut, Return, storeVars

LEMMA AttemptStores ==
    ASSUME HistoryInv, DiffInv, StateInv, NEW c \in Clients, Attempt(c), history' # history
    PROVE  \E obj : /\ history' = Append(history, obj) /\ Server # NoObject
                    /\ obj # NoObject /\ obj.uid = 1 /\ IsStamped(obj.val)
                    /\ obj.val = Apply(c, Cached.val) /\ obj.rv = NextRevision
                    /\ Cached = Server /\ Cached # NoObject
                    /\ diff' = [diff EXCEPT ![c] = Stamped(c, Cached.val)]
                    /\ \/ /\ call' = [call EXCEPT ![c] = [op |-> "update", uid |-> obj.uid, rv |-> obj.rv]]
                          /\ result' = [result EXCEPT ![c] = "none"]
                       \/ Return(c, "error")
<1> DEFINE obj == Updated_(Cached, Apply(c, Cached.val))
<1>1. /\ Cached # NoObject /\ Server # NoObject /\ Server.rv = Cached.rv
      /\ diff' = [diff EXCEPT ![c] = Stamped(c, Cached.val)]
      /\ Store(c, "update", obj)
  BY AttemptKinds
<1>2. Cached = Server
  BY <1>1, SameVersion
<1>3. obj # NoObject /\ obj.uid = Cached.uid /\ obj.val = Apply(c, Cached.val) /\ obj.rv = NextRevision
  BY <1>1, Patched DEF Updated_
<1>4. Cached.uid = 1 /\ IsStamped(Apply(c, Cached.val))
  BY <1>1, ApplyStamps
<1> HIDE DEF obj
<1>5. obj.uid = 1 /\ IsStamped(obj.val)
  BY <1>3, <1>4
<1> QED BY <1>1, <1>2, <1>3, <1>5 DEF Store

LEMMA StateStep ==
    ASSUME Inv, StateInv, [Next]_vars
    PROVE  StateInv'
<1>1. /\ HistoryInv /\ DiffInv /\ Len(history) \in Nat /\ seen \in 1 .. Len(history)
      /\ tries \in [Clients -> 0 .. Steps] /\ DOMAIN call = Clients /\ DOMAIN result = Clients
      /\ \A c \in Clients : call[c] # NoCall => tries[c] > 0
  BY DEF Inv, HistoryInv, StateInv, Idle
<1>2. seen \in seen .. Len(history)
  BY <1>1
<1>3. CASE UNCHANGED vars
  BY <1>1, <1>2, <1>3, StateKept DEF vars
<1>4. CASE Deliver /\ UNCHANGED <<diff, tries, lost, clock>>
  <2>1. seen' \in seen .. Len(history)
    BY <1>1, <1>4 DEF Deliver
  <2> QED BY <1>1, <1>4, <2>1, StateKept DEF Deliver
<1>5. CASE Remove
  BY <1>1, <1>2, <1>5, StateKept DEF Remove
<1>9. CASE Tick
  BY <1>1, <1>2, <1>9, StateKept DEF Tick
<1>6. ASSUME NEW c \in Clients, Begin(c) PROVE StateInv'
  <2>1. /\ history' = history /\ seen' = seen /\ call' = call /\ DOMAIN result' = Clients
        /\ tries' = [tries EXCEPT ![c] = 1] /\ 1 \in 0 .. Steps
    BY <1>1, <1>6, ConditionsAssumption DEF Begin
  <2>2. tries' \in [Clients -> 0 .. Steps] /\ \A d \in Clients : call'[d] # NoCall => tries'[d] > 0
    BY <1>1, <2>1
  <2> QED BY <1>1, <1>2, <2>1, <2>2, StateKept
<1>7. ASSUME NEW c \in Clients, Attempt(c) PROVE StateInv'
  <2>1. Returned(c) /\ tries[c] > 0 /\ seen' = seen
    BY <1>7, AttemptKinds DEF Attempt
  <2>2. /\ DOMAIN call' = Clients /\ DOMAIN result' = Clients
        /\ \A d \in Clients \ {c} : call'[d] = call[d]
    BY <1>1, <1>7, AttemptKinds DEF Return, Store
  <2>3. /\ tries' \in [Clients -> 0 .. Steps]
        /\ \A d \in Clients : call'[d] # NoCall => tries'[d] > 0
    BY <1>1, <2>1, <2>2, TriesReturned
  <2>4. history' # history =>
           \E obj : /\ history' = Append(history, obj) /\ Server # NoObject
                    /\ obj = NoObject \/ (obj.uid = 1 /\ IsStamped(obj.val))
    BY <1>1, <1>7, AttemptStores
  <2> QED BY <1>1, <1>2, <2>1, <2>2, <2>3, <2>4, StateKept
<1>8. ASSUME NEW c \in Clients, Wait(c) PROVE StateInv'
  <2>1. /\ history' = history /\ seen' = seen /\ tries[c] > 0 /\ Returned(c)
        /\ call' = [call EXCEPT ![c] = NoCall] /\ DOMAIN result' = Clients
    BY <1>1, <1>8, WaitKinds DEF Idle
  <2>2. /\ tries' \in [Clients -> 0 .. Steps]
        /\ \A d \in Clients : call'[d] # NoCall => tries'[d] > 0
    BY <1>1, <2>1, TriesReturned
  <2> QED BY <1>1, <1>2, <2>1, <2>2, StateKept
<1> QED BY <1>3, <1>4, <1>5, <1>6, <1>7, <1>8, <1>9 DEF Next

FirstTime(condition) == [condition EXCEPT !.time = 1]

LEMMA FirstProperties ==
    ASSUME NEW v \in FirstConditions
    PROVE  /\ v["Custom"] = Absent
           /\ \/ v["Ready"] = Absent /\ v["BundleCompiled"] = Absent /\ v["WebhookReady"] = Absent
              \/ /\ v["Ready"] = FirstTime(TrueCondition)
                 /\ v["BundleCompiled"] = FirstTime(TrueCondition)
                 /\ v["WebhookReady"] = FirstTime(TrueCondition)
              \/ /\ v["Ready"] = FirstTime(FalseCondition("SyncFailed", "Error"))
                 /\ v["BundleCompiled"] = FirstTime(TrueCondition)
                 /\ v["WebhookReady"] = FirstTime(FalseCondition("SyncFailed", "Error"))
              \/ /\ v["Ready"] = FirstTime(FalseCondition("CompileFailed", "Error"))
                 /\ v["BundleCompiled"] = FirstTime(FalseCondition("CompileFailed", "Error"))
                 /\ v["WebhookReady"] = Absent
<1> DEFINE ready == FirstTime(TrueCondition)
           sync == FirstTime(FalseCondition("SyncFailed", "Error"))
           compile == FirstTime(FalseCondition("CompileFailed", "Error"))
<1>1. \/ v = NoConditions
      \/ v = [NoConditions EXCEPT !["Ready"] = ready, !["BundleCompiled"] = ready, !["WebhookReady"] = ready]
      \/ v = [NoConditions EXCEPT !["Ready"] = sync, !["BundleCompiled"] = ready, !["WebhookReady"] = sync]
      \/ v = [NoConditions EXCEPT !["Ready"] = compile, !["BundleCompiled"] = compile]
  BY DEF FirstConditions, FirstTime
<1>2. \A t \in {"Ready", "BundleCompiled", "WebhookReady", "Custom"} :
         t \in DOMAIN NoConditions /\ NoConditions[t] = Absent
  BY DEF NoConditions, Types
<1> HIDE DEF ready, sync, compile
<1>3. \/ /\ v["Custom"] = Absent
         /\ v["Ready"] = Absent /\ v["BundleCompiled"] = Absent /\ v["WebhookReady"] = Absent
      \/ /\ v["Custom"] = Absent
         /\ v["Ready"] = ready /\ v["BundleCompiled"] = ready /\ v["WebhookReady"] = ready
      \/ /\ v["Custom"] = Absent
         /\ v["Ready"] = sync /\ v["BundleCompiled"] = ready /\ v["WebhookReady"] = sync
      \/ /\ v["Custom"] = Absent
         /\ v["Ready"] = compile /\ v["BundleCompiled"] = compile /\ v["WebhookReady"] = Absent
  BY <1>1, <1>2
<1> QED BY <1>3 DEF ready, sync, compile

LEMMA StateInit == Init => StateInv
<1> SUFFICES ASSUME Init PROVE StateInv
  OBVIOUS
<1>1. PICK v \in FirstConditions :
         history = << NoObject, [uid |-> 1, rv |-> FirstRevision, val |-> v, deleting |-> FALSE] >>
  BY DEF Init
<1>2. IsStamped(v)
  <2>1. /\ FirstTime(TrueCondition).time = 1
        /\ FirstTime(FalseCondition("SyncFailed", "Error")).time = 1
        /\ FirstTime(FalseCondition("CompileFailed", "Error")).time = 1
    BY DEF FirstTime, TrueCondition, FalseCondition, Condition
  <2> QED BY <2>1, FirstProperties DEF IsStamped, Types
<1>3. /\ Len(history) = 2
      /\ history[2] = [uid |-> 1, rv |-> FirstRevision, val |-> v, deleting |-> FALSE]
  BY <1>1
<1>4. \A i \in 2 .. 2 : i = 2
  OBVIOUS
<1>5. tries \in [Clients -> 0 .. Steps] /\ \A c \in Clients : Idle(c)
  BY ConditionsAssumption DEF Init, Idle
<1> QED BY <1>2, <1>3, <1>4, <1>5 DEF StateInv, Init

LEMMA WholeStep ==
    ASSUME Inv, StateInv, WholeInv, [Next]_vars
    PROVE  WholeInv'
<1>1. /\ HistoryInv /\ DiffInv /\ Len(history) \in Nat
      /\ DOMAIN call = Clients /\ DOMAIN result = Clients
      /\ \A c \in Clients : call[c] # NoCall => tries[c] > 0
  BY DEF Inv, HistoryInv, StateInv, Idle
<1>2. ASSUME NEW c \in Clients, diff'[c] = diff[c], result[c] = "ok" \/ call[c] # NoCall,
             \/ history' = history
             \/ \E obj : history' = Append(history, obj)
      PROVE  \E i \in 2 .. Len(history') : WholeAt(c, i)'
  <2>1. PICK i \in 2 .. Len(history) : WholeAt(c, i)
    BY <1>2 DEF WholeInv, Idle
  <2>2. i \in 2 .. Len(history') /\ history'[i] = history[i]
    BY <1>1, <1>2 DEF HistoryInv
  <2> QED BY <1>2, <2>1, <2>2 DEF WholeAt
<1>3. ASSUME NEW c \in Clients, diff'[c] = diff[c],
             result'[c] = "ok" \/ call'[c] # NoCall => result[c] = "ok" \/ call[c] # NoCall,
             \/ history' = history
             \/ \E obj : history' = Append(history, obj)
      PROVE  result'[c] = "ok" \/ call'[c] # NoCall => \E i \in 2 .. Len(history') : WholeAt(c, i)'
  BY <1>2, <1>3
<1>4. CASE UNCHANGED vars
  BY <1>3, <1>4 DEF vars, WholeInv, Idle
<1>5. CASE Deliver /\ UNCHANGED <<diff, tries, lost, clock>>
  BY <1>3, <1>5 DEF Deliver, WholeInv, Idle
<1>6. CASE Remove
  BY <1>3, <1>6 DEF Remove, WholeInv, Idle
<1>10. CASE Tick
  BY <1>3, <1>10 DEF Tick, WholeInv, Idle
<1>7. ASSUME NEW c \in Clients, Begin(c) PROVE WholeInv'
  <2>1. /\ history' = history /\ call' = call /\ call[c] = NoCall
        /\ result' = [result EXCEPT ![c] = "none"]
        /\ \A d \in Clients \ {c} : diff'[d] = diff[d]
    BY <1>1, <1>7 DEF Begin, DiffInv
  <2>2. ASSUME NEW d \in Clients, d # c
        PROVE  result'[d] = "ok" \/ call'[d] # NoCall => \E i \in 2 .. Len(history') : WholeAt(d, i)'
    <3>1. d \in Clients \ {c} /\ diff'[d] = diff[d] /\ result'[d] = result[d]
      BY <1>1, <2>1, <2>2
    <3> QED BY <1>3, <2>1, <3>1
  <2>3. result'[c] # "ok" /\ call'[c] = NoCall
    BY <1>1, <2>1
  <2> QED BY <2>2, <2>3 DEF WholeInv, Idle
<1>8. ASSUME NEW c \in Clients, Attempt(c) PROVE WholeInv'
  <2>1. /\ history' = history \/ \E obj : history' = Append(history, obj)
        /\ \A d \in Clients \ {c} : diff'[d] = diff[d] /\ call'[d] = call[d] /\ result'[d] = result[d]
    BY <1>1, <1>8, AttemptKinds, ZenonT(30) DEF Return, Store, DiffInv
  <2>2. ASSUME NEW d \in Clients, d # c
        PROVE  result'[d] = "ok" \/ call'[d] # NoCall => \E i \in 2 .. Len(history') : WholeAt(d, i)'
    <3>1. diff'[d] = diff[d] /\ result'[d] = result[d] /\ call'[d] = call[d]
      BY <2>1, <2>2
    <3> QED BY <1>3, <2>1, <3>1
  <2>3. ASSUME result'[c] = "ok" \/ call'[c] # NoCall
        PROVE  \E i \in 2 .. Len(history') : WholeAt(c, i)'
    <3>1. CASE history' = history
      <4>1. /\ Cached # NoObject /\ diff' = [diff EXCEPT ![c] = Stamped(c, Cached.val)]
            /\ Apply(c, Cached.val) = Cached.val
        <5>1. ASSUME NEW res, Return(c, res) PROVE result'[c] = res /\ call'[c] = NoCall
          BY <1>1, <5>1 DEF Return
        <5>2. ASSUME NEW obj, Store(c, "update", obj) PROVE FALSE
          BY <1>1, <3>1, <5>2 DEF Store, HistoryInv
        <5> DEFINE obj == Updated_(Cached, Apply(c, Cached.val))
        <5>3. ~Store(c, "update", obj)
          BY <5>2
        <5>4. \/ history' = history /\ diff' = diff /\ Return(c, "error")
              \/ /\ Cached # NoObject /\ diff' = [diff EXCEPT ![c] = Stamped(c, Cached.val)]
                 /\ \/ Return(c, "ok") /\ Apply(c, Cached.val) = Cached.val
                    \/ Return(c, "conflict") \/ Return(c, "notfound") \/ Return(c, "error")
                    \/ Store(c, "update", obj)
          BY <1>8, AttemptKinds
        <5> HIDE DEF obj
        <5> QED BY <2>3, <5>1, <5>3, <5>4
      <4>2. /\ diff'[c] = Stamped(c, Cached.val) /\ seen \in 2 .. Len(history') /\ history'[seen] = Cached
        BY <1>1, <3>1, <4>1, CachedVersion DEF DiffInv, Cached
      <4>3. /\ DOMAIN diff'[c] = DOMAIN diff[c]
            /\ \A t \in DOMAIN diff[c] : hasSameState(history'[seen].val[t], diff'[c][t].after)
        BY <1>1, <4>1, <4>2, StampedProperties
      <4>4. \E i \in 2 .. Len(history') : i = seen
        BY <4>2
      <4> QED BY <4>1, <4>2, <4>3, <4>4 DEF WholeAt
    <3>2. CASE history' # history
      <4>1. PICK obj : /\ history' = Append(history, obj) /\ obj # NoObject
                       /\ obj.val = Apply(c, Cached.val) /\ Cached # NoObject
                       /\ diff' = [diff EXCEPT ![c] = Stamped(c, Cached.val)]
        BY <1>1, <1>8, <3>2, AttemptStores
      <4>2. PICK i \in 2 .. Len(history') : i = Len(history) + 1 /\ history'[i] = obj
        BY <1>1, <4>1 DEF HistoryInv
      <4>3. diff'[c] = Stamped(c, Cached.val)
        BY <1>1, <4>1 DEF DiffInv
      <4>4. /\ DOMAIN diff'[c] = DOMAIN diff[c]
            /\ \A t \in DOMAIN diff[c] : hasSameState(history'[i].val[t], diff'[c][t].after)
        BY <1>1, <4>1, <4>2, <4>3, StampedProperties
      <4> QED BY <4>1, <4>2, <4>4 DEF WholeAt
    <3> QED BY <3>1, <3>2
  <2> QED BY <2>2, <2>3 DEF WholeInv, Idle
<1>9. ASSUME NEW c \in Clients, Wait(c) PROVE WholeInv'
  <2>1. /\ history' = history /\ diff' = diff /\ call[c] # NoCall
        /\ \A d \in Clients \ {c} : call'[d] = call[d] /\ result'[d] = result[d]
    BY <1>1, <1>9, WaitKinds DEF Idle
  <2>2. ASSUME NEW d \in Clients
        PROVE  result'[d] = "ok" \/ call'[d] # NoCall => result[d] = "ok" \/ call[d] # NoCall
    BY <2>1
  <2> QED BY <1>3, <2>1, <2>2 DEF WholeInv, Idle
<1> QED BY <1>4, <1>5, <1>6, <1>7, <1>8, <1>9, <1>10 DEF Next

IInv == Inv /\ StateInv /\ WholeInv

LEMMA StateInvariance == Spec => []IInv
<1>1. Init => IInv
  <2>1. Init => WholeInv
    BY DEF Init, WholeInv, Idle
  <2> QED BY <2>1, InvInit, StateInit DEF IInv
<1>2. IInv /\ [Next]_vars => IInv'
  BY InvStep, StateStep, WholeStep DEF IInv
<1> QED BY <1>1, <1>2, PTL DEF Spec

-----------------------------------------------------------------------------
(* Ready.                                                                   *)

ReadyWorst(v) ==
    FirstCondition(v) = 0 \/ hasSameState(v["Ready"], v[Order[FirstCondition(v)]])

ReconcilerTypes == {"Ready", "BundleCompiled", "WebhookReady"}

\* Values that differ in the times of the reconciler's conditions at most.
SameOwned(u, v) ==
    \A t \in ReconcilerTypes : (u[t] = Absent <=> v[t] = Absent) /\ hasSameState(u[t], v[t])

\* What the changes d make of v, but for the times.
Result(v, d) == [t \in Types |-> IF t \in DOMAIN d THEN d[t].after ELSE v[t]]

\* From version i on, the conditions of the reconciler are those of version i.
SameFrom(i) ==
    \A j \in i .. Len(history) :
        history[j] # NoObject => SameOwned(history[i].val, history[j].val)

\* No other controller has changed a condition of the reconciler.
NoneMine ==
    \A i \in 2 .. Len(history) : history[i] # NoObject => history[i].val["WebhookReady"].reason # "Mine"

\* The cache of a reconciler that is not waiting for a patch has its patches, and what it is about
\* to patch makes Ready the worst of the conditions.
ReconcilerReady(r) ==
    /\ Idle(r) => SameFrom(seen)
    /\ Idle(r) /\ tries[r] > 0 /\ Cached # NoObject => ReadyWorst(Result(Cached.val, diff[r]))
    /\ ~Idle(r) => \E p \in 2 .. Len(history) :
                      /\ history[p] # NoObject /\ SameFrom(p)
                      /\ call[r].rv = history[p].rv /\ call[r].uid = history[p].uid

\* What the others patch.
OtherInv ==
    \A c \in Clients \ Reconcilers :
        /\ DOMAIN diff[c] \subseteq {"Custom", "WebhookReady"}
        /\ "WebhookReady" \in DOMAIN diff[c] =>
              diff[c]["WebhookReady"].after # Absent /\ diff[c]["WebhookReady"].after.reason = "Mine"

ReadyInv ==
    ~lost /\ NoneMine =>
        /\ \A i \in 2 .. Len(history) : history[i] # NoObject => ReadyWorst(history[i].val)
        /\ \A r \in Reconcilers : ReconcilerReady(r)

\* The state of a condition is all of it but its time.
LEMMA SameState ==
    ASSUME NEW n \in Nat, NEW a \in ConditionsAt(n), NEW b \in ConditionsAt(n)
    PROVE  hasSameState(a, b) <=> a.status = b.status /\ a.severity = b.severity /\ a.reason = b.reason
BY DEF hasSameState, ConditionsAt

LEMMA WithoutTime ==
    ASSUME NEW n \in Nat, NEW a \in ConditionsAt(n)
    PROVE  [a EXCEPT !.time = 0] \in ConditionsAt(n) /\ hasSameState([a EXCEPT !.time = 0], a)
<1> DEFINE b == [a EXCEPT !.time = 0]
<1>1. /\ b \in ConditionsAt(n)
      /\ b.status = a.status /\ b.severity = a.severity /\ b.reason = a.reason
  BY DEF ConditionsAt
<1> HIDE DEF b
<1>2. hasSameState(b, a)
  BY <1>1, SameState
<1> QED BY <1>1, <1>2 DEF b

LEMMA SameOwnedIsAnEquivalence ==
    ASSUME NEW u, NEW v, NEW w
    PROVE  /\ SameOwned(u, u)
           /\ SameOwned(u, v) => SameOwned(v, u)
           /\ SameOwned(u, v) /\ SameOwned(v, w) => SameOwned(u, w)
BY DEF SameOwned, hasSameState

LEMMA FirstConditionProperties ==
    ASSUME NEW v
    PROVE  /\ FirstCondition(v) \in {0, 1, 2}
           /\ \A k \in {1, 2} : FirstCondition(v) = k =>
                 /\ v[Order[k]] # Absent
                 /\ \A j \in {1, 2} : v[Order[j]] # Absent =>
                       mergePriority(v[Order[k]]) <= mergePriority(v[Order[j]])
<1> DEFINE k == FirstCondition(v)
           inScope == {i \in DOMAIN Order : v[Order[i]] # Absent}
           rank(i) == mergePriority(v[Order[i]])
           top == {i \in inScope : \A j \in inScope : rank(i) <= rank(j)}
<1>1. k = IF top = {} THEN 0 ELSE CHOOSE i \in top : \A j \in top : i <= j
  BY DEF FirstCondition
<1>2. /\ top \subseteq {1, 2}
      /\ \A i \in top : /\ v[Order[i]] # Absent
                        /\ \A j \in {1, 2} : v[Order[j]] # Absent => rank(i) <= rank(j)
  <2>1. DOMAIN Order = {1, 2}
    BY DEF Order
  <2> HIDE DEF rank
  <2> QED BY <2>1
<1>3. ASSUME top # {} PROVE \E i \in top : \A j \in top : i <= j
  <2>1. top \subseteq {1, 2}
    BY <1>2
  <2> HIDE DEF top
  <2>2. CASE 1 \in top
    BY <2>1, <2>2
  <2>3. CASE 1 \notin top
    <3>1. \A j \in top : j = 2
      BY <2>1, <2>3
    <3>2. 2 \in top
      BY <1>3, <3>1
    <3> QED BY <3>1, <3>2
  <2> QED BY <2>2, <2>3
<1> HIDE DEF top, k
<1>4. top # {} => k \in top
  BY <1>1, <1>3
<1>5. top = {} => k = 0
  BY <1>1
<1>6. k \in {0, 1, 2}
  BY <1>2, <1>4, <1>5
<1>7. k # 0 => k \in top
  BY <1>4, <1>5
<1> QED BY <1>2, <1>6, <1>7 DEF k

\* The first condition depends on the states of the two that are summarized.
LEMMA FirstOfSame ==
    ASSUME NEW n \in Nat, NEW u \in ValuesAt(n), NEW v \in ValuesAt(n),
           \A t \in {"BundleCompiled", "WebhookReady"} :
               (u[t] = Absent <=> v[t] = Absent) /\ hasSameState(u[t], v[t])
    PROVE  FirstCondition(u) = FirstCondition(v)
<1> DEFINE inScope(w) == {i \in DOMAIN Order : w[Order[i]] # Absent}
           top(w) == {i \in inScope(w) : \A j \in inScope(w) :
                         mergePriority(w[Order[i]]) <= mergePriority(w[Order[j]])}
           pick(S) == IF S = {} THEN 0 ELSE CHOOSE i \in S : \A j \in S : i <= j
<1>1. ASSUME NEW i \in DOMAIN Order
      PROVE  /\ u[Order[i]] # Absent <=> v[Order[i]] # Absent
             /\ mergePriority(u[Order[i]]) = mergePriority(v[Order[i]])
  <2>1. Order[i] \in {"BundleCompiled", "WebhookReady"} /\ Order[i] \in Types
    BY DEF Order, Types
  <2>2. u[Order[i]] \in ConditionsAt(n) /\ v[Order[i]] \in ConditionsAt(n)
    BY <2>1 DEF ValuesAt
  <2>3. u[Order[i]].status = v[Order[i]].status /\ u[Order[i]].severity = v[Order[i]].severity
    BY <2>1, <2>2, SameState
  <2> QED BY <2>1, <2>3 DEF mergePriority
<1>2. inScope(u) = inScope(v)
  BY <1>1
<1>3. top(u) = top(v)
  <2> HIDE DEF inScope
  <2>1. \A i \in inScope(u) : mergePriority(u[Order[i]]) = mergePriority(v[Order[i]])
    BY <1>1 DEF inScope
  <2> QED BY <1>2, <2>1
<1>4. FirstCondition(u) = pick(top(u)) /\ FirstCondition(v) = pick(top(v))
  BY DEF FirstCondition
<1> HIDE DEF top, pick
<1> QED BY <1>3, <1>4

LEMMA ReadyOfSame ==
    ASSUME NEW n \in Nat, NEW u \in ValuesAt(n), NEW v \in ValuesAt(n), SameOwned(u, v), ReadyWorst(u)
    PROVE  ReadyWorst(v)
<1>1. FirstCondition(u) = FirstCondition(v)
  BY FirstOfSame DEF SameOwned, ReconcilerTypes
<1>2. CASE FirstCondition(u) = 0
  BY <1>1, <1>2 DEF ReadyWorst
<1>3. CASE FirstCondition(u) # 0
  <2>1. Order[FirstCondition(u)] \in ReconcilerTypes /\ "Ready" \in ReconcilerTypes
    BY <1>3, FirstConditionProperties DEF Order, ReconcilerTypes
  <2> QED BY <1>1, <1>3, <2>1 DEF ReadyWorst, SameOwned, hasSameState
<1> QED BY <1>2, <1>3

\* SetSummary makes Ready the worst condition.
LEMMA SummaryIsWorst ==
    ASSUME NEW n \in Nat, Now \in 0 .. n, NEW v \in ValuesAt(n)
    PROVE  ReadyWorst(SetSummary(v))
<1> DEFINE k == FirstCondition(v)
           s == SetSummary(v)
<1>1. CASE k = 0
  BY <1>1 DEF SetSummary, ReadyWorst
<1>2. CASE k # 0
  <2>1. Order[k] \in {"BundleCompiled", "WebhookReady"} /\ Order[k] \in Types /\ "Ready" \in Types
    BY <1>2, FirstConditionProperties DEF Order, Types
  <2> DEFINE condition == [v[Order[k]] EXCEPT !.time = 0]
  <2>2. condition \in ConditionsAt(n) /\ hasSameState(condition, v[Order[k]])
    <3>1. v[Order[k]] \in ConditionsAt(n)
      BY <2>1 DEF ValuesAt
    <3> QED BY <3>1, WithoutTime
  <2>3. s = Set(v, "Ready", condition)
    BY <1>2 DEF SetSummary
  <2> HIDE DEF condition
  <2>4. /\ s \in ValuesAt(n) /\ hasSameState(s["Ready"], condition)
        /\ \A u \in Types \ {"Ready"} : s[u] = v[u]
    BY <2>1, <2>2, <2>3, SetProperties
  <2>5. s["BundleCompiled"] = v["BundleCompiled"] /\ s["WebhookReady"] = v["WebhookReady"]
    BY <2>4 DEF Types
  <2> HIDE DEF s, k
  <2>6. FirstCondition(s) = k
    BY <2>4, <2>5, FirstOfSame, ZenonT(30) DEF k, hasSameState
  <2>7. hasSameState(s["Ready"], s[Order[k]])
    BY <2>1, <2>2, <2>4, <2>5 DEF hasSameState
  <2> QED BY <2>6, <2>7 DEF ReadyWorst, s
<1> QED BY <1>1, <1>2

LEMMA MarkedByReconciler ==
    ASSUME NEW n \in Nat, Now \in 0 .. n, NEW v \in ValuesAt(n), NEW c \in Reconcilers,
           NEW after \in Marked(c, v)
    PROVE  ReadyWorst(after)
<1> DEFINE compiled == Set(v, "BundleCompiled", TrueCondition)
           failed == Set(v, "BundleCompiled", FalseCondition("CompileFailed", "Error"))
<1>1. compiled \in ValuesAt(n) /\ failed \in ValuesAt(n)
  BY SetProperties, MarksAreConditions DEF Types, Texts
<1>2. ASSUME NEW w \in {TrueCondition, FalseCondition("SyncFailed", "Error")}
      PROVE  Set(compiled, "WebhookReady", w) \in ValuesAt(n)
  BY <1>1, SetProperties, MarksAreConditions DEF Types, Texts
<1>3. Delete_(v, "BundleCompiled") \in ValuesAt(n)
  BY AbsentIsACondition DEF Delete_, ValuesAt, Types
<1>4. PICK w \in {Set(compiled, "WebhookReady", x) :
                     x \in {TrueCondition, FalseCondition("SyncFailed", "Error")}}
                 \cup {compiled, failed, v, Delete_(v, "BundleCompiled")} : after = SetSummary(w)
  BY DEF Marked
<1>5. w \in ValuesAt(n)
  BY <1>1, <1>2, <1>3
<1> QED BY <1>4, <1>5, SummaryIsWorst

LEMMA MarkedByOther ==
    ASSUME NEW n \in Nat, Now \in 1 .. n, NEW v \in ValuesAt(n), IsStamped(v),
           NEW c \in Clients \ Reconcilers, NEW after \in Marked(c, v)
    PROVE  /\ \A t \in Types \ {"Custom", "WebhookReady"} : after[t] = v[t]
           /\ \/ after["WebhookReady"] = v["WebhookReady"]
              \/ after["WebhookReady"] # Absent /\ after["WebhookReady"].reason = "Mine"
<1>1. \/ \E w \in {TrueCondition, FalseCondition("Mine", "Warning")} : after = Set(v, "Custom", w)
      \/ after = Delete_(v, "Custom")
      \/ after = Set(v, "WebhookReady", UnknownCondition("Mine"))
  BY DEF Marked
<1>2. /\ "Mine" \in Texts /\ "Warning" \in Texts
      /\ "Custom" \in Types /\ "WebhookReady" \in Types
  BY DEF Types, Texts
<1>3. /\ TrueCondition \in ConditionsAt(n) /\ FalseCondition("Mine", "Warning") \in ConditionsAt(n)
      /\ UnknownCondition("Mine") \in ConditionsAt(n)
  BY <1>2, MarksAreConditions
<1>4. Now \in 0 .. n
  OBVIOUS
<1>5. CASE \E w \in {TrueCondition, FalseCondition("Mine", "Warning")} : after = Set(v, "Custom", w)
  <2>1. \A t \in Types \ {"Custom"} : after[t] = v[t]
    BY <1>2, <1>3, <1>4, <1>5, SetProperties
  <2> QED BY <1>2, <2>1
<1>6. CASE after = Delete_(v, "Custom")
  BY <1>2, <1>6 DEF Delete_, ValuesAt
<1>7. CASE after = Set(v, "WebhookReady", UnknownCondition("Mine"))
  <2>1. /\ after \in ValuesAt(n) /\ \A t \in Types \ {"WebhookReady"} : after[t] = v[t]
        /\ hasSameState(after["WebhookReady"], UnknownCondition("Mine"))
    BY <1>2, <1>3, <1>4, <1>7, SetProperties, SMTT(20)
  <2>2. after["WebhookReady"] # Absent
    BY <1>2, <1>3, <1>7, SetIsStamped DEF IsStamped
  <2>3. after["WebhookReady"].reason = "Mine"
    <3>1. after["WebhookReady"] \in ConditionsAt(n) /\ UnknownCondition("Mine").reason = "Mine"
      BY <1>2, <2>1 DEF ValuesAt, UnknownCondition, Condition
    <3> QED BY <1>3, <2>1, <3>1, SameState
  <2> QED BY <2>1, <2>2, <2>3
<1> QED BY <1>1, <1>5, <1>6, <1>7

LEMMA PatchProperties ==
    ASSUME NEW n \in Nat, NEW v \in ValuesAt(n), NEW after \in ValuesAt(n)
    PROVE  /\ DOMAIN NewPatch(v, after) \subseteq Types
           /\ \A t \in Types : t \in DOMAIN NewPatch(v, after) <=> v[t] # after[t]
           /\ \A t \in DOMAIN NewPatch(v, after) : NewPatch(v, after)[t].after = after[t]
           /\ Result(v, NewPatch(v, after)) = after
BY DEF NewPatch, Result, ValuesAt

\* A patch makes of the cached object what its changes say, and keeps saying so.
LEMMA AppliedSame ==
    ASSUME HistoryInv, DiffInv, StateInv, NEW c \in Clients, Cached # NoObject
    PROVE  /\ \A t \in DOMAIN diff[c] :
                 /\ hasSameState(Apply(c, Cached.val)[t], diff[c][t].after)
                 /\ Stamped(c, Cached.val)[t].after = Absent <=> diff[c][t].after = Absent
                 /\ hasSameState(Stamped(c, Cached.val)[t].after, diff[c][t].after)
           /\ SameOwned(Result(Cached.val, diff[c]), Apply(c, Cached.val))
           /\ SameOwned(Result(Cached.val, diff[c]), Result(Cached.val, Stamped(c, Cached.val)))
<1> DEFINE latest == Cached.val
           applied == Apply(c, latest)
           stamped == Stamped(c, latest)
<1>1. /\ clock \in Nat /\ Now \in 0 .. clock /\ latest \in ValuesAt(clock)
      /\ DOMAIN diff[c] \subseteq Types
  BY CachedVersion DEF HistoryInv, DiffInv
<1>2. ASSUME NEW t \in DOMAIN diff[c]
      PROVE  /\ applied[t] = Absent <=> diff[c][t].after = Absent
             /\ hasSameState(applied[t], diff[c][t].after)
  <2>1. diff[c][t].after \in ConditionsAt(clock) /\ t \in Types
    BY <1>1 DEF DiffInv, Changes
  <2>2. hasSameState(Set(latest, t, diff[c][t].after)[t], diff[c][t].after)
    BY <1>1, <2>1, SetProperties
  <2>3. applied[t] = IF diff[c][t].after = Absent THEN Absent
                     ELSE Set(latest, t, diff[c][t].after)[t]
    BY ApplyProperties
  <2>4. hasSameState(applied[t], diff[c][t].after)
    BY <2>2, <2>3 DEF hasSameState
  <2> QED BY <2>4, ApplyStamps
<1>3. \A t \in Types \ DOMAIN diff[c] : applied[t] = latest[t]
  BY ApplyProperties
<1>4. /\ DOMAIN stamped = DOMAIN diff[c]
      /\ \A t \in DOMAIN diff[c] : \/ stamped[t] = diff[c][t]
                                   \/ stamped[t].after = applied[t]
  <2>1. ASSUME NEW t \in DOMAIN diff[c]
        PROVE  stamped[t] = diff[c][t] \/ stamped[t].after = applied[t]
    <3>1. diff[c][t] \in Changes(clock)
      BY DEF DiffInv
    <3>2. stamped[t] = diff[c][t] \/ stamped[t] = [diff[c][t] EXCEPT !.after = applied[t]]
      BY DEF Stamped
    <3> HIDE DEF stamped, applied
    <3> QED BY <3>1, <3>2 DEF Changes
  <2> QED BY <2>1 DEF Stamped
<1> HIDE DEF applied, stamped
<1>5. \A t \in DOMAIN diff[c] :
         /\ stamped[t].after = Absent <=> diff[c][t].after = Absent
         /\ hasSameState(stamped[t].after, diff[c][t].after)
  BY <1>2, <1>4 DEF hasSameState
<1>6. ReconcilerTypes \subseteq Types
  BY DEF ReconcilerTypes, Types
<1>7. SameOwned(Result(latest, diff[c]), applied)
  BY <1>2, <1>3, <1>6 DEF SameOwned, Result, hasSameState
<1>8. SameOwned(Result(latest, diff[c]), Result(latest, stamped))
  BY <1>4, <1>5, <1>6 DEF SameOwned, Result, hasSameState
<1> QED BY <1>2, <1>5, <1>7, <1>8 DEF applied, stamped

LEMMA ResultOfSame ==
    ASSUME NEW u, NEW v, NEW d, SameOwned(u, v)
    PROVE  SameOwned(Result(u, d), Result(v, d))
<1>1. ReconcilerTypes \subseteq Types
  BY DEF ReconcilerTypes, Types
<1> QED BY <1>1 DEF SameOwned, Result, hasSameState

LEMMA VersionValues ==
    ASSUME HistoryInv, NEW i \in 2 .. Len(history), history[i] # NoObject
    PROVE  history[i].val \in ValuesAt(clock)
BY DEF HistoryInv

\* The values that a patch of c would make.
LEMMA ResultValues ==
    ASSUME DiffInv, NEW c \in Clients, NEW v \in ValuesAt(clock)
    PROVE  Result(v, diff[c]) \in ValuesAt(clock)
<1>1. \A t \in DOMAIN diff[c] : diff[c][t].after \in ConditionsAt(clock)
  BY DEF DiffInv, Changes
<1> QED BY <1>1 DEF Result, ValuesAt

-----------------------------------------------------------------------------
(* Steps that keep Ready.                                                   *)

\* The object stays, or is removed, or changes in other conditions.
HistoryGoesOn ==
    \/ history' = history
    \/ \E obj : /\ history' = Append(history, obj) /\ Server # NoObject
                /\ obj = NoObject \/ SameOwned(Server.val, obj.val)

LEMMA GoesOn ==
    ASSUME HistoryInv, HistoryGoesOn
    PROVE  /\ Len(history) \in Nat /\ Len(history) >= 2 /\ seen \in 1 .. Len(history)
           /\ Len(history') \in {Len(history), Len(history) + 1}
           /\ \A i \in 1 .. Len(history) : history'[i] = history[i]
           /\ Len(history') = Len(history) + 1 =>
                 \/ history'[Len(history) + 1] = NoObject
                 \/ /\ history[Len(history)] # NoObject
                    /\ SameOwned(history[Len(history)].val, history'[Len(history) + 1].val)
BY DEF HistoryInv, HistoryGoesOn, Server

LEMMA SameFromStays ==
    ASSUME HistoryInv, HistoryGoesOn, NEW i \in 1 .. Len(history), SameFrom(i)
    PROVE  SameFrom(i)'
<1>1. SUFFICES ASSUME NEW j \in i .. Len(history'), history'[j] # NoObject
               PROVE  SameOwned(history'[i].val, history'[j].val)
  BY DEF SameFrom
<1>2. /\ Len(history) \in Nat /\ history'[i] = history[i]
      /\ Len(history') \in {Len(history), Len(history) + 1}
  BY GoesOn
<1>3. CASE j # Len(history) + 1
  <2>1. j \in i .. Len(history) /\ j \in 1 .. Len(history)
    BY <1>2, <1>3
  <2> QED BY <1>1, <1>2, <2>1, GoesOn DEF SameFrom
<1>4. CASE j = Len(history) + 1
  <2>1. /\ history[Len(history)] # NoObject
        /\ SameOwned(history[Len(history)].val, history'[j].val)
    BY <1>1, <1>2, <1>4, GoesOn
  <2>2. Len(history) \in i .. Len(history)
    BY <1>2
  <2>3. SameOwned(history[i].val, history[Len(history)].val)
    BY <2>1, <2>2 DEF SameFrom
  <2> QED BY <1>2, <2>1, <2>3, SameOwnedIsAnEquivalence
<1> QED BY <1>3, <1>4

\* A reconciler that does not take the step.
LEMMA ReconcilerStays ==
    ASSUME HistoryInv, StateInv, HistoryGoesOn, seen' = seen, NEW r \in Reconcilers, ReconcilerReady(r),
           call'[r] = call[r], tries'[r] = tries[r], diff'[r] = diff[r]
    PROVE  ReconcilerReady(r)'
<1>1. /\ Len(history) \in Nat /\ seen \in 1 .. Len(history) /\ history'[seen] = history[seen]
      /\ Len(history') \in {Len(history), Len(history) + 1}
  BY GoesOn
<1>2. SameFrom(seen) => SameFrom(seen)'
  BY <1>1, SameFromStays DEF SameFrom
<1>3. ASSUME NEW p \in 2 .. Len(history), history[p] # NoObject, SameFrom(p),
             call[r].rv = history[p].rv, call[r].uid = history[p].uid
      PROVE  \E q \in 2 .. Len(history') :
                 /\ history'[q] # NoObject /\ SameFrom(q)'
                 /\ call'[r].rv = history'[q].rv /\ call'[r].uid = history'[q].uid
  <2>1. PICK q \in 2 .. Len(history') : q = p /\ q \in 1 .. Len(history) /\ history'[q] = history[p]
    BY <1>1, GoesOn
  <2>2. SameFrom(q)'
    BY <1>3, <2>1, SameFromStays
  <2> QED BY <1>3, <2>1, <2>2
<1> QED BY <1>1, <1>2, <1>3 DEF ReconcilerReady, Idle, Cached

LEMMA ReconcilerDelivered ==
    ASSUME HistoryInv, DiffInv, StateInv, NEW r \in Reconcilers, ReconcilerReady(r),
           history' = history, seen' \in seen .. Len(history),
           call' = call, tries' = tries, diff' = diff
    PROVE  ReconcilerReady(r)'
<1>1. /\ Len(history) \in Nat /\ seen \in 2 .. Len(history) /\ seen' \in 2 .. Len(history)
      /\ r \in Clients /\ clock \in Nat
  BY ConditionsAssumption DEF HistoryInv, StateInv
<1>2. ASSUME NEW j \in seen' .. Len(history), history[j] # NoObject
      PROVE  history[seen'] # NoObject
  BY <1>1, <1>2 DEF StateInv, NoObject
<1>3. ASSUME Idle(r), history[seen'] # NoObject
      PROVE  SameOwned(history[seen].val, history[seen'].val)
  BY <1>1, <1>3 DEF ReconcilerReady, SameFrom
<1>4. ASSUME Idle(r), NEW j \in seen' .. Len(history), history[j] # NoObject
      PROVE  SameOwned(history[seen'].val, history[j].val)
  <2>1. SameOwned(history[seen].val, history[seen'].val)
    BY <1>2, <1>3, <1>4
  <2>2. SameOwned(history[seen].val, history[j].val)
    <3>1. j \in seen .. Len(history)
      BY <1>1
    <3> QED BY <1>4, <3>1 DEF ReconcilerReady, SameFrom
  <2> QED BY <2>1, <2>2, SameOwnedIsAnEquivalence
<1>5. ASSUME Idle(r), tries[r] > 0, history[seen'] # NoObject
      PROVE  ReadyWorst(Result(history[seen'].val, diff[r]))
  <2>1. CASE history[seen] = NoObject
    <3>1. seen' = seen
      BY <1>1, <2>1 DEF StateInv, NoObject
    <3> QED BY <1>5, <2>1, <3>1
  <2>2. CASE history[seen] # NoObject
    <3>1. ReadyWorst(Result(history[seen].val, diff[r]))
      BY <1>5, <2>2 DEF ReconcilerReady, Cached
    <3>2. SameOwned(Result(history[seen].val, diff[r]), Result(history[seen'].val, diff[r]))
      BY <1>3, <1>5, ResultOfSame
    <3>3. /\ Result(history[seen].val, diff[r]) \in ValuesAt(clock)
          /\ Result(history[seen'].val, diff[r]) \in ValuesAt(clock)
      BY <1>1, <1>5, <2>2, VersionValues, ResultValues
    <3> QED BY <1>1, <3>1, <3>2, <3>3, ReadyOfSame
  <2> QED BY <2>1, <2>2
<1>6. ASSUME ~Idle(r)
      PROVE  \E p \in 2 .. Len(history') :
                 /\ history'[p] # NoObject /\ SameFrom(p)'
                 /\ call'[r].rv = history'[p].rv /\ call'[r].uid = history'[p].uid
  BY <1>6 DEF ReconcilerReady, SameFrom
<1>7. Idle(r) => SameFrom(seen)'
  BY <1>4 DEF SameFrom
<1>8. Idle(r)' = Idle(r) /\ Cached' = history[seen']
  BY DEF Idle, Cached
<1> QED BY <1>5, <1>6, <1>7, <1>8 DEF ReconcilerReady

\* An attempt that stores a version, by a controller that owns no condition.
LEMMA OtherStores ==
    ASSUME Inv, StateInv, OtherInv, NEW c \in Clients \ Reconcilers, Attempt(c), history' # history, NoneMine'
    PROVE  HistoryGoesOn
<1>1. HistoryInv /\ DiffInv /\ Len(history) \in Nat /\ Len(history) >= 2 /\ clock \in Nat
  BY DEF Inv, HistoryInv
<1>2. PICK obj : /\ history' = Append(history, obj) /\ Server # NoObject
                 /\ obj # NoObject /\ obj.val = Apply(c, Cached.val)
                 /\ Cached = Server /\ Cached # NoObject
  BY <1>1, AttemptStores
<1>3. Len(history') = Len(history) + 1 /\ history'[Len(history) + 1] = obj
  BY <1>1, <1>2 DEF HistoryInv
<1>4. obj.val["WebhookReady"].reason # "Mine"
  <2>1. PICK i \in 2 .. Len(history') : i = Len(history) + 1
    BY <1>1, <1>3
  <2> QED BY <1>2, <1>3, <2>1 DEF NoneMine
<1>5. "WebhookReady" \notin DOMAIN diff[c]
  <2> SUFFICES ASSUME "WebhookReady" \in DOMAIN diff[c] PROVE FALSE
    OBVIOUS
  <2> DEFINE after == diff[c]["WebhookReady"].after
             applied == obj.val["WebhookReady"]
  <2>1. after \in ConditionsAt(clock) /\ after.reason = "Mine"
    BY <1>1 DEF DiffInv, Changes, OtherInv
  <2>2. applied \in ConditionsAt(clock)
    BY <1>1, <1>2, ApplyProperties DEF ValuesAt, Types
  <2>3. hasSameState(applied, after)
    BY <1>1, <1>2, AppliedSame
  <2>4. applied.reason = after.reason
    BY <1>1, <2>1, <2>2, <2>3, SameState
  <2> QED BY <1>4, <2>1, <2>4
<1>6. \A t \in ReconcilerTypes : t \in Types /\ t \notin DOMAIN diff[c]
  BY <1>5 DEF OtherInv, ReconcilerTypes, Types
<1>7. \A t \in ReconcilerTypes : obj.val[t] = Server.val[t]
  BY <1>1, <1>2, <1>6, ApplyProperties
<1>8. SameOwned(Server.val, obj.val)
  BY <1>7 DEF SameOwned, hasSameState
<1> QED BY <1>2, <1>8 DEF HistoryGoesOn

\* Ready stays the worst condition where the object goes on as it is.
WorstInv == \A i \in 2 .. Len(history) : history[i] # NoObject => ReadyWorst(history[i].val)

LEMMA WorstStays ==
    ASSUME HistoryInv, HistoryInv', HistoryGoesOn, WorstInv
    PROVE  WorstInv'
<1>1. SUFFICES ASSUME NEW i \in 2 .. Len(history'), history'[i] # NoObject
               PROVE  ReadyWorst(history'[i].val)
  BY DEF WorstInv, ReadyWorst
<1>2. /\ Len(history) \in Nat /\ Len(history) >= 2 /\ Len(history') \in Nat
      /\ Len(history') \in {Len(history), Len(history) + 1}
  BY GoesOn
<1>3. CASE i # Len(history) + 1
  BY <1>1, <1>2, <1>3, GoesOn DEF WorstInv
<1>4. CASE i = Len(history) + 1
  <2> DEFINE n == Len(history)
  <2>1. /\ history[n] # NoObject /\ SameOwned(history[n].val, history'[i].val) /\ n \in 2 .. n
    BY <1>1, <1>2, <1>4, GoesOn
  <2>2. ReadyWorst(history[n].val) /\ history[n].val \in ValuesAt(clock)
    BY <2>1, VersionValues DEF WorstInv
  <2>3. history'[i].val \in ValuesAt(clock') /\ clock \in Nat /\ clock' \in Nat
    BY <1>1 DEF HistoryInv
  <2>4. PICK m \in {clock, clock'} : clock <= m /\ clock' <= m /\ m \in Nat
    <3>1. CASE clock <= clock'
      BY <2>3, <3>1
    <3>2. CASE ~(clock <= clock')
      BY <2>3, <3>2
    <3> QED BY <3>1, <3>2
  <2>5. history[n].val \in ValuesAt(m) /\ history'[i].val \in ValuesAt(m)
    BY <2>2, <2>3, <2>4, LaterConditions
  <2> QED BY <2>1, <2>2, <2>4, <2>5, ReadyOfSame
<1> QED BY <1>3, <1>4

LEMMA NoneMineBefore ==
    ASSUME HistoryInv, NoneMine', history' = history \/ \E obj : history' = Append(history, obj)
    PROVE  NoneMine
<1>1. Len(history) \in Nat
  BY DEF HistoryInv
<1>2. ASSUME NEW i \in 2 .. Len(history)
      PROVE  i \in 2 .. Len(history') /\ history'[i] = history[i]
  BY <1>1 DEF HistoryInv
<1> QED BY <1>2 DEF NoneMine

-----------------------------------------------------------------------------
(* The reconciler's own steps.                                              *)

LEMMA ReconcilerBegins ==
    ASSUME Inv, StateInv, NEW r \in Reconcilers, ReconcilerReady(r), Begin(r)
    PROVE  ReconcilerReady(r)'
<1>1. /\ HistoryInv /\ DiffInv /\ r \in Clients /\ Idle(r) /\ Cached # NoObject
      /\ history' = history /\ seen' = seen /\ call' = call
  BY ConditionsAssumption DEF Inv, StateInv, Begin
<1>2. /\ Cached.val \in ValuesAt(clock) /\ Now \in 0 .. clock /\ clock \in Nat
  BY <1>1, CachedVersion DEF HistoryInv
<1>3. PICK after \in Marked(r, Cached.val) :
         diff' = [diff EXCEPT ![r] = NewPatch(Cached.val, after)]
  BY DEF Begin
<1>4. after \in ValuesAt(clock) /\ ReadyWorst(after)
  BY <1>1, <1>2, MarkedProperties, MarkedByReconciler
<1>5. diff'[r] = NewPatch(Cached.val, after)
  BY <1>1, <1>3 DEF DiffInv
<1>6. Result(Cached.val, diff'[r]) = after
  BY <1>2, <1>4, <1>5, PatchProperties
<1>7. Idle(r)' /\ Cached' = Cached /\ (SameFrom(seen) => SameFrom(seen)')
  BY <1>1 DEF Idle, Cached, SameFrom
<1> QED BY <1>1, <1>4, <1>6, <1>7 DEF ReconcilerReady

LEMMA ReconcilerAttempts ==
    ASSUME Inv, StateInv, NEW r \in Reconcilers, ReconcilerReady(r), Attempt(r), ~lost', WorstInv
    PROVE  ReconcilerReady(r)' /\ WorstInv'
<1>1. /\ HistoryInv /\ DiffInv /\ r \in Clients /\ Idle(r) /\ tries[r] > 0 /\ seen' = seen
      /\ Len(history) \in Nat /\ Len(history) >= 2 /\ DOMAIN call = Clients /\ DOMAIN result = Clients
      /\ HistoryInv' /\ clock \in Nat
  BY ConditionsAssumption, AttemptKinds, AttemptTypes DEF Inv, HistoryInv, StateInv, Attempt
<1>2. SameFrom(seen) /\ (Cached # NoObject => ReadyWorst(Result(Cached.val, diff[r])))
  BY <1>1 DEF ReconcilerReady
<1>3. Cached # NoObject =>
         /\ Cached.val \in ValuesAt(clock)
         /\ Result(Cached.val, diff[r]) \in ValuesAt(clock)
         /\ Apply(r, Cached.val) \in ValuesAt(clock)
  BY <1>1, CachedVersion, ResultValues, ApplyProperties
<1>4. CASE history' = history
  <2>1. \/ diff' = diff
        \/ Cached # NoObject /\ diff' = [diff EXCEPT ![r] = Stamped(r, Cached.val)]
    BY <1>1, AttemptKinds
  <2>2. call'[r] = NoCall
    <3>1. ASSUME NEW res, Return(r, res) PROVE call'[r] = NoCall
      BY <1>1, <3>1 DEF Return
    <3> DEFINE obj == Updated_(Cached, Apply(r, Cached.val))
    <3>2. ~Store(r, "update", obj)
      BY <1>1, <1>4 DEF Store, HistoryInv
    <3>3. (\E res : Return(r, res)) \/ Store(r, "update", obj)
      BY <1>1, AttemptKinds
    <3> HIDE DEF obj
    <3> QED BY <3>1, <3>2, <3>3
  <2>3. Cached # NoObject => ReadyWorst(Result(Cached.val, diff'[r]))
    <3> SUFFICES ASSUME Cached # NoObject PROVE ReadyWorst(Result(Cached.val, diff'[r]))
      OBVIOUS
    <3>1. CASE diff' = diff
      BY <1>2, <3>1
    <3>2. CASE diff' = [diff EXCEPT ![r] = Stamped(r, Cached.val)]
      <4>1. diff'[r] = Stamped(r, Cached.val)
        BY <1>1, <3>2 DEF DiffInv
      <4>2. SameOwned(Result(Cached.val, diff[r]), Result(Cached.val, diff'[r]))
        BY <1>1, <4>1, AppliedSame
      <4>3. Result(Cached.val, diff'[r]) \in ValuesAt(clock)
        <5>1. \A t \in DOMAIN diff'[r] : diff'[r][t].after \in ConditionsAt(clock)
          BY <1>1, <4>1, StampedProperties DEF Changes
        <5> QED BY <1>3, <5>1 DEF Result, ValuesAt
      <4> QED BY <1>1, <1>2, <1>3, <4>2, <4>3, ReadyOfSame
    <3> QED BY <2>1, <3>1, <3>2
  <2>4. Idle(r)' /\ Cached' = Cached /\ SameFrom(seen)'
    BY <1>1, <1>2, <1>4, <2>2 DEF Idle, Cached, SameFrom
  <2>5. WorstInv'
    BY <1>4 DEF WorstInv
  <2> QED BY <2>3, <2>4, <2>5 DEF ReconcilerReady
<1>5. CASE history' # history
  <2>1. PICK obj : /\ history' = Append(history, obj) /\ obj # NoObject
                   /\ obj.val = Apply(r, Cached.val) /\ Cached # NoObject
                   /\ \/ call' = [call EXCEPT ![r] = [op |-> "update", uid |-> obj.uid, rv |-> obj.rv]]
                      \/ Return(r, "error")
    BY <1>1, <1>5, AttemptStores
  <2>2. PICK p \in 2 .. Len(history') :
            p = Len(history) + 1 /\ p = Len(history') /\ history'[p] = obj
    BY <1>1, <2>1 DEF HistoryInv
  <2>3. ~Return(r, "error")
    <3> SUFFICES ASSUME Return(r, "error") PROVE FALSE
      OBVIOUS
    <3>1. result'[r] = "error"
      BY <1>1 DEF Return
    <3> QED BY <1>5, <3>1 DEF Attempt
  <2>4. call'[r].uid = obj.uid /\ call'[r].rv = obj.rv /\ call'[r].op = "update"
    BY <1>1, <2>1, <2>3
  <2>5. ~Idle(r)'
    BY <2>4 DEF Idle, NoCall
  <2>6. SameFrom(p)'
    <3>1. \A j \in p .. Len(history') : j = p
      BY <1>1, <2>2
    <3> QED BY <3>1, SameOwnedIsAnEquivalence DEF SameFrom
  <2>7. ReadyWorst(obj.val)
    <3>1. SameOwned(Result(Cached.val, diff[r]), obj.val)
      BY <1>1, <2>1, AppliedSame
    <3> QED BY <1>1, <1>2, <1>3, <2>1, <3>1, ReadyOfSame
  <2>8. WorstInv'
    <3>1. ASSUME NEW i \in 2 .. Len(history'), i # p
          PROVE  i \in 2 .. Len(history) /\ history'[i] = history[i]
      BY <1>1, <2>1, <2>2, <3>1 DEF HistoryInv
    <3>2. ASSUME NEW i \in 2 .. Len(history'), history'[i] # NoObject
          PROVE  ReadyWorst(history'[i].val)
      BY <2>2, <2>7, <3>1, <3>2 DEF WorstInv
    <3> QED BY <3>2 DEF WorstInv, ReadyWorst
  <2> QED BY <2>1, <2>2, <2>4, <2>5, <2>6, <2>8 DEF ReconcilerReady
<1> QED BY <1>4, <1>5

LEMMA ReconcilerWaits ==
    ASSUME Inv, StateInv, NEW r \in Reconcilers, ReconcilerReady(r), Wait(r), ~lost'
    PROVE  ReconcilerReady(r)'
<1>1. /\ HistoryInv /\ DiffInv /\ r \in Clients /\ ~Idle(r) /\ Arrived(r) /\ Returned(r)
      /\ history' = history /\ seen' = seen /\ DOMAIN call = Clients /\ DOMAIN result = Clients
      /\ call' = [call EXCEPT ![r] = NoCall] /\ tries \in [Clients -> 0 .. Steps]
      /\ \E res \in {"ok", "error"} : result' = [result EXCEPT ![r] = res]
  BY ConditionsAssumption, WaitKinds DEF Inv, StateInv
<1>2. Len(history) \in Nat /\ seen \in 2 .. Len(history) /\ FirstRevision \in Int
  BY <1>1, FirstRevisionAssumption DEF HistoryInv, StateInv
<1>3. PICK p \in 2 .. Len(history) :
          /\ history[p] # NoObject /\ SameFrom(p)
          /\ call[r].rv = history[p].rv /\ call[r].uid = history[p].uid
  BY <1>1 DEF ReconcilerReady
<1>4. SameFrom(seen)
  <2>1. CASE Cached = NoObject
    BY <1>2, <2>1 DEF StateInv, Cached, NoObject, SameFrom
  <2>2. CASE Cached # NoObject
    <3>1. Cached.uid = call[r].uid
      BY <1>2, <1>3, <2>2 DEF StateInv, Cached
    <3>2. Cached.rv >= call[r].rv
      BY <1>1, <2>2, <3>1 DEF Arrived
    <3>3. p <= seen
      <4>1. Cached.rv = FirstRevision + seen - 2 /\ call[r].rv = FirstRevision + p - 2
        BY <1>1, <1>2, <1>3, <2>2 DEF HistoryInv, Cached
      <4> QED BY <1>2, <3>2, <4>1
    <3>4. SameOwned(history[p].val, history[seen].val)
      BY <1>2, <1>3, <2>2, <3>3 DEF SameFrom, Cached
    <3>5. ASSUME NEW j \in seen .. Len(history), history[j] # NoObject
          PROVE  SameOwned(history[seen].val, history[j].val)
      <4>1. j \in p .. Len(history)
        BY <1>2, <3>3
      <4>2. SameOwned(history[p].val, history[j].val)
        BY <1>3, <3>5, <4>1 DEF SameFrom
      <4> QED BY <3>4, <4>2, SameOwnedIsAnEquivalence
    <3> QED BY <3>5 DEF SameFrom
  <2> QED BY <2>1, <2>2
<1>5. call'[r] = NoCall /\ result'[r] \in {"ok", "error"}
  BY <1>1
<1>6. tries'[r] = 0
  BY <1>1, <1>5 DEF Returned
<1>7. Idle(r)' /\ SameFrom(seen)'
  BY <1>1, <1>4, <1>5 DEF Idle, SameFrom
<1> QED BY <1>6, <1>7 DEF ReconcilerReady

-----------------------------------------------------------------------------
(* All steps.                                                               *)

LEMMA OtherStep ==
    ASSUME Inv, StateInv, OtherInv, [Next]_vars
    PROVE  OtherInv'
<1>1. HistoryInv /\ DiffInv
  BY DEF Inv
<1>2. ASSUME NEW c \in Clients, NEW d \in Clients \ Reconcilers, diff'[d] = diff[d]
      PROVE  /\ DOMAIN diff'[d] \subseteq {"Custom", "WebhookReady"}
             /\ "WebhookReady" \in DOMAIN diff'[d] =>
                   diff'[d]["WebhookReady"].after # Absent /\ diff'[d]["WebhookReady"].after.reason = "Mine"
  BY <1>2 DEF OtherInv
<1>3. CASE diff' = diff
  BY <1>3 DEF OtherInv
<1>4. ASSUME NEW c \in Clients, Begin(c) PROVE OtherInv'
  <2>1. PICK after \in Marked(c, Cached.val) :
           diff' = [diff EXCEPT ![c] = NewPatch(Cached.val, after)] /\ Cached # NoObject
    BY <1>4 DEF Begin
  <2>2. \A d \in Clients \ {c} : diff'[d] = diff[d]
    BY <1>1, <2>1 DEF DiffInv
  <2>3. ASSUME c \notin Reconcilers
        PROVE  /\ DOMAIN diff'[c] \subseteq {"Custom", "WebhookReady"}
               /\ "WebhookReady" \in DOMAIN diff'[c] =>
                     diff'[c]["WebhookReady"].after # Absent /\ diff'[c]["WebhookReady"].after.reason = "Mine"
    <3>1. /\ clock \in Nat /\ Now \in 1 .. clock /\ Now \in 0 .. clock
          /\ Cached.val \in ValuesAt(clock) /\ IsStamped(Cached.val)
      BY <1>1, <2>1, CachedVersion, ApplyStamps DEF HistoryInv
    <3>2. after \in ValuesAt(clock)
      BY <3>1, <2>1, MarkedProperties
    <3>3. /\ \A t \in Types \ {"Custom", "WebhookReady"} : after[t] = Cached.val[t]
          /\ \/ after["WebhookReady"] = Cached.val["WebhookReady"]
             \/ after["WebhookReady"] # Absent /\ after["WebhookReady"].reason = "Mine"
      BY <2>1, <2>3, <3>1, MarkedByOther
    <3>4. diff'[c] = NewPatch(Cached.val, after)
      BY <1>1, <2>1 DEF DiffInv
    <3> QED BY <3>1, <3>2, <3>3, <3>4, PatchProperties DEF Types
  <2> QED BY <1>2, <2>2, <2>3 DEF OtherInv
<1>5. ASSUME NEW c \in Clients, Attempt(c), diff' # diff PROVE OtherInv'
  <2>1. Cached # NoObject /\ diff' = [diff EXCEPT ![c] = Stamped(c, Cached.val)]
    BY <1>5, AttemptKinds
  <2>2. (\A d \in Clients \ {c} : diff'[d] = diff[d]) /\ diff'[c] = Stamped(c, Cached.val)
    BY <1>1, <2>1 DEF DiffInv
  <2>3. ASSUME c \notin Reconcilers
        PROVE  /\ DOMAIN diff'[c] \subseteq {"Custom", "WebhookReady"}
               /\ "WebhookReady" \in DOMAIN diff'[c] =>
                     diff'[c]["WebhookReady"].after # Absent /\ diff'[c]["WebhookReady"].after.reason = "Mine"
    <3>1. DOMAIN diff'[c] = DOMAIN diff[c] /\ DOMAIN diff[c] \subseteq {"Custom", "WebhookReady"}
      BY <1>1, <2>1, <2>2, <2>3, StampedProperties DEF OtherInv
    <3>2. ASSUME "WebhookReady" \in DOMAIN diff[c]
          PROVE  diff'[c]["WebhookReady"].after # Absent /\ diff'[c]["WebhookReady"].after.reason = "Mine"
      <4> DEFINE after == diff[c]["WebhookReady"].after
                 after1 == diff'[c]["WebhookReady"].after
      <4>1. clock \in Nat /\ after # Absent /\ after.reason = "Mine"
        BY <1>1, <2>3, <3>2 DEF HistoryInv, OtherInv
      <4>2. after \in ConditionsAt(clock) /\ after1 \in ConditionsAt(clock)
        BY <1>1, <2>1, <2>2, <3>2, StampedProperties DEF DiffInv, Changes
      <4>3. (after1 = Absent <=> after = Absent) /\ hasSameState(after1, after)
        BY <1>1, <2>1, <2>2, <3>2, AppliedSame
      <4>4. after1.reason = after.reason
        BY <4>1, <4>2, <4>3, SameState
      <4> QED BY <4>1, <4>3, <4>4
    <3> QED BY <3>1, <3>2
  <2> QED BY <1>2, <2>2, <2>3 DEF OtherInv
<1>6. CASE UNCHANGED vars
  BY <1>3, <1>6 DEF vars
<1>7. ASSUME NEW c \in Clients, Wait(c) PROVE diff' = diff
  BY <1>7, WaitKinds
<1> QED BY <1>3, <1>4, <1>5, <1>6, <1>7 DEF Next, Remove, Tick

\* One leader reconciles, and the work queue never hands out a policy twice at a time.
OneReconciler == \A a, b \in Reconcilers : a = b

LEMMA ReadyStep ==
    ASSUME OneReconciler, Inv, Inv', StateInv, OtherInv, ReadyInv, [Next]_vars
    PROVE  ReadyInv'
<1> SUFFICES ASSUME ~lost', NoneMine'
             PROVE  WorstInv' /\ \A r \in Reconcilers : ReconcilerReady(r)'
  BY DEF ReadyInv, WorstInv, ReadyWorst
<1>1. /\ HistoryInv /\ DiffInv /\ HistoryInv' /\ Reconcilers \subseteq Clients
      /\ DOMAIN call = Clients /\ DOMAIN diff = Clients /\ tries \in [Clients -> 0 .. Steps]
  BY ConditionsAssumption DEF Inv, DiffInv, StateInv
<1>2. ASSUME ~lost, history' = history \/ \E obj : history' = Append(history, obj)
      PROVE  WorstInv /\ \A r \in Reconcilers : ReconcilerReady(r)
  <2>1. NoneMine
    BY <1>1, <1>2, NoneMineBefore
  <2> QED BY <1>2, <2>1 DEF ReadyInv, WorstInv
<1>3. CASE UNCHANGED vars
  BY <1>1, <1>2, <1>3, ReconcilerStays, WorstStays DEF vars, HistoryGoesOn
<1>9. CASE Tick
  <2>1. /\ history' = history /\ seen' = seen /\ ~lost
        /\ call' = call /\ tries' = tries /\ diff' = diff
    BY <1>9 DEF Tick
  <2>2. HistoryGoesOn /\ WorstInv /\ \A r \in Reconcilers : ReconcilerReady(r)
    BY <1>2, <2>1 DEF HistoryGoesOn
  <2> QED BY <1>1, <2>1, <2>2, ReconcilerStays, WorstStays
<1>4. CASE Deliver /\ UNCHANGED <<diff, tries, lost, clock>>
  <2>1. /\ history' = history /\ seen' \in seen .. Len(history) /\ ~lost
        /\ call' = call /\ tries' = tries /\ diff' = diff
    BY <1>1, <1>4 DEF Deliver, HistoryInv
  <2>2. WorstInv'
    BY <1>1, <1>2, <2>1, WorstStays DEF HistoryGoesOn
  <2> QED BY <1>1, <1>2, <2>1, <2>2, ReconcilerDelivered
<1>5. CASE Remove
  <2>1. HistoryGoesOn /\ ~lost /\ seen' = seen /\ call' = call /\ tries' = tries /\ diff' = diff
    BY <1>5 DEF Remove, HistoryGoesOn
  <2>2. WorstInv /\ \A r \in Reconcilers : ReconcilerReady(r)
    BY <1>2, <2>1 DEF HistoryGoesOn
  <2> QED BY <1>1, <2>1, <2>2, ReconcilerStays, WorstStays
<1>6. ASSUME NEW c \in Clients, Begin(c) \/ Attempt(c) \/ Wait(c)
      PROVE  /\ ~lost /\ seen' = seen
             /\ history' = history \/ \E obj : history' = Append(history, obj)
             /\ \A r \in Clients \ {c} : call'[r] = call[r] /\ tries'[r] = tries[r] /\ diff'[r] = diff[r]
  <2>1. CASE Begin(c)
    BY <1>1, <2>1 DEF Begin
  <2>2. CASE Attempt(c)
    <3>1. ~lost /\ seen' = seen /\ \A r \in Clients \ {c} : tries'[r] = tries[r]
      BY <1>1, <2>2, AttemptKinds DEF Attempt, Returned
    <3>2. history' = history \/ \E obj : history' = Append(history, obj)
      BY <2>2, AttemptKinds DEF Store
    <3>3. \A r \in Clients \ {c} : call'[r] = call[r]
      BY <1>1, <2>2, AttemptKinds DEF Return, Store
    <3>4. \A r \in Clients \ {c} : diff'[r] = diff[r]
      BY <1>1, <2>2, AttemptKinds DEF Store
    <3> QED BY <3>1, <3>2, <3>3, <3>4
  <2>3. CASE Wait(c)
    <3>1. ~lost /\ seen' = seen /\ history' = history /\ diff' = diff
      BY <2>3, WaitKinds
    <3>2. \A r \in Clients \ {c} : call'[r] = call[r]
      BY <1>1, <2>3, WaitKinds
    <3>3. \A r \in Clients \ {c} : tries'[r] = tries[r]
      BY <1>1, <2>3, WaitKinds DEF Returned
    <3> QED BY <3>1, <3>2, <3>3
  <2> QED BY <1>6, <2>1, <2>2, <2>3
<1>7. ASSUME NEW c \in Clients \ Reconcilers, Begin(c) \/ Attempt(c) \/ Wait(c)
      PROVE  WorstInv' /\ \A r \in Reconcilers : ReconcilerReady(r)'
  <2>1. HistoryGoesOn
    <3>1. CASE history' = history
      BY <3>1 DEF HistoryGoesOn
    <3>2. CASE history' # history
      <4>1. Attempt(c)
        BY <1>7, <3>2, WaitKinds DEF Begin
      <4> QED BY <3>2, <4>1, OtherStores
    <3> QED BY <3>1, <3>2
  <2>2. WorstInv /\ \A r \in Reconcilers : ReconcilerReady(r)
    BY <1>2, <1>6, <1>7
  <2>3. ASSUME NEW r \in Reconcilers
        PROVE  ReconcilerReady(r)'
    <3>1. call'[r] = call[r] /\ tries'[r] = tries[r] /\ diff'[r] = diff[r] /\ seen' = seen
      BY <1>1, <1>6, <1>7
    <3> QED BY <1>1, <2>1, <2>2, <3>1, ReconcilerStays
  <2> QED BY <1>1, <2>1, <2>2, <2>3, WorstStays
<1>8. ASSUME NEW c \in Reconcilers, Begin(c) \/ Attempt(c) \/ Wait(c)
      PROVE  WorstInv' /\ \A r \in Reconcilers : ReconcilerReady(r)'
  <2>1. c \in Clients /\ \A r \in Reconcilers : r = c
    BY <1>1 DEF OneReconciler
  <2>2. WorstInv /\ ReconcilerReady(c)
    BY <1>2, <1>6, <1>8, <2>1
  <2>3. CASE Begin(c)
    <3>1. ReconcilerReady(c)'
      BY <2>2, <2>3, ReconcilerBegins
    <3>2. WorstInv'
      BY <1>1, <2>2, <2>3, WorstStays DEF Begin, HistoryGoesOn
    <3> QED BY <2>1, <3>1, <3>2
  <2>4. CASE Attempt(c)
    <3>1. ReconcilerReady(c)' /\ WorstInv'
      BY <2>2, <2>4, ReconcilerAttempts
    <3> QED BY <2>1, <3>1
  <2>5. CASE Wait(c)
    <3>1. ReconcilerReady(c)'
      BY <2>2, <2>5, ReconcilerWaits
    <3>2. WorstInv'
      BY <1>1, <2>1, <2>2, <2>5, WaitKinds, WorstStays DEF HistoryGoesOn
    <3> QED BY <2>1, <3>1, <3>2
  <2> QED BY <1>8, <2>3, <2>4, <2>5
<1> QED BY <1>3, <1>4, <1>5, <1>7, <1>8, <1>9 DEF Next

\* A new policy, one that is enforced, and one that fails to sync or to compile.
LEMMA FirstIsWorst ==
    ASSUME NEW v \in FirstConditions
    PROVE  ReadyWorst(v)
<1> DEFINE k == FirstCondition(v)
           ready == FirstTime(TrueCondition)
           sync == FirstTime(FalseCondition("SyncFailed", "Error"))
<1>1. k \in {0, 1, 2} /\ Order[1] = "WebhookReady" /\ Order[2] = "BundleCompiled"
  BY FirstConditionProperties DEF Order
<1>2. mergePriority(sync) = 0 /\ mergePriority(ready) = 3
  <2>1. sync.status = "False" /\ sync.severity = "Error" /\ ready.status = "True"
    BY DEF FirstTime, FalseCondition, TrueCondition, Condition
  <2> HIDE DEF sync, ready
  <2> QED BY <2>1 DEF mergePriority
<1>3. ready # Absent /\ sync # Absent
  <2>1. ready.time = 1 /\ sync.time = 1 /\ Absent.time = 0
    BY DEF FirstTime, FalseCondition, TrueCondition, Condition, Absent
  <2> QED BY <2>1
<1>4. /\ k = 1 => /\ v["WebhookReady"] # Absent
                  /\ v["BundleCompiled"] # Absent =>
                        mergePriority(v["WebhookReady"]) <= mergePriority(v["BundleCompiled"])
      /\ k = 2 => /\ v["BundleCompiled"] # Absent
                  /\ v["WebhookReady"] # Absent =>
                        mergePriority(v["BundleCompiled"]) <= mergePriority(v["WebhookReady"])
  BY <1>1, FirstConditionProperties
<1>5. k = 0 \/ v["Ready"] = v[Order[k]]
  <2> HIDE DEF k, ready, sync
  <2>1. \/ v["WebhookReady"] = v["Ready"] /\ v["BundleCompiled"] = v["Ready"]
        \/ v["Ready"] = sync /\ v["BundleCompiled"] = ready /\ v["WebhookReady"] = sync
        \/ v["BundleCompiled"] = v["Ready"] /\ v["WebhookReady"] = Absent
    BY FirstProperties DEF sync, ready
  <2> QED BY <1>1, <1>2, <1>3, <1>4, <2>1
<1> QED BY <1>5 DEF ReadyWorst, hasSameState

LEMMA ReadyInit ==
    ASSUME Init
    PROVE  OtherInv /\ ReadyInv
<1>1. PICK v \in FirstConditions :
         history = << NoObject, [uid |-> 1, rv |-> FirstRevision, val |-> v, deleting |-> FALSE] >>
  BY DEF Init
<1>2. Len(history) = 2 /\ history[2].val = v /\ (\A i \in 2 .. 2 : i = 2) /\ seen = 2
  BY <1>1 DEF Init
<1>3. OtherInv
  BY DEF OtherInv, Init, NoPatch, NewPatch
<1>4. SameFrom(2)
  BY <1>2, SameOwnedIsAnEquivalence DEF SameFrom
<1>5. \A r \in Reconcilers : Idle(r) /\ tries[r] = 0
  BY ConditionsAssumption DEF Init, Idle
<1>6. \A r \in Reconcilers : ReconcilerReady(r)
  BY <1>2, <1>4, <1>5 DEF ReconcilerReady
<1> QED BY <1>2, <1>3, <1>6, FirstIsWorst DEF ReadyInv

-----------------------------------------------------------------------------
(* The theorems about states.                                               *)

\* The type invariant, which ties a wait to its attempt and a time to its version.
THEOREM TypeCorrect == Spec => []TypeOK
<1>1. IInv => TypeOK
  <2> SUFFICES ASSUME IInv PROVE TypeOK
    OBVIOUS
  <2>1. HistoryInv /\ DiffInv /\ StateInv
    BY DEF IInv, Inv
  <2>2. ASSUME NEW i \in 2 .. Len(history), history[i] # NoObject, NEW t \in Types
        PROVE  history[i].val[t] = Absent \/ history[i].val[t].time \in 1 .. clock
    <3>1. history[i].val[t] \in ConditionsAt(clock) /\ clock \in Nat
      BY <2>1, <2>2 DEF HistoryInv, ValuesAt
    <3>2. history[i].val[t] = Absent \/ history[i].val[t].time >= 1
      BY <2>1, <2>2 DEF StateInv, IsStamped, NoObject
    <3> QED BY <3>1, <3>2 DEF ConditionsAt
  <2> QED BY <2>1, <2>2 DEF TypeOK, HistoryInv, DiffInv, StateInv
<1> QED BY <1>1, StateInvariance, PTL

\* A patch that returns no error was made as a whole (patchStatusConditions).
THEOREM PatchesAreWhole == Spec => []PatchedAsAWhole
<1>1. IInv => PatchedAsAWhole
  BY DEF IInv, WholeInv, WholeAt, PatchedAsAWhole
<1> QED BY <1>1, StateInvariance, PTL

\* While nobody else changes the conditions of the one reconciler, and its patches return after
\* the cache has them, Ready is the worst of the other conditions in every version (SetSummary).
THEOREM ReadyIsTheWorst == OneReconciler => (Spec => []ReadyIsWorst)
<1> SUFFICES ASSUME OneReconciler PROVE Spec => []ReadyIsWorst
  OBVIOUS
<1>1. Init => OtherInv /\ ReadyInv
  BY ReadyInit
<1>2. IInv /\ IInv' /\ OtherInv /\ ReadyInv /\ [Next]_vars => OtherInv' /\ ReadyInv'
  BY OtherStep, ReadyStep DEF IInv
<1>3. IInv /\ ReadyInv => ReadyIsWorst
  <2> SUFFICES ASSUME IInv, ReadyInv, ~lost, Server # NoObject,
                      \A i \in 2 .. Len(history) :
                          history[i] # NoObject => history[i].val["WebhookReady"].reason # "Mine"
               PROVE  ReadyWorst(Server.val)
    BY DEF ReadyIsWorst, ReadyWorst
  <2>1. Len(history) \in 2 .. Len(history)
    BY DEF IInv, Inv, HistoryInv
  <2>2. \A i \in 2 .. Len(history) : history[i] # NoObject => ReadyWorst(history[i].val)
    BY DEF ReadyInv, NoneMine
  <2> QED BY <2>1, <2>2 DEF Server
<1> QED BY <1>1, <1>2, <1>3, StateInvariance, PTL DEF Spec
=============================================================================
