-------------------------- MODULE CacheClientProofs --------------------------
(***************************************************************************)
(* A write that returns without an error is seen by the reads that follow,   *)
(* whatever other clients write, delete and create meanwhile: for any        *)
(* number of clients, and as many writes as revisions of two digits allow.   *)
(***************************************************************************)
EXTENDS MCCacheClient, FiniteSetTheorems, SequenceTheorems, TLAPS

-----------------------------------------------------------------------------
(* The inductive invariant.                                                 *)

Version == [uid : Nat, rv : Nat, val : {NoValue}, deleting : BOOLEAN]

Call == [op : {"none", "create", "update", "patch", "delete"}, uid : Nat, rv : Nat]

ClientTypes ==
    /\ call \in [Clients -> Call] /\ wrote \in [Clients -> Call]
    /\ read \in [Clients -> Version]

\* The revision of a version tells its place.
HistoryInv ==
    /\ history \in Seq(Version) /\ Len(history) \in Nat \ {0}
    /\ seen \in 1 .. Len(history)
    /\ history[1] = NoObject
    /\ \A i \in 1 .. Len(history) :
          history[i] = NoObject \/ (history[i].uid # 0 /\ history[i].rv = FirstRevision + i - 2)

\* The places where an object comes or goes.
Turns == {i \in 2 .. Len(history) : history[i].uid # history[i - 1].uid}

\* A uid is never used again, and the first one is 1.
UidInv ==
    /\ \A i \in 1 .. Len(history) : history[i].uid <= Cardinality(Turns)
    /\ \A i, j \in 1 .. Len(history) :
          i <= j /\ history[i].uid # 0 /\ history[i].uid = history[j].uid => \A k \in i .. j : history[k].uid = history[i].uid
    /\ \A j \in 1 .. Len(history) : history[j].uid # 0 => \E i \in 1 .. j : history[i].uid = 1

\* An object that is marked for deletion stays so.
MarkInv ==
    \A i, j \in 1 .. Len(history) :
        i <= j /\ history[i].uid # 0 /\ history[i].uid = history[j].uid /\ history[i].deleting
            => history[j].deleting

\* What a client has read is in the cache, or was.
ReadInv == \A c \in Clients : \E i \in 1 .. seen : read[c] = history[i]

\* The update w has made version p, of the version before it, which its client has read.
UpdateAt(w, p) ==
    /\ p \in 2 .. Len(history) /\ p - 1 <= seen
    /\ w.uid # 0 /\ w.rv = FirstRevision + p - 2
    /\ history[p].uid = w.uid /\ history[p - 1].uid = w.uid

\* The patch w has made version p, of an object that its client need not have read.
PatchAt(w, p) ==
    /\ w.uid # 0 /\ w.rv = FirstRevision + p - 2
    /\ history[p].uid = w.uid

\* The client of w has read the object that it asks to delete.
AskedFor(w) == w.uid # 0 /\ \E i \in 1 .. seen : history[i].uid = w.uid

\* What is known of a call while its client is blocked in it.
ValidCall(w) ==
    /\ w \in Call
    /\ w.op = "update" => \E p \in 2 .. Len(history) : UpdateAt(w, p)
    /\ w.op = "patch" => \E p \in 2 .. Len(history) : PatchAt(w, p)
    /\ w.op = "delete" => AskedFor(w)

CallInv == \A c \in Clients : ValidCall(call[c])

\* The revisions of the object of w are as long as that of w.
OneLength(w) ==
    \A i \in 1 .. Len(history) : history[i].uid = w.uid => Len(Digits(history[i].rv)) = Len(Digits(w.rv))

\* A write that has returned is in the cache; but for an update that may be before it, when
\* its text is one digit longer.  r is what the client has read before.
Returned(w, r) ==
    /\ w \in Call
    /\ w.op = "create" => \E i \in 1 .. seen : history[i].uid # 0
    /\ w.op = "update" =>
          \E p \in 2 .. Len(history) :
              /\ UpdateAt(w, p)
              /\ p - 1 = seen => Len(Digits(w.rv - 1)) # Len(Digits(w.rv))
    /\ w.op = "patch" =>
          \E p \in 2 .. Len(history) :
              /\ PatchAt(w, p)
              /\ r.uid = w.uid /\ OneLength(w) => p <= seen \/ (AskedFor(w) /\ Cached.uid # w.uid)
    /\ w.op = "delete" => AskedFor(w) /\ (Cached.uid # w.uid \/ Cached.deleting)

WroteInv == \A c \in Clients : Returned(wrote[c], read[c])

IInv == ClientTypes /\ HistoryInv /\ UidInv /\ MarkInv /\ ReadInv /\ CallInv /\ WroteInv

-----------------------------------------------------------------------------
(* The versions of the object.                                              *)

\* As texts, a revision is not greater than or equal to the next one, unless that is longer.
LEMMA TextOfNext ==
    ASSUME NEW n \in Nat \ {0}, TextGeq(n - 1, n)
    PROVE  Len(Digits(n - 1)) # Len(Digits(n))
<1>1. CASE n < 10
  <2>1. Digits(n - 1) = << n - 1 >> /\ Digits(n) = << n >>
    BY <1>1 DEF Digits
  <2> QED BY <2>1 DEF TextGeq
<1>2. CASE n = 10
  <2>1. Digits(n - 1) = << n - 1 >> /\ Digits(n) = << n \div 10, n % 10 >>
    BY <1>2 DEF Digits
  <2> QED BY <2>1
<1>3. CASE n > 10
  <2>1. /\ Digits(n - 1) = << (n - 1) \div 10, (n - 1) % 10 >>
        /\ Digits(n) = << n \div 10, n % 10 >>
    BY <1>3 DEF Digits
  <2>2. ~((n - 1) \div 10 > n \div 10)
    BY <1>3
  <2>3. (n - 1) \div 10 = n \div 10 => ~((n - 1) % 10 >= n % 10)
    BY <1>3
  <2>4. Len(Digits(n)) = 2
    BY <2>1
  <2> HIDE DEF Digits
  <2> QED BY <2>1, <2>2, <2>3, <2>4 DEF TextGeq
<1> QED BY <1>1, <1>2, <1>3

\* Revisions of one length compare as numbers do.
LEMMA TextOfSameLength ==
    ASSUME NEW m \in Nat, NEW n \in Nat, Len(Digits(m)) = Len(Digits(n)), TextGeq(m, n)
    PROVE  m >= n
<1>1. CASE n < 10
  <2>1. CASE m < 10
    <3>1. Digits(m) = << m >> /\ Digits(n) = << n >>
      BY <1>1, <2>1 DEF Digits
    <3> QED BY <3>1 DEF TextGeq
  <2>2. CASE m >= 10
    BY <1>1, <2>2
  <2> QED BY <2>1, <2>2
<1>2. CASE n >= 10
  <2>1. Digits(n) = << n \div 10, n % 10 >> /\ Len(Digits(n)) = 2
    BY <1>2 DEF Digits
  <2>2. CASE m < 10
    <3>1. Len(Digits(m)) = 1
      BY <2>2 DEF Digits
    <3> QED BY <2>1, <3>1
  <2>3. CASE m >= 10
    <3>1. Digits(m) = << m \div 10, m % 10 >> /\ Len(Digits(m)) = 2
      BY <2>3 DEF Digits
    <3>2. m \div 10 > n \div 10 \/ (m \div 10 = n \div 10 /\ m % 10 >= n % 10)
      <4> HIDE DEF Digits
      <4> QED BY <2>1, <3>1 DEF TextGeq
    <3> QED BY <3>2
  <2> QED BY <2>2, <2>3
<1> QED BY <1>1, <1>2

LEMMA VersionAt ==
    ASSUME HistoryInv, NEW i \in 1 .. Len(history)
    PROVE  /\ history[i] \in Version /\ history[i].uid \in Nat /\ history[i].deleting \in BOOLEAN
           /\ history[i] # NoObject => history[i].rv = FirstRevision + i - 2
           /\ history[i] = NoObject <=> history[i].uid = 0
<1>1. history[i] \in Version
  BY ElementOfSeq DEF HistoryInv
<1> QED BY <1>1 DEF HistoryInv, NoObject, Version

\* Two versions with one revision are the same.
LEMMA SameVersion ==
    ASSUME HistoryInv, NEW i \in 1 .. Len(history), NEW j \in 1 .. Len(history),
           history[i] # NoObject, history[j] # NoObject, history[i].rv = history[j].rv
    PROVE  i = j
<1>1. Len(history) \in Nat /\ FirstRevision \in Int
  BY FirstRevisionAssumption DEF HistoryInv
<1> QED BY <1>1, VersionAt

LEMMA TurnsAreFinite ==
    ASSUME HistoryInv
    PROVE  IsFiniteSet(Turns) /\ Cardinality(Turns) \in Nat
<1>1. Len(history) \in Nat
  BY DEF HistoryInv
<1>2. IsFiniteSet(2 .. Len(history))
  BY <1>1, FS_Interval
<1> QED BY <1>2, FS_Subset, FS_CardinalityType DEF Turns

\* The API server stores a version.
Stores(obj) ==
    /\ history' = Append(history, obj) /\ seen' = seen
    /\ obj \in Version
    /\ \/ obj = NoObject
       \/ /\ obj.rv = NextRevision /\ obj.uid # 0
          /\ \/ obj.uid = Server.uid /\ (Server.deleting => obj.deleting)
             \/ obj.uid = NextUID

LEMMA StoredHistory ==
    ASSUME HistoryInv, NEW obj, Stores(obj)
    PROVE  /\ HistoryInv' /\ Len(history') = Len(history) + 1
           /\ history'[Len(history) + 1] = obj
           /\ \A i \in 1 .. Len(history) : history'[i] = history[i]
<1>1. /\ history' \in Seq(Version) /\ Len(history') = Len(history) + 1
      /\ history'[Len(history) + 1] = obj
      /\ \A i \in 1 .. Len(history) : history'[i] = history[i]
  BY AppendProperties DEF HistoryInv, Stores
<1>2. Len(history) \in Nat \ {0} /\ FirstRevision \in Int
  BY FirstRevisionAssumption DEF HistoryInv
<1>3. ASSUME NEW i \in 1 .. Len(history')
      PROVE  history'[i] = NoObject \/ (history'[i].uid # 0 /\ history'[i].rv = FirstRevision + i - 2)
  <2>1. CASE i = Len(history) + 1
    <3>1. NextRevision = FirstRevision + i - 2
      BY <1>2, <2>1 DEF NextRevision
    <3> QED BY <1>1, <2>1, <3>1 DEF Stores
  <2>2. CASE i # Len(history) + 1
    <3>1. i \in 1 .. Len(history)
      BY <1>1, <1>2, <2>2
    <3>2. history'[i] = history[i]
      BY <1>1, <3>1
    <3> QED BY <3>1, <3>2 DEF HistoryInv
  <2> QED BY <2>1, <2>2
<1>4. Len(history') \in Nat \ {0} /\ seen' \in 1 .. Len(history') /\ history'[1] = NoObject
  BY <1>1, <1>2 DEF HistoryInv, Stores
<1> QED BY <1>1, <1>3, <1>4 DEF HistoryInv

LEMMA StoredUids ==
    ASSUME HistoryInv, UidInv, NEW obj, Stores(obj)
    PROVE  UidInv'
<1> DEFINE n == Len(history)
           t == Cardinality(Turns)
           t1 == Cardinality(Turns')
<1>1. n \in Nat \ {0} /\ t \in Nat /\ IsFiniteSet(Turns)
  BY TurnsAreFinite DEF HistoryInv
<1>2. /\ Len(history') = n + 1 /\ history'[n + 1] = obj
      /\ \A i \in 1 .. n : history'[i] = history[i]
  BY StoredHistory
<1>3. Server = history[n] /\ n \in 1 .. n /\ NextUID = 1 + t
  BY <1>1 DEF Server, NextUID, Turns
<1>4. \A i \in 1 .. n : history[i].uid \in Nat /\ history[i].uid <= t
  BY VersionAt DEF UidInv
<1>5. /\ obj.uid = Server.uid => t1 = t
      /\ obj.uid # Server.uid => t1 = t + 1
  <2>1. ASSUME NEW i \in 2 .. n
        PROVE  i \in Turns' <=> i \in Turns
    BY <1>1, <1>2 DEF Turns
  <2>2. n + 1 \in Turns' <=> obj.uid # Server.uid
    BY <1>1, <1>2, <1>3 DEF Turns
  <2>3. /\ \A i \in Turns' : i \in 2 .. n \/ i = n + 1
        /\ \A i \in Turns : i \in 2 .. n
        /\ n + 1 \notin 2 .. n
    BY <1>1, <1>2 DEF Turns
  <2>4. CASE obj.uid = Server.uid
    <3>1. Turns' = Turns
      <4> HIDE DEF n, t, t1
      <4> QED BY <2>1, <2>2, <2>3, <2>4
    <3> QED BY <2>4, <3>1
  <2>5. CASE obj.uid # Server.uid
    <3>1. Turns' = Turns \cup {n + 1} /\ n + 1 \notin Turns
      <4> HIDE DEF n, t, t1
      <4> QED BY <2>1, <2>2, <2>3, <2>5
    <3> QED BY <1>1, <2>5, <3>1, FS_AddElement
  <2> QED BY <2>4, <2>5
<1>6. t1 \in Nat /\ t <= t1 /\ obj.uid \in Nat /\ obj.uid <= t1
  <2>1. obj.uid \in Nat /\ (obj.uid = 0 \/ obj.uid = Server.uid \/ obj.uid = NextUID)
    BY DEF Stores, Version, NoObject
  <2> QED BY <1>1, <1>3, <1>4, <1>5, <2>1
<1> HIDE DEF n, t, t1
<1>7. ASSUME NEW i \in 1 .. Len(history')
      PROVE  history'[i].uid <= t1
  <2>1. CASE i = n + 1
    BY <1>2, <1>6, <2>1
  <2>2. CASE i # n + 1
    BY <1>1, <1>2, <1>4, <1>6, <2>2
  <2> QED BY <2>1, <2>2
<1>8. ASSUME NEW i \in 1 .. Len(history'), NEW j \in 1 .. Len(history'), NEW k \in i .. j,
             i <= j, history'[i].uid # 0, history'[i].uid = history'[j].uid
      PROVE  history'[k].uid = history'[i].uid
  <2>1. CASE j # n + 1
    <3>1. i \in 1 .. n /\ j \in 1 .. n /\ k \in 1 .. n
      <4>1. n \in Nat /\ Len(history') = n + 1
        BY <1>1, <1>2
      <4> QED BY <2>1, <4>1
    <3>2. history'[i] = history[i] /\ history'[j] = history[j] /\ history'[k] = history[k]
      BY <1>2, <3>1
    <3>3. history[i].uid # 0 /\ history[i].uid = history[j].uid
      BY <1>8, <3>2
    <3>4. \A m \in i .. j : history[m].uid = history[i].uid
      BY <1>8, <3>1, <3>3 DEF UidInv, n
    <3> QED BY <3>2, <3>4
  <2>2. CASE j = n + 1 /\ i = n + 1
    <3>1. k = i
      BY <1>1, <2>2
    <3> QED BY <3>1
  <2>3. CASE j = n + 1 /\ i # n + 1
    <3>1. i \in 1 .. n /\ history[i].uid = obj.uid /\ obj.uid # 0
      BY <1>1, <1>2, <1>8, <2>3
    <3>2. obj.uid = Server.uid
      BY <1>1, <1>3, <1>4, <3>1 DEF Stores, NoObject
    <3>3. \A l \in i .. n : history[l].uid = history[i].uid
      BY <1>3, <3>1, <3>2 DEF UidInv, n
    <3>4. CASE k = n + 1
      BY <1>2, <1>8, <2>3, <3>4
    <3>5. CASE k # n + 1
      BY <1>1, <1>2, <2>3, <3>1, <3>3, <3>5
    <3> QED BY <3>4, <3>5
  <2> QED BY <2>1, <2>2, <2>3
<1>9. ASSUME NEW j \in 1 .. Len(history'), history'[j].uid # 0
      PROVE  \E i \in 1 .. j : history'[i].uid = 1
  <2>1. ASSUME NEW m \in 1 .. n, history[m].uid # 0, m <= j
        PROVE  \E i \in 1 .. j : history'[i].uid = 1
    <3>1. PICK i \in 1 .. m : history[i].uid = 1
      BY <2>1 DEF UidInv, n
    <3>2. i \in 1 .. j /\ i \in 1 .. n
      BY <1>1, <1>2, <2>1, <3>1
    <3> QED BY <1>2, <3>1, <3>2
  <2>2. CASE j # n + 1
    <3>1. j \in 1 .. n
      BY <1>1, <1>2, <2>2
    <3> QED BY <1>2, <1>9, <2>1, <3>1
  <2>3. CASE j = n + 1
    <3>1. obj.uid # 0 /\ \A m \in 1 .. n : m <= j
      BY <1>1, <1>2, <1>9, <2>3
    <3>2. CASE obj.uid = Server.uid
      BY <1>3, <2>1, <3>1, <3>2
    <3>3. CASE obj.uid # Server.uid
      <4>1. obj.uid = 1 + t
        BY <1>3, <3>1, <3>3 DEF Stores, NoObject
      <4>2. CASE Turns = {}
        <5>1. t = 0
          BY <4>2, FS_EmptySet DEF t
        <5>2. j \in 1 .. j /\ history'[j].uid = 1
          BY <1>1, <1>2, <2>3, <4>1, <5>1
        <5> QED BY <5>2
      <4>3. CASE Turns # {}
        <5>1. PICK i \in 2 .. n : history[i].uid # history[i - 1].uid
          BY <4>3 DEF Turns, n
        <5>2. i \in 1 .. n /\ i - 1 \in 1 .. n
          BY <1>1, <5>1
        <5>3. history[i].uid # 0 \/ history[i - 1].uid # 0
          BY <5>1
        <5> QED BY <2>1, <3>1, <5>2, <5>3
      <4> QED BY <4>2, <4>3
    <3> QED BY <3>2, <3>3
  <2> QED BY <2>2, <2>3
<1> QED BY <1>7, <1>8, <1>9 DEF UidInv, t1

LEMMA StoredMarks ==
    ASSUME HistoryInv, UidInv, MarkInv, NEW obj, Stores(obj)
    PROVE  MarkInv'
<1> DEFINE n == Len(history)
<1>1. n \in Nat \ {0} /\ Cardinality(Turns) \in Nat
  BY TurnsAreFinite DEF HistoryInv
<1>2. /\ Len(history') = n + 1 /\ history'[n + 1] = obj
      /\ \A i \in 1 .. n : history'[i] = history[i]
  BY StoredHistory
<1>3. Server = history[n] /\ n \in 1 .. n /\ NextUID = 1 + Cardinality(Turns)
  BY <1>1 DEF Server, NextUID, Turns
<1>4. \A i \in 1 .. n : history[i].uid \in Nat /\ history[i].uid <= Cardinality(Turns)
  BY VersionAt DEF UidInv
<1>5. ASSUME NEW i \in 1 .. Len(history'), NEW j \in 1 .. Len(history'),
             i <= j, history'[i].uid # 0, history'[i].uid = history'[j].uid, history'[i].deleting
      PROVE  history'[j].deleting
  <2>1. CASE j \in 1 .. n
    <3>1. i \in 1 .. n
      BY <1>1, <1>5, <2>1
    <3> QED BY <1>2, <1>5, <2>1, <3>1 DEF MarkInv
  <2>2. CASE j = n + 1 /\ i = n + 1
    BY <1>5, <2>2
  <2>3. CASE j = n + 1 /\ i \in 1 .. n
    <3>1. history[i].uid = obj.uid /\ obj.uid # 0 /\ history[i].deleting
      BY <1>2, <1>5, <2>3
    <3>2. obj.uid = Server.uid /\ (Server.deleting => obj.deleting)
      <4>1. obj.uid # NextUID
        BY <1>1, <1>3, <1>4, <2>3, <3>1
      <4> QED BY <3>1, <4>1 DEF Stores, NoObject
    <3>3. Server.deleting
      <4>1. i <= n
        BY <1>1, <2>3
      <4> QED BY <1>3, <2>3, <3>1, <3>2, <4>1 DEF MarkInv
    <3> QED BY <1>2, <2>3, <3>2, <3>3
  <2>4. \/ j \in 1 .. n
        \/ j = n + 1 /\ (i = n + 1 \/ i \in 1 .. n)
    BY <1>1, <1>2
  <2> QED BY <2>1, <2>2, <2>3, <2>4
<1> QED BY <1>5 DEF MarkInv

\* The cache goes on, or stays.
LEMMA SameStore ==
    ASSUME HistoryInv, UidInv, MarkInv, history' = history, seen' \in 1 .. Len(history)
    PROVE  HistoryInv' /\ UidInv' /\ MarkInv'
<1>1. HistoryInv'
  BY DEF HistoryInv
<1>2. Turns' = Turns
  BY DEF Turns
<1> QED BY <1>1, <1>2 DEF UidInv, MarkInv

-----------------------------------------------------------------------------
(* What clients know of versions stays true.                                *)

\* Versions are added, and the cache goes on.
Extends ==
    /\ Len(history) <= Len(history') /\ seen <= seen'
    /\ \A i \in 1 .. Len(history) : history'[i] = history[i]

LEMMA CallsStay ==
    ASSUME HistoryInv, HistoryInv', Extends, NEW w
    PROVE  /\ \A p \in 2 .. Len(history) : /\ p \in 2 .. Len(history')
                                           /\ UpdateAt(w, p) => UpdateAt(w, p)'
                                           /\ PatchAt(w, p) => PatchAt(w, p)'
           /\ AskedFor(w) => AskedFor(w)'
           /\ OneLength(w)' => OneLength(w)
<1>1. /\ Len(history) \in Nat /\ Len(history') \in Nat /\ Len(history) <= Len(history')
      /\ seen \in 1 .. Len(history) /\ seen' \in 1 .. Len(history') /\ seen <= seen'
  BY DEF HistoryInv, Extends
<1>2. ASSUME NEW p \in 2 .. Len(history)
      PROVE  /\ p \in 2 .. Len(history')
             /\ UpdateAt(w, p) => UpdateAt(w, p)'
             /\ PatchAt(w, p) => PatchAt(w, p)'
  <2>1. p \in 1 .. Len(history) /\ p - 1 \in 1 .. Len(history) /\ p \in 2 .. Len(history')
    BY <1>1
  <2>2. history'[p] = history[p] /\ history'[p - 1] = history[p - 1]
    BY <2>1 DEF Extends
  <2> QED BY <1>1, <2>1, <2>2 DEF UpdateAt, PatchAt
<1>3. ASSUME AskedFor(w)
      PROVE  AskedFor(w)'
  <2>1. PICK i \in 1 .. seen : history[i].uid = w.uid
    BY <1>3 DEF AskedFor
  <2>2. i \in 1 .. Len(history) /\ i \in 1 .. seen'
    BY <1>1
  <2>3. history'[i].uid = w.uid
    BY <2>1, <2>2 DEF Extends
  <2> QED BY <1>3, <2>2, <2>3 DEF AskedFor
<1>4. OneLength(w)' => OneLength(w)
  <2>1. \A i \in 1 .. Len(history) : i \in 1 .. Len(history') /\ history'[i] = history[i]
    BY <1>1 DEF Extends
  <2> QED BY <2>1 DEF OneLength
<1> QED BY <1>2, <1>3, <1>4

\* An object that has gone from the cache does not come back, and one that the cache has
\* marked stays marked.
LEMMA GoneStays ==
    ASSUME HistoryInv, UidInv, MarkInv, HistoryInv', UidInv', MarkInv', Extends, NEW w, AskedFor(w)
    PROVE  /\ AskedFor(w)'
           /\ Cached.uid # w.uid => history'[seen'].uid # w.uid
           /\ Cached.uid # w.uid \/ Cached.deleting => history'[seen'].uid # w.uid \/ history'[seen'].deleting
<1>1. /\ Len(history) \in Nat /\ Len(history') \in Nat /\ Len(history) <= Len(history')
      /\ seen \in 1 .. Len(history) /\ seen' \in 1 .. Len(history') /\ seen <= seen'
  BY DEF HistoryInv, Extends
<1>2. PICK i \in 1 .. seen : history[i].uid = w.uid /\ w.uid # 0
  BY DEF AskedFor
<1>3. /\ i \in 1 .. Len(history) /\ i \in 1 .. Len(history') /\ i <= seen' /\ seen \in i .. seen'
      /\ seen \in 1 .. Len(history')
  BY <1>1
<1>4. history'[i].uid = w.uid /\ history'[seen] = history[seen]
  BY <1>1, <1>2, <1>3 DEF Extends
<1>5. history'[seen'].uid = w.uid => history'[seen].uid = w.uid
  BY <1>1, <1>2, <1>3, <1>4 DEF UidInv
<1>6. history'[seen'].uid = w.uid /\ history'[seen].deleting => history'[seen'].deleting
  BY <1>1, <1>2, <1>3, <1>5 DEF MarkInv
<1> QED BY <1>4, <1>5, <1>6, CallsStay DEF Cached

\* What is known of a write that has returned stays true.
LEMMA ReturnedStays ==
    ASSUME HistoryInv, UidInv, MarkInv, HistoryInv', UidInv', MarkInv', Extends,
           NEW w, NEW r, Returned(w, r)
    PROVE  Returned(w, r)'
<1>1. /\ Len(history) \in Nat /\ Len(history') \in Nat /\ Len(history) <= Len(history')
      /\ seen \in 1 .. Len(history) /\ seen' \in 1 .. Len(history') /\ seen <= seen'
  BY DEF HistoryInv, Extends
<1>2. ASSUME w.op = "create"
      PROVE  \E i \in 1 .. seen' : history'[i].uid # 0
  <2>1. PICK i \in 1 .. seen : history[i].uid # 0
    BY <1>2 DEF Returned
  <2>2. i \in 1 .. seen' /\ i \in 1 .. Len(history)
    BY <1>1
  <2> QED BY <2>1, <2>2 DEF Extends
<1>3. ASSUME w.op = "update"
      PROVE  \E p \in 2 .. Len(history') :
                 UpdateAt(w, p)' /\ (p - 1 = seen' => Len(Digits(w.rv - 1)) # Len(Digits(w.rv)))
  <2>1. PICK p \in 2 .. Len(history) :
            UpdateAt(w, p) /\ (p - 1 = seen => Len(Digits(w.rv - 1)) # Len(Digits(w.rv)))
    BY <1>3 DEF Returned
  <2>2. p - 1 = seen' => p - 1 = seen
    BY <1>1, <2>1 DEF UpdateAt
  <2> QED BY <2>1, <2>2, CallsStay
<1>4. ASSUME w.op = "patch"
      PROVE  \E p \in 2 .. Len(history') :
                 /\ PatchAt(w, p)'
                 /\ r.uid = w.uid /\ OneLength(w)' =>
                        p <= seen' \/ (AskedFor(w)' /\ history'[seen'].uid # w.uid)
  <2>1. PICK p \in 2 .. Len(history) :
            /\ PatchAt(w, p)
            /\ r.uid = w.uid /\ OneLength(w) => p <= seen \/ (AskedFor(w) /\ Cached.uid # w.uid)
    BY <1>4 DEF Returned
  <2>2. p <= seen => p <= seen'
    BY <1>1, <2>1
  <2>3. AskedFor(w) /\ Cached.uid # w.uid => AskedFor(w)' /\ history'[seen'].uid # w.uid
    BY GoneStays
  <2>4. p \in 2 .. Len(history') /\ PatchAt(w, p)' /\ (OneLength(w)' => OneLength(w))
    BY <2>1, CallsStay
  <2> QED BY <2>1, <2>2, <2>3, <2>4
<1>5. ASSUME w.op = "delete"
      PROVE  AskedFor(w)' /\ (history'[seen'].uid # w.uid \/ history'[seen'].deleting)
  <2>1. AskedFor(w) /\ (Cached.uid # w.uid \/ Cached.deleting)
    BY <1>5 DEF Returned
  <2> QED BY <2>1, GoneStays
<1> QED BY <1>2, <1>3, <1>4, <1>5 DEF Returned, Cached

LEMMA ValidCallStays ==
    ASSUME HistoryInv, HistoryInv', Extends, NEW w, ValidCall(w)
    PROVE  ValidCall(w)'
BY CallsStay DEF ValidCall

LEMMA NoCallIsValid ==
    ASSUME NEW r
    PROVE  ValidCall(NoCall) /\ ValidCall(NoCall)' /\ Returned(NoCall, r) /\ Returned(NoCall, r)'
BY DEF ValidCall, NoCall, Call, Returned

-----------------------------------------------------------------------------
(* Steps.                                                                   *)

\* What a call knows of the version that it has stored.
Made(c, w, obj) ==
    /\ w.op = "update" => read[c] = Server
    /\ w.op \in {"update", "patch"} =>
          /\ obj.uid = Server.uid /\ obj.uid # 0
          /\ w.uid = obj.uid /\ w.rv = NextRevision
    /\ w.op = "delete" => AskedFor(w)

\* A write is refused, or stores a version, or finds an object that is being deleted already.
LEMMA WriteKinds ==
    ASSUME IInv, NEW c \in Clients, Write(c)
    PROVE  /\ read' = read /\ seen' = seen /\ wrote' = [wrote EXCEPT ![c] = NoCall]
           /\ \E w \in Call :
                 /\ call' = [call EXCEPT ![c] = w]
                 /\ \/ history' = history /\ (w = NoCall \/ (w.op = "delete" /\ AskedFor(w)))
                    \/ \E obj : Stores(obj) /\ Made(c, w, obj)
<1>1. /\ HistoryInv /\ UidInv /\ Len(history) \in Nat \ {0} /\ FirstRevision \in Nat \ {0}
      /\ NextRevision \in Nat \ {0} /\ NextUID \in Nat \ {0}
  <2>1. HistoryInv /\ UidInv /\ Len(history) \in Nat \ {0} /\ FirstRevision \in Nat \ {0}
    <3>1. HistoryInv /\ UidInv
      BY DEF IInv
    <3>2. FirstRevision \in Nat \ {0}
      BY FirstRevisionAssumption
    <3>3. Len(history) \in Nat \ {0}
      BY <3>1 DEF HistoryInv
    <3> QED BY <3>1, <3>2, <3>3
  <2>2. NextUID = 1 + Cardinality(Turns)
    BY DEF NextUID, Turns
  <2> QED BY <2>1, <2>2, TurnsAreFinite DEF NextRevision
<1>2. PICK j \in 1 .. seen : read[c] = history[j]
  BY DEF IInv, ReadInv
<1>3. /\ j \in 1 .. Len(history) /\ Len(history) \in 1 .. Len(history)
      /\ Server \in Version /\ (Server # NoObject => Server.uid # 0)
  <2>1. j \in 1 .. Len(history) /\ Len(history) \in 1 .. Len(history)
    BY <1>1 DEF HistoryInv
  <2> QED BY <1>1, <2>1, VersionAt DEF Server
<1>4. read' = read /\ wrote' = [wrote EXCEPT ![c] = NoCall]
  BY DEF Write
<1>n. NoCall \in Call /\ NoCall.op = "none"
  BY DEF NoCall, Call
<1>5. CASE \E res : Refuse(c, res)
  BY <1>4, <1>5, <1>n DEF Refuse, Return, storeVars
<1>6. ASSUME NEW op \in {"create", "update", "patch"}, NEW obj, Store(c, op, obj), Stores(obj) \/ seen' # seen,
             op = "update" => read[c] = Server,
             op # "create" => obj.uid = Server.uid /\ obj.uid # 0 /\ obj.rv = NextRevision
      PROVE  seen' = seen /\ Stores(obj) /\ \E w \in Call : call' = [call EXCEPT ![c] = w] /\ Made(c, w, obj)
  <2>1. seen' = seen /\ Stores(obj) /\ obj.uid \in Nat /\ obj.rv \in Nat
    BY <1>6 DEF Store, Stores, Version
  <2>2. CASE call' = [call EXCEPT ![c] = [op |-> op, uid |-> obj.uid, rv |-> obj.rv]]
    <3> DEFINE w == [op |-> op, uid |-> obj.uid, rv |-> obj.rv]
    <3>1. w \in Call /\ w.op = op /\ w.uid = obj.uid /\ w.rv = obj.rv
      BY <2>1 DEF Call
    <3>2. call' = [call EXCEPT ![c] = w]
      BY <2>2
    <3> HIDE DEF w
    <3>3. Made(c, w, obj)
      BY <1>6, <3>1 DEF Made
    <3> QED BY <2>1, <3>1, <3>2, <3>3
  <2>3. CASE call' = [call EXCEPT ![c] = NoCall]
    <3>1. Made(c, NoCall, obj)
      BY <1>n DEF Made
    <3> QED BY <2>1, <2>3, <3>1, <1>n
  <2> QED BY <1>6, <2>2, <2>3 DEF Store, Return
<1>7. CASE Create(c, NoValue) \/ CreateUnstructured(c, NoValue)
  <2> DEFINE obj == [uid |-> NextUID, rv |-> NextRevision, val |-> NoValue, deleting |-> FALSE]
  <2>1. \/ \E res : Refuse(c, res)
        \/ Store(c, "create", obj)
        \/ history' = Append(history, obj) /\ seen' = seen /\ call' = [call EXCEPT ![c] = NoCall]
    BY <1>7 DEF Create, CreateUnstructured, NewObject, Return
  <2>2. obj \in Version /\ obj.uid = NextUID /\ obj.rv = NextRevision
    BY <1>1 DEF Version
  <2> HIDE DEF obj
  <2>3. ASSUME Store(c, "create", obj) PROVE Stores(obj)
    BY <1>1, <2>2, <2>3 DEF Store, Stores
  <2>4. ASSUME history' = Append(history, obj), seen' = seen, call' = [call EXCEPT ![c] = NoCall]
        PROVE  Stores(obj) /\ Made(c, NoCall, obj)
    BY <1>1, <1>n, <2>2, <2>4 DEF Stores, Made
  <2> QED BY <1>4, <1>5, <1>6, <1>n, <2>1, <2>3, <2>4
<1>8. CASE read[c] # NoObject /\ Update(c, read[c], NoValue)
  <2> DEFINE obj == [uid |-> read[c].uid, rv |-> NextRevision, val |-> NoValue, deleting |-> Server.deleting]
  <2>1. \/ \E res : Refuse(c, res)
        \/ Server # NoObject /\ Server.rv = read[c].rv /\ Store(c, "update", obj)
    BY <1>8 DEF Update, Updated_
  <2>2. ASSUME Server # NoObject, Server.rv = read[c].rv
        PROVE  /\ read[c] = Server /\ obj \in Version /\ obj.uid = Server.uid /\ obj.uid # 0
               /\ obj.rv = NextRevision /\ obj.deleting = Server.deleting
    <3>1. j = Len(history)
      BY <1>1, <1>2, <1>3, <1>8, <2>2, SameVersion DEF Server
    <3>2. read[c] = Server /\ read[c].uid \in Nat /\ read[c].uid # 0 /\ Server.deleting \in BOOLEAN
      BY <1>1, <1>2, <1>3, <1>8, <3>1, VersionAt DEF Server
    <3> QED BY <1>1, <3>2 DEF Version
  <2> HIDE DEF obj
  <2>3. ASSUME Server # NoObject, Server.rv = read[c].rv, Store(c, "update", obj)
        PROVE Stores(obj)
    BY <1>1, <2>2, <2>3 DEF Store, Stores
  <2> QED BY <1>4, <1>5, <1>6, <2>1, <2>2, <2>3
<1>9. CASE Patch(c, NoValue)
  <2> DEFINE obj == [Server EXCEPT !.rv = NextRevision, !.val = NoValue]
  <2>1. \/ \E res : Refuse(c, res)
        \/ Server # NoObject /\ Store(c, "patch", obj)
    BY <1>9 DEF Patch
  <2>2. obj \in Version /\ obj.uid = Server.uid /\ obj.rv = NextRevision /\ obj.deleting = Server.deleting
    BY <1>1, <1>3 DEF Version
  <2> HIDE DEF obj
  <2>3. ASSUME Server # NoObject, Store(c, "patch", obj) PROVE Stores(obj) /\ obj.uid # 0
    BY <1>1, <1>3, <2>2, <2>3 DEF Store, Stores
  <2> QED BY <1>4, <1>5, <1>6, <2>1, <2>2, <2>3
<1>10. CASE read[c] # NoObject /\ Delete(c, read[c])
  <2> DEFINE marked == [Server EXCEPT !.rv = NextRevision, !.deleting = TRUE]
             w == [op |-> "delete", uid |-> read[c].uid, rv |-> 0]
  <2>1. \/ \E res : Refuse(c, res)
        \/ /\ Server # NoObject /\ AfterDelete /\ seen' = seen
           /\ call' = [call EXCEPT ![c] = w] \/ call' = [call EXCEPT ![c] = NoCall]
    BY <1>10 DEF Delete, Return
  <2>2. NoObject \in Version /\ marked \in Version /\ marked.uid = Server.uid /\ marked.rv = NextRevision
        /\ marked.deleting
    BY <1>1, <1>3 DEF NoObject, Version
  <2>3. AskedFor(w) /\ w \in Call /\ w.op = "delete"
    <3>1. read[c].uid \in Nat /\ read[c].uid # 0
      BY <1>1, <1>2, <1>3, <1>10, VersionAt
    <3> QED BY <1>2, <3>1 DEF Call, AskedFor
  <2>4. AfterDelete => \/ history' = history
                       \/ history' = Append(history, NoObject)
                       \/ history' = Append(history, marked)
    BY DEF AfterDelete
  <2> HIDE DEF marked, w
  <2>5. ASSUME history' = Append(history, NoObject), seen' = seen PROVE Stores(NoObject)
    BY <2>2, <2>5 DEF Stores
  <2>6. ASSUME Server # NoObject, history' = Append(history, marked), seen' = seen PROVE Stores(marked)
    BY <1>3, <2>2, <2>6 DEF Stores
  <2>7. \A obj : Made(c, NoCall, obj) /\ Made(c, w, obj)
    BY <1>n, <2>3 DEF Made
  <2>8. CASE call' = [call EXCEPT ![c] = w]
    BY <1>4, <1>5, <2>1, <2>3, <2>4, <2>5, <2>6, <2>7, <2>8
  <2>9. CASE call' = [call EXCEPT ![c] = NoCall]
    BY <1>4, <1>5, <1>n, <2>1, <2>4, <2>5, <2>6, <2>7, <2>9
  <2> QED BY <1>5, <2>1, <2>8, <2>9
<1> QED BY <1>7, <1>8, <1>9, <1>10 DEF Write

\* A version is stored: what the clients know of the others stays true.
LEMMA StoreStep ==
    ASSUME IInv, NEW obj, Stores(obj), read' = read, ClientTypes',
           \A d \in Clients :
               /\ call'[d] = call[d] \/ ValidCall(call[d])'
               /\ wrote'[d] = wrote[d] \/ wrote'[d] = NoCall
    PROVE  IInv'
<1>1. /\ ClientTypes /\ HistoryInv /\ UidInv /\ MarkInv /\ ReadInv /\ CallInv /\ WroteInv
      /\ seen' = seen
  BY DEF IInv, Stores
<1>2. HistoryInv' /\ UidInv' /\ MarkInv'
  BY <1>1, StoredHistory, StoredUids, StoredMarks
<1>3. /\ Len(history') = Len(history) + 1 /\ Len(history) \in Nat \ {0}
      /\ \A i \in 1 .. Len(history) : history'[i] = history[i]
      /\ seen \in 1 .. Len(history)
  BY <1>1, StoredHistory DEF HistoryInv
<1>4. Extends
  BY <1>1, <1>3 DEF Extends
<1>5. ReadInv'
  <2>1. \A i \in 1 .. seen : i \in 1 .. Len(history)
    BY <1>3
  <2> QED BY <1>1, <1>3, <2>1 DEF ReadInv
<1>6. ASSUME NEW d \in Clients
      PROVE  ValidCall(call[d])' /\ Returned(wrote[d], read[d])'
  <2>1. ValidCall(call[d]) /\ Returned(wrote[d], read[d])
    BY <1>1 DEF CallInv, WroteInv
  <2>2. ValidCall(call[d])'
    <3>1. CASE call'[d] = call[d]
      BY <1>1, <1>2, <1>4, <2>1, <3>1, ValidCallStays DEF ValidCall, UpdateAt, PatchAt, AskedFor
    <3> QED BY <3>1
  <2>3. Returned(wrote[d], read[d])'
    BY <1>1, <1>2, <1>4, <2>1, ReturnedStays, NoCallIsValid
  <2> QED BY <2>2, <2>3
<1> QED BY <1>2, <1>5, <1>6 DEF IInv, CallInv, WroteInv

LEMMA WriteStep ==
    ASSUME IInv, NEW c \in Clients, Write(c)
    PROVE  IInv'
<1>1. /\ ClientTypes /\ HistoryInv /\ UidInv /\ MarkInv /\ ReadInv /\ CallInv /\ WroteInv
      /\ read' = read /\ seen' = seen /\ wrote' = [wrote EXCEPT ![c] = NoCall]
  BY WriteKinds DEF IInv
<1>2. PICK w \in Call :
          /\ call' = [call EXCEPT ![c] = w]
          /\ \/ history' = history /\ (w = NoCall \/ (w.op = "delete" /\ AskedFor(w)))
             \/ \E obj : Stores(obj) /\ Made(c, w, obj)
  BY WriteKinds
<1>3. ClientTypes' /\ \A d \in Clients : /\ call'[d] = call[d] \/ call'[d] = w
                                         /\ wrote'[d] = wrote[d] \/ wrote'[d] = NoCall
  <2>1. NoCall \in Call
    BY DEF NoCall, Call
  <2> QED BY <1>1, <1>2, <2>1 DEF ClientTypes
<1>4. CASE history' = history /\ (w = NoCall \/ (w.op = "delete" /\ AskedFor(w)))
  <2>1. HistoryInv' /\ UidInv' /\ MarkInv'
    <3>1. seen' \in 1 .. Len(history)
      BY <1>1 DEF HistoryInv
    <3> QED BY <1>1, <1>4, <3>1, SameStore
  <2>2. Extends
    BY <1>1, <1>4 DEF Extends, HistoryInv
  <2>3. ReadInv'
    BY <1>1, <1>4 DEF ReadInv
  <2>4. ASSUME NEW d \in Clients
        PROVE  ValidCall(call[d])' /\ Returned(wrote[d], read[d])'
    <3>1. ValidCall(call[d]) /\ Returned(wrote[d], read[d])
      BY <1>1 DEF CallInv, WroteInv
    <3>2. ValidCall(w)
      BY <1>2, <1>4, NoCallIsValid DEF ValidCall
    <3>3. ValidCall(call[d])'
      <4>1. ValidCall(w)'
        BY <1>1, <2>1, <2>2, <3>2, ValidCallStays
      <4>2. CASE call'[d] = w
        BY <4>1, <4>2 DEF ValidCall, UpdateAt, PatchAt, AskedFor
      <4>3. CASE call'[d] = call[d]
        BY <1>1, <2>1, <2>2, <3>1, <4>3, ValidCallStays DEF ValidCall
      <4> QED BY <1>3, <4>2, <4>3
    <3>4. Returned(wrote[d], read[d])'
      BY <1>1, <1>3, <2>1, <2>2, <3>1, ReturnedStays, NoCallIsValid
    <3> QED BY <3>3, <3>4
  <2> QED BY <1>3, <2>1, <2>3, <2>4 DEF IInv, CallInv, WroteInv
<1>5. ASSUME NEW obj, Stores(obj), Made(c, w, obj)
      PROVE  IInv'
  <2>1. /\ Len(history') = Len(history) + 1 /\ Len(history) \in Nat \ {0}
        /\ history'[Len(history) + 1] = obj
        /\ \A i \in 1 .. Len(history) : history'[i] = history[i]
        /\ seen \in 1 .. Len(history) /\ HistoryInv'
    BY <1>1, <1>5, StoredHistory DEF HistoryInv
  <2>2. Extends
    BY <1>1, <2>1 DEF Extends
  <2>3. ASSUME w.op \in {"update", "patch"}
        PROVE  w.uid # 0 /\ w.rv = FirstRevision + (Len(history) + 1) - 2 /\ w.uid = obj.uid
    BY <1>5, <2>1, <2>3, FirstRevisionAssumption DEF NextRevision, Made
  <2>4. ASSUME w.op = "update"
        PROVE  \E p \in 2 .. Len(history') : UpdateAt(w, p)'
    <3>1. PICK j \in 1 .. seen : read[c] = history[j]
      BY <1>1 DEF ReadInv
    <3>2. j \in 1 .. Len(history) /\ Len(history) \in 1 .. Len(history)
      BY <2>1
    <3>3. /\ Server = history[Len(history)] /\ history[Len(history)] # NoObject
          /\ history[j] = history[Len(history)] /\ w.uid = Server.uid
      BY <1>5, <2>4, <3>1 DEF Server, NoObject, Made
    <3>4. j = Len(history)
      BY <1>1, <3>2, <3>3, SameVersion
    <3>5. seen = Len(history)
      BY <2>1, <3>1, <3>4
    <3>6. history'[Len(history)].uid = w.uid /\ history'[Len(history) + 1].uid = w.uid
      BY <2>1, <2>3, <2>4, <3>2, <3>3
    <3>7. PICK q \in 2 .. Len(history') : q = Len(history) + 1
      BY <2>1
    <3>8. q - 1 = Len(history) /\ q - 1 <= seen'
      BY <1>1, <2>1, <3>5, <3>7
    <3>9. UpdateAt(w, q)'
      BY <2>3, <2>4, <3>6, <3>7, <3>8 DEF UpdateAt
    <3> QED BY <3>9
  <2>5. ASSUME w.op = "patch"
        PROVE  \E p \in 2 .. Len(history') : PatchAt(w, p)'
    <3>1. PICK q \in 2 .. Len(history') : q = Len(history) + 1
      BY <2>1
    <3>2. PatchAt(w, q)'
      BY <2>1, <2>3, <2>5, <3>1 DEF PatchAt
    <3> QED BY <3>2
  <2>6. w.op = "delete" => AskedFor(w)'
    BY <1>1, <1>5, <2>1, <2>2, CallsStay DEF Made
  <2>7. ValidCall(w)'
    BY <2>4, <2>5, <2>6 DEF ValidCall
  <2>8. \A d \in Clients : call'[d] = call[d] \/ ValidCall(call[d])'
    BY <1>3, <2>7 DEF ValidCall, UpdateAt, PatchAt, AskedFor
  <2> QED BY <1>1, <1>3, <1>5, <2>8, StoreStep
<1> QED BY <1>2, <1>4, <1>5

\* The object is gone when its last finalizer is.
LEMMA FinalizeStep ==
    ASSUME IInv, Finalize, UNCHANGED << read, wrote >>
    PROVE  IInv'
<1>1. Stores(NoObject) /\ call' = call /\ read' = read /\ wrote' = wrote
  BY DEF Finalize, Stores, NoObject, Version
<1>2. ClientTypes'
  BY <1>1 DEF IInv, ClientTypes
<1> QED BY <1>1, <1>2, StoreStep

\* What blockCreate, blockUpdate and blockDelete wait for is what a returned write needs.
LEMMA SeenIsReturned ==
    ASSUME HistoryInv, NEW w, ValidCall(w), Seen(w),
           NEW r, \E i \in 1 .. seen : r = history[i]
    PROVE  Returned(w, r)
<1>1. seen \in 1 .. Len(history) /\ FirstRevision \in Nat \ {0} /\ Len(history) \in Nat
  <2>1. seen \in 1 .. Len(history) /\ Len(history) \in Nat
    BY DEF HistoryInv
  <2> QED BY <2>1, FirstRevisionAssumption
<1>2. Cached = NoObject <=> Cached.uid = 0
  BY <1>1, VersionAt DEF Cached
<1>3. ASSUME w.op = "create"
      PROVE  \E i \in 1 .. seen : history[i].uid # 0
  <2>1. history[seen].uid # 0
    BY <1>2, <1>3 DEF Seen, Cached
  <2> QED BY <1>1, <2>1
<1>4. ASSUME w.op = "update"
      PROVE  \E p \in 2 .. Len(history) :
                 UpdateAt(w, p) /\ (p - 1 = seen => Len(Digits(w.rv - 1)) # Len(Digits(w.rv)))
  <2>1. PICK p \in 2 .. Len(history) : UpdateAt(w, p)
    BY <1>4 DEF ValidCall
  <2>2. ASSUME p - 1 = seen
        PROVE  Len(Digits(w.rv - 1)) # Len(Digits(w.rv))
    <3>1. Cached.uid = w.uid /\ w.uid # 0 /\ w.rv = FirstRevision + p - 2
      BY <2>1, <2>2 DEF UpdateAt, Cached
    <3>2. TextGeq(Cached.rv, w.rv)
      BY <1>2, <1>4, <3>1 DEF Seen
    <3>3. Cached.rv = FirstRevision + seen - 2
      BY <1>1, <1>2, <3>1, VersionAt DEF Cached
    <3>4. Cached.rv = w.rv - 1 /\ w.rv \in Nat \ {0}
      BY <1>1, <2>1, <2>2, <3>1, <3>3
    <3> QED BY <3>2, <3>4, TextOfNext
  <2> QED BY <2>1, <2>2
<1>5. ASSUME w.op = "patch"
      PROVE  \E p \in 2 .. Len(history) :
                 /\ PatchAt(w, p)
                 /\ r.uid = w.uid /\ OneLength(w) => p <= seen \/ (AskedFor(w) /\ Cached.uid # w.uid)
  <2>1. PICK p \in 2 .. Len(history) : PatchAt(w, p)
    BY <1>5 DEF ValidCall
  <2>2. ASSUME r.uid = w.uid, OneLength(w), Cached.uid = w.uid
        PROVE  p <= seen
    <3>1. w.uid # 0 /\ w.rv = FirstRevision + p - 2
      BY <2>1 DEF PatchAt
    <3>2. TextGeq(Cached.rv, w.rv)
      BY <1>2, <1>5, <2>2, <3>1 DEF Seen
    <3>3. Cached.rv = FirstRevision + seen - 2
      BY <1>1, <1>2, <2>2, <3>1, VersionAt DEF Cached
    <3>4. Len(Digits(Cached.rv)) = Len(Digits(w.rv))
      BY <1>1, <2>2 DEF OneLength, Cached
    <3>5. Cached.rv \in Nat /\ w.rv \in Nat
      <4>1. 1 <= seen /\ seen \in Nat
        BY <1>1
      <4>2. seen # 1
        BY <1>2, <2>2, <3>1 DEF HistoryInv, Cached, NoObject
      <4> QED BY <1>1, <2>1, <3>1, <3>3, <4>1, <4>2
    <3>6. Cached.rv >= w.rv
      BY <3>2, <3>4, <3>5, TextOfSameLength
    <3> QED BY <1>1, <2>1, <3>1, <3>3, <3>6
  <2>3. ASSUME r.uid = w.uid PROVE AskedFor(w)
    BY <2>1, <2>3 DEF AskedFor, PatchAt
  <2> QED BY <2>1, <2>2, <2>3
<1>6. ASSUME w.op = "delete"
      PROVE  AskedFor(w) /\ (Cached.uid # w.uid \/ Cached.deleting)
  BY <1>2, <1>6 DEF ValidCall, AskedFor, Seen
<1> QED BY <1>3, <1>4, <1>5, <1>6 DEF Returned, ValidCall

LEMMA OtherSteps ==
    ASSUME IInv, ClientTypes', history' = history, seen' \in seen .. Len(history),
           \A c \in Clients :
               /\ call'[c] = call[c] \/ call'[c] = NoCall
               /\ read'[c] = read[c] \/ (read'[c] = Cached /\ wrote'[c] = NoCall)
               /\ \/ wrote'[c] = wrote[c] \/ wrote'[c] = NoCall
                  \/ seen' = seen /\ Seen(call[c]) /\ wrote'[c] = call[c]
    PROVE  IInv'
<1>1. HistoryInv /\ UidInv /\ MarkInv /\ ReadInv /\ CallInv /\ WroteInv
  BY DEF IInv
<1>2. Len(history) \in Nat /\ seen \in 1 .. Len(history) /\ seen <= seen' /\ seen' \in 1 .. Len(history)
  BY <1>1 DEF HistoryInv
<1>3. HistoryInv' /\ UidInv' /\ MarkInv' /\ Extends
  <2>1. HistoryInv' /\ UidInv' /\ MarkInv'
    BY <1>1, <1>2, SameStore
  <2> QED BY <1>2, <2>1 DEF Extends
<1>4. ReadInv'
  <2>1. \A i \in 1 .. seen : i \in 1 .. seen'
    BY <1>2
  <2>2. seen \in 1 .. seen
    BY <1>2
  <2> QED BY <1>1, <2>1, <2>2 DEF ReadInv, Cached
<1>5. ASSUME NEW c \in Clients
      PROVE  ValidCall(call[c])' /\ Returned(wrote[c], read[c])'
  <2>1. ValidCall(call[c]) /\ Returned(wrote[c], read[c]) /\ \E i \in 1 .. seen : read[c] = history[i]
    BY <1>1 DEF CallInv, WroteInv, ReadInv
  <2>2. Seen(call[c]) => Returned(call[c], read[c])
    BY <1>1, <2>1, SeenIsReturned
  <2>3. ValidCall(call[c])'
    <3>1. CASE call'[c] = call[c]
      BY <1>1, <1>3, <2>1, <3>1, ValidCallStays DEF ValidCall
    <3>2. CASE call'[c] = NoCall
      BY <3>2, NoCallIsValid DEF ValidCall
    <3> QED BY <3>1, <3>2
  <2>4. Returned(wrote[c], read[c])'
    <3>1. CASE wrote'[c] = NoCall
      BY <3>1, NoCallIsValid DEF Returned
    <3>2. CASE read'[c] = read[c] /\ wrote'[c] = wrote[c]
      BY <1>1, <1>3, <2>1, <3>2, ReturnedStays
    <3>3. CASE read'[c] = read[c] /\ Seen(call[c]) /\ wrote'[c] = call[c]
      BY <1>1, <1>3, <2>2, <3>3, ReturnedStays
    <3> QED BY <3>1, <3>2, <3>3
  <2> QED BY <2>3, <2>4
<1> QED BY <1>3, <1>4, <1>5 DEF IInv, CallInv, WroteInv

LEMMA GetStep ==
    ASSUME IInv, NEW c \in Clients, Get(c)
    PROVE  IInv'
<1>1. /\ history' = history /\ seen' = seen /\ call' = call
      /\ read' = [read EXCEPT ![c] = Cached] /\ wrote' = [wrote EXCEPT ![c] = NoCall]
  BY DEF Get, clientVars
<1>2. /\ ClientTypes /\ seen' \in seen .. Len(history)
      /\ NoCall \in Call /\ Cached \in Version
  BY <1>1, VersionAt DEF IInv, HistoryInv, Cached, NoCall, Call
<1>3. ClientTypes'
  BY <1>1, <1>2 DEF ClientTypes
<1>4. ASSUME NEW d \in Clients
      PROVE  /\ call'[d] = call[d]
             /\ read'[d] = read[d] \/ (read'[d] = Cached /\ wrote'[d] = NoCall)
             /\ wrote'[d] = wrote[d] \/ wrote'[d] = NoCall
  BY <1>1, <1>2 DEF ClientTypes
<1> QED BY <1>1, <1>2, <1>3, <1>4, OtherSteps

LEMMA PollStep ==
    ASSUME IInv, NEW c \in Clients, Poll(c)
    PROVE  IInv'
<1>1. /\ history' = history /\ seen' = seen /\ read' = read
      /\ call' = [call EXCEPT ![c] = NoCall]
      /\ wrote' = [wrote EXCEPT ![c] = IF Seen(call[c]) THEN call[c] ELSE NoCall]
  BY DEF Poll, Polling, PollSucceeds, PollTimesOut, Return, storeVars
<1>2. /\ ClientTypes /\ seen' \in seen .. Len(history)
      /\ NoCall \in Call /\ call[c] \in Call
  BY <1>1 DEF IInv, HistoryInv, ClientTypes, NoCall, Call
<1>3. ClientTypes'
  BY <1>1, <1>2 DEF ClientTypes
<1>4. ASSUME NEW d \in Clients
      PROVE  /\ call'[d] = call[d] \/ call'[d] = NoCall
             /\ read'[d] = read[d]
             /\ wrote'[d] = wrote[d] \/ wrote'[d] = NoCall \/ (Seen(call[d]) /\ wrote'[d] = call[d])
  BY <1>1, <1>2 DEF ClientTypes
<1> QED BY <1>1, <1>2, <1>3, <1>4, OtherSteps

LEMMA DeliverStep ==
    ASSUME IInv, Deliver, UNCHANGED << read, wrote >>
    PROVE  IInv'
<1>1. /\ history' = history /\ call' = call /\ read' = read /\ wrote' = wrote
      /\ seen' \in seen .. Len(history)
  BY DEF Deliver, IInv, HistoryInv
<1>2. ClientTypes'
  BY <1>1 DEF IInv, ClientTypes
<1> QED BY <1>1, <1>2, OtherSteps

-----------------------------------------------------------------------------
(* The theorems.                                                            *)

LEMMA InitInvariant == Init => IInv
<1> SUFFICES ASSUME Init PROVE IInv
  OBVIOUS
<1>1. /\ history = << NoObject >> /\ seen = 1
      /\ call = [c \in Clients |-> NoCall]
      /\ read = [c \in Clients |-> NoObject] /\ wrote = [c \in Clients |-> NoCall]
  BY DEF Init, ClientInit, StoreInit
<1>2. NoObject \in Version /\ NoCall \in Call /\ NoCall.op = "none" /\ NoObject.uid = 0
  BY DEF NoObject, Version, NoCall, Call
<1>3. Len(history) = 1 /\ history[1] = NoObject /\ \A i \in 1 .. 1 : i = 1
  BY <1>1
<1>4. ClientTypes
  BY <1>1, <1>2 DEF ClientTypes
<1>5. HistoryInv
  BY <1>1, <1>2, <1>3 DEF HistoryInv
<1>6. UidInv
  <2>1. Cardinality(Turns) \in Nat
    BY <1>5, TurnsAreFinite
  <2> QED BY <1>2, <1>3, <2>1 DEF UidInv
<1>7. MarkInv
  BY <1>2, <1>3 DEF MarkInv
<1>8. ReadInv /\ CallInv /\ WroteInv
  BY <1>1, <1>3, NoCallIsValid DEF ReadInv, CallInv, WroteInv
<1> QED BY <1>4, <1>5, <1>6, <1>7, <1>8 DEF IInv

LEMMA NextInvariant == IInv /\ [Next]_vars => IInv'
<1> SUFFICES ASSUME IInv, [Next]_vars PROVE IInv'
  OBVIOUS
<1>1. CASE UNCHANGED vars
  BY <1>1 DEF vars, IInv, ClientTypes, HistoryInv, UidInv, MarkInv, Turns, ReadInv, CallInv, WroteInv,
              ValidCall, Returned, UpdateAt, PatchAt, AskedFor, OneLength, Cached
<1>2. CASE Deliver /\ UNCHANGED << read, wrote >>
  BY <1>2, DeliverStep
<1>f. CASE Finalize /\ UNCHANGED << read, wrote >>
  BY <1>f, FinalizeStep
<1>3. ASSUME NEW c \in Clients, Get(c) PROVE IInv'
  BY <1>3, GetStep
<1>4. ASSUME NEW c \in Clients, Write(c) PROVE IInv'
  BY <1>4, WriteStep
<1>5. ASSUME NEW c \in Clients, Poll(c) PROVE IInv'
  BY <1>5, PollStep
<1> QED BY <1>1, <1>2, <1>f, <1>3, <1>4, <1>5 DEF Next

\* The revisions and the uids of the versions, and what every blocked or returned write
\* knows of them.
THEOREM Invariant == Spec => []IInv
BY InitInvariant, NextInvariant, PTL DEF Spec

LEMMA InvariantBlocks == IInv => WritesBlockUntilCached
<1> SUFFICES ASSUME IInv, NEW c \in Clients
             PROVE  /\ wrote[c].op = "update" /\ Len(Digits(Cached.rv)) = Len(Digits(wrote[c].rv)) =>
                          CacheCaughtUp(c)
                    /\ wrote[c].op = "create" /\ wrote[c].uid = 1 => CreationCached(c)
                    /\ wrote[c].op = "patch" /\ read[c].uid = wrote[c].uid /\ OneLength(wrote[c]) =>
                          CacheCaughtUp(c)
                    /\ wrote[c].op = "delete" => Cached.uid # wrote[c].uid \/ Cached.deleting
  <2>1. IInv => DOMAIN history = 1 .. Len(history)
    BY DEF IInv, HistoryInv
  <2> QED BY <2>1 DEF WritesBlockUntilCached, UpdateBlocksWithinDigits, PatchBlocksWithinDigits,
                      FirstCreateBlocksUntilCached, DeleteBlocksUntilCached, OneLength
<1>1. HistoryInv /\ UidInv /\ Returned(wrote[c], read[c])
  BY DEF IInv, WroteInv
<1>2. seen \in 1 .. Len(history) /\ Len(history) \in Nat /\ FirstRevision \in Nat
  <2>1. seen \in 1 .. Len(history) /\ Len(history) \in Nat
    BY <1>1 DEF HistoryInv
  <2> QED BY <2>1, FirstRevisionAssumption
<1>3. ASSUME wrote[c].op = "update", Len(Digits(Cached.rv)) = Len(Digits(wrote[c].rv))
      PROVE  CacheCaughtUp(c)
  <2>1. SUFFICES ASSUME Cached # NoObject
                 PROVE  Cached.rv >= wrote[c].rv
    BY DEF CacheCaughtUp
  <2>2. PICK p \in 2 .. Len(history) :
            /\ UpdateAt(wrote[c], p)
            /\ p - 1 = seen => Len(Digits(wrote[c].rv - 1)) # Len(Digits(wrote[c].rv))
    BY <1>1, <1>3 DEF Returned
  <2>3. Cached.rv = FirstRevision + seen - 2
    BY <1>1, <1>2, <2>1, VersionAt DEF Cached
  <2>4. wrote[c].rv = FirstRevision + p - 2 /\ p - 1 <= seen
    BY <2>2 DEF UpdateAt
  <2>5. CASE p - 1 = seen
    <3>1. Cached.rv = wrote[c].rv - 1
      BY <1>2, <2>2, <2>3, <2>4, <2>5
    <3> QED BY <1>3, <2>2, <2>5, <3>1
  <2>6. CASE p - 1 # seen
    BY <1>2, <2>2, <2>3, <2>4, <2>6
  <2> QED BY <2>5, <2>6
<1>4. ASSUME wrote[c].op = "create", wrote[c].uid = 1
      PROVE  CreationCached(c)
  <2>1. PICK j \in 1 .. seen : history[j].uid # 0
    BY <1>1, <1>4 DEF Returned
  <2>2. PICK i \in 1 .. j : history[i].uid = 1
    <3>1. j \in 1 .. Len(history)
      BY <1>2
    <3>2. \A k \in 1 .. Len(history) : history[k].uid # 0 => \E i \in 1 .. k : history[i].uid = 1
      BY <1>1 DEF UidInv
    <3> QED BY <2>1, <3>1, <3>2
  <2>3. i \in 1 .. seen
    BY <1>2, <2>1, <2>2
  <2> QED BY <1>4, <2>2, <2>3 DEF CreationCached
<1>5. wrote[c].op = "delete" => Cached.uid # wrote[c].uid \/ Cached.deleting
  BY <1>1 DEF Returned
<1>6. ASSUME wrote[c].op = "patch", read[c].uid = wrote[c].uid, OneLength(wrote[c])
      PROVE  CacheCaughtUp(c)
  <2>1. SUFFICES ASSUME Cached # NoObject, Cached.uid = wrote[c].uid
                 PROVE  Cached.rv >= wrote[c].rv
    BY DEF CacheCaughtUp
  <2>2. PICK p \in 2 .. Len(history) : PatchAt(wrote[c], p) /\ p <= seen
    BY <1>1, <1>6, <2>1 DEF Returned
  <2>3. Cached.rv = FirstRevision + seen - 2
    BY <1>1, <1>2, <2>1, VersionAt DEF Cached
  <2>4. wrote[c].rv = FirstRevision + p - 2
    BY <2>2 DEF PatchAt
  <2> QED BY <1>2, <2>2, <2>3, <2>4
<1> QED BY <1>3, <1>4, <1>5, <1>6

\* Whatever other clients write, delete and create meanwhile, a write that returns without an
\* error is seen by the reads that follow (client.go, blockCreate, blockUpdate, blockDelete).
THEOREM WritesBlock == Spec => []WritesBlockUntilCached
BY Invariant, InvariantBlocks, PTL

\* An update is stored only when its client has read the version that it replaces.
LEMMA StepLosesNothing ==
    ASSUME IInv, Next, NEW c \in Clients,
           Len(history') > Len(history), call'[c].op = "update", call[c] = NoCall
    PROVE  read[c] = Server
<1>1. /\ ClientTypes /\ Len(history) \in Nat /\ NoCall.op = "none"
  BY DEF IInv, HistoryInv, NoCall
<1>2. ASSUME history' = history PROVE FALSE
  BY <1>1, <1>2
<1>f. ~Finalize
  BY <1>1 DEF Finalize
<1>3. PICK d \in Clients : Write(d)
  BY <1>2, <1>f DEF Next, Deliver, Get, clientVars, Poll, Polling, PollSucceeds, PollTimesOut, storeVars
<1>4. PICK w \in Call :
          /\ call' = [call EXCEPT ![d] = w]
          /\ w.op = "update" => read[d] = Server
  BY <1>2, <1>3, WriteKinds DEF Made
<1>5. c = d
  BY <1>1, <1>4 DEF ClientTypes
<1>6. call'[c] = w
  BY <1>1, <1>4, <1>5 DEF ClientTypes
<1> QED BY <1>4, <1>5, <1>6

\* The callers that retry after a conflict write only over versions that they have read.
THEOREM UpdatesLoseNothing == Spec => NoLostUpdate
<1>1. IInv /\ [Next]_vars =>
          [ \A c \in Clients :
              Len(history') > Len(history) /\ call'[c].op = "update" /\ call[c] = NoCall
                  => read[c] = Server ]_vars
  BY StepLosesNothing
<1> QED BY <1>1, Invariant, PTL DEF Spec, NoLostUpdate
=============================================================================
