-------------------------- MODULE AdmissionProofs --------------------------
(***************************************************************************)
(* The log of denied requests, for any number of requests that race for it,  *)
(* any policies, edits of them and deletions of the log: a request is logged  *)
(* once, no entry but the oldest ones is lost, the summary of a report is in  *)
(* step with its results, and an entry tells what was answered.              *)
(***************************************************************************)
EXTENDS Admission, FiniteSetTheorems, SequenceTheorems, TLAPS

-----------------------------------------------------------------------------
(* The inductive invariant.                                                 *)

ViolationPolicies == {Unset, "Deny", "Warn", "Dry"}
Requests == Clients \cup (1 .. Earlier)
Violation == [request : Requests, action : ViolationPolicies]
Result == [request : Requests, status : Report!Statuses]
ReportType == [results : Seq(Result), summary : [Report!Statuses -> Int]]

\* What the object and its entries are.
LogType == IF reports THEN ReportType ELSE Seq(Violation)
EntryType == IF reports THEN Result ELSE Violation
Version == [uid : Nat, rv : Int, val : LogType, deleting : BOOLEAN]
Stored == Version \cup {NoObject}

\* The revision of a version tells its place.
HistoryInv ==
    /\ history \in Seq(Stored) /\ Len(history) \in Nat \ {0}
    /\ seen \in 1 .. Len(history)
    /\ history[1] = NoObject
    /\ \A i \in 1 .. Len(history) :
          history[i] = NoObject \/ (history[i].uid # 0 /\ history[i].rv = FirstRevision + i - 2)

\* What is read is a version; a goroutine without retries left has met a conflict.
ControlOf(c) ==
    /\ answer[c] = "none" <=> pc[c] \in {"find", "handle"}
    /\ pc[c] = "creating" <=> call[c].op = "create"
    /\ pc[c] = "updating" <=> call[c].op = "update"
    /\ retryCounter[c] = 0 => result[c] = "conflict" /\ pc[c] \in {"call", "done"}
    /\ ~reports => retryCounter[c] = RetryCounter
    /\ pc[c] = "update" => object[c] # NoObject
    /\ object[c] = NoObject \/ \E j \in 1 .. Len(history) : object[c] = history[j]

ControlInv ==
    /\ reports \in BOOLEAN
    /\ pc \in [Clients -> Labels] /\ retryCounter \in [Clients -> 0 .. RetryCounter]
    /\ DOMAIN call = Clients /\ DOMAIN result = Clients /\ DOMAIN object = Clients
    /\ DOMAIN spec = Clients /\ DOMAIN outcome = Clients /\ DOMAIN answer = Clients
    /\ \A c \in Clients : ControlOf(c)

Writing == {"call", "create", "creating", "update", "updating"}
Late == {"updating", "done"}

\* The policy that was found, which had been accepted, denied the request, or failed on it.
Denied(c) ==
    /\ spec[c] # NoPolicy /\ ValidateJsPolicy(spec[c])
    /\ answer[c] = Response(spec[c], "denied")

PolicyInv ==
    /\ policy = NoPolicy \/ (policy \in Policies /\ ValidateJsPolicy(policy))
    /\ \A c \in Clients :
          /\ pc[c] \in {"find", "handle"} => outcome[c] = "none"
          /\ pc[c] = "handle" => spec[c] # NoPolicy /\ ValidateJsPolicy(spec[c])
          /\ pc[c] \in Writing => Denied(c)

OwnEntry(c) == IF reports THEN Report!buildResult(c) ELSE Audit!buildViolation(c)

\* Version i has an entry of c.
Has(c, i) == \E k \in 1 .. Len(LogEntries(i)) : LogEntries(i)[k].request = c

\* Request c has written its one entry only when it is about to end.
EntryOf(c) ==
    /\ \A i \in 1 .. Len(history) : \A k \in 1 .. Len(LogEntries(i)) :
          LogEntries(i)[k].request = c =>
              pc[c] \in Late /\ Denied(c) /\ LogEntries(i)[k] = OwnEntry(c)
    /\ \A i, j \in 1 .. Len(history) : Newest(c, i) /\ Newest(c, j) => i = j
    /\ pc[c] = "updating" => \E i \in 1 .. Len(history) : Has(c, i)
    /\ pc[c] = "done" /\ outcome[c] \in {"deny", "error"} /\ spec[c].auditPolicy # "Skip"
          => \/ result[c] \in {"error", "notfound", "conflict"}
             \/ \E i \in 1 .. Len(history) : Has(c, i)

EntryInv == \A c \in Clients : EntryOf(c)

\* Log new is log old and an entry of c, without the cut oldest ones.
Extended(c, old, new) ==
    LET cut == Len(old) + 1 - Len(new)
    IN /\ new # << >> /\ new[Len(new)].request = c
       /\ SubSeq(new, 1, Len(new) - 1) = SubSeq(old, cut + 1, Len(old))
       /\ cut > 0 => Len(old) >= Size(c) /\ (cut = 1 \/ Len(new) = Size(c))
       /\ Len(new) > Size(c) => cut = 1 /\ reports

\* Every version of the log was made of the one before it, by a goroutine that is about to end.
ChainInv ==
    \A i \in 2 .. Len(history) :
        history[i].uid = history[i - 1].uid /\ history[i] # NoObject =>
            \E c \in Clients : /\ pc[c] \in Late
                               /\ Extended(c, LogEntries(i - 1), LogEntries(i))

\* The results of a status, and a summary that counts them.
Of(results, s) == {k \in 1 .. Len(results) : results[k].status = s}
Counted(val) == \A s \in Report!Statuses : val.summary[s] = Cardinality(Of(val.results, s))

SummaryInv == reports => \A i \in 1 .. Len(history) : history[i] # NoObject => Counted(history[i].val)

IInv == HistoryInv /\ ControlInv /\ PolicyInv /\ EntryInv /\ ChainInv /\ SummaryInv

-----------------------------------------------------------------------------
(* The versions of the log.                                                 *)

LEMMA ReportObject ==
    /\ Report!NoObject = NoObject /\ Report!Server = Server /\ Report!Cached = Cached
    /\ Audit!NoObject = NoObject /\ Audit!Server = Server /\ Audit!Cached = Cached
BY DEF Report!NoObject, NoObject, Report!Server, Server, Report!Cached, Cached, Audit!NoObject,
       Audit!Server, Audit!Cached

LEMMA VersionAt ==
    ASSUME HistoryInv, NEW i \in 1 .. Len(history)
    PROVE  /\ history[i] \in Stored
           /\ history[i] # NoObject => /\ history[i].uid \in Nat \ {0} /\ history[i].rv \in Int
                                       /\ history[i].val \in LogType /\ history[i].deleting \in BOOLEAN
                                       /\ history[i].rv = FirstRevision + i - 2
           /\ history[i] = NoObject <=> history[i].uid = 0
<1>1. history[i] \in Stored
  BY ElementOfSeq DEF HistoryInv
<1>2. NoObject.uid = 0
  BY DEF NoObject
<1>3. CASE history[i] = NoObject
  BY <1>1, <1>2, <1>3
<1>4. CASE history[i] # NoObject
  <2>1. history[i] \in Version
    BY <1>1, <1>4 DEF Stored
  <2> QED BY <1>1, <1>4, <2>1 DEF HistoryInv, Version
<1> QED BY <1>3, <1>4

\* Two versions with one revision are the same.
LEMMA SameVersion ==
    ASSUME HistoryInv, NEW i \in 1 .. Len(history), NEW j \in 1 .. Len(history),
           history[i] # NoObject, history[j] # NoObject, history[i].rv = history[j].rv
    PROVE  i = j
<1>1. Len(history) \in Nat /\ FirstRevision \in Int
  BY FirstRevisionAssumption DEF HistoryInv
<1> QED BY <1>1, VersionAt

\* The log of a version.
LogOf(val) == IF reports THEN val.results ELSE val

LEMMA LogAt ==
    ASSUME HistoryInv, ControlInv, NEW i \in 1 .. Len(history)
    PROVE  /\ LogEntries(i) \in Seq(EntryType) /\ Len(LogEntries(i)) \in Nat
           /\ history[i] = NoObject => LogEntries(i) = << >> /\ Len(LogEntries(i)) = 0
           /\ history[i] # NoObject => LogEntries(i) = LogOf(history[i].val)
<1>1. CASE history[i] = NoObject
  <2>1. LogEntries(i) = << >>
    BY <1>1, ReportObject DEF LogEntries, Report!Results, Audit!Entries
  <2> QED BY <1>1, <2>1, EmptySeq
<1>2. CASE history[i] # NoObject
  <2>1. LogEntries(i) = LogOf(history[i].val)
    BY <1>2, ReportObject DEF LogEntries, Report!Results, Audit!Entries, LogOf
  <2>2. history[i].val \in LogType
    BY <1>2, VersionAt
  <2>3. LogOf(history[i].val) \in Seq(EntryType)
    BY <2>2 DEF LogType, EntryType, LogOf, ReportType
  <2>4. Len(LogEntries(i)) \in Nat
    BY <2>1, <2>3, LenProperties
  <2> QED BY <1>2, <2>1, <2>3, <2>4
<1> QED BY <1>1, <1>2

LEMMA EntriesAreHad ==
    ASSUME HistoryInv, ControlInv, NEW i \in 1 .. Len(history), NEW c
    PROVE  /\ EntriesOf(c, i) # {} <=> Has(c, i)
           /\ \A e \in EntriesOf(c, i) :
                 \E k \in 1 .. Len(LogEntries(i)) : e = LogEntries(i)[k] /\ e.request = c
<1>1. DOMAIN LogEntries(i) = 1 .. Len(LogEntries(i))
  BY LogAt, LenProperties
<1>2. \A e \in EntriesOf(c, i) :
          \E k \in 1 .. Len(LogEntries(i)) : e = LogEntries(i)[k] /\ e.request = c
  BY <1>1 DEF EntriesOf
<1>3. ASSUME NEW k \in 1 .. Len(LogEntries(i)), LogEntries(i)[k].request = c
      PROVE  LogEntries(i)[k] \in EntriesOf(c, i)
  BY <1>1, <1>3 DEF EntriesOf
<1> QED BY <1>2, <1>3 DEF Has

-----------------------------------------------------------------------------
(* What the invariant says.                                                 *)

LEMMA InvariantTypes == IInv => TypeOK
BY DEF IInv, HistoryInv, ControlInv, ControlOf, TypeOK

LEMMA InvariantOnce == IInv => LoggedOnce
<1> SUFFICES ASSUME IInv, NEW c \in Clients
             PROVE  Cardinality({i \in 1 .. Len(history) : Newest(c, i)}) <= 1
  BY DEF LoggedOnce
<1> DEFINE S == {i \in 1 .. Len(history) : Newest(c, i)}
<1>1. \A i, j \in S : i = j
  BY DEF IInv, EntryInv, EntryOf
<1> HIDE DEF S
<1>2. CASE S = {}
  <2>1. Cardinality(S) = 0
    BY <1>2, FS_EmptySet
  <2> QED BY <2>1 DEF S
<1>3. CASE S # {}
  <2>1. PICK i \in S : TRUE
    BY <1>3
  <2>2. S = {i}
    BY <1>1, <2>1
  <2>3. Cardinality(S) = 1
    BY <2>2, FS_Singleton
  <2> QED BY <2>3 DEF S
<1> QED BY <1>2, <1>3

LEMMA InvariantChain == IInv => NothingOverwritten
BY DEF IInv, ChainInv, NothingOverwritten, Extended

LEMMA InvariantLogged == IInv => DenialIsLogged
<1> SUFFICES ASSUME IInv, NEW c \in Clients,
                    outcome[c] \in {"deny", "error"}, spec[c].auditPolicy # "Skip", pc[c] = "done"
             PROVE  \/ result[c] \in {"error", "notfound", "conflict"}
                    \/ \E i \in 1 .. Len(history) : EntriesOf(c, i) # {}
  BY DEF DenialIsLogged
<1>1. HistoryInv /\ ControlInv /\ EntryOf(c)
  BY DEF IInv, EntryInv
<1>2. \/ result[c] \in {"error", "notfound", "conflict"}
      \/ \E i \in 1 .. Len(history) : Has(c, i)
  BY <1>1 DEF EntryOf
<1> QED BY <1>1, <1>2, EntriesAreHad

\* The status of a result of a policy that was accepted.
LEMMA StatusOf ==
    ASSUME NEW v \in ViolationPolicies
    PROVE  /\ Report!mapStatus(v) \in Report!Statuses
           /\ Report!mapStatus(v) = "fail" <=> v \in {Unset, "Deny"}
           /\ v \in {Unset, "Deny"} <=> v \notin {"Dry", "Warn"}
<1>1. Unset # "Deny" /\ Unset # "Warn" /\ Unset # "Dry"
  BY AdmissionAssumption
<1>2. v = Unset \/ v = "Deny" \/ v = "Warn" \/ v = "Dry"
  BY DEF ViolationPolicies
<1>3. CASE v = Unset \/ v = "Deny"
  <2>1. Report!mapStatus(v) = "fail"
    BY <1>1, <1>3 DEF Report!mapStatus
  <2> QED BY <1>1, <1>3, <2>1 DEF Report!Statuses
<1>4. CASE v = "Warn"
  <2>1. Report!mapStatus(v) = "warn"
    BY <1>1, <1>4 DEF Report!mapStatus
  <2> QED BY <1>1, <1>4, <2>1 DEF Report!Statuses
<1>5. CASE v = "Dry"
  <2>1. Report!mapStatus(v) = "skip"
    BY <1>1, <1>5 DEF Report!mapStatus
  <2> QED BY <1>1, <1>5, <2>1 DEF Report!Statuses
<1> QED BY <1>2, <1>3, <1>4, <1>5

LEMMA OwnEntryIs ==
    ASSUME NEW c \in Clients, Denied(c), reports \in BOOLEAN
    PROVE  /\ OwnEntry(c) \in EntryType /\ OwnEntry(c).request = c
           /\ spec[c].violationPolicy \in ViolationPolicies
           /\ reports => OwnEntry(c).status = Report!mapStatus(spec[c].violationPolicy)
           /\ ~reports => OwnEntry(c).action = spec[c].violationPolicy
<1>1. spec[c] # NoPolicy /\ spec[c].violationPolicy \in ViolationPolicies
  BY DEF Denied, ValidateJsPolicy, validateValidatingWebhook, ViolationPolicies
<1>2. action[c] = spec[c].violationPolicy
  BY <1>1 DEF action
<1>3. c \in Requests
  BY DEF Requests
<1>4. CASE reports
  <2>1. OwnEntry(c) = [request |-> c, status |-> Report!mapStatus(spec[c].violationPolicy)]
    BY <1>2, <1>4 DEF OwnEntry, Report!buildResult
  <2>2. Report!mapStatus(spec[c].violationPolicy) \in Report!Statuses
    BY <1>1, StatusOf
  <2> QED BY <1>1, <1>3, <1>4, <2>1, <2>2 DEF EntryType, Result
<1>5. CASE ~reports
  <2>1. OwnEntry(c) = [request |-> c, action |-> spec[c].violationPolicy]
    BY <1>2, <1>5 DEF OwnEntry, Audit!buildViolation
  <2> QED BY <1>1, <1>3, <1>5, <2>1 DEF EntryType, Violation
<1> QED BY <1>4, <1>5

LEMMA InvariantAnswer == IInv => EntryTellsAnswer
<1> SUFFICES ASSUME IInv, NEW i \in 2 .. Len(history), NEW c \in Clients, NEW e \in EntriesOf(c, i)
             PROVE  answer[c] = (IF (IF reports THEN e.status = "fail" ELSE e.action \in {Unset, "Deny"})
                                 THEN "denied" ELSE "allowed")
  BY DEF EntryTellsAnswer
<1> DEFINE v == spec[c].violationPolicy
<1>1. HistoryInv /\ ControlInv /\ EntryOf(c) /\ Len(history) \in Nat /\ reports \in BOOLEAN
  BY DEF IInv, EntryInv, HistoryInv, ControlInv
<1>2. i \in 1 .. Len(history)
  BY <1>1
<1>3. PICK k \in 1 .. Len(LogEntries(i)) : e = LogEntries(i)[k] /\ e.request = c
  BY <1>1, <1>2, EntriesAreHad
<1>4. Denied(c) /\ e = OwnEntry(c)
  BY <1>1, <1>2, <1>3 DEF EntryOf
<1>5. v \in ViolationPolicies /\ answer[c] = IF v \in {"Dry", "Warn"} THEN "allowed" ELSE "denied"
  BY <1>1, <1>4, OwnEntryIs DEF Denied, Response
<1>6. (IF reports THEN e.status = "fail" ELSE e.action \in {Unset, "Deny"}) <=> v \in {Unset, "Deny"}
  BY <1>1, <1>4, <1>5, OwnEntryIs, StatusOf
<1> HIDE DEF v
<1> QED BY <1>5, <1>6, StatusOf

-----------------------------------------------------------------------------
(* Entries are added.                                                       *)

\* Log new is log old and entry e, without the cut oldest ones.
Added(old, e, cut, new) ==
    /\ cut \in 0 .. Len(old) /\ new \in Seq(EntryType) /\ Len(new) = Len(old) + 1 - cut
    /\ \A k \in 1 .. Len(new) - 1 : new[k] = old[cut + k]
    /\ new[Len(new)] = e

LEMMA AddedByCutting ==
    ASSUME NEW old \in Seq(EntryType), NEW e \in EntryType, NEW cut \in 0 .. Len(old)
    PROVE  Added(old, e, cut, SubSeq(Append(old, e), cut + 1, Len(old) + 1))
<1> DEFINE n == Len(old)
           t == Append(old, e)
           new == SubSeq(t, cut + 1, n + 1)
<1>1. n \in Nat /\ cut \in 0 .. n
  BY LenProperties
<1>2. /\ \A k \in 1 .. n + 1 : t[k] \in EntryType
      /\ \A k \in 1 .. n : t[k] = old[k]
      /\ t[n + 1] = e
  <2>1. t \in Seq(EntryType) /\ Len(t) = n + 1 /\ (\A k \in 1 .. n : t[k] = old[k]) /\ t[n + 1] = e
    BY AppendProperties
  <2> HIDE DEF n, t
  <2> QED BY <2>1, ElementOfSeq
<1> HIDE DEF n, t
<1>3. \A k \in cut + 1 .. n + 1 : t[k] \in EntryType
  BY <1>1, <1>2
<1>4. /\ new \in Seq(EntryType) /\ Len(new) = n + 1 - cut
      /\ \A k \in 1 .. n + 1 - cut : new[k] = t[cut + k]
  <2>1. /\ new \in Seq(EntryType)
        /\ Len(new) = IF cut + 1 <= n + 1 THEN n + 1 - (cut + 1) + 1 ELSE 0
        /\ \A k \in 1 .. n + 1 - (cut + 1) + 1 : new[k] = t[cut + 1 + k - 1]
    BY <1>1, <1>3, SubSeqProperties
  <2> HIDE DEF new
  <2> QED BY <1>1, <2>1
<1> HIDE DEF new
<1>5. \A k \in 1 .. Len(new) - 1 : new[k] = old[cut + k]
  BY <1>1, <1>2, <1>4
<1>6. new[Len(new)] = e
  BY <1>1, <1>2, <1>4
<1>7. Added(old, e, cut, new)
  BY <1>1, <1>4, <1>5, <1>6 DEF Added, n
<1> QED BY <1>7 DEF new, n, t

LEMMA AddedIsExtended ==
    ASSUME NEW c, NEW old \in Seq(EntryType), NEW e \in EntryType, e.request = c, NEW cut, NEW new,
           Added(old, e, cut, new), Size(c) \in Nat,
           cut > 0 => Len(old) >= Size(c) /\ (cut = 1 \/ Len(new) = Size(c)),
           Len(new) > Size(c) => cut = 1 /\ reports
    PROVE  Extended(c, old, new)
<1> DEFINE n == Len(old)
           m == Len(new)
           a == SubSeq(new, 1, m - 1)
           b == SubSeq(old, cut + 1, n)
<1>1. n \in Nat /\ cut \in 0 .. n /\ m = n + 1 - cut /\ m \in Nat \ {0}
  BY LenProperties DEF Added
<1>2. new \in Seq(EntryType) /\ new # << >>
  BY <1>1, EmptySeq DEF Added
<1>3. /\ \A k \in 1 .. m : new[k] \in EntryType
      /\ \A k \in 1 .. n : old[k] \in EntryType
  BY <1>2, ElementOfSeq
<1>4. /\ \A k \in 1 .. m - 1 : new[k] = old[cut + k]
      /\ new[m] = e
  BY DEF Added
<1> HIDE DEF n, m
<1>5. a \in Seq(EntryType) /\ Len(a) = m - 1 /\ \A k \in 1 .. m - 1 : a[k] = new[k]
  <2>1. \A k \in 1 .. m - 1 : new[k] \in EntryType
    BY <1>1, <1>3
  <2>2. /\ a \in Seq(EntryType) /\ Len(a) = IF 1 <= m - 1 THEN m - 1 - 1 + 1 ELSE 0
        /\ \A k \in 1 .. m - 1 - 1 + 1 : a[k] = new[1 + k - 1]
    BY <1>1, <2>1, SubSeqProperties
  <2>3. m - 1 - 1 + 1 = m - 1 /\ (IF 1 <= m - 1 THEN m - 1 - 1 + 1 ELSE 0) = m - 1
    BY <1>1
  <2>4. \A k \in 1 .. m - 1 : 1 + k - 1 = k
    BY <1>1
  <2> HIDE DEF a
  <2> QED BY <2>2, <2>3, <2>4
<1>6. b \in Seq(EntryType) /\ Len(b) = m - 1 /\ \A k \in 1 .. m - 1 : b[k] = old[cut + k]
  <2>1. \A k \in cut + 1 .. n : old[k] \in EntryType
    BY <1>1, <1>3
  <2>2. /\ b \in Seq(EntryType) /\ Len(b) = IF cut + 1 <= n THEN n - (cut + 1) + 1 ELSE 0
        /\ \A k \in 1 .. n - (cut + 1) + 1 : b[k] = old[cut + 1 + k - 1]
    BY <1>1, <2>1, SubSeqProperties
  <2> HIDE DEF b
  <2> QED BY <1>1, <2>2
<1>7. a = b
  <2>1. \A k \in 1 .. Len(a) : a[k] = b[k]
    <3> HIDE DEF a, b
    <3> QED BY <1>4, <1>5, <1>6
  <2> HIDE DEF a, b
  <2> QED BY <1>5, <1>6, <2>1, SeqEqual
<1>8. n + 1 - m = cut
  BY <1>1
<1> QED BY <1>2, <1>4, <1>7, <1>8 DEF Extended, n, m

-----------------------------------------------------------------------------
(* What a goroutine writes.                                                 *)

LEMMA OfIsFinite ==
    ASSUME NEW results, Len(results) \in Nat, NEW s
    PROVE  IsFiniteSet(Of(results, s)) /\ Cardinality(Of(results, s)) \in Nat
<1>1. IsFiniteSet(1 .. Len(results))
  BY FS_Interval
<1> QED BY <1>1, FS_Subset, FS_CardinalityType DEF Of

\* The new entry is counted.
LEMMA CountOfLast ==
    ASSUME NEW n \in Nat, NEW T \in SUBSET (1 .. n), NEW S, NEW b \in BOOLEAN,
           S = IF b THEN T \cup {n + 1} ELSE T
    PROVE  Cardinality(T) \in Nat /\ Cardinality(S) = Cardinality(T) + IF b THEN 1 ELSE 0
<1>1. IsFiniteSet(T)
  <2>1. IsFiniteSet(1 .. n)
    BY FS_Interval
  <2> QED BY <2>1, FS_Subset
<1>2. Cardinality(T) \in Nat
  BY <1>1, FS_CardinalityType
<1>3. n + 1 \notin T
  OBVIOUS
<1>4. b => Cardinality(S) = Cardinality(T) + 1
  BY <1>1, <1>3, FS_AddElement
<1> QED BY <1>2, <1>4

LEMMA CountAdded ==
    ASSUME reports, NEW old \in Seq(EntryType), NEW e \in EntryType, NEW cut \in {0, 1}, NEW new,
           Added(old, e, cut, new), NEW s
    PROVE  /\ Cardinality(Of(old, s)) \in Nat
           /\ Cardinality(Of(new, s)) =
                 Cardinality(Of(old, s)) + (IF e.status = s THEN 1 ELSE 0)
                    - (IF cut = 1 /\ old[1].status = s THEN 1 ELSE 0)
<1> DEFINE n == Len(old)
           m == Len(new)
           b == e.status = s
<1>1. n \in Nat /\ cut \in 0 .. n /\ m = n + 1 - cut /\ m \in Nat
  BY LenProperties DEF Added
<1>2. (\A k \in 1 .. m - 1 : new[k] = old[cut + k]) /\ new[m] = e
  BY DEF Added
<1>3. Of(old, s) = {k \in 1 .. n : old[k].status = s} /\ Of(new, s) = {k \in 1 .. m : new[k].status = s}
  BY DEF Of
<1>4. IsFiniteSet(Of(old, s)) /\ Cardinality(Of(old, s)) \in Nat
  BY <1>1, OfIsFinite
<1> DEFINE T == {k \in 1 .. m - 1 : old[cut + k].status = s}
<1>5. Of(new, s) = IF b THEN T \cup {m - 1 + 1} ELSE T
  <2> HIDE DEF n, m
  <2>1. \A k \in 1 .. m - 1 : k \in Of(new, s) <=> k \in T
    BY <1>1, <1>2, <1>3
  <2>2. m \in Of(new, s) <=> b
    BY <1>1, <1>2, <1>3
  <2>3. /\ \A k \in Of(new, s) : k \in 1 .. m - 1 \/ k = m
        /\ \A k \in T : k \in 1 .. m - 1
        /\ m - 1 + 1 = m
    BY <1>1, <1>3
  <2>4. m \notin 1 .. m - 1
    BY <1>1
  <2> HIDE DEF T, b
  <2>5. CASE b
    <3>1. Of(new, s) = T \cup {m}
      BY <2>1, <2>2, <2>3, <2>4, <2>5
    <3> QED BY <2>3, <2>5, <3>1
  <2>6. CASE ~b
    <3>1. Of(new, s) = T
      BY <2>1, <2>2, <2>3, <2>4, <2>6
    <3> QED BY <2>6, <3>1
  <2> QED BY <2>5, <2>6
<1>6. m - 1 \in Nat /\ T \in SUBSET (1 .. m - 1) /\ b \in BOOLEAN
  BY <1>1
<1>7. Cardinality(T) \in Nat /\ Cardinality(Of(new, s)) = Cardinality(T) + IF b THEN 1 ELSE 0
  <2> HIDE DEF n, m, b, T
  <2> QED BY <1>5, <1>6, CountOfLast, ZenonT(30)
<1>8. CASE cut = 0
  <2>1. T = Of(old, s)
    <3> HIDE DEF n, m
    <3> QED BY <1>1, <1>3, <1>8
  <2> HIDE DEF n, m, T
  <2> QED BY <1>4, <1>7, <1>8, <2>1
<1>9. CASE cut = 1
  <2> DEFINE R == Of(old, s) \ {1}
             f == [k \in R |-> k - 1]
  <2>1. IsFiniteSet(R) /\ Cardinality(R) = IF 1 \in Of(old, s) THEN Cardinality(Of(old, s)) - 1
                                           ELSE Cardinality(Of(old, s))
    BY <1>4, FS_RemoveElement
  <2>2. 1 \in Of(old, s) <=> old[1].status = s
    <3> HIDE DEF n, m
    <3> QED BY <1>1, <1>3, <1>9
  <2>3. f \in Bijection(R, T)
    <3>1. ASSUME NEW k \in R
          PROVE  k - 1 \in T /\ k \in Int
      <4> HIDE DEF n, m
      <4> QED BY <1>1, <1>3, <1>9
    <3>2. ASSUME NEW j \in T
          PROVE  \E k \in R : k - 1 = j
      <4>1. j + 1 \in R /\ j + 1 - 1 = j
        <5> HIDE DEF n, m
        <5> QED BY <1>1, <1>3, <1>9
      <4> QED BY <4>1
    <3> HIDE DEF n, m, R, T
    <3>0. \A k \in R : f[k] = k - 1
      OBVIOUS
    <3>3. f \in [R -> T]
      BY <3>1
    <3> HIDE DEF f
    <3>4. \A j, k \in R : f[j] = f[k] => j = k
      BY <3>0, <3>1
    <3>5. \A j \in T : \E k \in R : f[k] = j
      <4> SUFFICES ASSUME NEW j \in T
                   PROVE  \E k \in R : f[k] = j
        OBVIOUS
      <4>1. PICK k \in R : k - 1 = j
        BY <3>2
      <4>2. f[k] = j
        BY <3>0, <4>1
      <4> QED BY <4>2
    <3> QED BY <3>3, <3>4, <3>5 DEF Bijection, Injection, Surjection, IsInjective
  <2>4. Cardinality(T) = Cardinality(R)
    BY <2>1, <2>3, FS_Bijection DEF ExistsBijection
  <2> HIDE DEF n, m, T, R, b
  <2>5. Cardinality(T) = Cardinality(Of(old, s)) - IF old[1].status = s THEN 1 ELSE 0
    BY <1>4, <2>1, <2>2, <2>4
  <2>6. Cardinality(Of(new, s)) =
            Cardinality(Of(old, s)) - (IF old[1].status = s THEN 1 ELSE 0) + (IF b THEN 1 ELSE 0)
    BY <1>7, <2>5
  <2> QED BY <1>4, <1>9, <2>6 DEF b
<1> QED BY <1>4, <1>8, <1>9

NewVal(c, val) ==
    IF reports THEN Report!AddResult(val, Report!buildResult(c))
    ELSE Audit!Trim(c, Append(val, Audit!buildViolation(c)))

LEMMA SizeIs ==
    ASSUME NEW c \in Clients, Denied(c)
    PROVE  Audit!LogSize(c) \in Nat \ {0} /\ Size(c) \in Nat \ {0}
<1>1. spec[c].auditLogSize = Unset \/ spec[c].auditLogSize \in 1 .. 40
  BY DEF Denied, ValidateJsPolicy, validateValidatingWebhook, validateAuditLogSize
<1>2. auditLogSize[c] = spec[c].auditLogSize
  BY DEF Denied, auditLogSize
<1>3. Audit!LogSize(c) \in Nat \ {0}
  BY <1>1, <1>2 DEF Audit!LogSize, Audit!DefaultAuditLogSize
<1> QED BY <1>3, AdmissionAssumption DEF Size

\* Cutting off from the start, down to a size.
LEMMA TrimAdds ==
    ASSUME NEW c \in Clients, Denied(c), reports = FALSE, NEW old \in LogType
    PROVE  LET new == NewVal(c, old)
           IN /\ new \in LogType /\ Extended(c, old, new)
              /\ \E cut : Added(old, OwnEntry(c), cut, new)
<1> DEFINE e == OwnEntry(c)
           n == Len(old)
           t == Append(old, e)
           z == Audit!LogSize(c)
           cut == IF n + 1 > z THEN n + 1 - z ELSE 0
           new == NewVal(c, old)
<1>1. old \in Seq(EntryType) /\ n \in Nat /\ e \in EntryType /\ e.request = c
  <2>1. old \in Seq(EntryType)
    BY DEF LogType, EntryType
  <2> QED BY <2>1, LenProperties, OwnEntryIs
<1>2. z \in Nat \ {0} /\ Size(c) = z
  BY SizeIs DEF Size
<1>3. t \in Seq(EntryType) /\ Len(t) = n + 1
  BY <1>1, AppendProperties
<1>4. new = IF Len(t) > z THEN SubSeq(t, Len(t) - z + 1, Len(t)) ELSE t
  BY DEF NewVal, Audit!Trim, OwnEntry
<1> HIDE DEF new, z, t, n, e
<1>5. cut \in 0 .. n /\ (cut > 0 => n >= z /\ n + 1 - cut = z) /\ n + 1 - cut <= z
  BY <1>1, <1>2
<1>6. new = SubSeq(t, cut + 1, n + 1)
  <2>1. CASE n + 1 > z
    <3>1. Len(t) > z /\ Len(t) - z + 1 = cut + 1 /\ Len(t) = n + 1
      BY <1>1, <1>2, <1>3, <2>1
    <3>2. new = SubSeq(t, Len(t) - z + 1, Len(t))
      BY <1>4, <3>1
    <3> HIDE DEF cut
    <3> QED BY <3>1, <3>2
  <2>2. CASE ~(n + 1 > z)
    <3>1. cut + 1 = 1 /\ new = t
      BY <1>3, <1>4, <2>2
    <3> QED BY <1>3, <3>1, SubSeqFull
  <2> QED BY <2>1, <2>2
<1> HIDE DEF cut
<1>7. Added(old, e, cut, new)
  BY <1>1, <1>5, <1>6, AddedByCutting DEF t, n
<1>8. Len(new) = n + 1 - cut /\ new \in Seq(EntryType)
  BY <1>7 DEF Added, n
<1>9. Extended(c, old, new)
  <2>1. cut > 0 => Len(old) >= Size(c) /\ (cut = 1 \/ Len(new) = Size(c))
    BY <1>2, <1>5, <1>8 DEF n
  <2>2. Size(c) \in Nat /\ ~(Len(new) > Size(c))
    BY <1>1, <1>2, <1>5, <1>8
  <2> QED BY <1>1, <1>7, <2>1, <2>2, AddedIsExtended
<1>10. new \in LogType
  BY <1>8 DEF LogType, EntryType
<1> QED BY <1>7, <1>9, <1>10 DEF e, new

\* A report that is full loses its oldest result; its summary goes with it.
LEMMA AddResultAdds ==
    ASSUME NEW c \in Clients, Denied(c), reports, NEW val \in LogType
    PROVE  LET new == NewVal(c, val)
           IN /\ new \in LogType /\ Extended(c, val.results, new.results)
              /\ \E cut : Added(val.results, OwnEntry(c), cut, new.results)
              /\ Counted(val) => Counted(new)
<1> DEFINE e == OwnEntry(c)
           old == val.results
           n == Len(old)
           t == Append(old, e)
           over == n + 1 > MaxEvents
           cut == IF over THEN 1 ELSE 0
           new == NewVal(c, val)
           summary == IF over THEN [val.summary EXCEPT ![t[1].status] = @ - 1] ELSE val.summary
<1>1. old \in Seq(EntryType) /\ n \in Nat /\ e \in EntryType /\ e.request = c
  <2>1. old \in Seq(EntryType)
    BY DEF LogType, ReportType, EntryType
  <2> QED BY <2>1, LenProperties, OwnEntryIs
<1>2. MaxEvents \in Nat \ {0} /\ Size(c) = MaxEvents
  BY AdmissionAssumption DEF Size
<1>3. /\ t \in Seq(EntryType) /\ Len(t) = n + 1 /\ t # << >>
      /\ n > 0 => t[1] = old[1]
      /\ n > 0 => old[1] \in EntryType
  BY <1>1, AppendProperties, ElementOfSeq
<1>4. /\ new.results = IF Len(t) > MaxEvents THEN Tail(t) ELSE t
      /\ new = [results |-> new.results, summary |-> [summary EXCEPT ![e.status] = @ + 1]]
  <2>1. e = Report!buildResult(c) /\ new = Report!AddResult(val, e)
    BY DEF OwnEntry, NewVal
  <2>2. new = [results |-> IF Len(t) > MaxEvents THEN Tail(t) ELSE t,
               summary |-> [(IF Len(t) > MaxEvents THEN [val.summary EXCEPT ![t[1].status] = @ - 1]
                             ELSE val.summary) EXCEPT ![e.status] = @ + 1]]
    BY <2>1 DEF Report!AddResult
  <2> HIDE DEF new, t, e, n
  <2> QED BY <1>3, <2>2
<1>5. e.status \in Report!Statuses /\ (n > 0 => old[1].status \in Report!Statuses)
  BY <1>1, <1>3 DEF EntryType, Result
<1>6. val.summary \in [Report!Statuses -> Int]
  BY DEF LogType, ReportType
<1> HIDE DEF new, t, n, e, old
<1>7. cut \in 0 .. n /\ cut \in {0, 1} /\ (over => n > 0)
  BY <1>1, <1>2
<1>8. new.results = SubSeq(t, cut + 1, n + 1)
  <2>1. CASE over
    <3>1. cut + 1 = 2 /\ Len(t) = n + 1 /\ new.results = Tail(t)
      BY <1>3, <1>4, <2>1
    <3> QED BY <1>3, <3>1, TailIsSubSeq
  <2>2. CASE ~over
    <3>1. cut + 1 = 1 /\ Len(t) = n + 1 /\ new.results = t
      BY <1>3, <1>4, <2>2
    <3> QED BY <1>3, <3>1, SubSeqFull
  <2> QED BY <2>1, <2>2
<1>9. Added(old, e, cut, new.results)
  <2> HIDE DEF cut
  <2> QED BY <1>1, <1>7, <1>8, AddedByCutting DEF t, n
<1>10. Len(new.results) = n + 1 - cut /\ new.results \in Seq(EntryType)
  <2> HIDE DEF cut
  <2> QED BY <1>9 DEF Added, n
<1>11. Extended(c, old, new.results)
  <2>1. cut > 0 => Len(old) >= Size(c) /\ (cut = 1 \/ Len(new.results) = Size(c))
    BY <1>1, <1>2 DEF n
  <2>2. Size(c) \in Nat /\ (Len(new.results) > Size(c) => cut = 1 /\ reports)
    BY <1>1, <1>2, <1>10
  <2> HIDE DEF cut
  <2> QED BY <1>1, <1>9, <2>1, <2>2, AddedIsExtended
<1>12. /\ new.summary \in [Report!Statuses -> Int]
       /\ \A s \in Report!Statuses :
             new.summary[s] = val.summary[s] + (IF e.status = s THEN 1 ELSE 0)
                                 - (IF cut = 1 /\ old[1].status = s THEN 1 ELSE 0)
  <2>1. /\ summary \in [Report!Statuses -> Int]
        /\ \A s \in Report!Statuses :
              summary[s] = val.summary[s] - (IF cut = 1 /\ old[1].status = s THEN 1 ELSE 0)
    <3>1. CASE over
      <4>1. summary = [val.summary EXCEPT ![old[1].status] = @ - 1] /\ cut = 1
        BY <1>3, <1>7, <3>1
      <4> HIDE DEF summary, cut
      <4> QED BY <1>5, <1>6, <1>7, <3>1, <4>1
    <3>2. CASE ~over
      <4>1. summary = val.summary /\ cut = 0
        BY <3>2
      <4> HIDE DEF summary, cut
      <4> QED BY <1>6, <4>1
    <3> QED BY <3>1, <3>2
  <2> HIDE DEF summary, cut
  <2>2. new.summary = [summary EXCEPT ![e.status] = @ + 1]
    BY <1>4
  <2> QED BY <1>5, <1>6, <2>1, <2>2
<1> HIDE DEF cut, summary
<1>13. new \in LogType
  <2>1. new.results \in Seq(Result)
    BY <1>10 DEF EntryType
  <2>2. new = [results |-> new.results, summary |-> new.summary]
    BY <1>4
  <2> QED BY <1>12, <2>1, <2>2 DEF LogType, ReportType
<1>14. ASSUME Counted(val)
       PROVE  Counted(new)
  <2> SUFFICES ASSUME NEW s \in Report!Statuses
               PROVE  new.summary[s] = Cardinality(Of(new.results, s))
    BY DEF Counted
  <2>1. val.summary[s] = Cardinality(Of(old, s))
    BY <1>14 DEF Counted, old
  <2>2. /\ Cardinality(Of(old, s)) \in Nat
        /\ Cardinality(Of(new.results, s)) =
              Cardinality(Of(old, s)) + (IF e.status = s THEN 1 ELSE 0)
                 - (IF cut = 1 /\ old[1].status = s THEN 1 ELSE 0)
    BY <1>1, <1>7, <1>9, CountAdded
  <2> QED BY <1>12, <2>1, <2>2
<1> QED BY <1>9, <1>11, <1>13, <1>14 DEF e, new, old

\* What is written for a denied request is the log and its entry.
LEMMA NewLog ==
    ASSUME NEW c \in Clients, Denied(c), reports \in BOOLEAN, NEW val \in LogType
    PROVE  /\ NewVal(c, val) \in LogType
           /\ Extended(c, LogOf(val), LogOf(NewVal(c, val)))
           /\ \E cut : Added(LogOf(val), OwnEntry(c), cut, LogOf(NewVal(c, val)))
           /\ reports /\ Counted(val) => Counted(NewVal(c, val))
<1>1. CASE reports
  BY <1>1, AddResultAdds DEF LogOf
<1>2. CASE reports = FALSE
  BY <1>2, TrimAdds DEF LogOf
<1> QED BY <1>1, <1>2

-----------------------------------------------------------------------------
(* What a step of a goroutine is, whether it keeps a log or a report.         *)

\* The requests that step as c does.
OthersStay(c) ==
    \A d \in Clients \ {c} :
        /\ pc'[d] = pc[d] /\ call'[d] = call[d] /\ result'[d] = result[d]
        /\ object'[d] = object[d] /\ retryCounter'[d] = retryCounter[d]

Shapes ==
    /\ pc \in [Clients -> Labels] /\ retryCounter \in [Clients -> 0 .. RetryCounter]
    /\ DOMAIN call = Clients /\ DOMAIN result = Clients /\ DOMAIN object = Clients

Moves(c, from, to) == pc[c] \in from /\ pc'[c] = to
Keeps(c) == history' = history /\ object'[c] = object[c] /\ retryCounter'[c] = retryCounter[c]
Returns(c, results) == call'[c] = NoCall /\ result'[c] \in results
Waits(c, op) == call'[c].op = op /\ result'[c] = "none"
NoReturn(c) == call'[c] = call[c] /\ result'[c] = result[c]

GivesUp(c) == retryCounter[c] = 0 /\ Moves(c, {"call"}, "done") /\ Keeps(c) /\ NoReturn(c)
Misses(c) == Moves(c, {"call"}, "create") /\ Keeps(c) /\ NoReturn(c)
Fails(c) ==
    /\ Moves(c, {"call", "create", "creating", "update"}, "done") /\ Keeps(c)
    /\ Returns(c, {"error", "notfound"})
Succeeds(c) == Moves(c, {"updating"}, "done") /\ Keeps(c) /\ Returns(c, {"ok", "error"})
Reads(c) ==
    /\ Moves(c, {"call"}, "update") /\ NoReturn(c)
    /\ history' = history /\ retryCounter'[c] = retryCounter[c]
    /\ Cached # NoObject /\ object'[c] = Cached
Again(c) == Moves(c, {"create", "creating", "update"}, "call") /\ Keeps(c) /\ call'[c] = NoCall
Conflicts(c) ==
    /\ Moves(c, {"update"}, "call") /\ Returns(c, {"conflict"})
    /\ history' = history /\ object'[c] = object[c]
    /\ retryCounter'[c] = retryCounter[c] \/ (reports /\ retryCounter'[c] = retryCounter[c] - 1)
Creates(c) ==
    /\ Server = NoObject
    /\ history' = Append(history, NewObject(IF reports THEN Report!EmptyReport ELSE << >>))
    /\ object'[c] = object[c] /\ retryCounter'[c] = retryCounter[c]
    /\ \/ Moves(c, {"create"}, "creating") /\ Waits(c, "create")
       \/ Moves(c, {"create"}, "done") /\ Returns(c, {"error"})
Writes(c) ==
    /\ Server # NoObject /\ Server.rv = object[c].rv
    /\ history' = Append(history, Updated_(object[c], NewVal(c, object[c].val)))
    /\ object'[c] = object[c] /\ retryCounter'[c] = retryCounter[c]
    /\ \/ Moves(c, {"update"}, "updating") /\ Waits(c, "update")
       \/ Moves(c, {"update"}, "done") /\ Returns(c, {"error"})

Kinds(c) ==
    \/ GivesUp(c)
    \/ /\ retryCounter[c] # 0
       /\ \/ Misses(c) \/ Fails(c) \/ Succeeds(c) \/ Reads(c) \/ Again(c) \/ Conflicts(c)
          \/ Creates(c) \/ Writes(c)

\* The client, for c.
ClientOthersStay(c) ==
    /\ DOMAIN call' = Clients /\ DOMAIN result' = Clients
    /\ \A d \in Clients \ {c} : call'[d] = call[d] /\ result'[d] = result[d]

LEMMA Refuses ==
    ASSUME Shapes, NEW c \in Clients, NEW res, Return(c, res)
    PROVE  ClientOthersStay(c) /\ call'[c] = NoCall /\ result'[c] = res
BY DEF Shapes, Return, ClientOthersStay

LEMMA Polls ==
    ASSUME Shapes, NEW c \in Clients, Polling(c)
    PROVE  /\ history' = history /\ seen' = seen
           /\ ClientOthersStay(c) /\ Returns(c, {"ok", "error"})
<1>1. /\ history' = history /\ seen' = seen
      /\ Return(c, "ok") \/ Return(c, "error")
  BY DEF Polling, PollSucceeds, PollTimesOut, storeVars
<1> QED BY <1>1, Refuses DEF Returns

LEMMA Stores ==
    ASSUME Shapes, NEW c \in Clients, NEW op, NEW obj, Store(c, op, obj)
    PROVE  /\ history' = Append(history, obj) /\ seen' = seen
           /\ ClientOthersStay(c)
           /\ Waits(c, op) \/ Returns(c, {"error"})
<1>1. history' = Append(history, obj) /\ seen' = seen
  BY DEF Store
<1>2. CASE Return(c, "error")
  BY <1>1, <1>2, Refuses DEF Returns
<1>3. CASE /\ call' = [call EXCEPT ![c] = [op |-> op, uid |-> obj.uid, rv |-> obj.rv]]
           /\ result' = [result EXCEPT ![c] = "none"]
  <2>1. call'[c].op = op /\ result'[c] = "none"
    BY <1>3 DEF Shapes
  <2>2. ClientOthersStay(c)
    BY <1>3 DEF Shapes, ClientOthersStay
  <2> QED BY <1>1, <2>1, <2>2 DEF Waits
<1> QED BY <1>2, <1>3 DEF Store

LEMMA CreateKinds ==
    ASSUME Shapes, NEW c \in Clients, NEW val, Create(c, val)
    PROVE  /\ seen' = seen /\ ClientOthersStay(c)
           /\ \/ history' = history /\ Returns(c, {"exists", "error"})
              \/ /\ Server = NoObject
                 /\ history' = Append(history, NewObject(val))
                 /\ Waits(c, "create") \/ Returns(c, {"error"})
<1>1. CASE Refuse(c, "exists") \/ Refuse(c, "error")
  <2>1. history' = history /\ seen' = seen /\ (Return(c, "exists") \/ Return(c, "error"))
    BY <1>1 DEF Refuse, storeVars
  <2> QED BY <2>1, Refuses DEF Returns
<1>2. CASE Server = NoObject /\ Store(c, "create", NewObject(val))
  <2> DEFINE obj == NewObject(val)
  <2>1. Store(c, "create", obj)
    BY <1>2
  <2>2. Server = NoObject
    BY <1>2
  <2> HIDE DEF obj
  <2>3. /\ history' = Append(history, obj) /\ seen' = seen /\ ClientOthersStay(c)
        /\ Waits(c, "create") \/ Returns(c, {"error"})
    BY <2>1, Stores
  <2> QED BY <2>2, <2>3 DEF obj
<1> QED BY <1>1, <1>2 DEF Create

LEMMA UpdateKinds ==
    ASSUME Shapes, NEW c \in Clients, NEW old, NEW val, Update(c, old, val)
    PROVE  /\ seen' = seen /\ ClientOthersStay(c)
           /\ \/ history' = history /\ Returns(c, {"conflict", "notfound", "error"})
              \/ /\ Server # NoObject /\ Server.rv = old.rv
                 /\ history' = Append(history, Updated_(old, val))
                 /\ Waits(c, "update") \/ Returns(c, {"error"})
<1>1. CASE Refuse(c, "conflict") \/ Refuse(c, "notfound") \/ Refuse(c, "error")
  <2>1. /\ history' = history /\ seen' = seen
        /\ Return(c, "conflict") \/ Return(c, "notfound") \/ Return(c, "error")
    BY <1>1 DEF Refuse, storeVars
  <2> QED BY <2>1, Refuses DEF Returns
<1>2. CASE /\ Server # NoObject /\ Server.rv = old.rv
           /\ Store(c, "update", Updated_(old, val))
  <2> DEFINE obj == Updated_(old, val)
  <2>1. Store(c, "update", obj)
    BY <1>2
  <2>2. Server # NoObject /\ Server.rv = old.rv
    BY <1>2
  <2> HIDE DEF obj
  <2>3. /\ history' = Append(history, obj) /\ seen' = seen /\ ClientOthersStay(c)
        /\ Waits(c, "update") \/ Returns(c, {"error"})
    BY <2>1, Stores
  <2> QED BY <2>2, <2>3 DEF obj
<1> QED BY <1>1, <1>2 DEF Update

LEMMA AuditClient ==
    ASSUME NEW c, NEW old, NEW val
    PROVE  /\ Audit!Create(c, val) => Create(c, val)
           /\ Audit!Update(c, old, val) => Update(c, old, val)
           /\ Audit!Polling(c) => Polling(c)
           /\ Audit!Refuse(c, "error") => Refuse(c, "error")
<1>0. Audit!NextUID = NextUID
  BY DEF Audit!NextUID, NextUID, Audit!Cardinality, Cardinality
<1>1. /\ Audit!NoCall = NoCall /\ Audit!NoObject = NoObject /\ Audit!Server = Server /\ Audit!Cached = Cached
      /\ Audit!NextUID = NextUID /\ Audit!NextRevision = NextRevision /\ Audit!storeVars = storeVars
  BY <1>0 DEF Audit!NoCall, NoCall, Audit!NoObject, NoObject, Audit!Server, Server, Audit!Cached, Cached,
         Audit!NextRevision, NextRevision, Audit!storeVars, storeVars
<1>2. \A res : Audit!Return(c, res) <=> Return(c, res)
  BY <1>1 DEF Audit!Return, Return
<1>3. \A res : Audit!Refuse(c, res) <=> Refuse(c, res)
  BY <1>2 DEF Audit!Refuse, Refuse, Audit!storeVars, storeVars
<1>4. \A op, obj : Audit!Store(c, op, obj) <=> Store(c, op, obj)
  BY <1>2 DEF Audit!Store, Store
<1>5. Audit!Idle(c) <=> Idle(c)
  BY <1>1 DEF Audit!Idle, Idle
<1>6. \A m, n : Audit!TextGeq(m, n) <=> TextGeq(m, n)
  BY DEF Audit!TextGeq, TextGeq, Audit!Digits, Digits
<1>7. Audit!Seen(call[c]) <=> Seen(call[c])
  BY <1>1, <1>6 DEF Audit!Seen, Seen
<1>8. Audit!Create(c, val) => Create(c, val)
  BY <1>1, <1>3, <1>4, <1>5 DEF Audit!Create, Create, Audit!NewObject, NewObject
<1>9. Audit!Update(c, old, val) => Update(c, old, val)
  BY <1>1, <1>3, <1>4, <1>5 DEF Audit!Update, Update, Audit!Updated_, Updated_
<1>10. Audit!Polling(c) => Polling(c)
  BY <1>2, <1>5, <1>7 DEF Audit!Polling, Polling, Audit!PollSucceeds, PollSucceeds, Audit!PollTimesOut,
         PollTimesOut, Audit!storeVars, storeVars
<1> QED BY <1>3, <1>8, <1>9, <1>10

LEMMA ReportClient ==
    ASSUME NEW c, NEW old, NEW val
    PROVE  /\ Report!Create(c, val) => Create(c, val)
           /\ Report!Update(c, old, val) => Update(c, old, val)
           /\ Report!Polling(c) => Polling(c)
           /\ Report!Refuse(c, "error") => Refuse(c, "error")
<1>0. Report!NextUID = NextUID
  BY DEF Report!NextUID, NextUID, Report!Cardinality, Cardinality
<1>1. /\ Report!NoCall = NoCall /\ Report!NoObject = NoObject /\ Report!Server = Server /\ Report!Cached = Cached
      /\ Report!NextUID = NextUID /\ Report!NextRevision = NextRevision /\ Report!storeVars = storeVars
  BY <1>0 DEF Report!NoCall, NoCall, Report!NoObject, NoObject, Report!Server, Server, Report!Cached, Cached,
         Report!NextRevision, NextRevision, Report!storeVars, storeVars
<1>2. \A res : Report!Return(c, res) <=> Return(c, res)
  BY <1>1 DEF Report!Return, Return
<1>3. \A res : Report!Refuse(c, res) <=> Refuse(c, res)
  BY <1>2 DEF Report!Refuse, Refuse, Report!storeVars, storeVars
<1>4. \A op, obj : Report!Store(c, op, obj) <=> Store(c, op, obj)
  BY <1>2 DEF Report!Store, Store
<1>5. Report!Idle(c) <=> Idle(c)
  BY <1>1 DEF Report!Idle, Idle
<1>6. \A m, n : Report!TextGeq(m, n) <=> TextGeq(m, n)
  BY DEF Report!TextGeq, TextGeq, Report!Digits, Digits
<1>7. Report!Seen(call[c]) <=> Seen(call[c])
  BY <1>1, <1>6 DEF Report!Seen, Seen
<1>8. Report!Create(c, val) => Create(c, val)
  BY <1>1, <1>3, <1>4, <1>5 DEF Report!Create, Create, Report!NewObject, NewObject
<1>9. Report!Update(c, old, val) => Update(c, old, val)
  BY <1>1, <1>3, <1>4, <1>5 DEF Report!Update, Update, Report!Updated_, Updated_
<1>10. Report!Polling(c) => Polling(c)
  BY <1>2, <1>5, <1>7 DEF Report!Polling, Polling, Report!PollSucceeds, PollSucceeds, Report!PollTimesOut,
         PollTimesOut, Report!storeVars, storeVars
<1> QED BY <1>3, <1>8, <1>9, <1>10

\* From where requests go and to where.
LEMMA Moving ==
    ASSUME Shapes, NEW c \in Clients, NEW l \in Labels, pc' = [pc EXCEPT ![c] = l]
    PROVE  pc' \in [Clients -> Labels] /\ pc'[c] = l /\ \A d \in Clients \ {c} : pc'[d] = pc[d]
BY DEF Shapes

\* A step of c that leaves the other requests alone.
Apart(c) ==
    /\ ClientOthersStay(c)
    /\ pc' \in [Clients -> Labels] /\ \A d \in Clients \ {c} : pc'[d] = pc[d]
    /\ DOMAIN object' = Clients /\ \A d \in Clients \ {c} : object'[d] = object[d]
    /\ retryCounter' \in [Clients -> 0 .. RetryCounter]
    /\ \A d \in Clients \ {c} : retryCounter'[d] = retryCounter[d]

LEMMA ApartIs ==
    ASSUME NEW c \in Clients, Apart(c)
    PROVE  Shapes' /\ OthersStay(c)
BY DEF Apart, Shapes, OthersStay, ClientOthersStay

LEMMA AuditFollows ==
    ASSUME NEW c
    PROVE  /\ Audit!Created(c) =>
                 \/ result'[c] = "none" /\ pc' = [pc EXCEPT ![c] = "creating"]
                 \/ result'[c] \in {"ok", "exists"} /\ pc' = [pc EXCEPT ![c] = "call"]
                 \/ result'[c] \notin {"none", "ok", "exists"} /\ pc' = [pc EXCEPT ![c] = "done"]
           /\ Audit!Updated(c) =>
                 \/ result'[c] = "none" /\ pc' = [pc EXCEPT ![c] = "updating"]
                 \/ result'[c] = "conflict" /\ pc' = [pc EXCEPT ![c] = "call"]
                 \/ result'[c] \notin {"none", "conflict"} /\ pc' = [pc EXCEPT ![c] = "done"]
<1> DEFINE r == result'[c]
<1>1. Audit!Created(c) =>
          \/ r = "none" /\ Audit!Goto(c, "creating")
          \/ r \in {"ok", "exists"} /\ Audit!Goto(c, "call")
          \/ r \notin {"none", "ok", "exists"} /\ Audit!Goto(c, "done")
  <2>1. CASE r = "none"
    BY <2>1, Zenon DEF Audit!Created
  <2>2. CASE r # "none" /\ r \in {"ok", "exists"}
    BY <2>2, Zenon DEF Audit!Created
  <2>3. CASE r # "none" /\ r \notin {"ok", "exists"}
    BY <2>3, Zenon DEF Audit!Created
  <2> QED BY <2>1, <2>2, <2>3
<1>2. Audit!Updated(c) =>
          \/ r = "none" /\ Audit!Goto(c, "updating")
          \/ r = "conflict" /\ Audit!Goto(c, "call")
          \/ r \notin {"none", "conflict"} /\ Audit!Goto(c, "done")
  <2>1. CASE r = "none"
    BY <2>1, Zenon DEF Audit!Updated
  <2>2. CASE r # "none" /\ r = "conflict"
    BY <2>2, Zenon DEF Audit!Updated
  <2>3. CASE r # "none" /\ r # "conflict"
    BY <2>3, Zenon DEF Audit!Updated
  <2> QED BY <2>1, <2>2, <2>3
<1> QED BY <1>1, <1>2 DEF Audit!Goto

\* A read, and where a request goes then.
Gets(c) ==
    /\ pc[c] = "call" /\ retryCounter[c] # 0 /\ retryCounter' = retryCounter
    /\ \/ /\ Cached # NoObject /\ pc' = [pc EXCEPT ![c] = "update"]
          /\ object' = [object EXCEPT ![c] = Cached] /\ clientVars' = clientVars
       \/ pc' = [pc EXCEPT ![c] = "create"] /\ clientVars' = clientVars /\ object' = object
       \/ pc' = [pc EXCEPT ![c] = "done"] /\ Refuse(c, "error") /\ object' = object

\* Where it goes after a create or an update.
CreatedMoves(c) ==
    /\ object' = object /\ retryCounter' = retryCounter
    /\ \/ result'[c] = "none" /\ pc' = [pc EXCEPT ![c] = "creating"]
       \/ result'[c] \in {"ok", "exists"} /\ pc' = [pc EXCEPT ![c] = "call"]
       \/ result'[c] \notin {"none", "ok", "exists"} /\ pc' = [pc EXCEPT ![c] = "done"]

UpdatedMoves(c) ==
    /\ object' = object
    /\ \/ result'[c] = "none" /\ pc' = [pc EXCEPT ![c] = "updating"] /\ retryCounter' = retryCounter
       \/ /\ result'[c] = "conflict" /\ pc' = [pc EXCEPT ![c] = "call"]
          /\ \/ retryCounter' = retryCounter
             \/ reports /\ retryCounter' = [retryCounter EXCEPT ![c] = @ - 1]
       \/ /\ result'[c] \notin {"none", "conflict"} /\ pc' = [pc EXCEPT ![c] = "done"]
          /\ retryCounter' = retryCounter

LEMMA Labels_ ==
    ASSUME Shapes, NEW c \in Clients
    PROVE  /\ {"find", "handle", "call", "create", "creating", "update", "updating", "done"} \subseteq Labels
           /\ DOMAIN object = Clients /\ DOMAIN call = Clients /\ DOMAIN result = Clients
           /\ retryCounter \in [Clients -> 0 .. RetryCounter]
BY DEF Labels, Shapes

LEMMA GetsKinds ==
    ASSUME Shapes, NEW c \in Clients, Gets(c)
    PROVE  seen' = seen /\ Apart(c) /\ Kinds(c)
<1>1. pc[c] = "call" /\ retryCounter[c] # 0 /\ retryCounter' = retryCounter
  BY DEF Gets
<1>2. CASE /\ Cached # NoObject /\ pc' = [pc EXCEPT ![c] = "update"]
           /\ object' = [object EXCEPT ![c] = Cached] /\ clientVars' = clientVars
  <2>1. /\ pc' \in [Clients -> Labels] /\ pc'[c] = "update" /\ \A d \in Clients \ {c} : pc'[d] = pc[d]
    BY <1>2, Labels_, Moving
  <2>2. /\ DOMAIN object' = Clients /\ object'[c] = Cached
        /\ \A d \in Clients \ {c} : object'[d] = object[d]
    BY <1>2, Labels_
  <2>3. history' = history /\ seen' = seen /\ call' = call /\ result' = result
    BY <1>2 DEF clientVars
  <2>4. Apart(c)
    BY <1>1, <2>1, <2>2, <2>3, Labels_ DEF Apart, ClientOthersStay
  <2>5. Reads(c)
    BY <1>1, <1>2, <2>1, <2>2, <2>3 DEF Reads, Moves, NoReturn
  <2> QED BY <1>1, <2>3, <2>4, <2>5 DEF Kinds
<1>3. CASE pc' = [pc EXCEPT ![c] = "create"] /\ clientVars' = clientVars /\ object' = object
  <2>1. /\ pc' \in [Clients -> Labels] /\ pc'[c] = "create" /\ \A d \in Clients \ {c} : pc'[d] = pc[d]
    BY <1>3, Labels_, Moving
  <2>2. history' = history /\ seen' = seen /\ call' = call /\ result' = result
    BY <1>3 DEF clientVars
  <2>3. Apart(c)
    BY <1>1, <1>3, <2>1, <2>2, Labels_ DEF Apart, ClientOthersStay
  <2>4. Misses(c)
    BY <1>1, <1>3, <2>1, <2>2 DEF Misses, Moves, NoReturn, Keeps
  <2> QED BY <1>1, <2>2, <2>3, <2>4 DEF Kinds
<1>4. CASE pc' = [pc EXCEPT ![c] = "done"] /\ Refuse(c, "error") /\ object' = object
  <2>1. /\ pc' \in [Clients -> Labels] /\ pc'[c] = "done" /\ \A d \in Clients \ {c} : pc'[d] = pc[d]
    BY <1>4, Labels_, Moving
  <2>2. history' = history /\ seen' = seen /\ ClientOthersStay(c) /\ call'[c] = NoCall /\ result'[c] = "error"
    BY <1>4, Refuses DEF Refuse, storeVars
  <2>3. Apart(c)
    BY <1>1, <1>4, <2>1, <2>2, Labels_ DEF Apart
  <2>4. Fails(c)
    BY <1>1, <1>4, <2>1, <2>2 DEF Fails, Moves, Returns, Keeps
  <2> QED BY <1>1, <2>2, <2>3, <2>4 DEF Kinds
<1> QED BY <1>2, <1>3, <1>4 DEF Gets

\* What CreatedMoves and UpdatedMoves leave.
LEMMA MovesApart ==
    ASSUME Shapes, NEW c \in Clients, ClientOthersStay(c), object' = object, retryCounter' = retryCounter,
           NEW l \in Labels, pc' = [pc EXCEPT ![c] = l]
    PROVE  /\ Apart(c) /\ pc'[c] = l
           /\ object'[c] = object[c] /\ retryCounter'[c] = retryCounter[c]
BY Labels_, Moving DEF Apart

LEMMA CreateMoves ==
    ASSUME Shapes, NEW c \in Clients, pc[c] = "create", retryCounter[c] # 0, CreatedMoves(c),
           Create(c, IF reports THEN Report!EmptyReport ELSE << >>)
    PROVE  seen' = seen /\ Apart(c) /\ Kinds(c)
<1> DEFINE val == IF reports THEN Report!EmptyReport ELSE << >>
<1>1. /\ seen' = seen /\ ClientOthersStay(c)
      /\ \/ history' = history /\ Returns(c, {"exists", "error"})
         \/ /\ Server = NoObject
            /\ history' = Append(history, NewObject(val))
            /\ Waits(c, "create") \/ Returns(c, {"error"})
  <2> HIDE DEF val
  <2>1. Create(c, val)
    BY DEF val
  <2> QED BY <2>1, CreateKinds
<1>2. object' = object /\ retryCounter' = retryCounter
  BY DEF CreatedMoves
<1>3. CASE history' = history /\ Returns(c, {"exists", "error"})
  <2>1. CASE result'[c] = "exists"
    <3>1. pc' = [pc EXCEPT ![c] = "call"]
      BY <2>1 DEF CreatedMoves
    <3>2. Apart(c) /\ pc'[c] = "call" /\ object'[c] = object[c] /\ retryCounter'[c] = retryCounter[c]
      BY <1>1, <1>2, <3>1, Labels_, MovesApart
    <3>3. Again(c)
      BY <1>3, <3>2 DEF Again, Moves, Keeps, Returns
    <3> QED BY <1>1, <3>2, <3>3 DEF Kinds
  <2>2. CASE result'[c] = "error"
    <3>1. pc' = [pc EXCEPT ![c] = "done"]
      BY <2>2 DEF CreatedMoves
    <3>2. Apart(c) /\ pc'[c] = "done" /\ object'[c] = object[c] /\ retryCounter'[c] = retryCounter[c]
      BY <1>1, <1>2, <3>1, Labels_, MovesApart
    <3>3. Fails(c)
      BY <1>3, <2>2, <3>2 DEF Fails, Moves, Keeps, Returns
    <3> QED BY <1>1, <3>2, <3>3 DEF Kinds
  <2> QED BY <1>3, <2>1, <2>2 DEF Returns
<1>4. CASE /\ Server = NoObject
           /\ history' = Append(history, NewObject(val))
           /\ Waits(c, "create") \/ Returns(c, {"error"})
  <2>1. CASE Waits(c, "create")
    <3>1. pc' = [pc EXCEPT ![c] = "creating"]
      BY <2>1 DEF CreatedMoves, Waits
    <3>2. Apart(c) /\ pc'[c] = "creating" /\ object'[c] = object[c] /\ retryCounter'[c] = retryCounter[c]
      BY <1>1, <1>2, <3>1, Labels_, MovesApart
    <3>3. Creates(c)
      BY <1>4, <2>1, <3>2 DEF Creates, Moves
    <3> QED BY <1>1, <3>2, <3>3 DEF Kinds
  <2>2. CASE Returns(c, {"error"})
    <3>1. pc' = [pc EXCEPT ![c] = "done"]
      BY <2>2 DEF CreatedMoves, Returns
    <3>2. Apart(c) /\ pc'[c] = "done" /\ object'[c] = object[c] /\ retryCounter'[c] = retryCounter[c]
      BY <1>1, <1>2, <3>1, Labels_, MovesApart
    <3>3. Creates(c)
      BY <1>4, <2>2, <3>2 DEF Creates, Moves
    <3> QED BY <1>1, <3>2, <3>3 DEF Kinds
  <2> QED BY <1>4, <2>1, <2>2
<1> QED BY <1>1, <1>3, <1>4

LEMMA CreatePollsMoves ==
    ASSUME Shapes, NEW c \in Clients, pc[c] = "creating", retryCounter[c] # 0, CreatedMoves(c), Polling(c)
    PROVE  seen' = seen /\ Apart(c) /\ Kinds(c)
<1>1. /\ seen' = seen /\ history' = history /\ ClientOthersStay(c) /\ Returns(c, {"ok", "error"})
  BY Polls
<1>2. object' = object /\ retryCounter' = retryCounter
  BY DEF CreatedMoves
<1>3. CASE result'[c] = "ok"
  <2>1. pc' = [pc EXCEPT ![c] = "call"]
    BY <1>3 DEF CreatedMoves
  <2>2. Apart(c) /\ pc'[c] = "call" /\ object'[c] = object[c] /\ retryCounter'[c] = retryCounter[c]
    BY <1>1, <1>2, <2>1, Labels_, MovesApart
  <2>3. Again(c)
    BY <1>1, <2>2 DEF Again, Moves, Keeps, Returns
  <2> QED BY <1>1, <2>2, <2>3 DEF Kinds
<1>4. CASE result'[c] = "error"
  <2>1. pc' = [pc EXCEPT ![c] = "done"]
    BY <1>4 DEF CreatedMoves
  <2>2. Apart(c) /\ pc'[c] = "done" /\ object'[c] = object[c] /\ retryCounter'[c] = retryCounter[c]
    BY <1>1, <1>2, <2>1, Labels_, MovesApart
  <2>3. Fails(c)
    BY <1>1, <1>4, <2>2 DEF Fails, Moves, Keeps, Returns
  <2> QED BY <1>1, <2>2, <2>3 DEF Kinds
<1> QED BY <1>1, <1>3, <1>4 DEF Returns

LEMMA UpdatePollsMoves ==
    ASSUME Shapes, NEW c \in Clients, pc[c] = "updating", retryCounter[c] # 0, UpdatedMoves(c), Polling(c)
    PROVE  seen' = seen /\ Apart(c) /\ Kinds(c)
<1>1. /\ seen' = seen /\ history' = history /\ ClientOthersStay(c) /\ Returns(c, {"ok", "error"})
  BY Polls
<1>2. object' = object /\ retryCounter' = retryCounter /\ pc' = [pc EXCEPT ![c] = "done"]
  BY <1>1 DEF UpdatedMoves, Returns
<1>3. Apart(c) /\ pc'[c] = "done" /\ object'[c] = object[c] /\ retryCounter'[c] = retryCounter[c]
  BY <1>1, <1>2, Labels_, MovesApart
<1>4. Succeeds(c)
  BY <1>1, <1>3 DEF Succeeds, Moves, Keeps
<1> QED BY <1>1, <1>3, <1>4 DEF Kinds

LEMMA UpdateMoves ==
    ASSUME Shapes, NEW c \in Clients, pc[c] = "update", retryCounter[c] # 0, UpdatedMoves(c),
           Update(c, object[c], NewVal(c, object[c].val))
    PROVE  seen' = seen /\ Apart(c) /\ Kinds(c)
<1> DEFINE val == NewVal(c, object[c].val)
<1>1. /\ seen' = seen /\ ClientOthersStay(c)
      /\ \/ history' = history /\ Returns(c, {"conflict", "notfound", "error"})
         \/ /\ Server # NoObject /\ Server.rv = object[c].rv
            /\ history' = Append(history, Updated_(object[c], val))
            /\ Waits(c, "update") \/ Returns(c, {"error"})
  <2> HIDE DEF val
  <2>1. Update(c, object[c], val)
    BY DEF val
  <2> QED BY <2>1, UpdateKinds
<1>2. object' = object
  BY DEF UpdatedMoves
<1>3. CASE history' = history /\ Returns(c, {"conflict", "notfound", "error"})
  <2>1. CASE result'[c] = "conflict"
    <3>1. /\ pc' = [pc EXCEPT ![c] = "call"]
          /\ \/ retryCounter' = retryCounter
             \/ reports /\ retryCounter' = [retryCounter EXCEPT ![c] = @ - 1]
      BY <2>1 DEF UpdatedMoves
    <3>2. /\ pc' \in [Clients -> Labels] /\ pc'[c] = "call" /\ \A d \in Clients \ {c} : pc'[d] = pc[d]
      BY <3>1, Labels_, Moving
    <3>3. /\ retryCounter' \in [Clients -> 0 .. RetryCounter]
          /\ \A d \in Clients \ {c} : retryCounter'[d] = retryCounter[d]
          /\ \/ retryCounter'[c] = retryCounter[c]
             \/ reports /\ retryCounter'[c] = retryCounter[c] - 1
      <4>1. retryCounter[c] \in 0 .. RetryCounter /\ RetryCounter \in Nat
        BY Labels_, AdmissionAssumption
      <4>2. retryCounter[c] - 1 \in 0 .. RetryCounter
        BY <4>1
      <4> QED BY <3>1, <4>2, Labels_
    <3>4. Apart(c)
      BY <1>1, <1>2, <3>2, <3>3, Labels_ DEF Apart
    <3>5. Conflicts(c)
      BY <1>2, <1>3, <2>1, <3>2, <3>3 DEF Conflicts, Moves, Returns
    <3> QED BY <1>1, <3>4, <3>5 DEF Kinds
  <2>2. CASE result'[c] \in {"notfound", "error"}
    <3>1. pc' = [pc EXCEPT ![c] = "done"] /\ retryCounter' = retryCounter
      BY <2>2 DEF UpdatedMoves
    <3>2. Apart(c) /\ pc'[c] = "done" /\ object'[c] = object[c] /\ retryCounter'[c] = retryCounter[c]
      BY <1>1, <1>2, <3>1, Labels_, MovesApart
    <3>3. Fails(c)
      BY <1>3, <2>2, <3>2 DEF Fails, Moves, Keeps, Returns
    <3> QED BY <1>1, <3>2, <3>3 DEF Kinds
  <2> QED BY <1>3, <2>1, <2>2 DEF Returns
<1>4. CASE /\ Server # NoObject /\ Server.rv = object[c].rv
           /\ history' = Append(history, Updated_(object[c], val))
           /\ Waits(c, "update") \/ Returns(c, {"error"})
  <2>1. CASE Waits(c, "update")
    <3>1. pc' = [pc EXCEPT ![c] = "updating"] /\ retryCounter' = retryCounter
      BY <2>1 DEF UpdatedMoves, Waits
    <3>2. Apart(c) /\ pc'[c] = "updating" /\ object'[c] = object[c] /\ retryCounter'[c] = retryCounter[c]
      BY <1>1, <1>2, <3>1, Labels_, MovesApart
    <3>3. Writes(c)
      BY <1>4, <2>1, <3>2 DEF Writes, Moves
    <3> QED BY <1>1, <3>2, <3>3 DEF Kinds
  <2>2. CASE Returns(c, {"error"})
    <3>1. pc' = [pc EXCEPT ![c] = "done"] /\ retryCounter' = retryCounter
      BY <2>2 DEF UpdatedMoves, Returns
    <3>2. Apart(c) /\ pc'[c] = "done" /\ object'[c] = object[c] /\ retryCounter'[c] = retryCounter[c]
      BY <1>1, <1>2, <3>1, Labels_, MovesApart
    <3>3. Writes(c)
      BY <1>4, <2>2, <3>2 DEF Writes, Moves
    <3> QED BY <1>1, <3>2, <3>3 DEF Kinds
  <2> QED BY <1>4, <2>1, <2>2
<1> QED BY <1>1, <1>3, <1>4

LEMMA AuditKinds ==
    ASSUME Shapes, NEW c \in Clients, reports = FALSE, Audit!LogRequest(c), retryCounter' = retryCounter,
           retryCounter[c] # 0
    PROVE  seen' = seen /\ Apart(c) /\ Kinds(c)
<1>1. ASSUME Audit!Get(c)
      PROVE  Gets(c)
  <2>1. Audit!Refuse(c, "error") => Refuse(c, "error")
    BY AuditClient
  <2>2. /\ pc[c] = "call"
        /\ \/ /\ Audit!Cached # Audit!NoObject /\ pc' = [pc EXCEPT ![c] = "update"]
              /\ object' = [object EXCEPT ![c] = Audit!Cached] /\ clientVars' = clientVars
           \/ pc' = [pc EXCEPT ![c] = "create"] /\ clientVars' = clientVars /\ object' = object
           \/ pc' = [pc EXCEPT ![c] = "done"] /\ Audit!Refuse(c, "error") /\ object' = object
    BY <1>1 DEF Audit!Get, Audit!Goto, Audit!clientVars, clientVars
  <2> QED BY <2>1, <2>2, ReportObject DEF Gets
<1>2. ASSUME Audit!CreateObject(c) \/ Audit!CreatePolls(c)
      PROVE  CreatedMoves(c)
  BY <1>2, AuditFollows DEF CreatedMoves, Audit!CreateObject, Audit!CreatePolls
<1>3. ASSUME Audit!UpdateStatus(c) \/ Audit!UpdatePolls(c)
      PROVE  UpdatedMoves(c)
  <2>1. Audit!Updated(c) /\ object' = object
    BY <1>3 DEF Audit!UpdateStatus, Audit!UpdatePolls
  <2> QED BY <2>1, AuditFollows DEF UpdatedMoves
<1>4. ASSUME Audit!CreateObject(c)
      PROVE  pc[c] = "create" /\ Create(c, IF reports THEN Report!EmptyReport ELSE << >>)
  <2>1. pc[c] = "create" /\ Audit!Create(c, << >>)
    BY <1>4 DEF Audit!CreateObject
  <2>2. Create(c, << >>)
    BY <2>1, AuditClient
  <2> QED BY <2>1, <2>2
<1>5. ASSUME Audit!UpdateStatus(c)
      PROVE  pc[c] = "update" /\ Update(c, object[c], NewVal(c, object[c].val))
  <2>1. pc[c] = "update" /\ Audit!Update(c, object[c], NewVal(c, object[c].val))
    BY <1>5 DEF Audit!UpdateStatus, NewVal
  <2> QED BY <2>1, AuditClient
<1>6. ASSUME Audit!CreatePolls(c)
      PROVE  pc[c] = "creating" /\ Polling(c)
  BY <1>6, AuditClient DEF Audit!CreatePolls
<1>7. ASSUME Audit!UpdatePolls(c)
      PROVE  pc[c] = "updating" /\ Polling(c)
  BY <1>7, AuditClient DEF Audit!UpdatePolls
<1>8. CASE Audit!Get(c)
  BY <1>1, <1>8, GetsKinds
<1>9. CASE Audit!CreateObject(c)
  BY <1>2, <1>4, <1>9, CreateMoves
<1>10. CASE Audit!CreatePolls(c)
  BY <1>2, <1>6, <1>10, CreatePollsMoves
<1>11. CASE Audit!UpdateStatus(c)
  BY <1>3, <1>5, <1>11, UpdateMoves
<1>12. CASE Audit!UpdatePolls(c)
  BY <1>3, <1>7, <1>12, UpdatePollsMoves
<1> QED BY <1>8, <1>9, <1>10, <1>11, <1>12 DEF Audit!LogRequest

LEMMA ReportFollows ==
    ASSUME NEW c
    PROVE  Report!Created(c) => CreatedMoves(c)
<1> DEFINE r == result'[c]
<1> SUFFICES ASSUME Report!Created(c)
             PROVE  CreatedMoves(c)
  OBVIOUS
<1>1. /\ CASE r = "none" -> Report!Goto(c, "creating")
           [] r \in {"ok", "exists"} -> Report!Goto(c, "call")
           [] OTHER -> Report!Goto(c, "done")
      /\ object' = object /\ retryCounter' = retryCounter
  BY DEF Report!Created
<1>2. \/ r = "none" /\ Report!Goto(c, "creating")
      \/ r \in {"ok", "exists"} /\ Report!Goto(c, "call")
      \/ r \notin {"none", "ok", "exists"} /\ Report!Goto(c, "done")
  <2>1. CASE r = "none"
    BY <1>1, <2>1, Zenon
  <2>2. CASE r # "none" /\ r \in {"ok", "exists"}
    BY <1>1, <2>2, Zenon
  <2>3. CASE r # "none" /\ r \notin {"ok", "exists"}
    BY <1>1, <2>3, Zenon
  <2> QED BY <2>1, <2>2, <2>3
<1> QED BY <1>1, <1>2 DEF Report!Goto, CreatedMoves

LEMMA ReportUpdated ==
    ASSUME reports = TRUE, NEW c
    PROVE  Report!Updated(c) => UpdatedMoves(c)
BY DEF Report!Updated, Report!Goto, UpdatedMoves

LEMMA ReportKinds ==
    ASSUME Shapes, NEW c \in Clients, reports = TRUE, Report!ReportRequest(c),
           retryCounter[c] = 0 => pc[c] \in {"call", "done"}
    PROVE  seen' = seen /\ Apart(c) /\ Kinds(c)
<1>0. CASE Report!GiveUp(c)
  <2>1. /\ pc[c] = "call" /\ retryCounter[c] = 0 /\ pc' = [pc EXCEPT ![c] = "done"]
        /\ history' = history /\ seen' = seen /\ call' = call /\ result' = result
        /\ retryCounter' = retryCounter /\ object' = object
    BY <1>0 DEF Report!GiveUp, Report!Goto, Report!clientVars
  <2>2. ClientOthersStay(c)
    BY <2>1, Labels_ DEF ClientOthersStay
  <2>3. Apart(c) /\ pc'[c] = "done"
    BY <2>1, <2>2, Labels_, MovesApart
  <2>4. GivesUp(c)
    BY <2>1, <2>3 DEF GivesUp, Moves, Keeps, NoReturn
  <2> QED BY <2>1, <2>3, <2>4 DEF Kinds
<1>1. ASSUME Report!Get(c)
      PROVE  Gets(c)
  <2>1. Report!Refuse(c, "error") => Refuse(c, "error")
    BY ReportClient
  <2>2. /\ pc[c] = "call" /\ retryCounter[c] > 0 /\ retryCounter' = retryCounter
        /\ \/ /\ Report!Cached # Report!NoObject /\ pc' = [pc EXCEPT ![c] = "update"]
              /\ object' = [object EXCEPT ![c] = Report!Cached] /\ clientVars' = clientVars
           \/ pc' = [pc EXCEPT ![c] = "create"] /\ clientVars' = clientVars /\ object' = object
           \/ pc' = [pc EXCEPT ![c] = "done"] /\ Report!Refuse(c, "error") /\ object' = object
    BY <1>1 DEF Report!Get, Report!Goto, Report!clientVars, clientVars
  <2>3. retryCounter[c] # 0
    BY <2>2, Labels_
  <2> QED BY <2>1, <2>2, <2>3, ReportObject DEF Gets
<1>2. ASSUME Report!CreateReport(c) \/ Report!CreatePolls(c)
      PROVE  CreatedMoves(c)
  BY <1>2, ReportFollows DEF Report!CreateReport, Report!CreatePolls
<1>3. ASSUME Report!UpdateReport(c) \/ Report!UpdatePolls(c)
      PROVE  UpdatedMoves(c)
  BY <1>3, ReportUpdated DEF Report!UpdateReport, Report!UpdatePolls
<1>4. ASSUME Report!CreateReport(c)
      PROVE  pc[c] = "create" /\ Create(c, IF reports THEN Report!EmptyReport ELSE << >>)
  <2>1. pc[c] = "create" /\ Report!Create(c, Report!EmptyReport)
    BY <1>4 DEF Report!CreateReport
  <2>2. Create(c, Report!EmptyReport)
    BY <2>1, ReportClient
  <2> QED BY <2>1, <2>2
<1>5. ASSUME Report!UpdateReport(c)
      PROVE  pc[c] = "update" /\ Update(c, object[c], NewVal(c, object[c].val))
  <2>1. pc[c] = "update" /\ Report!Update(c, object[c], NewVal(c, object[c].val))
    BY <1>5 DEF Report!UpdateReport, NewVal
  <2> QED BY <2>1, ReportClient
<1>6. ASSUME Report!CreatePolls(c)
      PROVE  pc[c] = "creating" /\ Polling(c)
  BY <1>6, ReportClient DEF Report!CreatePolls
<1>7. ASSUME Report!UpdatePolls(c)
      PROVE  pc[c] = "updating" /\ Polling(c)
  BY <1>7, ReportClient DEF Report!UpdatePolls
<1>8. CASE Report!Get(c)
  BY <1>1, <1>8, GetsKinds
<1>9. CASE Report!CreateReport(c)
  BY <1>2, <1>4, <1>9, CreateMoves
<1>10. CASE Report!CreatePolls(c)
  BY <1>2, <1>6, <1>10, CreatePollsMoves
<1>11. CASE Report!UpdateReport(c)
  BY <1>3, <1>5, <1>11, UpdateMoves
<1>12. CASE Report!UpdatePolls(c)
  BY <1>3, <1>7, <1>12, UpdatePollsMoves
<1> QED BY <1>0, <1>8, <1>9, <1>10, <1>11, <1>12 DEF Report!ReportRequest

LEMMA GoroutineKinds ==
    ASSUME ControlInv, NEW c \in Clients, Goroutine(c)
    PROVE  /\ reports' = reports /\ policy' = policy
           /\ spec' = spec /\ outcome' = outcome /\ answer' = answer
           /\ seen' = seen /\ Shapes' /\ OthersStay(c) /\ Kinds(c)
<1>1. /\ Shapes /\ reports \in BOOLEAN
      /\ retryCounter[c] = 0 => pc[c] \in {"call", "done"}
      /\ ~reports => retryCounter[c] # 0
  BY AdmissionAssumption DEF ControlInv, ControlOf, Shapes
<1>2. /\ reports' = reports /\ policy' = policy
      /\ spec' = spec /\ outcome' = outcome /\ answer' = answer
  BY DEF Goroutine, policyVars, requestVars
<1>3. seen' = seen /\ Apart(c) /\ Kinds(c)
  <2>1. CASE ~reports /\ Audit!LogRequest(c) /\ retryCounter' = retryCounter
    <3>1. reports = FALSE
      BY <1>1, <2>1
    <3> QED BY <1>1, <2>1, <3>1, AuditKinds
  <2>2. CASE reports /\ Report!ReportRequest(c)
    <3>1. reports = TRUE
      BY <1>1, <2>2
    <3> QED BY <1>1, <2>2, <3>1, ReportKinds
  <2> QED BY <2>1, <2>2 DEF Goroutine
<1> QED BY <1>2, <1>3, ApartIs

-----------------------------------------------------------------------------
(* The invariant stays.                                                     *)

\* At most one version is added.
Extends ==
    /\ reports' = reports
    /\ Len(history') \in {Len(history), Len(history) + 1}
    /\ \A i \in 1 .. Len(history) : history'[i] = history[i]

LEMMA SameHistory ==
    ASSUME HistoryInv, reports' = reports, history' = history, seen' \in 1 .. Len(history)
    PROVE  HistoryInv' /\ Extends
<1>1. Stored' = Stored
  BY DEF Stored, Version, LogType, ReportType, Result, Violation, Requests, NoObject
<1> QED BY <1>1 DEF HistoryInv, Extends, NoObject

\* The API server stores a version.
Adds(obj) ==
    /\ history' = Append(history, obj) /\ seen' = seen /\ reports' = reports
    /\ obj \in Stored
    /\ obj = NoObject \/ (obj.uid # 0 /\ obj.rv = NextRevision)

LEMMA AddedVersion ==
    ASSUME HistoryInv, NEW obj, Adds(obj)
    PROVE  /\ HistoryInv' /\ Extends /\ Len(history') = Len(history) + 1
           /\ history'[Len(history) + 1] = obj
<1>1. Stored' = Stored
  BY DEF Adds, Stored, Version, LogType, ReportType, Result, Violation, Requests, NoObject
<1>2. /\ history' \in Seq(Stored) /\ Len(history') = Len(history) + 1
      /\ history'[Len(history) + 1] = obj
      /\ \A i \in 1 .. Len(history) : history'[i] = history[i]
  BY AppendProperties DEF HistoryInv, Adds
<1>3. Len(history) \in Nat \ {0} /\ FirstRevision \in Int
  <2>1. Len(history) \in Nat \ {0}
    BY DEF HistoryInv
  <2>2. FirstRevision \in Int
    BY FirstRevisionAssumption
  <2> QED BY <2>1, <2>2
<1>4. ASSUME NEW i \in 1 .. Len(history')
      PROVE  history'[i] = NoObject \/ (history'[i].uid # 0 /\ history'[i].rv = FirstRevision + i - 2)
  <2>1. CASE i = Len(history) + 1
    <3>1. NextRevision = FirstRevision + i - 2
      BY <1>3, <2>1 DEF NextRevision
    <3> QED BY <1>2, <2>1, <3>1 DEF Adds
  <2>2. CASE i # Len(history) + 1
    <3>1. i \in 1 .. Len(history)
      BY <1>2, <1>3, <2>2
    <3>2. history'[i] = history[i]
      BY <1>2, <3>1
    <3> QED BY <3>1, <3>2 DEF HistoryInv
  <2> QED BY <2>1, <2>2
<1>5. Len(history') \in Nat \ {0} /\ seen' \in 1 .. Len(history') /\ history'[1] = NoObject
  BY <1>2, <1>3 DEF HistoryInv, Adds
<1>6. HistoryInv'
  BY <1>1, <1>2, <1>4, <1>5 DEF HistoryInv, NoObject
<1> QED BY <1>2, <1>6 DEF Extends, Adds

LEMMA LogStays ==
    ASSUME reports' = reports, NEW i, history'[i] = history[i]
    PROVE  LogEntries(i)' = LogEntries(i)
BY DEF LogEntries, Report!Results, Audit!Entries, Report!NoObject, Audit!NoObject

\* What is there of an old version is there.
LEMMA HasStays ==
    ASSUME HistoryInv, Extends, NEW c
    PROVE  \A i \in 1 .. Len(history) : LogEntries(i)' = LogEntries(i) /\ (Has(c, i)' <=> Has(c, i))
<1> SUFFICES ASSUME NEW i \in 1 .. Len(history)
             PROVE  LogEntries(i)' = LogEntries(i) /\ (Has(c, i)' <=> Has(c, i))
  OBVIOUS
<1>1. LogEntries(i)' = LogEntries(i)
  BY LogStays DEF Extends
<1> QED BY <1>1 DEF Has

LEMMA SameRequest ==
    ASSUME NEW c \in Clients, reports' = reports, spec'[c] = spec[c]
    PROVE  /\ OwnEntry(c)' = OwnEntry(c) /\ Size(c)' = Size(c)
           /\ answer'[c] = answer[c] => (Denied(c)' <=> Denied(c))
<1>1. action[c]' = action[c] /\ auditLogSize[c]' = auditLogSize[c]
  BY DEF action, auditLogSize, NoPolicy
<1>2. OwnEntry(c)' = OwnEntry(c)
  BY <1>1 DEF OwnEntry, Report!buildResult, Audit!buildViolation, Report!mapStatus
<1>3. Size(c)' = Size(c)
  BY <1>1 DEF Size, Audit!LogSize, Audit!DefaultAuditLogSize
<1> QED BY <1>2, <1>3 DEF Denied, NoPolicy

\* What may become of a request that writes no entry in a step.
Calm(c) ==
    \/ pc[c] \notin Late /\ pc'[c] \notin Late
    \/ /\ pc[c] \notin Late /\ pc'[c] = "done"
       /\ \/ outcome'[c] \notin {"deny", "error"} \/ spec'[c].auditPolicy = "Skip"
          \/ result'[c] \in {"error", "notfound", "conflict"}
    \/ /\ pc[c] \in Late /\ pc'[c] = pc[c] /\ result'[c] = result[c]
       /\ spec'[c] = spec[c] /\ outcome'[c] = outcome[c] /\ answer'[c] = answer[c]
    \/ /\ pc[c] = "updating" /\ pc'[c] = "done"
       /\ spec'[c] = spec[c] /\ outcome'[c] = outcome[c] /\ answer'[c] = answer[c]

\* A new version has no entry of c that the one before it has not, and its newest one is of
\* another request.
NothingNew(c) ==
    \A i \in Len(history) + 1 .. Len(history') :
        /\ ~Newest(c, i)'
        /\ \A k \in 1 .. Len(LogEntries(i)') :
              LogEntries(i)'[k].request = c =>
                  \E l \in 1 .. Len(LogEntries(i - 1)) : LogEntries(i - 1)[l] = LogEntries(i)'[k]

LEMMA EntryStays ==
    ASSUME HistoryInv, HistoryInv', Extends, NEW c \in Clients, EntryOf(c), Calm(c), NothingNew(c)
    PROVE  EntryOf(c)'
<1> DEFINE n == Len(history)
<1>1. n \in Nat \ {0} /\ Len(history') \in {n, n + 1}
  BY DEF HistoryInv, Extends
<1>2. \A i \in 1 .. n : LogEntries(i)' = LogEntries(i) /\ (Has(c, i)' <=> Has(c, i))
  BY HasStays
<1>3. \A i \in 1 .. Len(history') : i \in 1 .. n \/ (i = n + 1 /\ i \in n + 1 .. Len(history') /\ i - 1 \in 1 .. n)
  BY <1>1
<1>5. /\ reports' = reports
      /\ pc[c] \in Late => /\ pc'[c] \in Late
                           /\ spec'[c] = spec[c] /\ outcome'[c] = outcome[c] /\ answer'[c] = answer[c]
  BY DEF Calm, Extends, Late
<1>6. ASSUME NEW i \in 1 .. n, NEW k \in 1 .. Len(LogEntries(i)), LogEntries(i)[k].request = c
      PROVE  pc'[c] \in Late /\ Denied(c)' /\ LogEntries(i)[k] = OwnEntry(c)'
  <2>1. pc[c] \in Late /\ Denied(c) /\ LogEntries(i)[k] = OwnEntry(c)
    BY <1>6 DEF EntryOf, Late, n
  <2> QED BY <1>5, <2>1, SameRequest
<1>7. ASSUME NEW i \in 1 .. Len(history'), NEW k \in 1 .. Len(LogEntries(i)'), LogEntries(i)'[k].request = c
      PROVE  pc'[c] \in Late /\ Denied(c)' /\ LogEntries(i)'[k] = OwnEntry(c)'
  <2>1. CASE i \in 1 .. n
    BY <1>2, <1>6, <1>7, <2>1
  <2>2. CASE i \in n + 1 .. Len(history') /\ i - 1 \in 1 .. n
    <3>1. PICK l \in 1 .. Len(LogEntries(i - 1)) : LogEntries(i - 1)[l] = LogEntries(i)'[k]
      BY <1>7, <2>2 DEF NothingNew, n
    <3> QED BY <1>6, <1>7, <2>2, <3>1
  <2> QED BY <1>3, <2>1, <2>2
<1>8. ASSUME NEW i \in 1 .. Len(history'), Newest(c, i)'
      PROVE  i \in 1 .. n /\ Newest(c, i)
  <2>1. i \in 1 .. n
    BY <1>3, <1>8 DEF NothingNew, n
  <2> QED BY <1>2, <1>8, <2>1 DEF Newest
<1>9. \A i, j \in 1 .. Len(history') : Newest(c, i)' /\ Newest(c, j)' => i = j
  BY <1>8 DEF EntryOf, n
<1>10. (\E i \in 1 .. n : Has(c, i)) => \E i \in 1 .. Len(history') : Has(c, i)'
  <2> SUFFICES ASSUME NEW i \in 1 .. n, Has(c, i)
               PROVE  \E j \in 1 .. Len(history') : Has(c, j)'
    OBVIOUS
  <2>1. i \in 1 .. Len(history') /\ Has(c, i)'
    BY <1>1, <1>2
  <2> QED BY <2>1
<1>11. pc'[c] = "updating" => \E i \in 1 .. Len(history') : Has(c, i)'
  BY <1>10 DEF Calm, EntryOf, Late, n
<1>12. pc'[c] = "done" /\ outcome'[c] \in {"deny", "error"} /\ spec'[c].auditPolicy # "Skip"
          => \/ result'[c] \in {"error", "notfound", "conflict"}
             \/ \E i \in 1 .. Len(history') : Has(c, i)'
  BY <1>10 DEF Calm, EntryOf, Late, n
<1> QED BY <1>7, <1>9, <1>11, <1>12 DEF EntryOf, Late

\* Requests that are about to end go on doing so.
LateStay ==
    \A c \in Clients : pc[c] \in Late => pc'[c] \in Late /\ spec'[c] = spec[c]

\* Version i was made of the one before it.
Made(i) ==
    history[i].uid = history[i - 1].uid /\ history[i] # NoObject =>
        \E c \in Clients : pc[c] \in Late /\ Extended(c, LogEntries(i - 1), LogEntries(i))

LEMMA ChainIs == ChainInv <=> \A i \in 2 .. Len(history) : Made(i)
BY DEF ChainInv, Made, Late

LEMMA ChainStays ==
    ASSUME HistoryInv, Extends, LateStay, ChainInv,
           \A i \in Len(history) + 1 .. Len(history') : Made(i)'
    PROVE  ChainInv'
<1>1. Len(history) \in Nat \ {0} /\ Len(history') \in {Len(history), Len(history) + 1} /\ reports' = reports
  BY DEF HistoryInv, Extends
<1>2. ASSUME NEW i \in 2 .. Len(history')
      PROVE  Made(i)'
  <2>1. CASE i \in Len(history) + 1 .. Len(history')
    BY <2>1
  <2>2. CASE i \notin Len(history) + 1 .. Len(history')
    <3>1. i \in 2 .. Len(history) /\ i \in 1 .. Len(history) /\ i - 1 \in 1 .. Len(history)
      BY <1>1, <2>2
    <3>2. /\ history'[i] = history[i] /\ history'[i - 1] = history[i - 1]
          /\ LogEntries(i)' = LogEntries(i) /\ LogEntries(i - 1)' = LogEntries(i - 1)
      BY <1>1, <3>1, LogStays DEF Extends
    <3>3. Made(i)
      BY <3>1, ChainIs
    <3>4. ASSUME NEW c \in Clients, pc[c] \in Late, Extended(c, LogEntries(i - 1), LogEntries(i))
          PROVE  pc'[c] \in Late /\ Extended(c, LogEntries(i - 1), LogEntries(i))'
      <4>1. pc'[c] \in Late /\ Size(c)' = Size(c)
        BY <1>1, <3>4, SameRequest DEF LateStay
      <4> QED BY <1>1, <3>2, <3>4, <4>1 DEF Extended
    <3>5. NoObject' = NoObject
      BY DEF NoObject
    <3> QED BY <3>2, <3>3, <3>4, <3>5 DEF Made
  <2> QED BY <2>1, <2>2
<1>3. (\A i \in 2 .. Len(history) : Made(i))'
  BY <1>2
<1>4. ChainInv' <=> (\A i \in 2 .. Len(history) : Made(i))'
  BY DEF ChainInv, Made, Late
<1> QED BY <1>3, <1>4

LEMMA SummaryIs ==
    ASSUME NEW i, history[i] # NoObject
    PROVE  Report!SummaryCounts(i) <=> Counted(history[i].val)
<1>1. \A S : Report!Cardinality(S) = Cardinality(S)
  BY DEF Report!Cardinality, Cardinality
<1>2. Report!Results(i) = history[i].val.results
  BY ReportObject DEF Report!Results
<1>3. Report!SummaryCounts(i) <=>
          \A s \in Report!Statuses :
              history[i].val.summary[s] = Cardinality({k \in 1 .. Len(Report!Results(i)) : Report!Results(i)[k].status = s})
  BY <1>1 DEF Report!SummaryCounts
<1> QED BY <1>2, <1>3 DEF Counted, Of

LEMMA SummaryMatches == SummaryInv <=> SummaryMatchesResults
BY SummaryIs DEF SummaryInv, SummaryMatchesResults

LEMMA SummaryStays ==
    ASSUME HistoryInv, Extends, SummaryInv,
           \A i \in Len(history) + 1 .. Len(history') :
               reports /\ history'[i] # NoObject => Counted(history'[i].val)
    PROVE  SummaryInv'
<1>1. Len(history) \in Nat \ {0} /\ Len(history') \in {Len(history), Len(history) + 1} /\ reports' = reports
  BY DEF HistoryInv, Extends
<1>2. NoObject' = NoObject
  BY DEF NoObject
<1>3. ASSUME reports, NEW i \in 1 .. Len(history'), history'[i] # NoObject
      PROVE  Counted(history'[i].val)
  <2>1. CASE i \in 1 .. Len(history)
    BY <1>3, <2>1 DEF SummaryInv, Extends
  <2>2. CASE i \in Len(history) + 1 .. Len(history')
    BY <1>3, <2>2
  <2> QED BY <1>1, <2>1, <2>2
<1> QED BY <1>1, <1>2, <1>3 DEF SummaryInv, Counted, Of

-----------------------------------------------------------------------------
(* Steps of goroutines.                                                     *)

\* What GoroutineKinds says.
GoroutineStep(c) ==
    /\ reports' = reports /\ policy' = policy
    /\ spec' = spec /\ outcome' = outcome /\ answer' = answer
    /\ seen' = seen /\ Shapes' /\ OthersStay(c) /\ Kinds(c)

LEMMA ReadStays ==
    ASSUME HistoryInv, Extends, NEW o, o = NoObject \/ \E j \in 1 .. Len(history) : o = history[j]
    PROVE  o = NoObject \/ \E j \in 1 .. Len(history') : o = history'[j]
<1>1. Len(history) \in Nat \ {0} /\ Len(history') \in {Len(history), Len(history) + 1}
  BY DEF HistoryInv, Extends
<1>2. CASE o # NoObject
  <2>1. PICK j \in 1 .. Len(history) : o = history[j]
    BY <1>2
  <2>2. j \in 1 .. Len(history') /\ history'[j] = o
    BY <1>1, <2>1 DEF Extends
  <2> QED BY <2>2
<1> QED BY <1>2

LEMMA GoroutineControl ==
    ASSUME HistoryInv, ControlInv, Extends, NEW c \in Clients, GoroutineStep(c)
    PROVE  ControlInv'
<1>1. \A d \in Clients : ControlOf(d)
  BY DEF ControlInv
<1>2. ASSUME NEW d \in Clients \ {c}
      PROVE  ControlOf(d)'
  <2>1. /\ pc'[d] = pc[d] /\ call'[d] = call[d] /\ result'[d] = result[d] /\ object'[d] = object[d]
        /\ retryCounter'[d] = retryCounter[d] /\ answer' = answer /\ reports' = reports
    BY DEF GoroutineStep, OthersStay
  <2>2. object[d] = NoObject \/ \E j \in 1 .. Len(history') : object[d] = history'[j]
    BY <1>1, ReadStays DEF ControlOf
  <2>3. NoObject' = NoObject
    BY DEF NoObject
  <2> QED BY <1>1, <2>1, <2>2, <2>3 DEF ControlOf
<1>3. ControlOf(c)'
  <2>1. ControlOf(c) /\ answer' = answer /\ reports' = reports /\ NoObject' = NoObject
    BY <1>1 DEF GoroutineStep, NoObject
  <2>2. object'[c] = NoObject \/ \E j \in 1 .. Len(history') : object'[c] = history'[j]
    <3>1. object'[c] = object[c] \/ object'[c] = Cached
      BY DEF GoroutineStep, Kinds, GivesUp, Misses, Fails, Succeeds, Reads, Again, Conflicts, Creates,
             Writes, Keeps
    <3>2. Cached = history[seen] /\ seen \in 1 .. Len(history)
      BY DEF Cached, HistoryInv
    <3>3. object'[c] = NoObject \/ \E j \in 1 .. Len(history) : object'[c] = history[j]
      BY <2>1, <3>1, <3>2 DEF ControlOf
    <3> QED BY <3>3, ReadStays
  <2>3. /\ answer'[c] = "none" <=> pc'[c] \in {"find", "handle"}
        /\ pc'[c] = "creating" <=> call'[c].op = "create"
        /\ pc'[c] = "updating" <=> call'[c].op = "update"
        /\ retryCounter'[c] = 0 => result'[c] = "conflict" /\ pc'[c] \in {"call", "done"}
        /\ ~reports => retryCounter'[c] = RetryCounter
        /\ pc'[c] = "update" => object'[c] # NoObject
    <3>0. NoCall.op = "none"
      BY DEF NoCall
    <3>1. CASE GivesUp(c)
      BY <2>1, <3>1 DEF GivesUp, ControlOf, Moves, Keeps, NoReturn
    <3>2. CASE retryCounter[c] # 0 /\ Misses(c)
      BY <2>1, <3>2 DEF Misses, ControlOf, Moves, Keeps, NoReturn
    <3>3. CASE retryCounter[c] # 0 /\ Fails(c)
      BY <2>1, <3>0, <3>3 DEF Fails, ControlOf, Moves, Keeps, Returns
    <3>4. CASE retryCounter[c] # 0 /\ Succeeds(c)
      BY <2>1, <3>0, <3>4 DEF Succeeds, ControlOf, Moves, Keeps, Returns
    <3>5. CASE retryCounter[c] # 0 /\ Reads(c)
      BY <2>1, <3>5 DEF Reads, ControlOf, Moves, NoReturn
    <3>6. CASE retryCounter[c] # 0 /\ Again(c)
      BY <2>1, <3>0, <3>6 DEF Again, ControlOf, Moves, Keeps
    <3>7. CASE retryCounter[c] # 0 /\ Conflicts(c)
      BY <2>1, <3>0, <3>7 DEF Conflicts, ControlOf, Moves, Returns
    <3>8. CASE retryCounter[c] # 0 /\ Creates(c)
      BY <2>1, <3>0, <3>8 DEF Creates, ControlOf, Moves, Returns, Waits
    <3>9. CASE retryCounter[c] # 0 /\ Writes(c)
      BY <2>1, <3>0, <3>9 DEF Writes, ControlOf, Moves, Returns, Waits
    <3> QED BY <3>1, <3>2, <3>3, <3>4, <3>5, <3>6, <3>7, <3>8, <3>9 DEF GoroutineStep, Kinds
  <2> QED BY <2>1, <2>2, <2>3 DEF ControlOf
<1> QED BY <1>2, <1>3 DEF ControlInv, GoroutineStep, Shapes

LEMMA GoroutineFrom ==
    ASSUME NEW c \in Clients, GoroutineStep(c)
    PROVE  pc[c] \in Writing /\ pc'[c] \in Writing \cup {"done"}
BY DEF GoroutineStep, Kinds, GivesUp, Misses, Fails, Succeeds, Reads, Again, Conflicts, Creates, Writes,
       Moves, Writing

LEMMA GoroutinePolicy ==
    ASSUME ControlInv, PolicyInv, NEW c \in Clients, GoroutineStep(c)
    PROVE  PolicyInv' /\ Denied(c) /\ Denied(c)'
<1>1. pc[c] \in Writing /\ pc'[c] \in Writing \cup {"done"}
  BY GoroutineFrom
<1>2. /\ policy' = policy /\ spec' = spec /\ outcome' = outcome /\ answer' = answer /\ reports' = reports
      /\ \A d \in Clients \ {c} : pc'[d] = pc[d]
  BY DEF GoroutineStep, OthersStay
<1>3. \A d \in Clients : Denied(d)' <=> Denied(d)
  BY <1>2 DEF Denied, NoPolicy
<1>4. Denied(c)
  BY <1>1 DEF PolicyInv
<1>5. ASSUME NEW d \in Clients
      PROVE  /\ pc'[d] \in {"find", "handle"} => outcome'[d] = "none"
             /\ pc'[d] = "handle" => spec'[d] # NoPolicy /\ ValidateJsPolicy(spec'[d])
             /\ pc'[d] \in Writing => Denied(d)'
  <2>1. CASE d = c
    BY <1>1, <1>3, <1>4, <2>1 DEF Writing
  <2>2. CASE d # c
    BY <1>2, <1>3, <2>2 DEF PolicyInv
  <2> QED BY <2>1, <2>2
<1>6. NoPolicy' = NoPolicy
  BY DEF NoPolicy
<1> QED BY <1>2, <1>3, <1>4, <1>5, <1>6 DEF PolicyInv

\* The others are calm, and c too unless it writes.
LEMMA GoroutineCalm ==
    ASSUME ControlInv, NEW c \in Clients, GoroutineStep(c)
    PROVE  /\ \A d \in Clients \ {c} : Calm(d)
           /\ Writes(c) \/ Calm(c)
           /\ LateStay
<1>1. /\ spec' = spec /\ outcome' = outcome /\ answer' = answer
      /\ \A d \in Clients \ {c} : pc'[d] = pc[d] /\ result'[d] = result[d]
  BY DEF GoroutineStep, OthersStay
<1>2. \A d \in Clients \ {c} : Calm(d)
  BY <1>1 DEF Calm
<1>3. ASSUME ~Writes(c)
      PROVE  Calm(c)
  <2>0. ControlOf(c)
    BY DEF ControlInv
  <2>1. CASE GivesUp(c)
    BY <2>0, <2>1 DEF GivesUp, Calm, ControlOf, Moves, NoReturn, Late
  <2>2. CASE Misses(c)
    BY <2>2 DEF Misses, Calm, Moves, Late
  <2>3. CASE Fails(c)
    BY <2>3 DEF Fails, Calm, Moves, Late, Returns
  <2>4. CASE Succeeds(c)
    BY <1>1, <2>4 DEF Succeeds, Calm, Moves
  <2>5. CASE Reads(c)
    BY <2>5 DEF Reads, Calm, Moves, Late
  <2>6. CASE Again(c)
    BY <2>6 DEF Again, Calm, Moves, Late
  <2>7. CASE Conflicts(c)
    BY <2>7 DEF Conflicts, Calm, Moves, Late
  <2>8. CASE Creates(c)
    BY <2>8 DEF Creates, Calm, Moves, Late, Returns
  <2> QED BY <1>3, <2>1, <2>2, <2>3, <2>4, <2>5, <2>6, <2>7, <2>8 DEF GoroutineStep, Kinds
<1>4. Writes(c) => pc[c] \notin Late
  BY DEF Writes, Moves, Late
<1>5. \A d \in Clients : pc[d] \in Late => Calm(d)
  BY <1>2, <1>3, <1>4
<1>6. LateStay
  BY <1>1, <1>5 DEF LateStay, Calm, Late
<1> QED BY <1>2, <1>3, <1>6

\* Nothing is stored.
LEMMA QuietStep ==
    ASSUME HistoryInv, EntryInv, ChainInv, SummaryInv, reports' = reports, history' = history,
           seen' \in 1 .. Len(history), \A d \in Clients : Calm(d), LateStay
    PROVE  HistoryInv' /\ EntryInv' /\ ChainInv' /\ SummaryInv'
<1>1. HistoryInv' /\ Extends
  BY SameHistory
<1>2. \A i : i \notin Len(history) + 1 .. Len(history')
  BY DEF HistoryInv
<1>3. \A d \in Clients : NothingNew(d)
  BY <1>2 DEF NothingNew
<1>4. EntryInv'
  BY <1>1, <1>3, EntryStays DEF EntryInv
<1>5. ChainInv'
  BY <1>1, <1>2, ChainStays
<1>6. SummaryInv'
  BY <1>1, <1>2, SummaryStays
<1> QED BY <1>1, <1>4, <1>5, <1>6

\* The log of a new version.
LEMMA LogOfNew ==
    ASSUME HistoryInv, NEW obj, Adds(obj), NEW m, m = Len(history) + 1
    PROVE  /\ \A i \in Len(history) + 1 .. Len(history') : i = m
           /\ history'[m] = obj
           /\ LogEntries(m)' = IF obj = NoObject THEN << >> ELSE LogOf(obj.val)
<1>1. Len(history') = m /\ history'[m] = obj /\ m \in Nat
  BY AddedVersion DEF HistoryInv
<1>2. reports' = reports /\ NoObject' = NoObject
  BY DEF Adds, NoObject
<1>3. LogEntries(m)' = IF reports THEN (IF obj = NoObject THEN << >> ELSE obj.val.results)
                       ELSE (IF obj = NoObject THEN << >> ELSE obj.val)
  BY <1>1, <1>2 DEF LogEntries, Report!Results, Audit!Entries, Report!NoObject, Audit!NoObject, NoObject
<1> QED BY <1>1, <1>3 DEF LogOf

\* An empty log is stored, or the log goes.
LEMMA EmptyStep ==
    ASSUME HistoryInv, EntryInv, ChainInv, SummaryInv, \A d \in Clients : Calm(d), LateStay,
           NEW obj, Adds(obj),
           obj # NoObject => /\ LogOf(obj.val) = << >> /\ obj.uid # history[Len(history)].uid
                             /\ reports => Counted(obj.val)
    PROVE  HistoryInv' /\ EntryInv' /\ ChainInv' /\ SummaryInv'
<1> DEFINE n == Len(history)
<1>0. PICK m : m = n + 1
  OBVIOUS
<1>1. HistoryInv' /\ Extends /\ n \in Nat \ {0}
  BY AddedVersion DEF HistoryInv
<1>2. /\ \A i \in n + 1 .. Len(history') : i = m
      /\ history'[m] = obj
      /\ LogEntries(m)' = << >>
  BY <1>0, LogOfNew
<1>3. \A k : k \notin 1 .. Len(<< >>)
  OBVIOUS
<1>4. \A d \in Clients : NothingNew(d)
  BY <1>2, <1>3 DEF NothingNew, Newest
<1>5. EntryInv'
  BY <1>1, <1>4, EntryStays DEF EntryInv
<1>6. history'[m - 1] = history[n]
  BY <1>0, <1>1 DEF Extends
<1>7. Made(m)'
  BY <1>2, <1>6 DEF Made, NoObject
<1>8. ChainInv'
  BY <1>1, <1>2, <1>7, ChainStays
<1>9. SummaryInv'
  BY <1>1, <1>2, SummaryStays
<1> QED BY <1>1, <1>5, <1>8, <1>9

LEMMA CreatesAdds ==
    ASSUME HistoryInv, ControlInv, NEW c \in Clients, Creates(c), seen' = seen, reports' = reports
    PROVE  \E obj : /\ Adds(obj) /\ obj # NoObject
                    /\ LogOf(obj.val) = << >> /\ obj.uid # history[Len(history)].uid
                    /\ reports => Counted(obj.val)
<1> DEFINE val == IF reports THEN Report!EmptyReport ELSE << >>
           obj == NewObject(val)
<1>1. NextUID \in Nat \ {0} /\ NextRevision \in Int
  <2>1. Len(history) \in Nat
    BY DEF HistoryInv
  <2>2. IsFiniteSet(2 .. Len(history))
    BY <2>1, FS_Interval
  <2>3. Cardinality({i \in 2 .. Len(history) : history[i].uid # history[i - 1].uid}) \in Nat
    BY <2>2, FS_Subset, FS_CardinalityType
  <2> QED BY <2>1, <2>3, FirstRevisionAssumption DEF NextUID, NextRevision
<1>2. val \in LogType /\ LogOf(val) = << >> /\ (reports => Counted(val))
  <2>1. << >> \in Seq(Result) /\ << >> \in Seq(Violation) /\ Len(<< >>) = 0
    OBVIOUS
  <2>2. CASE reports
    <3>1. val = [results |-> << >>, summary |-> [s \in Report!Statuses |-> 0]]
      BY <2>2 DEF Report!EmptyReport
    <3>2. \A s : Of(<< >>, s) = {}
      BY <2>1 DEF Of
    <3>3. \A s : Cardinality(Of(<< >>, s)) = 0
      BY <3>2, FS_EmptySet
    <3> HIDE DEF val
    <3> QED BY <2>1, <2>2, <3>1, <3>3 DEF LogType, ReportType, LogOf, Counted
  <2>3. CASE ~reports
    BY <2>1, <2>3 DEF LogType, LogOf
  <2> QED BY <2>2, <2>3
<1>3. /\ history' = Append(history, obj)
      /\ history[Len(history)] = NoObject /\ NoObject.uid = 0
  BY DEF Creates, Server, NoObject
<1> HIDE DEF val
<1>4. obj \in Stored /\ obj.uid # 0 /\ obj.rv = NextRevision /\ obj.val = val /\ obj.uid = NextUID
  BY <1>1, <1>2 DEF NewObject, Stored, Version
<1> HIDE DEF obj
<1>5. Adds(obj) /\ obj # NoObject /\ obj.uid # history[Len(history)].uid
  BY <1>1, <1>3, <1>4 DEF Adds
<1> QED BY <1>2, <1>4, <1>5

\* An update that is stored was made of the version before.
LEMMA WritesAdds ==
    ASSUME HistoryInv, ControlInv, NEW c \in Clients, Denied(c), Writes(c), seen' = seen, reports' = reports
    PROVE  LET old == history[Len(history)]
           IN \E obj : /\ Adds(obj) /\ obj # NoObject /\ obj.val = NewVal(c, old.val)
                       /\ old # NoObject /\ old.val \in LogType
<1> DEFINE n == Len(history)
           old == history[n]
           val == NewVal(c, old.val)
           obj == Updated_(old, val)
<1>1. n \in 1 .. n /\ n \in Nat \ {0} /\ ControlOf(c) /\ reports \in BOOLEAN
  BY DEF HistoryInv, ControlInv
<1>2. old # NoObject /\ old.rv = object[c].rv
  BY DEF Writes, Server
<1>3. PICK j \in 1 .. n : object[c] = history[j] /\ object[c] # NoObject
  BY <1>1 DEF Writes, Moves, ControlOf
<1>4. object[c] = old
  <2>1. j = n
    BY <1>1, <1>2, <1>3, SameVersion
  <2> QED BY <1>3, <2>1
<1>5. /\ old.val \in LogType /\ old.uid \in Nat \ {0} /\ old.deleting \in BOOLEAN
      /\ NextRevision \in Int
  BY <1>1, <1>2, VersionAt, FirstRevisionAssumption DEF NextRevision
<1>6. val \in LogType
  BY <1>1, <1>5, NewLog
<1>7. history' = Append(history, obj) /\ Server = old
  BY <1>4 DEF Writes, Server
<1> HIDE DEF val, old
<1>8. obj \in Stored /\ obj.uid # 0 /\ obj.rv = NextRevision /\ obj.val = val
  BY <1>5, <1>6, <1>7 DEF Updated_, Stored, Version
<1> HIDE DEF obj
<1>9. Adds(obj) /\ obj # NoObject
  <2>1. NoObject.uid = 0
    BY DEF NoObject
  <2> QED BY <1>7, <1>8, <2>1 DEF Adds
<1> QED BY <1>2, <1>5, <1>8, <1>9 DEF val, old

LEMMA WritesStep ==
    ASSUME HistoryInv, ControlInv, PolicyInv, EntryInv, ChainInv, SummaryInv,
           NEW c \in Clients, GoroutineStep(c), Writes(c)
    PROVE  HistoryInv' /\ EntryInv' /\ ChainInv' /\ SummaryInv'
<1> DEFINE n == Len(history)
<1>0. /\ \A d \in Clients \ {c} : Calm(d)
      /\ LateStay
      /\ Denied(c) /\ Denied(c)'
      /\ seen' = seen /\ reports' = reports /\ spec' = spec /\ reports \in BOOLEAN
  BY GoroutineCalm, GoroutinePolicy DEF GoroutineStep, ControlInv
<1>1. PICK obj : /\ Adds(obj) /\ obj # NoObject /\ obj.val = NewVal(c, history[n].val)
                 /\ history[n] # NoObject /\ history[n].val \in LogType
  BY <1>0, WritesAdds
<1>2. PICK m : m = n + 1
  OBVIOUS
<1>3. PICK old : old = LogOf(history[n].val)
  OBVIOUS
<1>4. PICK new : new = LogOf(obj.val)
  OBVIOUS
<1>5. HistoryInv' /\ Extends /\ n \in Nat \ {0} /\ n \in 1 .. n
  BY <1>1, AddedVersion DEF HistoryInv
<1>6. /\ \A i \in n + 1 .. Len(history') : i = m
      /\ history'[m] = obj
      /\ LogEntries(m)' = new
  BY <1>1, <1>2, <1>4, LogOfNew
<1>7. LogEntries(n) = old /\ old \in Seq(EntryType) /\ Len(old) \in Nat
  BY <1>1, <1>3, <1>5, LogAt
<1>8. /\ Extended(c, old, new)
      /\ reports => (Counted(history[n].val) => Counted(obj.val))
  BY <1>0, <1>1, <1>3, <1>4, NewLog
<1>9. PICK cut : Added(old, OwnEntry(c), cut, new)
  BY <1>0, <1>1, <1>3, <1>4, NewLog
<1>10. /\ Len(new) \in Nat \ {0} /\ new[Len(new)] = OwnEntry(c) /\ OwnEntry(c).request = c
       /\ \A k \in 1 .. Len(new) - 1 : cut + k \in 1 .. Len(old) /\ new[k] = old[cut + k]
  <2>1. OwnEntry(c).request = c
    BY <1>0, OwnEntryIs
  <2> QED BY <1>7, <1>9, <2>1 DEF Added
<1>11. \A k \in 1 .. Len(new) : k = Len(new) \/ k \in 1 .. Len(new) - 1
  BY <1>10
<1>12. m - 1 = n /\ m \in 1 .. Len(history') /\ Len(history') = m
  BY <1>1, <1>2, <1>5, AddedVersion
<1>13. ASSUME NEW d \in Clients \ {c}
       PROVE  EntryOf(d)'
  <2>n. \A i \in n + 1 .. Len(history') : ~Newest(d, i)'
    BY <1>6, <1>10, <1>13 DEF Newest
  <2>1. NothingNew(d)
    <3> SUFFICES ASSUME NEW i \in n + 1 .. Len(history'), NEW k \in 1 .. Len(LogEntries(i)'),
                        LogEntries(i)'[k].request = d
                 PROVE  \E l \in 1 .. Len(LogEntries(i - 1)) : LogEntries(i - 1)[l] = LogEntries(i)'[k]
      BY <2>n DEF NothingNew
    <3>1. i = m /\ i - 1 = n
      BY <1>6, <1>12
    <3>2. LogEntries(i)' = new /\ LogEntries(i - 1) = old
      BY <1>6, <1>7, <3>1
    <3>3. k \in 1 .. Len(new) - 1
      BY <1>10, <1>11, <3>2
    <3>4. cut + k \in 1 .. Len(old) /\ old[cut + k] = new[k]
      BY <1>10, <3>3
    <3> QED BY <3>2, <3>4
  <2> QED BY <1>0, <1>5, <2>1, EntryStays DEF EntryInv
<1>14. EntryOf(c)'
  <2>1. pc[c] \notin Late /\ pc'[c] \in Late /\ EntryOf(c)
    BY DEF Writes, Moves, Late, EntryInv
  <2>2. \A i \in 1 .. n : \A k \in 1 .. Len(LogEntries(i)) : LogEntries(i)[k].request # c
    BY <2>1 DEF EntryOf, n
  <2>3. \A i \in 1 .. n : LogEntries(i)' = LogEntries(i) /\ ~Has(c, i)'
    <3>1. \A i \in 1 .. n : ~Has(c, i)
      BY <2>2 DEF Has
    <3> QED BY <1>5, <3>1, HasStays
  <2>4. \A i \in 1 .. Len(history') : i \in 1 .. n \/ i = m
    BY <1>2, <1>5, <1>12
  <2>5. OwnEntry(c)' = OwnEntry(c)
    BY <1>0, SameRequest
  <2>6. ASSUME NEW i \in 1 .. Len(history'), NEW k \in 1 .. Len(LogEntries(i)'), LogEntries(i)'[k].request = c
        PROVE  pc'[c] \in Late /\ Denied(c)' /\ LogEntries(i)'[k] = OwnEntry(c)'
    <3>1. i = m
      BY <2>2, <2>3, <2>4, <2>6
    <3>2. LogEntries(i)' = new
      BY <1>6, <3>1
    <3>3. k = Len(new)
      <4>1. CASE k \in 1 .. Len(new) - 1
        <5>1. cut + k \in 1 .. Len(LogEntries(n)) /\ LogEntries(n)[cut + k].request = c
          BY <1>7, <1>10, <2>6, <3>2, <4>1
        <5> QED BY <1>5, <2>2, <5>1
      <4> QED BY <1>11, <3>2, <4>1
    <3> QED BY <1>0, <1>10, <2>1, <2>5, <3>2, <3>3
  <2>7. \A i \in 1 .. Len(history') : Newest(c, i)' => i = m
    <3> SUFFICES ASSUME NEW i \in 1 .. n, Newest(c, i)'
                 PROVE  FALSE
      BY <2>4
    <3>1. LogEntries(i) # << >> /\ LogEntries(i)[Len(LogEntries(i))].request = c
      BY <2>3 DEF Newest
    <3>2. Len(LogEntries(i)) \in 1 .. Len(LogEntries(i))
      <4>1. LogEntries(i) \in Seq(EntryType) /\ Len(LogEntries(i)) \in Nat
        BY LogAt
      <4> QED BY <3>1, <4>1
    <3> QED BY <2>2, <3>1, <3>2
  <2>8. m \in 1 .. Len(history') /\ Has(c, m)'
    <3>1. Len(new) \in 1 .. Len(new) /\ new[Len(new)].request = c
      BY <1>10
    <3> QED BY <1>6, <1>12, <3>1 DEF Has
  <2> QED BY <2>6, <2>7, <2>8 DEF EntryOf
<1>15. EntryInv'
  BY <1>13, <1>14 DEF EntryInv
<1>16. Made(m)'
  <2>1. pc'[c] \in Late
    BY DEF Writes, Moves, Late
  <2>2. LogEntries(m - 1)' = old
    BY <1>5, <1>7, <1>12, HasStays
  <2>3. Size(c)' = Size(c)
    BY <1>0, SameRequest
  <2>4. Extended(c, LogEntries(m - 1), LogEntries(m))'
    BY <1>0, <1>6, <1>8, <2>2, <2>3 DEF Extended
  <2> QED BY <2>1, <2>4 DEF Made
<1>17. ChainInv'
  BY <1>0, <1>5, <1>6, <1>16, ChainStays
<1>18. reports => Counted(history'[m].val)
  <2>1. reports => Counted(history[n].val)
    BY <1>1, <1>5 DEF SummaryInv
  <2> QED BY <1>6, <1>8, <2>1
<1>19. SummaryInv'
  BY <1>5, <1>6, <1>18, SummaryStays
<1> QED BY <1>5, <1>15, <1>17, <1>19

LEMMA GoroutineKeepsInv ==
    ASSUME IInv, NEW c \in Clients, Goroutine(c)
    PROVE  IInv'
<1>1. HistoryInv /\ ControlInv /\ PolicyInv /\ EntryInv /\ ChainInv /\ SummaryInv
  BY DEF IInv
<1>2. GoroutineStep(c)
  BY <1>1, GoroutineKinds DEF GoroutineStep
<1>3. seen' = seen /\ reports' = reports /\ seen \in 1 .. Len(history)
  BY <1>1, <1>2 DEF GoroutineStep, HistoryInv
<1>4. PolicyInv'
  BY <1>1, <1>2, GoroutinePolicy
<1>5. (\A d \in Clients \ {c} : Calm(d)) /\ (Writes(c) \/ Calm(c)) /\ LateStay
  BY <1>1, <1>2, GoroutineCalm
<1>6. CASE Writes(c)
  <2>1. HistoryInv' /\ EntryInv' /\ ChainInv' /\ SummaryInv'
    BY <1>1, <1>2, <1>6, WritesStep
  <2>2. Extends
    BY <1>1, <1>2, <1>3, <1>4, <1>6, WritesAdds, AddedVersion, GoroutinePolicy
  <2>3. ControlInv'
    BY <1>1, <1>2, <2>2, GoroutineControl
  <2> QED BY <1>4, <2>1, <2>3 DEF IInv
<1>7. CASE ~Writes(c) /\ Creates(c)
  <2>1. PICK obj : /\ Adds(obj) /\ obj # NoObject
                   /\ LogOf(obj.val) = << >> /\ obj.uid # history[Len(history)].uid
                   /\ reports => Counted(obj.val)
    BY <1>1, <1>3, <1>7, CreatesAdds
  <2>2. HistoryInv' /\ EntryInv' /\ ChainInv' /\ SummaryInv'
    BY <1>1, <1>5, <1>7, <2>1, EmptyStep
  <2>3. Extends
    BY <1>1, <2>1, AddedVersion
  <2>4. ControlInv'
    BY <1>1, <1>2, <2>3, GoroutineControl
  <2> QED BY <1>4, <2>2, <2>4 DEF IInv
<1>8. CASE ~Writes(c) /\ ~Creates(c)
  <2>1. history' = history
    BY <1>2, <1>8 DEF GoroutineStep, Kinds, GivesUp, Misses, Fails, Succeeds, Reads, Again, Conflicts, Keeps
  <2>2. HistoryInv' /\ EntryInv' /\ ChainInv' /\ SummaryInv'
    BY <1>1, <1>3, <1>5, <1>8, <2>1, QuietStep
  <2>3. Extends
    BY <1>1, <1>3, <2>1, SameHistory
  <2>4. ControlInv'
    BY <1>1, <1>2, <2>3, GoroutineControl
  <2> QED BY <1>4, <2>2, <2>4 DEF IInv
<1> QED BY <1>6, <1>7, <1>8

-----------------------------------------------------------------------------
(* The other steps.                                                         *)

\* Users and the watch leave the requests alone.
RequestsStay ==
    /\ reports' = reports /\ call' = call /\ result' = result
    /\ spec' = spec /\ outcome' = outcome /\ answer' = answer
    /\ pc' = pc /\ object' = object /\ retryCounter' = retryCounter

LEMMA RequestsControl ==
    ASSUME HistoryInv, ControlInv, Extends, RequestsStay
    PROVE  ControlInv' /\ LateStay /\ \A d \in Clients : Calm(d)
<1>1. ASSUME NEW d \in Clients
      PROVE  ControlOf(d)'
  <2>1. ControlOf(d)
    BY DEF ControlInv
  <2>2. object[d] = NoObject \/ \E j \in 1 .. Len(history') : object[d] = history'[j]
    BY <2>1, ReadStays DEF ControlOf
  <2>3. NoObject' = NoObject
    BY DEF NoObject
  <2> QED BY <2>1, <2>2, <2>3 DEF ControlOf, RequestsStay
<1>2. ControlInv'
  BY <1>1 DEF ControlInv, RequestsStay
<1>3. \A d \in Clients : Calm(d)
  BY DEF Calm, RequestsStay
<1>4. LateStay
  BY DEF LateStay, RequestsStay
<1> QED BY <1>2, <1>3, <1>4

LEMMA RequestsPolicy ==
    ASSUME PolicyInv, RequestsStay, policy' = NoPolicy \/ (policy' \in Policies /\ ValidateJsPolicy(policy'))
    PROVE  PolicyInv'
<1>1. \A d \in Clients : Denied(d)' <=> Denied(d)
  BY DEF Denied, NoPolicy, RequestsStay
<1>2. NoPolicy' = NoPolicy
  BY DEF NoPolicy
<1> QED BY <1>1, <1>2 DEF PolicyInv, RequestsStay

\* The watch, and the edits of users.
LEMMA QuietSteps ==
    ASSUME IInv, RequestsStay, history' = history, seen' \in 1 .. Len(history),
           policy' = NoPolicy \/ (policy' \in Policies /\ ValidateJsPolicy(policy'))
    PROVE  IInv'
<1>1. HistoryInv /\ ControlInv /\ PolicyInv /\ EntryInv /\ ChainInv /\ SummaryInv /\ reports' = reports
  BY DEF IInv, RequestsStay
<1>2. Extends
  BY <1>1, SameHistory
<1>3. ControlInv' /\ LateStay /\ \A d \in Clients : Calm(d)
  BY <1>1, <1>2, RequestsControl
<1>4. HistoryInv' /\ EntryInv' /\ ChainInv' /\ SummaryInv'
  BY <1>1, <1>3, QuietStep
<1> QED BY <1>1, <1>3, <1>4, RequestsPolicy DEF IInv

LEMMA WatchKeepsInv ==
    ASSUME IInv, Watch
    PROVE  IInv'
<1>1. RequestsStay /\ history' = history /\ policy' = policy
  BY DEF Watch, Deliver, policyVars, requestVars, goroutineVars, RequestsStay
<1>2. seen' \in 1 .. Len(history)
  <2>1. Len(history) \in Nat /\ seen \in 1 .. Len(history) /\ seen' \in seen + 1 .. Len(history)
    BY DEF IInv, HistoryInv, Watch, Deliver
  <2> QED BY <2>1
<1>3. policy' = NoPolicy \/ (policy' \in Policies /\ ValidateJsPolicy(policy'))
  BY <1>1 DEF IInv, PolicyInv
<1> QED BY <1>1, <1>2, <1>3, QuietSteps

LEMMA EditsKeepInv ==
    ASSUME IInv, EditPolicy \/ DeletePolicy
    PROVE  IInv'
<1>1. RequestsStay /\ history' = history /\ seen' = seen /\ seen \in 1 .. Len(history)
  BY DEF EditPolicy, DeletePolicy, clientVars, requestVars, goroutineVars, RequestsStay, IInv, HistoryInv
<1>2. policy' = NoPolicy \/ (policy' \in Policies /\ ValidateJsPolicy(policy'))
  BY DEF EditPolicy, DeletePolicy, Accepted, ValidateJsPolicyUpdate, ValidateJsPolicy
<1> QED BY <1>1, <1>2, QuietSteps

LEMMA RemoveLogKeepsInv ==
    ASSUME IInv, RemoveLog
    PROVE  IInv'
<1>1. HistoryInv /\ ControlInv /\ PolicyInv /\ EntryInv /\ ChainInv /\ SummaryInv
  BY DEF IInv
<1>2. RequestsStay /\ policy' = policy
  BY DEF RemoveLog, policyVars, requestVars, goroutineVars, RequestsStay
<1>3. PICK obj : obj = NoObject
  OBVIOUS
<1>4. Adds(obj)
  BY <1>2, <1>3 DEF RemoveLog, Adds, RequestsStay, Stored
<1>5. Extends
  BY <1>1, <1>4, AddedVersion
<1>6. ControlInv' /\ LateStay /\ \A d \in Clients : Calm(d)
  BY <1>1, <1>2, <1>5, RequestsControl
<1>7. HistoryInv' /\ EntryInv' /\ ChainInv' /\ SummaryInv'
  BY <1>1, <1>3, <1>4, <1>6, EmptyStep
<1>8. PolicyInv'
  BY <1>1, <1>2, RequestsPolicy DEF PolicyInv
<1> QED BY <1>6, <1>7, <1>8 DEF IInv

\* The webhook handles request c.
Handles(c) ==
    /\ reports' = reports /\ policy' = policy /\ history' = history /\ seen' = seen
    /\ call' = call /\ result' = result /\ object' = object /\ retryCounter' = retryCounter
    /\ pc[c] \in {"find", "handle"} /\ pc' \in [Clients -> Labels]
    /\ DOMAIN spec' = Clients /\ DOMAIN outcome' = Clients /\ DOMAIN answer' = Clients
    /\ \A d \in Clients \ {c} : /\ pc'[d] = pc[d] /\ spec'[d] = spec[d]
                                /\ outcome'[d] = outcome[d] /\ answer'[d] = answer[d]
    /\ \/ /\ pc'[c] = "handle" /\ spec'[c] = policy /\ policy # NoPolicy
          /\ outcome'[c] = "none" /\ answer'[c] = "none"
       \/ pc'[c] = "done" /\ answer'[c] # "none" /\ (outcome'[c] \in {"deny", "error"} => spec'[c].auditPolicy = "Skip")
       \/ /\ pc'[c] = "call" /\ spec'[c] = spec[c] /\ pc[c] = "handle"
          /\ answer'[c] # "none" /\ answer'[c] = Response(spec[c], "denied")

LEMMA HandlesKeepsInv ==
    ASSUME IInv, NEW c \in Clients, Handles(c)
    PROVE  IInv'
<1>1. HistoryInv /\ ControlInv /\ PolicyInv /\ EntryInv /\ ChainInv /\ SummaryInv
  BY DEF IInv
<1>2. seen' \in 1 .. Len(history) /\ Extends /\ reports' = reports
  BY <1>1, SameHistory DEF Handles, HistoryInv
<1>3. \A d \in Clients : Calm(d)
  <2>1. Calm(c)
    BY DEF Handles, Calm, Late
  <2>2. \A d \in Clients \ {c} : Calm(d)
    BY DEF Handles, Calm
  <2> QED BY <2>1, <2>2
<1>4. LateStay
  BY DEF Handles, LateStay, Late
<1>5. HistoryInv' /\ EntryInv' /\ ChainInv' /\ SummaryInv'
  BY <1>1, <1>2, <1>3, <1>4, QuietStep DEF Handles
<1>6. ControlInv'
  <2>1. ASSUME NEW d \in Clients
        PROVE  ControlOf(d)'
    <3>1. ControlOf(d) /\ NoObject' = NoObject
      BY <1>1 DEF ControlInv, NoObject
    <3>2. object[d] = NoObject \/ \E j \in 1 .. Len(history') : object[d] = history'[j]
      BY <1>1, <1>2, <3>1, ReadStays DEF ControlOf
    <3>3. CASE d = c
      BY <3>1, <3>2, <3>3 DEF ControlOf, Handles
    <3>4. CASE d # c
      BY <3>1, <3>2, <3>4 DEF ControlOf, Handles
    <3> QED BY <3>3, <3>4
  <2> QED BY <1>1, <2>1 DEF ControlInv, Handles
<1>7. PolicyInv'
  <2>1. ASSUME NEW d \in Clients
        PROVE  /\ pc'[d] \in {"find", "handle"} => outcome'[d] = "none"
               /\ pc'[d] = "handle" => spec'[d] # NoPolicy /\ ValidateJsPolicy(spec'[d])
               /\ pc'[d] \in Writing => Denied(d)'
    <3>1. CASE d = c
      BY <1>1, <3>1 DEF PolicyInv, Handles, Denied, NoPolicy, Writing
    <3>2. CASE d # c
      BY <1>1, <3>2 DEF PolicyInv, Handles, Denied, NoPolicy
    <3> QED BY <3>1, <3>2
  <2> QED BY <1>1, <2>1 DEF PolicyInv, NoPolicy, Handles
<1> QED BY <1>5, <1>6, <1>7 DEF IInv

LEMMA FindHandles ==
    ASSUME IInv, NEW c \in Clients, Find(c)
    PROVE  Handles(c)
<1>1. ControlInv /\ PolicyInv /\ ControlOf(c) /\ "handle" \in Labels /\ "done" \in Labels
  BY DEF IInv, ControlInv, Labels
<1>2. /\ pc[c] = "find" /\ outcome[c] = "none" /\ answer[c] = "none"
      /\ reports' = reports /\ policy' = policy /\ history' = history /\ seen' = seen
      /\ call' = call /\ result' = result /\ object' = object /\ retryCounter' = retryCounter /\ outcome' = outcome
  BY <1>1 DEF Find, clientVars, policyVars, PolicyInv, ControlOf
<1>3. CASE /\ policy # NoPolicy /\ spec' = [spec EXCEPT ![c] = policy]
           /\ pc' = [pc EXCEPT ![c] = "handle"] /\ answer' = answer
  BY <1>1, <1>2, <1>3 DEF Handles, ControlInv
<1>4. CASE /\ answer' = [answer EXCEPT ![c] = "malformed"]
           /\ pc' = [pc EXCEPT ![c] = "done"] /\ spec' = spec
  BY <1>1, <1>2, <1>4 DEF Handles, ControlInv
<1> QED BY <1>3, <1>4 DEF Find

LEMMA HandleIs ==
    ASSUME NEW o
    PROVE  /\ Handle(o) \in {"denied", "patched", "allowed"}
           /\ o \in {"deny", "error"} => Handle(o) = "denied"
<1>1. CASE o \in {"deny", "error"}
  <2>1. Handle(o) = "denied"
    BY <1>1, Zenon DEF Handle
  <2> QED BY <2>1
<1>2. CASE o \notin {"deny", "error"} /\ o = "patch"
  <2>1. Handle(o) = "patched"
    BY <1>2, Zenon DEF Handle
  <2> QED BY <1>2, <2>1
<1>3. CASE o \notin {"deny", "error"} /\ o # "patch"
  <2>1. Handle(o) = "allowed"
    BY <1>3, Zenon DEF Handle
  <2> QED BY <1>3, <2>1
<1> QED BY <1>1, <1>2, <1>3

LEMMA ServeHTTPHandles ==
    ASSUME IInv, NEW c \in Clients, ServeHTTP(c)
    PROVE  Handles(c)
<1>1. ControlInv /\ PolicyInv /\ ControlOf(c) /\ "call" \in Labels /\ "done" \in Labels
  BY DEF IInv, ControlInv, Labels
<1>2. /\ pc[c] = "handle"
      /\ reports' = reports /\ policy' = policy /\ history' = history /\ seen' = seen
      /\ call' = call /\ result' = result /\ object' = object /\ retryCounter' = retryCounter /\ spec' = spec
  BY DEF ServeHTTP, clientVars, policyVars
<1>3. PICK o \in Outcomes(spec[c]) :
          /\ outcome' = [outcome EXCEPT ![c] = o]
          /\ \E a \in Complete(Response(spec[c], Handle(o))) : answer' = [answer EXCEPT ![c] = a]
          /\ pc' = [pc EXCEPT ![c] = IF Logged(spec[c], Handle(o)) THEN "call" ELSE "done"]
  BY DEF ServeHTTP
<1>4. PICK h : h = Handle(o)
  OBVIOUS
<1>5. h \in {"denied", "patched", "allowed"} /\ (o \in {"deny", "error"} => h = "denied")
  BY <1>4, HandleIs
<1>6. /\ outcome'[c] = o /\ answer'[c] \in {Response(spec[c], h), "malformed"}
      /\ h = "denied" => answer'[c] = Response(spec[c], h)
      /\ \A d \in Clients \ {c} : pc'[d] = pc[d] /\ outcome'[d] = outcome[d] /\ answer'[d] = answer[d]
      /\ DOMAIN outcome' = Clients /\ DOMAIN answer' = Clients
  BY <1>1, <1>3, <1>4 DEF ControlInv, Complete, Response
<1>7. answer'[c] # "none"
  BY <1>5, <1>6 DEF Response
<1>8. CASE Logged(spec[c], h)
  <2>1. pc' = [pc EXCEPT ![c] = "call"] /\ h = "denied"
    BY <1>3, <1>4, <1>8 DEF Logged
  <2>2. pc'[c] = "call" /\ pc' \in [Clients -> Labels]
    BY <1>1, <2>1 DEF ControlInv
  <2> QED BY <1>1, <1>2, <1>6, <1>7, <2>1, <2>2 DEF Handles, ControlInv
<1>9. CASE ~Logged(spec[c], h)
  <2>1. pc' = [pc EXCEPT ![c] = "done"]
    BY <1>3, <1>4, <1>9
  <2>2. pc'[c] = "done" /\ pc' \in [Clients -> Labels]
    BY <1>1, <2>1 DEF ControlInv
  <2>3. o \in {"deny", "error"} => spec'[c].auditPolicy = "Skip"
    BY <1>2, <1>5, <1>9 DEF Logged
  <2> QED BY <1>1, <1>2, <1>6, <1>7, <2>2, <2>3 DEF Handles, ControlInv
<1> QED BY <1>8, <1>9

LEMMA NextKeepsInv == IInv /\ [Next]_vars => IInv'
<1> SUFFICES ASSUME IInv, [Next]_vars
             PROVE  IInv'
  OBVIOUS
<1>1. CASE Watch
  BY <1>1, WatchKeepsInv
<1>2. CASE EditPolicy \/ DeletePolicy
  BY <1>2, EditsKeepInv
<1>3. CASE RemoveLog
  BY <1>3, RemoveLogKeepsInv
<1>4. ASSUME NEW c \in Clients, Request(c)
      PROVE  IInv'
  <2>1. CASE Find(c)
    BY <2>1, FindHandles, HandlesKeepsInv
  <2>2. CASE ServeHTTP(c)
    BY <2>2, ServeHTTPHandles, HandlesKeepsInv
  <2>3. CASE Goroutine(c)
    BY <2>3, GoroutineKeepsInv
  <2> QED BY <1>4, <2>1, <2>2, <2>3 DEF Request
<1>5. CASE UNCHANGED vars
  <2>1. RequestsStay /\ history' = history /\ seen' = seen /\ policy' = policy
    BY <1>5 DEF vars, clientVars, policyVars, requestVars, goroutineVars, RequestsStay
  <2>2. /\ seen' \in 1 .. Len(history)
        /\ policy' = NoPolicy \/ (policy' \in Policies /\ ValidateJsPolicy(policy'))
    BY <2>1 DEF IInv, HistoryInv, PolicyInv
  <2> QED BY <2>1, <2>2, QuietSteps
<1> QED BY <1>1, <1>2, <1>3, <1>4, <1>5 DEF Next

-----------------------------------------------------------------------------
(* The start.                                                               *)

LEMMA EarlierLog ==
    ASSUME reports \in BOOLEAN
    PROVE  /\ Log(Earlier) \in LogType
           /\ \A k \in 1 .. Len(LogOf(Log(Earlier))) : LogOf(Log(Earlier))[k].request \notin Clients
           /\ reports => Counted(Log(Earlier))
<1> DEFINE n == Earlier
           R == [i \in 1 .. n |-> [request |-> i, status |-> "fail"]]
           V == [i \in 1 .. n |-> [request |-> i, action |-> "Deny"]]
           S == [s \in Report!Statuses |-> IF s = "fail" THEN n ELSE 0]
<1>1. n \in Nat /\ Clients \cap (1 .. n) = {}
  BY AdmissionAssumption
<1>2. CASE reports
  <2>1. Log(n) = [results |-> R, summary |-> S]
    BY <1>2 DEF Log, Report!EarlierReport
  <2>2. \A i \in 1 .. n : R[i] = [request |-> i, status |-> "fail"]
    OBVIOUS
  <2>3. R \in Seq(Result) /\ Len(R) = n
    <3>1. \A i \in 1 .. n : R[i] \in Result
      BY <2>2 DEF Result, Requests, Report!Statuses
    <3>2. R = [i \in 1 .. n |-> R[i]]
      OBVIOUS
    <3> HIDE DEF R
    <3> QED BY <1>1, <3>1, <3>2
  <2>4. S \in [Report!Statuses -> Int]
    BY <1>1
  <2>5. \A s \in Report!Statuses : S[s] = Cardinality(Of(R, s))
    <3> SUFFICES ASSUME NEW s \in Report!Statuses
                 PROVE  S[s] = Cardinality(Of(R, s))
      OBVIOUS
    <3>1. CASE s = "fail"
      <4>1. Of(R, s) = 1 .. n
        <5> HIDE DEF R
        <5> QED BY <2>2, <2>3, <3>1 DEF Of
      <4>2. Cardinality(1 .. n) = n
        BY <1>1, FS_Interval
      <4> QED BY <3>1, <4>1, <4>2
    <3>2. CASE s # "fail"
      <4>1. Of(R, s) = {}
        <5> HIDE DEF R
        <5> QED BY <2>2, <2>3, <3>2 DEF Of
      <4> QED BY <3>2, <4>1, FS_EmptySet
    <3> QED BY <3>1, <3>2
  <2> HIDE DEF R, S
  <2>6. \A k \in 1 .. Len(R) : R[k].request \notin Clients
    BY <1>1, <2>2, <2>3
  <2> QED BY <1>2, <2>1, <2>3, <2>4, <2>5, <2>6 DEF LogType, ReportType, LogOf, Counted
<1>3. CASE ~reports
  <2>1. Log(n) = V
    BY <1>3 DEF Log
  <2>2. \A i \in 1 .. n : V[i] = [request |-> i, action |-> "Deny"]
    OBVIOUS
  <2>3. V \in Seq(Violation) /\ Len(V) = n
    <3>1. \A i \in 1 .. n : V[i] \in Violation
      BY <2>2 DEF Violation, Requests, ViolationPolicies
    <3>2. V = [i \in 1 .. n |-> V[i]]
      OBVIOUS
    <3> HIDE DEF V
    <3> QED BY <1>1, <3>1, <3>2
  <2> HIDE DEF V
  <2>4. \A k \in 1 .. Len(V) : V[k].request \notin Clients
    BY <1>1, <2>2, <2>3
  <2> QED BY <1>3, <2>1, <2>3, <2>4 DEF LogType, LogOf
<1> QED BY <1>2, <1>3

LEMMA InitHistory ==
    ASSUME Init
    PROVE  /\ HistoryInv /\ SummaryInv /\ reports \in BOOLEAN
           /\ Len(history) \in {1, 2}
           /\ Len(history) = 2 => history[2] # NoObject /\ history[2].uid # history[1].uid
           /\ \A i \in 1 .. Len(history) :
                 history[i] # NoObject =>
                    \A k \in 1 .. Len(LogOf(history[i].val)) : LogOf(history[i].val)[k].request \notin Clients
<1>1. reports \in BOOLEAN
  BY DEF Init
<1>2. FirstRevision \in Int /\ NoObject.uid = 0 /\ NoObject \in Stored
  BY FirstRevisionAssumption DEF NoObject, Stored
<1>3. CASE history = << NoObject >> /\ seen = 1
  <2>1. history \in Seq(Stored) /\ Len(history) = 1 /\ history[1] = NoObject
    BY <1>2, <1>3
  <2>2. \A i \in 1 .. Len(history) : i = 1
    BY <2>1
  <2>3. HistoryInv
    BY <1>3, <2>1, <2>2 DEF HistoryInv
  <2> QED BY <1>1, <2>1, <2>2, <2>3 DEF SummaryInv
<1>4. CASE history = << NoObject, [uid |-> 1, rv |-> FirstRevision, val |-> Log(Earlier), deleting |-> FALSE] >> /\ seen = 2
  <2>1. PICK obj : obj = [uid |-> 1, rv |-> FirstRevision, val |-> Log(Earlier), deleting |-> FALSE]
    OBVIOUS
  <2>2. obj \in Stored /\ obj.uid = 1 /\ obj.rv = FirstRevision /\ obj.val = Log(Earlier) /\ obj # NoObject
    BY <1>1, <1>2, <2>1, EarlierLog DEF Stored, Version
  <2>3. history = << NoObject, obj >>
    BY <1>4, <2>1
  <2>4. history \in Seq(Stored) /\ Len(history) = 2 /\ history[1] = NoObject /\ history[2] = obj
    BY <1>2, <2>2, <2>3
  <2>5. \A i \in 1 .. Len(history) : i = 1 \/ i = 2
    BY <2>4
  <2>6. HistoryInv
    BY <1>2, <1>4, <2>2, <2>4, <2>5 DEF HistoryInv
  <2>7. SummaryInv
    BY <1>1, <2>2, <2>4, <2>5, EarlierLog DEF SummaryInv
  <2> QED BY <1>1, <1>2, <2>2, <2>4, <2>5, <2>6, <2>7, EarlierLog
<1> QED BY <1>3, <1>4 DEF Init, StoreInit

LEMMA InitInv == Init => IInv
<1> SUFFICES ASSUME Init
             PROVE  IInv
  OBVIOUS
<1>1. HistoryInv /\ SummaryInv /\ reports \in BOOLEAN /\ Len(history) \in {1, 2}
  BY InitHistory
<1>2. /\ pc = [c \in Clients |-> "find"] /\ spec = [c \in Clients |-> NoPolicy]
      /\ outcome = [c \in Clients |-> "none"] /\ answer = [c \in Clients |-> "none"]
      /\ object = [c \in Clients |-> NoObject] /\ retryCounter = [c \in Clients |-> RetryCounter]
      /\ call = [c \in Clients |-> NoCall] /\ result = [c \in Clients |-> "none"]
      /\ policy \in Policies /\ ValidateJsPolicy(policy)
  BY DEF Init
<1>3. ControlInv
  <2>1. RetryCounter \in 0 .. RetryCounter /\ RetryCounter # 0 /\ NoCall.op = "none"
    BY AdmissionAssumption DEF NoCall
  <2> QED BY <1>1, <1>2, <2>1 DEF ControlInv, ControlOf, Labels
<1>4. PolicyInv
  BY <1>2 DEF PolicyInv, Writing
<1>5. ASSUME NEW i \in 1 .. Len(history), NEW k \in 1 .. Len(LogEntries(i))
      PROVE  LogEntries(i)[k].request \notin Clients
  <2>1. CASE history[i] = NoObject
    <3>1. Len(LogEntries(i)) = 0
      BY <1>1, <1>3, <2>1, LogAt
    <3> QED BY <3>1
  <2>2. CASE history[i] # NoObject
    <3>1. LogEntries(i) = LogOf(history[i].val)
      BY <1>1, <1>3, <2>2, LogAt
    <3> QED BY <2>2, <3>1, InitHistory
  <2> QED BY <2>1, <2>2
<1>6. EntryInv
  <2> SUFFICES ASSUME NEW c \in Clients
               PROVE  EntryOf(c)
    BY DEF EntryInv
  <2>1. ASSUME NEW i \in 1 .. Len(history), Newest(c, i)
        PROVE  FALSE
    <3>1. LogEntries(i) \in Seq(EntryType) /\ Len(LogEntries(i)) \in Nat
      BY <1>1, <1>3, LogAt
    <3>2. Len(LogEntries(i)) \in 1 .. Len(LogEntries(i))
      BY <2>1, <3>1 DEF Newest
    <3> QED BY <1>5, <2>1, <3>2 DEF Newest
  <2> QED BY <1>2, <1>5, <2>1 DEF EntryOf
<1>7. ChainInv
  <2>1. CASE Len(history) = 1
    BY <2>1 DEF ChainInv
  <2>2. CASE Len(history) = 2
    <3>1. \A i \in 2 .. Len(history) : i = 2 /\ i - 1 = 1
      BY <2>2
    <3> QED BY <2>2, <3>1, InitHistory DEF ChainInv
  <2> QED BY <1>1, <2>1, <2>2
<1> QED BY <1>1, <1>3, <1>4, <1>6, <1>7 DEF IInv

-----------------------------------------------------------------------------
(* Rules that do not repeat what a wildcard names.                          *)

\* The entries of a rule: a resource, or a resource and its subresource.
LEMMA RuleEntry ==
    ASSUME NEW e \in RuleEntries
    PROVE  \/ \E n \in Names \cup {"*"} : e = << n >>
           \/ \E n \in Names \cup {"*"}, s \in Subresources \cup {"*"} : e = << n, s >>
BY DEF RuleEntries

\* What an entry without a subresource selects is a resource.
LEMMA PlainSelects ==
    ASSUME NEW n \in Names \cup {"*"}
    PROVE  \E r \in Selects(<< n >>) : \E x \in Names : r = << x >>
<1> DEFINE x == IF n = "*" THEN "pods" ELSE n
<1>1. x \in Names /\ n \in {"*", x}
  BY DEF Names
<1> HIDE DEF x
<1>2. << x >> \in Selectable
  BY <1>1 DEF Selectable
<1>3. << x >> \in Selects(<< n >>)
  BY <1>1, <1>2 DEF Selects
<1> QED BY <1>1, <1>3

LEMMA SubresourceSelects ==
    ASSUME NEW n \in Names \cup {"*"}, NEW s \in Subresources \cup {"*"}, NEW x \in Names, NEW y \in Subresources
    PROVE  << x, y >> \in Selects(<< n, s >>) <=> n \in {"*", x} /\ s \in {"*", y}
<1>1. << x, y >> \in Selectable /\ x # "*" /\ y # "*"
  BY DEF Selectable, Names, Subresources
<1>2. << x, y >> \in Selects(<< n, s >>) <=>
         \/ << n, s >> = << "*", "*" >>
         \/ \A k \in DOMAIN << x, y >> : << n, s >>[k] \in {"*", << x, y >>[k]}
  BY <1>1 DEF Selects
<1>3. (\A k \in DOMAIN << x, y >> : << n, s >>[k] \in {"*", << x, y >>[k]}) <=> n \in {"*", x} /\ s \in {"*", y}
  OBVIOUS
<1> QED BY <1>2, <1>3

LEMMA NoPlainSelected ==
    ASSUME NEW n \in Names \cup {"*"}, NEW s \in Subresources \cup {"*"}, NEW x \in Names,
           << n, s >> # << "*", "*" >>
    PROVE  << x >> \notin Selects(<< n, s >>)
BY DEF Selects

\* A wildcard of subresources does not select all that another entry does, unless they clash.
LEMMA SelectsMore ==
    ASSUME NEW n \in Names \cup {"*"}, NEW s \in Subresources \cup {"*"}, "*" \in {n, s},
           << n, s >> # << "*", "*" >>, NEW e \in RuleEntries, e # << "*", "*" >>,
           Len(e) = 2 => << n, s >> \notin {<< e[1], "*" >>, << "*", e[2] >>}
    PROVE  ~(Selects(e) \subseteq Selects(<< n, s >>))
<1>1. CASE \E m \in Names \cup {"*"} : e = << m >>
  <2>1. PICK m \in Names \cup {"*"} : e = << m >>
    BY <1>1
  <2>2. PICK r \in Selects(e) : \E x \in Names : r = << x >>
    BY <2>1, PlainSelects
  <2> QED BY <2>2, NoPlainSelected
<1>2. CASE \E m \in Names \cup {"*"}, t \in Subresources \cup {"*"} : e = << m, t >>
  <2>1. PICK m \in Names \cup {"*"}, t \in Subresources \cup {"*"} : e = << m, t >>
    BY <1>2
  <2>2. Len(e) = 2 /\ e[1] = m /\ e[2] = t
    BY <2>1
  <2>3. << n, s >> # << m, "*" >> /\ << n, s >> # << "*", t >> /\ << m, t >> # << "*", "*" >>
    BY <2>1, <2>2
  <2>4. ~(n = m /\ s = "*") /\ ~(n = "*" /\ s = t) /\ ~(m = "*" /\ t = "*") /\ ~(n = "*" /\ s = "*")
    BY <2>3
  <2>5. \E x \in Names, y \in Subresources : m \in {"*", x} /\ t \in {"*", y} /\ ~(n \in {"*", x} /\ s \in {"*", y})
    <3>1. CASE n = "*"
      <4>1. s # "*" /\ s # t
        BY <2>4, <3>1
      <4>2. \E y \in Subresources : t \in {"*", y} /\ s # y
        BY <4>1 DEF Subresources
      <4>3. \E x \in Names : m \in {"*", x}
        BY DEF Names
      <4> QED BY <4>1, <4>2, <4>3
    <3>2. CASE n # "*"
      <4>1. s = "*" /\ n # m
        BY <2>4, <3>2
      <4>2. \E x \in Names : m \in {"*", x} /\ n # x
        BY <4>1 DEF Names
      <4>3. \E y \in Subresources : t \in {"*", y}
        BY DEF Subresources
      <4> QED BY <3>2, <4>2, <4>3
    <3> QED BY <3>1, <3>2
  <2>6. PICK x \in Names, y \in Subresources : m \in {"*", x} /\ t \in {"*", y} /\ ~(n \in {"*", x} /\ s \in {"*", y})
    BY <2>5
  <2>7. << x, y >> \in Selects(e) /\ << x, y >> \notin Selects(<< n, s >>)
    BY <2>1, <2>6, SubresourceSelects
  <2> QED BY <2>7
<1> QED BY <1>1, <1>2, RuleEntry

\* An accepted list has no entry that a wildcard of subresources before it selects.
LEMMA AcceptedLists ==
    ASSUME NEW resources \in ResourceLists, validateResources(resources),
           NEW i \in DOMAIN resources, NEW j \in 1 .. i - 1,
           Len(resources[j]) = 2, "*" \in {resources[j][1], resources[j][2]}
    PROVE  ~(Selects(resources[i]) \subseteq Selects(resources[j]))
<1>1. PICK len \in 1 .. 3 : resources \in [1 .. len -> RuleEntries]
  BY DEF ResourceLists
<1>2. resources \in Seq(RuleEntries) /\ Len(resources) = len /\ DOMAIN resources = 1 .. len
  BY <1>1
<1>3. j \in 1 .. len /\ i \in 1 .. len /\ len > 1
  BY <1>2
<1>4. resources[i] \in RuleEntries /\ resources[j] \in RuleEntries
  BY <1>1, <1>3
<1>5. /\ resources[i] # << "*", "*" >> /\ resources[j] # << "*", "*" >>
      /\ Len(resources[i]) = 2 =>
            resources[j] \notin {<< resources[i][1], "*" >>, << "*", resources[i][2] >>}
  BY <1>2, <1>3 DEF validateResources, Clashes
<1>6. \E n \in Names \cup {"*"}, s \in Subresources \cup {"*"} : resources[j] = << n, s >>
  BY <1>4, RuleEntry
<1>7. PICK n \in Names \cup {"*"}, s \in Subresources \cup {"*"} : resources[j] = << n, s >>
  BY <1>6
<1>8. "*" \in {n, s}
  BY <1>7
<1> QED BY <1>4, <1>5, <1>7, <1>8, SelectsMore

\* An edit may be anything that a user writes: with the list that it has, validation looks at that list.
LEMMA AcceptedEdits ==
    ASSUME PolicyInv, policy # NoPolicy, NEW resources, Accepted([policy EXCEPT !.resources = resources])
    PROVE  validateResources(resources)
<1> DEFINE edit == [policy EXCEPT !.resources = resources]
<1>1. policy = [f \in DOMAIN SomePolicy |-> policy[f]] /\ "resources" \in DOMAIN SomePolicy
  BY AdmissionAssumption DEF PolicyInv, SomePolicy
<1>2. edit.resources = resources
  BY <1>1
<1> HIDE DEF edit
<1>3. validateResources(edit.resources)
  BY DEF Accepted, ValidateJsPolicy, ValidateJsPolicyUpdate, validateValidatingWebhook,
         validateRuleWithOperations, validateRule, edit
<1> QED BY <1>2, <1>3

LEMMA InvariantRules ==
    ASSUME IInv
    PROVE  AcceptedRulesDoNotRepeat
<1> SUFFICES ASSUME policy # NoPolicy, NEW resources \in ResourceLists,
                    Accepted([policy EXCEPT !.resources = resources]),
                    NEW i \in DOMAIN resources, NEW j \in 1 .. i - 1,
                    Len(resources[j]) = 2, "*" \in {resources[j][1], resources[j][2]}
             PROVE  ~(Selects(resources[i]) \subseteq Selects(resources[j]))
  BY DEF AcceptedRulesDoNotRepeat
<1>1. validateResources(resources)
  BY AcceptedEdits DEF IInv
<1> QED BY <1>1, AcceptedLists

-----------------------------------------------------------------------------
(* The theorems.                                                            *)

\* The invariant holds of the webhooks, whatever users, requests and the watch do.
THEOREM Invariant == Spec => []IInv
BY InitInv, NextKeepsInv, PTL DEF Spec

\* Types; a goroutine that is blocked in a write is the one whose call is open.
THEOREM TypeCorrect == Spec => []TypeOK
BY Invariant, InvariantTypes, PTL

\* A retry after a conflict, a lost reply or a wait for the cache that timed out never writes
\* the entry of a request a second time, even if the log is deleted meanwhile.
THEOREM EachIsLoggedOnce == Spec => []LoggedOnce
BY Invariant, InvariantOnce, PTL

\* However many goroutines race for the log, none overwrites what another one wrote: a version
\* is the one before it and one entry, without oldest entries that the size has no room for.
THEOREM EntriesAreKept == Spec => []NothingOverwritten
BY Invariant, InvariantChain, PTL

\* The summary of a report counts its results, also when full reports lose their oldest ones.
THEOREM SummariesCount == Spec => []SummaryMatchesResults
<1>1. IInv => SummaryMatchesResults
  BY SummaryMatches DEF IInv
<1> QED BY <1>1, Invariant, PTL

\* A denial is in the log when its goroutine has ended without an error, whatever was answered
\* and whatever has become of the policy.
THEOREM DenialsAreLogged == Spec => []DenialIsLogged
BY Invariant, InvariantLogged, PTL

\* What an entry says of a request is what ServeHTTP has answered, though the goroutine writes it
\* later, when the policy may be another one.
THEOREM EntriesTellAnswers == Spec => []EntryTellsAnswer
BY Invariant, InvariantAnswer, PTL

\* "the validation rule will ensure resources do not overlap": what users may make of the policy has no
\* entry that a wildcard of subresources before it selects already.
THEOREM RulesDoNotRepeat == Spec => []AcceptedRulesDoNotRepeat
BY Invariant, InvariantRules, PTL
=============================================================================
