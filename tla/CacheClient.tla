---------------------------- MODULE CacheClient ----------------------------
(***************************************************************************)
(* The blocking client of pkg/blockingcacheclient: reads come from an       *)
(* informer cache that lags the API server, and every write polls the cache *)
(* until it has seen the write, for two seconds at most.                    *)
(*                                                                         *)
(* One API object is modelled.  Its versions are kept in order, and the     *)
(* cache is a position in them, which is what a watch delivers.             *)
(***************************************************************************)
EXTENDS Integers, Sequences, FiniteSets

CONSTANTS Clients,        \* goroutines that use the client
          FirstRevision,  \* resourceVersion of the first write
          NoValue         \* the content of no object

ASSUME FirstRevisionAssumption == FirstRevision \in 1 .. 90

VARIABLES
    history,  \* every version of the object, the current one last
    seen,     \* the version in the informer cache
    call,     \* the write that a client is blocked in
    result    \* what the last write returned to the client

storeVars == <<history, seen>>
clientVars == <<history, seen, call, result>>

\* uid 0 stands for an object that does not exist; deleting for a deletionTimestamp, of an
\* object that has to wait for its finalizers.
NoObject == [uid |-> 0, rv |-> 0, val |-> NoValue, deleting |-> FALSE]

Server == history[Len(history)]
Cached == history[seen]
NextRevision == FirstRevision + Len(history) - 1
NextUID == 1 + Cardinality({i \in 2 .. Len(history) : history[i].uid # history[i - 1].uid})

NoCall == [op |-> "none", uid |-> 0, rv |-> 0]

StoreInit == history = << NoObject >> /\ seen = 1

ClientInit ==
    /\ StoreInit
    /\ call = [c \in Clients |-> NoCall]
    /\ result = [c \in Clients |-> "none"]

Idle(c) == call[c] = NoCall

\* The watch delivers the next version; a relist may skip some.
Deliver ==
    /\ seen < Len(history)
    /\ seen' \in seen + 1 .. Len(history)
    /\ UNCHANGED <<history, call, result>>

Return(c, res) ==
    /\ result' = [result EXCEPT ![c] = res]
    /\ call' = [call EXCEPT ![c] = NoCall]

\* The API server stores obj.  The client goes on to poll, or the answer is lost
\* and the client returns an error although the write took effect.
Store(c, op, obj) ==
    /\ history' = Append(history, obj)
    /\ UNCHANGED seen
    /\ \/ /\ call' = [call EXCEPT ![c] = [op |-> op, uid |-> obj.uid, rv |-> obj.rv]]
          /\ result' = [result EXCEPT ![c] = "none"]
       \/ Return(c, "error")

\* The API server refuses, or the request never reaches it.
Refuse(c, res) == Return(c, res) /\ UNCHANGED storeVars

-----------------------------------------------------------------------------
(* Create, Update and Patch, also of the status subresource, and Delete.    *)

NewObject(val) == [uid |-> NextUID, rv |-> NextRevision, val |-> val, deleting |-> FALSE]

Create(c, val) ==
    /\ Idle(c)
    /\ \/ /\ Server = NoObject
          /\ Store(c, "create", NewObject(val))
       \/ Server # NoObject /\ Refuse(c, "exists")
       \/ Refuse(c, "error")

\* The Create of an unstructured object, as deleteAndCreate of pkg/util/apply makes one,
\* does not poll; no more does that of a type which is not registered.
CreateUnstructured(c, val) ==
    /\ Idle(c)
    /\ \/ /\ Server = NoObject
          /\ history' = Append(history, NewObject(val))
          /\ \E res \in {"ok", "error"} : Return(c, res)
          /\ UNCHANGED seen
       \/ Server # NoObject /\ Refuse(c, "exists")
       \/ Refuse(c, "error")

\* Mutant: the API server stores an update of an old version.
UpdateLastWriteWins(c, old, val) ==
    /\ Idle(c)
    /\ \/ /\ Server # NoObject
          /\ Store(c, "update", [Server EXCEPT !.rv = NextRevision, !.val = val])
       \/ Server = NoObject /\ Refuse(c, "notfound")
       \/ Refuse(c, "error")

Updated_(old, val) ==
    [uid |-> old.uid, rv |-> NextRevision, val |-> val, deleting |-> Server.deleting]

\* old is the version that the caller read; a Patch that names its resourceVersion is
\* handled alike.
Update(c, old, val) ==
    /\ Idle(c)
    /\ \/ /\ Server # NoObject /\ Server.rv = old.rv
          /\ Store(c, "update", Updated_(old, val))
       \/ Server # NoObject /\ Server.rv # old.rv /\ Refuse(c, "conflict")
       \/ Server = NoObject /\ Refuse(c, "notfound")
       \/ Refuse(c, "error")

\* A Patch without a resourceVersion goes into whatever version there is.
Patch(c, val) ==
    /\ Idle(c)
    /\ \/ /\ Server # NoObject
          /\ Store(c, "patch", [Server EXCEPT !.rv = NextRevision, !.val = val])
       \/ Server = NoObject /\ Refuse(c, "notfound")
       \/ Refuse(c, "error")

\* What becomes of the object when it is deleted: it is gone, or only marked if it has
\* finalizers, which a second Delete does not change.
AfterDelete ==
    \/ ~Server.deleting /\ history' = Append(history, NoObject)
    \/ /\ ~Server.deleting
       /\ history' = Append(history, [Server EXCEPT !.rv = NextRevision, !.deleting = TRUE])
    \/ Server.deleting /\ UNCHANGED history

\* By name, without a precondition: the uid of the call is that of old, which
\* need not be the object that is deleted.
Delete(c, old) ==
    /\ Idle(c)
    /\ \/ /\ Server # NoObject
          /\ AfterDelete
          /\ UNCHANGED seen
          /\ \/ /\ call' = [call EXCEPT ![c] = [op |-> "delete", uid |-> old.uid, rv |-> 0]]
                /\ result' = [result EXCEPT ![c] = "none"]
             \/ Return(c, "error")
       \/ Server = NoObject /\ Refuse(c, "notfound")
       \/ Refuse(c, "error")

\* The last finalizer of an object that is being deleted is taken off, by others.
Finalize ==
    /\ Server.deleting
    /\ history' = Append(history, NoObject)
    /\ UNCHANGED <<seen, call, result>>

-----------------------------------------------------------------------------
(* Polling the cache.                                                       *)

\* Go's >= on the decimal texts of two revisions below 100.
Digits(n) == IF n < 10 THEN << n >> ELSE << n \div 10, n % 10 >>

TextGeq(m, n) ==
    LET a == Digits(m)
        b == Digits(n)
    IN \/ a[1] > b[1]
       \/ a[1] = b[1] /\ Len(b) = 1
       \/ a[1] = b[1] /\ Len(a) = 2 /\ Len(b) = 2 /\ a[2] >= b[2]

\* Mutant: blockDelete does not look at what the cache has.
SeenAnyDelete(w) ==
    \/ w.op = "create" /\ Cached # NoObject
    \/ w.op \in {"update", "patch"} /\ (Cached = NoObject \/ Cached.uid # w.uid \/ TextGeq(Cached.rv, w.rv))
    \/ w.op = "delete"

\* The conditions of blockCreate, blockUpdate and blockDelete.
Seen(w) ==
    \/ w.op = "create" /\ Cached # NoObject
    \/ w.op \in {"update", "patch"} /\ (Cached = NoObject \/ Cached.uid # w.uid \/ TextGeq(Cached.rv, w.rv))
    \/ w.op = "delete" /\ (Cached = NoObject \/ Cached.uid # w.uid \/ Cached.deleting)

PollSucceeds(c) ==
    /\ ~Idle(c)
    /\ Seen(call[c])
    /\ Return(c, "ok")
    /\ UNCHANGED storeVars

\* Two seconds have passed: wait.ErrWaitTimeout, after a write that took effect.
PollTimesOut(c) ==
    /\ ~Idle(c)
    /\ ~Seen(call[c])
    /\ Return(c, "error")
    /\ UNCHANGED storeVars

Polling(c) == PollSucceeds(c) \/ PollTimesOut(c)
=============================================================================
