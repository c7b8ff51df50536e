--------------------------- MODULE MCCacheClient ---------------------------
(***************************************************************************)
(* Clients that read the object and write what they like, for TLC: the      *)
(* properties here are about CacheClient alone.                             *)
(***************************************************************************)
EXTENDS CacheClient

CONSTANT MaxWrites  \* bound on the number of versions

\* The texts of CacheClient have two digits at most.
ASSUME MaxWritesAssumption == MaxWrites \in Nat /\ FirstRevision + MaxWrites <= 100

VARIABLES read,  \* the object each client last got from the cache
          wrote  \* the call of the last successful write, NoCall when none

vars == <<history, seen, call, result, read, wrote>>

Init ==
    /\ ClientInit
    /\ read = [c \in Clients |-> NoObject]
    /\ wrote = [c \in Clients |-> NoCall]

Get(c) ==
    /\ Idle(c)
    /\ read' = [read EXCEPT ![c] = Cached]
    /\ wrote' = [wrote EXCEPT ![c] = NoCall]
    /\ UNCHANGED clientVars

Write(c) ==
    /\ Len(history) <= MaxWrites
    /\ \/ Create(c, NoValue)
       \/ CreateUnstructured(c, NoValue)
       \/ read[c] # NoObject /\ (Update(c, read[c], NoValue) \/ Patch(c, NoValue) \/ Delete(c, read[c]))
    /\ wrote' = [wrote EXCEPT ![c] = NoCall]
    /\ UNCHANGED read

Poll(c) ==
    /\ Polling(c)
    /\ wrote' = [wrote EXCEPT ![c] = IF Seen(call[c]) THEN call[c] ELSE NoCall]
    /\ UNCHANGED read

Next ==
    \/ (Deliver \/ Finalize) /\ UNCHANGED <<read, wrote>>
    \/ \E c \in Clients : Get(c) \/ Write(c) \/ Poll(c)

Spec == Init /\ [][Next]_vars

\* The API server takes an update only of the version that the client read, so the
\* retry loops of the callers see every write that they did not make.
NoLostUpdate ==
    [][ \A c \in Clients :
          Len(history') > Len(history) /\ call'[c].op = "update" /\ call[c] = NoCall
              => read[c] = Server ]_vars

\* The version that the last write of c returned is in the cache, or a later one.
CacheCaughtUp(c) ==
    \/ Cached = NoObject
    \/ Cached.uid # wrote[c].uid
    \/ Cached.rv >= wrote[c].rv

\* The object that the last Create of c made is in the cache, or what became of it.
CreationCached(c) == \E i \in 1 .. seen : history[i].uid = wrote[c].uid

\* client.go: "makes sure that the Create/Update/Patch/Delete functions block until
\* the local cache is updated".  Once an update has returned without an error, no
\* read sees an older version of the object.
UpdateBlocksUntilCached ==
    \A c \in Clients : wrote[c].op = "update" => CacheCaughtUp(c)

\* The same for revisions with as many digits, which compare as numbers do.
UpdateBlocksWithinDigits ==
    \A c \in Clients :
        wrote[c].op = "update" /\ Len(Digits(Cached.rv)) = Len(Digits(wrote[c].rv)) =>
            CacheCaughtUp(c)

\* The same for Create, of a name that was never used before: no read misses the object.
\* Later, blockCreate is content with any object of that name, also with a deleted
\* predecessor that is still cached.
FirstCreateBlocksUntilCached ==
    \A c \in Clients :
        wrote[c].op = "create" /\ wrote[c].uid = 1 => CreationCached(c)

\* The same for a Patch of the object that the client has read, with revisions of one length.
\* One that was deleted and created again since is patched as well, but not waited for.
PatchBlocksWithinDigits ==
    \A c \in Clients :
        /\ wrote[c].op = "patch" /\ read[c].uid = wrote[c].uid
        /\ \A i \in DOMAIN history :
              history[i].uid = wrote[c].uid => Len(Digits(history[i].rv)) = Len(Digits(wrote[c].rv))
        => CacheCaughtUp(c)

\* A read after a Delete without an error does not return the object that the caller
\* asked to delete, or returns it with its deletionTimestamp.
DeleteBlocksUntilCached ==
    \A c \in Clients :
        wrote[c].op = "delete" => Cached.uid # wrote[c].uid \/ Cached.deleting

\* Whatever other clients write, delete and create meanwhile, a write that returns without an error
\* is seen by the reads that follow; but for writes of unstructured objects, which do not wait.
WritesBlockUntilCached ==
    /\ UpdateBlocksWithinDigits /\ PatchBlocksWithinDigits
    /\ FirstCreateBlocksUntilCached /\ DeleteBlocksUntilCached
=============================================================================
