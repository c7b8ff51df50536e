-------------------------- MODULE MCPolicyManager --------------------------
(***************************************************************************)
(* PolicyManager for TLC.                                                   *)
(***************************************************************************)
EXTENDS PolicyManager

CONSTANTS p1, p2, k1, k2

InUse(p) == ~exists[p] \/ op[p] # NoCall \/ \E c \in 1 .. Len(made) : made[c].policy = p

KindsOfPolicies == UNION {made[c].kinds : c \in 1 .. Len(made)} \cup UNION {op[p].kinds : p \in Policies}

Untouched(k) == version[k] = 1 /\ informer[k].id = 0 /\ k \notin KindsOfPolicies

\* Three instances in one: a policy whose object comes and goes and whose informer is made again;
\* two policies that share the informer of one kind; a policy that changes its kinds.
Bounded ==
    \/ ~InUse(p2) /\ Untouched(k2)
    \/ Untouched(k2) /\ version[k1] <= 1
    \/ /\ ~InUse(p2) /\ exists[p1]
       /\ \A c \in Controllers : delayed[c] = {}
       /\ \A k \in Kinds :
             /\ version[k] <= 1
             /\ informer[k].id <= (IF k \in KindsOfPolicies THEN 1 ELSE 0)
             /\ lastUsed[k] # "old"
=============================================================================
