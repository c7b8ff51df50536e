---------------------------- MODULE SandboxPool ----------------------------
(***************************************************************************)
(* What a pool of JavaScript sandboxes promises to the policies that run in *)
(* them, without its semaphore, stack, timers and goroutines: a sandbox is  *)
(* leased to one user at a time, and a user finds it clean of what earlier  *)
(* users left.                                                              *)
(***************************************************************************)
CONSTANTS Sandboxes, Users, Nobody

VARIABLES lease,  \* the user of each sandbox, or Nobody
          clean   \* sandboxes in which nobody has run anything

vars == <<lease, clean>>

Init ==
    /\ lease = [s \in Sandboxes |-> Nobody]
    /\ clean = Sandboxes

Lease(s, u) ==
    /\ lease[s] = Nobody /\ s \in clean
    /\ lease' = [lease EXCEPT ![s] = u]
    /\ UNCHANGED clean

Soil(s) ==
    /\ lease[s] # Nobody
    /\ clean' = clean \ {s}
    /\ UNCHANGED lease

Clean(s) ==
    /\ lease[s] # Nobody
    /\ clean' = clean \cup {s}
    /\ UNCHANGED lease

Return(s) ==
    /\ lease[s] # Nobody /\ s \in clean
    /\ lease' = [lease EXCEPT ![s] = Nobody]
    /\ UNCHANGED clean

\* The process ends and another one starts.
Restart ==
    /\ lease' = [s \in Sandboxes |-> Nobody]
    /\ clean' = Sandboxes

Next ==
    \/ \E s \in Sandboxes :
          \/ \E u \in Users : Lease(s, u)
          \/ Soil(s) \/ Clean(s) \/ Return(s)
    \/ Restart

Spec == Init /\ [][Next]_vars
=============================================================================
