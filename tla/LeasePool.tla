----------------------------- MODULE LeasePool ------------------------------
(***************************************************************************)
(* What a pool of tuner leases promises: a tuner is granted to a user only *)
(* when nobody has it, a user has at most one, and only a return ends it.  *)
(***************************************************************************)
CONSTANTS Tuners, Users, Nobody

VARIABLE owner    \* owner[t]: the user a tuner is granted to

Init == owner = [t \in Tuners |-> Nobody]

Grant(u, t) ==
    /\ owner[t] = Nobody
    /\ \A r \in Tuners : owner[r] # u
    /\ owner' = [owner EXCEPT ![t] = u]

Return(t) ==
    /\ owner[t] # Nobody
    /\ owner' = [owner EXCEPT ![t] = Nobody]

Next == \E t \in Tuners : Return(t) \/ \E u \in Users : Grant(u, t)

Spec == Init /\ [][Next]_owner
=============================================================================
