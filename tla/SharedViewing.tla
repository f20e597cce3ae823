--------------------------- MODULE SharedViewing ----------------------------
(***************************************************************************)
(* What stream sharing promises its clients: those who view the same       *)
(* service view it from one source; the source of a service changes only   *)
(* while nobody views it; and two services never share a source.           *)
(***************************************************************************)
CONSTANTS Clients, Services, Sources, None

VARIABLES
    viewing,   \* viewing[c]: the service client c views
    source     \* source[s]: where the viewers of s get it from

Init ==
    /\ viewing = [c \in Clients |-> None]
    /\ source = [s \in Services |-> None]

\* The first viewer of a service gives it a source of its own.
Start(c, s, x) ==
    /\ viewing[c] = None
    /\ source[s] = None
    /\ \A r \in Services : source[r] # x
    /\ viewing' = [viewing EXCEPT ![c] = s]
    /\ source' = [source EXCEPT ![s] = x]

Share(c, s) ==
    /\ viewing[c] = None
    /\ source[s] # None
    /\ viewing' = [viewing EXCEPT ![c] = s]
    /\ UNCHANGED source

\* The last viewer to leave takes the source with it.
Leave(c, s) ==
    /\ viewing[c] = s
    /\ viewing' = [viewing EXCEPT ![c] = None]
    /\ source' = IF \E d \in Clients \ {c} : viewing[d] = s
                 THEN source ELSE [source EXCEPT ![s] = None]

Next ==
    \E c \in Clients, s \in Services :
        Share(c, s) \/ Leave(c, s) \/ \E x \in Sources : Start(c, s, x)

Spec == Init /\ [][Next]_<<viewing, source>>
=============================================================================
