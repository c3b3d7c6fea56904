---------------------------- MODULE ConnectionCap ----------------------------
(***************************************************************************)
(* What presence promises (the header of backend/socket/presence.js, and   *)
(* backend/socket/index.js at MAX_SOCKETS_PER_USER): an account holds at   *)
(* most MaxPerUser sockets, and the others are told it is online exactly   *)
(* while it holds one.                                                     *)
(***************************************************************************)
EXTENDS Integers, FiniteSets

CONSTANTS Users, Conns, UserOf, MaxPerUser

VARIABLES
    open,    \* the sockets each account holds
    online   \* what the other clients were last told about it

vars == <<open, online>>

Init ==
    /\ open = [u \in Users |-> {}]
    /\ online = [u \in Users |-> FALSE]

Arrive(c) ==
    LET u == UserOf[c]
    IN  /\ c \notin open[u]
        /\ Cardinality(open[u]) < MaxPerUser
        /\ open' = [open EXCEPT ![u] = @ \cup {c}]
        /\ online' = [online EXCEPT ![u] = TRUE]

Depart(c) ==
    LET u == UserOf[c]
    IN  /\ c \in open[u]
        /\ open' = [open EXCEPT ![u] = @ \ {c}]
        /\ online' = [online EXCEPT ![u] = open'[u] # {}]

Next == \E c \in Conns : Arrive(c) \/ Depart(c)

Spec == Init /\ [][Next]_vars

=============================================================================
