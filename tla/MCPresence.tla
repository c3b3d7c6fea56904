----------------------------- MODULE MCPresence -----------------------------
(* Small instances of Presence for TLC: an account with up to four      *)
(* sockets, every second of which connects to the second process if there  *)
(* is one, and a second account with one socket.                           *)
EXTENDS Presence, TLC

CONSTANTS c1, c2, c3, c4, c5, i1, i2, u1, u2

MCUserOf == [c \in Conns |-> IF c = c5 THEN u2 ELSE u1]
MCInstOf == [c \in Conns |-> IF c \in {c2, c4} /\ i2 \in Instances THEN i2 ELSE i1]

\* Sockets of one process are interchangeable.
MCSymmetry == {p \in Permutations(Conns) :
                  \A c \in Conns : /\ MCInstOf[p[c]] = MCInstOf[c]
                                    /\ MCUserOf[p[c]] = MCUserOf[c]}

=============================================================================
