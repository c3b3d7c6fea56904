------------------------------ MODULE MCFollow ------------------------------
(* Small instances of Follow for TLC: one user with two tabs, another with  *)
(* one.                                                                      *)
EXTENDS Follow, TLC

CONSTANTS u1, u2, t1, t2, t3, r1, r2

MCOwner == [t \in Tabs |-> IF t = t3 THEN u2 ELSE u1]

MCSymmetry == Permutations(Requests) \cup
              {p \in Permutations(Tabs) : p[t3] = t3}

=============================================================================
