--------------------------- MODULE MCAuthSessions ---------------------------
(* Small instances of AuthSessions for TLC: the requests of a few clients,  *)
(* interchangeable, and two or three passwords.                             *)
EXTENDS AuthSessions, TLC

CONSTANTS r1, r2, r3, p1, p2, p3

MCSymmetry == Permutations(Requests) \cup Permutations(Passwords \ {FirstPassword})

=============================================================================
