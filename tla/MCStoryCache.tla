---------------------------- MODULE MCStoryCache ----------------------------
(* Small instances of StoryCache for TLC: the author and another user, two  *)
(* writes and a reader in flight.                                           *)
EXTENDS StoryCache

CONSTANTS author, other, r1, r2, g1

Symmetry == Permutations(Requests)

=============================================================================
