------------------------------ MODULE MCInbox -------------------------------
(* Small instances of Inbox for TLC.                                       *)
EXTENDS Inbox, TLC

CONSTANTS c1, c2, m1, m2

Interchangeable == Permutations(Chats) \cup Permutations(Messages)

=============================================================================
