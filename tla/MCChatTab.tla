----------------------------- MODULE MCChatTab ------------------------------
(* Small instances of ChatTab for TLC: two chats of the account's and one   *)
(* of others', a message from a peer and one of the account's own.          *)
EXTENDS ChatTab

CONSTANTS a, b, x, m1, m2

\* Both messages are of one chat, where they can race.
MCChatOf == [m \in Msgs |-> a]

=============================================================================
