---------------------------- MODULE MCLifecycle -----------------------------
(* Small instances of Lifecycle for TLC.                                   *)
EXTENDS Lifecycle

CONSTANTS s1, s2, SIGTERM, SIGINT

=============================================================================
