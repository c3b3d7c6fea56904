----------------------------- MODULE MCBrowser ------------------------------
(* Small instances of BrowserSession for TLC.                              *)
EXTENDS BrowserSession, TLC

CONSTANTS t1, t2, u1, u2

Interchangeable == Permutations(Tabs) \cup Permutations(Accounts)

=============================================================================
