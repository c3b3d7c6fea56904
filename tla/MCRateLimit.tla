---------------------------- MODULE MCRateLimit -----------------------------
(* Small instances of RateLimit and its observer for TLC: the global        *)
(* backstop, which lets more than one hit pass and whose window leaves room *)
(* for ticks between a key's first hit and the start of its window, alone,  *)
(* or beside the pre-authentication gate, which is constructed earlier and  *)
(* has a shorter window.  The limiters' keys have nothing but the window in *)
(* common.                                                                  *)
EXTENDS RateLimitSpan

CONSTANTS r1, r2, r3, i1, i2

MCOneLimiter == <<"global">>
MCLimiters == <<"preauth", "global">>
MCWindow == [k \in Keys |-> IF k = "preauth" THEN 1 ELSE 3]
MCLimit == [k \in Keys |-> IF k = "preauth" THEN 1 ELSE 2]

=============================================================================
