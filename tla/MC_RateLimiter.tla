--------------------------- MODULE MC_RateLimiter ---------------------------
(* Windows of 2, 3 and 5 ticks with limits 2, 3 and 4: every window is the    *)
(* exhausted one at some time, and they expire in every relative order.       *)
EXTENDS RateLimiter

MCLimit == <<2, 3, 4>>
MCTtl == <<2, 3, 5>>
=============================================================================
