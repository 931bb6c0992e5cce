---------------------------- MODULE RateLimiter ----------------------------
(***************************************************************************)
(* RateLimiterMiddleware (src/bot/middleware/rate_limiter.py): the three     *)
(* counters Redis keeps for one user, checked and incremented by one Lua     *)
(* script, which Redis runs without interleaving.  Counters of different     *)
(* users never meet.  Time is a number of ticks; a counter expires Ttl ticks *)
(* after the call that created it (fixed windows).                           *)
(***************************************************************************)
EXTENDS Integers, FiniteSetsExt

CONSTANTS
    Limit,      \* [Windows -> Nat]: rate_per_minute, _hour, _day
    Ttl         \* [Windows -> Nat]: _TTL_MINUTE, _HOUR, _DAY

Windows == 1..3

ASSUME LimiterAssumption ==
    /\ Limit \in [Windows -> Nat \ {0}]
    /\ Ttl \in [Windows -> Nat \ {0}]

VARIABLES
    count,      \* the counters; 0 = the key does not exist
    left,       \* ticks until each key expires; 0 = no expiry is set
    verdict,    \* what became of the last update
    recent      \* history: how many calls were counted in the last a ticks

vars == <<count, left, verdict, recent>>

\* 0: passed on.  A window: told to wait for it.
Unavailable == 4
Unlimited == 5
Verdicts == {0} \cup Windows \cup {Unavailable, Unlimited}

Oldest == Max({Ttl[w] : w \in Windows})
Spans == 0..Oldest

TypeOK ==
    /\ count \in [Windows -> Nat]
    /\ left \in [Windows -> Nat]
    /\ verdict \in Verdicts
    /\ recent \in [Spans -> Nat]

Init ==
    /\ count = [w \in Windows |-> 0]
    /\ left = [w \in Windows |-> 0]
    /\ verdict = 0
    /\ recent = [a \in Spans |-> 0]

-----------------------------------------------------------------------------
ExhaustedLate(w) == count[w] > Limit[w]

Exhausted(w) == count[w] >= Limit[w]

Admissible == \A w \in Windows : ~Exhausted(w)

IncrNoExpire ==
    /\ count' = [w \in Windows |-> count[w] + 1]
    /\ UNCHANGED left

\* INCR; EXPIRE only where the key was created by this call.
Incr ==
    /\ count' = [w \in Windows |-> count[w] + 1]
    /\ left' = [w \in Windows |-> IF count[w] = 0 THEN Ttl[w] ELSE left[w]]

\* No window is exhausted: the script counts the call.
Consume ==
    /\ Admissible
    /\ Incr
    /\ recent' = [a \in Spans |-> IF a = 0 THEN 0 ELSE recent[a] + 1]

\* The handler is called.
Admit == Consume /\ verdict' = 0

\* The answer of the script is lost: the update is refused, or the client sends
\* the script once more, which is a call of its own here.
ReplyLost == Consume /\ verdict' = Unavailable

\* The first exhausted window is the one the user is told; nothing is counted.
Block(w) ==
    /\ Exhausted(w)
    /\ \A v \in Windows : v < w => ~Exhausted(v)
    /\ verdict' = w
    /\ UNCHANGED <<count, left, recent>>

\* RedisError or RuntimeError before the script ran: the update is refused.
RedisDown ==
    /\ verdict' = Unavailable
    /\ UNCHANGED <<count, left, recent>>

\* An update without a sender is passed on uncounted.
NoSender ==
    /\ verdict' = Unlimited
    /\ UNCHANGED <<count, left, recent>>

TickEarly ==
    /\ left' = [w \in Windows |-> IF left[w] > 2 THEN left[w] - 1 ELSE 0]
    /\ count' = [w \in Windows |-> IF left[w] \in {1, 2} THEN 0 ELSE count[w]]
    /\ recent' = [a \in Spans |-> IF a = 0 THEN 0 ELSE recent[a - 1]]
    /\ UNCHANGED verdict

\* Time passes in Redis; a key whose time is over is gone.
Tick ==
    /\ left' = [w \in Windows |-> IF left[w] > 0 THEN left[w] - 1 ELSE 0]
    /\ count' = [w \in Windows |-> IF left[w] = 1 THEN 0 ELSE count[w]]
    /\ recent' = [a \in Spans |-> IF a = 0 THEN 0 ELSE recent[a - 1]]
    /\ UNCHANGED verdict

Next ==
    Admit \/ ReplyLost \/ (\E w \in Windows : Block(w)) \/ RedisDown \/ NoSender \/ Tick

Spec == Init /\ [][Next]_vars

\* Redis's clock runs whatever the bot does.
FairSpec == Spec /\ WF_vars(Tick)

-----------------------------------------------------------------------------
(* Properties *)

\* A counter never passes its limit, exists exactly as long as it has an expiry
\* (one without would block its user for ever) and never outlives its window.
CountersAreBounded ==
    \A w \in Windows :
        /\ count[w] <= Limit[w]
        /\ count[w] > 0 <=> left[w] > 0
        /\ left[w] <= Ttl[w]

\* Windows are fixed, not sliding: around a boundary more than Limit updates of a
\* user may be counted, and so admitted, within Ttl ticks, but never twice that.
BurstIsBounded == \A w \in Windows : recent[Ttl[w]] <= 2 * Limit[w] - 1

\* However hard a blocked user tries, waiting is enough: nothing an update does
\* while it is refused prolongs a window.
NobodyIsLockedOut == []<>Admissible
=============================================================================
