------------------------- MODULE RateLimiterProofs -------------------------
(* The counters of RateLimiter and what they allow, for all limits and windows. *)
EXTENDS RateLimiter, TLAPS

\* Every window is among the spans the history covers.
LEMMA WindowsAreSpans ==
    /\ Oldest \in Nat \ {0}
    /\ \A w \in Windows : Ttl[w] \in Spans
    /\ 0 \in Spans
    /\ \A a \in Spans \ {0} : a - 1 \in Spans
<1> DEFINE S == {Ttl[w] : w \in Windows}
<1>1. /\ Ttl[1] \in Nat \ {0} /\ Ttl[2] \in Nat \ {0} /\ Ttl[3] \in Nat \ {0}
      /\ \A w \in Windows : w = 1 \/ w = 2 \/ w = 3
      /\ 1 \in Windows /\ 2 \in Windows /\ 3 \in Windows
  BY LimiterAssumption DEF Windows
<1>2. \E x \in S : \A y \in S : x >= y
  <2>1. \/ Ttl[1] >= Ttl[2] /\ Ttl[1] >= Ttl[3]
        \/ Ttl[2] >= Ttl[1] /\ Ttl[2] >= Ttl[3]
        \/ Ttl[3] >= Ttl[1] /\ Ttl[3] >= Ttl[2]
    BY <1>1
  <2>2. \E v \in Windows : \A w \in Windows : Ttl[v] >= Ttl[w]
    BY <1>1, <2>1
  <2> QED
    BY <2>2
<1>3. Oldest \in S /\ \A y \in S : Oldest >= y
  BY <1>2 DEF Oldest, Max
<1>4. \A w \in Windows : Ttl[w] \in Nat \ {0} /\ Oldest >= Ttl[w]
  BY <1>1, <1>3
<1>5. Oldest \in Nat \ {0}
  BY <1>1, <1>3
<1> QED
  BY <1>4, <1>5 DEF Spans

\* The state of the counters is well typed in every reachable state.
THEOREM TypeCorrect == Spec => []TypeOK
<1>1. Init => TypeOK
  BY DEF Init, TypeOK, Verdicts
<1>2. TypeOK /\ [Next]_vars => TypeOK'
  <2> SUFFICES ASSUME TypeOK, [Next]_vars PROVE TypeOK'
    OBVIOUS
  <2> USE LimiterAssumption, WindowsAreSpans
  <2>1. CASE Admit \/ ReplyLost
    BY <2>1 DEF Admit, ReplyLost, Consume, Incr, TypeOK, Verdicts
  <2>2. ASSUME NEW w \in Windows, Block(w) PROVE TypeOK'
    BY <2>2 DEF Block, TypeOK, Verdicts
  <2>3. CASE RedisDown
    BY <2>3 DEF RedisDown, TypeOK, Verdicts
  <2>4. CASE NoSender
    BY <2>4 DEF NoSender, TypeOK, Verdicts
  <2>5. CASE Tick
    BY <2>5 DEF Tick, TypeOK
  <2>6. CASE UNCHANGED vars
    BY <2>6 DEF vars, TypeOK
  <2> QED BY <2>1, <2>2, <2>3, <2>4, <2>5, <2>6 DEF Next
<1> QED BY <1>1, <1>2, PTL DEF Spec

\* For all limits and windows: no counter passes its limit, and each exists just
\* as long as its expiry, which lies within its window.
THEOREM CountersBounded == Spec => []CountersAreBounded
<1>1. Init => CountersAreBounded
  BY LimiterAssumption DEF Init, CountersAreBounded
<1>2. TypeOK /\ CountersAreBounded /\ [Next]_vars => CountersAreBounded'
  <2> SUFFICES ASSUME TypeOK, CountersAreBounded, [Next]_vars, NEW w \in Windows
               PROVE  /\ count'[w] <= Limit[w]
                      /\ count'[w] > 0 <=> left'[w] > 0
                      /\ left'[w] <= Ttl[w]
    BY DEF CountersAreBounded
  <2> USE LimiterAssumption DEF TypeOK, CountersAreBounded
  <2>1. CASE Admit \/ ReplyLost
    BY <2>1 DEF Admit, ReplyLost, Consume, Incr, Admissible, Exhausted
  <2>2. ASSUME NEW v \in Windows, Block(v) PROVE UNCHANGED <<count, left>>
    BY <2>2 DEF Block
  <2>3. CASE Tick
    BY <2>3 DEF Tick
  <2>4. CASE UNCHANGED <<count, left>>
    BY <2>4
  <2> QED BY <2>1, <2>2, <2>3, <2>4 DEF Next, RedisDown, NoSender, vars
<1> QED BY <1>1, <1>2, TypeCorrect, PTL DEF Spec
-----------------------------------------------------------------------------
(* Bursts *)

\* Longer spans hold more updates; a span of no ticks holds none.
Cumulative ==
    /\ recent[0] = 0
    /\ \A a \in Spans \ {0} : recent[a - 1] <= recent[a]

\* A living counter of w counts the updates since its creation, the first of which
\* is as old as the counter; what the span of its window holds besides is less than
\* the limit, since the update that began the window before is too old for it.
Counting(w) ==
    LET elapsed == Ttl[w] - left[w]
    IN left[w] > 0 => /\ recent[elapsed + 1] = count[w]
                      /\ recent[elapsed] < count[w]
                      /\ recent[Ttl[w]] <= count[w] + Limit[w] - 1

\* Without a counter nothing was admitted in this tick, and the span of the window
\* holds less than the limit.
Resting(w) ==
    left[w] = 0 => recent[1] = 0 /\ recent[Ttl[w]] <= Limit[w] - 1

BurstInv == Cumulative /\ \A w \in Windows : Counting(w) /\ Resting(w)

\* The spans that Counting and Resting speak of.
LEMMA SpansOfAWindow ==
    ASSUME TypeOK, CountersAreBounded, NEW w \in Windows
    PROVE  /\ Ttl[w] \in Nat \ {0} /\ Limit[w] \in Nat \ {0}
           /\ left[w] \in Nat /\ count[w] \in Nat /\ left[w] <= Ttl[w] /\ count[w] <= Limit[w]
           /\ left[w] > 0 <=> count[w] > 0
           /\ 0 \in Spans /\ 1 \in Spans /\ Ttl[w] \in Spans /\ Ttl[w] - 1 \in Spans
           /\ Ttl[w] - left[w] \in Spans
           /\ left[w] > 0 => Ttl[w] - left[w] + 1 \in Spans
           /\ \A a \in Spans : a \in Nat /\ recent[a] \in Nat
<1>1. /\ Ttl[w] \in Nat \ {0} /\ Limit[w] \in Nat \ {0}
      /\ left[w] \in Nat /\ count[w] \in Nat /\ left[w] <= Ttl[w] /\ count[w] <= Limit[w]
      /\ left[w] > 0 <=> count[w] > 0
  BY LimiterAssumption DEF TypeOK, CountersAreBounded
<1>2. Oldest \in Nat \ {0} /\ Ttl[w] <= Oldest
  BY WindowsAreSpans DEF Spans
<1>3. \A a \in Spans : a \in Nat /\ recent[a] \in Nat
  BY DEF TypeOK, Spans
<1> QED
  BY <1>1, <1>2, <1>3 DEF Spans

LEMMA ConsumeKeepsBursts ==
    ASSUME TypeOK, CountersAreBounded, BurstInv, Consume
    PROVE  BurstInv'
<1>1. \A a \in Spans : recent'[a] = IF a = 0 THEN 0 ELSE recent[a] + 1
  BY DEF Consume
<1>2. Cumulative'
  <2>1. ASSUME NEW a \in Spans \ {0} PROVE recent'[a - 1] <= recent'[a]
    <3>1. a - 1 \in Spans /\ recent[a] \in Nat /\ recent[a - 1] \in Nat
      BY WindowsAreSpans DEF TypeOK
    <3>2. recent[a - 1] <= recent[a]
      BY DEF BurstInv, Cumulative
    <3> QED
      BY <1>1, <3>1, <3>2
  <2> QED
    BY <1>1, <2>1, WindowsAreSpans DEF Cumulative
<1>3. ASSUME NEW w \in Windows PROVE (Counting(w) /\ Resting(w))'
  <2>1. /\ count'[w] = count[w] + 1
        /\ left'[w] = IF count[w] = 0 THEN Ttl[w] ELSE left[w]
    BY DEF Consume, Incr
  <2>2. CASE count[w] = 0
    <3>1. left[w] = 0 /\ left'[w] = Ttl[w] /\ count'[w] = 1
      BY <2>1, <2>2, SpansOfAWindow
    <3>2. recent[1] = 0 /\ recent[Ttl[w]] <= Limit[w] - 1
      BY <3>1 DEF BurstInv, Resting
    <3>3. recent'[0] = 0 /\ recent'[1] = 1 /\ recent'[Ttl[w]] <= Limit[w]
      BY <1>1, <3>2, SpansOfAWindow
    <3> QED
      BY <3>1, <3>3, SpansOfAWindow DEF Counting, Resting
  <2>3. CASE count[w] # 0
    <3> DEFINE elapsed == Ttl[w] - left[w]
    <3>1. left[w] > 0 /\ left'[w] = left[w]
      BY <2>1, <2>3, SpansOfAWindow
    <3>2. /\ recent[elapsed + 1] = count[w] /\ recent[elapsed] < count[w]
          /\ recent[Ttl[w]] <= count[w] + Limit[w] - 1
      BY <3>1 DEF BurstInv, Counting
    <3>3. /\ recent'[elapsed + 1] = count[w] + 1 /\ recent'[elapsed] <= recent[elapsed] + 1
          /\ recent'[Ttl[w]] = recent[Ttl[w]] + 1
          /\ recent'[elapsed] = 0 \/ recent'[elapsed] = recent[elapsed] + 1
      BY <1>1, <3>1, <3>2, SpansOfAWindow
    <3> QED
      BY <2>1, <3>1, <3>2, <3>3, SpansOfAWindow DEF Counting, Resting
  <2> QED
    BY <2>2, <2>3
<1> QED
  BY <1>2, <1>3 DEF BurstInv

LEMMA TickKeepsBursts ==
    ASSUME TypeOK, CountersAreBounded, BurstInv, Tick
    PROVE  BurstInv'
<1>1. \A a \in Spans : recent'[a] = IF a = 0 THEN 0 ELSE recent[a - 1]
  BY DEF Tick
<1>2. Cumulative'
  <2>1. ASSUME NEW a \in Spans \ {0} PROVE recent'[a - 1] <= recent'[a]
    <3>1. CASE a = 1
      BY <1>1, <3>1, WindowsAreSpans DEF TypeOK, Spans
    <3>2. CASE a # 1
      <4>1. a - 1 \in Spans \ {0} /\ a - 2 \in Spans
        BY <3>2, WindowsAreSpans DEF Spans
      <4>2. recent[(a - 1) - 1] <= recent[a - 1]
        BY <4>1 DEF BurstInv, Cumulative
      <4> QED
        BY <1>1, <4>1, <4>2 DEF Spans
    <3> QED
      BY <3>1, <3>2
  <2> QED
    BY <1>1, <2>1, WindowsAreSpans DEF Cumulative
<1>3. ASSUME NEW w \in Windows PROVE (Counting(w) /\ Resting(w))'
  <2>1. /\ left'[w] = IF left[w] > 0 THEN left[w] - 1 ELSE 0
        /\ count'[w] = IF left[w] = 1 THEN 0 ELSE count[w]
    BY DEF Tick
  <2>2. recent[Ttl[w] - 1] <= recent[Ttl[w]] /\ recent'[Ttl[w]] = recent[Ttl[w] - 1]
        /\ recent'[1] = 0
    BY <1>1, SpansOfAWindow DEF BurstInv, Cumulative
  <2>3. CASE left[w] = 0
    BY <2>1, <2>2, <2>3, SpansOfAWindow DEF BurstInv, Counting, Resting
  <2>4. CASE left[w] = 1
    <3>1. recent[Ttl[w] - 1] < count[w]
      BY <2>4 DEF BurstInv, Counting
    <3> QED
      BY <2>1, <2>2, <2>4, <3>1, SpansOfAWindow DEF Counting, Resting
  <2>5. CASE left[w] > 1
    <3> DEFINE elapsed == Ttl[w] - left[w]
    <3>1. /\ recent[elapsed + 1] = count[w] /\ recent[elapsed] < count[w]
          /\ recent[Ttl[w]] <= count[w] + Limit[w] - 1
      BY <2>5, SpansOfAWindow DEF BurstInv, Counting
    <3>2. /\ left'[w] = left[w] - 1 /\ count'[w] = count[w] /\ left'[w] > 0
          /\ Ttl[w] - left'[w] = elapsed + 1
      BY <2>1, <2>5, SpansOfAWindow
    <3>3. elapsed \in Spans /\ elapsed + 1 \in Spans \ {0} /\ elapsed + 2 \in Spans \ {0}
      BY <2>5, SpansOfAWindow, WindowsAreSpans DEF Spans
    <3>4. recent'[elapsed + 2] = count[w] /\ recent'[elapsed + 1] = recent[elapsed]
      BY <1>1, <3>1, <3>3 DEF Spans
    <3> QED
      BY <2>2, <3>1, <3>2, <3>3, <3>4, SpansOfAWindow DEF Counting, Resting
  <2> QED
    BY <2>3, <2>4, <2>5, SpansOfAWindow
<1> QED
  BY <1>2, <1>3 DEF BurstInv

\* For all limits and windows: around the end of a window a user's updates are
\* counted, and so admitted, less than twice as often as its limit says, within any
\* span of its length.
THEOREM BurstBounded == Spec => []BurstIsBounded
<1>1. Init => BurstInv
  <2> SUFFICES ASSUME Init PROVE BurstInv
    OBVIOUS
  <2>1. Cumulative
    BY WindowsAreSpans DEF Init, Cumulative
  <2>2. ASSUME NEW w \in Windows PROVE Counting(w) /\ Resting(w)
    BY WindowsAreSpans, LimiterAssumption DEF Init, Counting, Resting, Spans
  <2> QED
    BY <2>1, <2>2 DEF BurstInv
<1>2. TypeOK /\ CountersAreBounded /\ BurstInv /\ [Next]_vars => BurstInv'
  <2> SUFFICES ASSUME TypeOK, CountersAreBounded, BurstInv, [Next]_vars PROVE BurstInv'
    OBVIOUS
  <2>1. CASE UNCHANGED <<count, left, recent>>
    BY <2>1 DEF BurstInv, Cumulative, Counting, Resting
  <2>2. ASSUME NEW w \in Windows, Block(w) PROVE UNCHANGED <<count, left, recent>>
    BY <2>2 DEF Block
  <2> QED
    BY <2>1, <2>2, ConsumeKeepsBursts, TickKeepsBursts
       DEF Next, Admit, ReplyLost, RedisDown, NoSender, vars
<1>3. TypeOK /\ CountersAreBounded /\ BurstInv => BurstIsBounded
  <2> SUFFICES ASSUME TypeOK, CountersAreBounded, BurstInv, NEW w \in Windows
               PROVE  recent[Ttl[w]] <= 2 * Limit[w] - 1
    BY DEF BurstIsBounded
  <2>1. CASE left[w] = 0
    BY <2>1, SpansOfAWindow DEF BurstInv, Resting
  <2>2. CASE left[w] > 0
    <3>1. recent[Ttl[w]] <= count[w] + Limit[w] - 1
      BY <2>2 DEF BurstInv, Counting
    <3> QED
      BY <3>1, SpansOfAWindow
  <2> QED
    BY <2>1, <2>2, SpansOfAWindow
<1> QED
  BY <1>1, <1>2, <1>3, TypeCorrect, CountersBounded, PTL DEF Spec
=============================================================================
