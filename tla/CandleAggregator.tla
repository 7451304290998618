-------------------------- MODULE CandleAggregator --------------------------
(***************************************************************************)
(* live/candle.py: ticks are gathered into bars; bars that are streamed or *)
(* polled pass through; a bar is emitted once, in order of time.           *)
(***************************************************************************)
EXTENDS Integers, Sequences

CONSTANTS
    Intervals,     \* interval_ms: the configured one and those estimated
    FirstInterval,
    Grace,         \* grace_ms
    TickPrices,
    TickTimes,
    MaxTicks,      \* bound: ticks
    MaxForeign     \* bound: bars that are not made from ticks

ASSUME CandleAssumption ==
    /\ Intervals \subseteq Nat \ {0} /\ FirstInterval \in Intervals
    /\ TickTimes \subseteq Nat /\ TickPrices \subseteq Int

VARIABLES
    interval,      \* interval_ms
    current,       \* the bar being made, or NoCandle
    lastEmittedAt, \* last_emitted_time
    emitted,       \* history: the bars emitted, own or foreign
    ticks,         \* history: per start, the ticks taken into its bar
    tickCount, foreign

candleVars == <<interval, current, lastEmittedAt, emitted, ticks, tickCount, foreign>>

NoCandle == [time |-> -1, open |-> 0, high |-> 0, low |-> 0, close |-> 0, volume |-> 0]
Starts == {t - (t % i) : t \in TickTimes, i \in Intervals}

CandleInit ==
    /\ interval = FirstInterval /\ current = NoCandle /\ lastEmittedAt = -1
    /\ emitted = <<>> /\ ticks = [s \in Starts |-> <<>>] /\ tickCount = 0 /\ foreign = 0

\* emit_bar: a bar that is not newer than the last is dropped.
Emit(bar, own) ==
    IF bar.time > lastEmittedAt
    THEN /\ lastEmittedAt' = bar.time
         /\ emitted' = Append(emitted, [bar |-> bar, own |-> own])
    ELSE UNCHANGED <<lastEmittedAt, emitted>>

NewCandle(start, price, size) ==
    [time |-> start, open |-> price, high |-> price, low |-> price, close |-> price,
     volume |-> size]

\* Mutant: the low is not followed down.
WithTick_High(c, price, size) ==
    [c EXCEPT !.high = IF price > @ THEN price ELSE @, !.close = price, !.volume = @ + size]

WithTick(c, price, size) ==
    [c EXCEPT !.high = IF price > @ THEN price ELSE @, !.low = IF price < @ THEN price ELSE @,
              !.close = price, !.volume = @ + size]

\* A late tick is one of a bar that has been emitted or passed by.
Take(start, price, size) ==
    ticks' = IF start > lastEmittedAt
             THEN [ticks EXCEPT ![start] = Append(@, [price |-> price, size |-> size])]
             ELSE ticks

\* process_tick
ProcessTick(t, price, size) ==
    /\ tickCount < MaxTicks /\ tickCount' = tickCount + 1
    /\ LET start == t - (t % interval)
       IN  \/ /\ current = NoCandle
              /\ current' = NewCandle(start, price, size)
              /\ Take(start, price, size)
              /\ UNCHANGED <<lastEmittedAt, emitted>>
           \/ /\ current # NoCandle /\ start = current.time
              /\ current' = WithTick(current, price, size)
              /\ Take(start, price, size)
              /\ UNCHANGED <<lastEmittedAt, emitted>>
           \/ /\ current # NoCandle /\ start > current.time
              /\ Emit(current, TRUE)
              /\ \/ /\ current' = NewCandle(start, price, size)
                    /\ Take(start, price, size)
                 \/ \* a handler of the bar raises, and the tick is lost
                    /\ current.time > lastEmittedAt
                    /\ UNCHANGED <<current, ticks>>
           \/ /\ current # NoCandle /\ start < current.time
              /\ UNCHANGED <<current, lastEmittedAt, emitted, ticks>>
    /\ UNCHANGED <<interval, foreign>>

\* process_bar, when final or not streamed, and each of process_polled_bars.
ProcessBar(t) ==
    /\ foreign < MaxForeign /\ foreign' = foreign + 1
    /\ Emit([NoCandle EXCEPT !.time = t], FALSE)
    /\ UNCHANGED <<interval, current, ticks, tickCount>>

\* force_close, at time t, with the session open or not when the bar ends.
ForceClose(t, sessionOpen) ==
    /\ current # NoCandle
    /\ t >= current.time + interval + Grace \/ ~sessionOpen
    /\ Emit(current, TRUE)
    /\ \/ current' = NoCandle
       \/ current.time > lastEmittedAt /\ UNCHANGED current
    /\ UNCHANGED <<interval, ticks, tickCount, foreign>>

EstimateFromSeries(i) ==
    /\ interval' = i
    /\ UNCHANGED <<current, lastEmittedAt, emitted, ticks, tickCount, foreign>>

CandleNext ==
    \/ \E t \in TickTimes, p \in TickPrices : ProcessTick(t, p, 1)
    \/ \E t \in Starts : ProcessBar(t)
    \/ \E t \in TickTimes, open \in BOOLEAN : ForceClose(t, open)
    \/ \E i \in Intervals : EstimateFromSeries(i)

CandleSpec == CandleInit /\ [][CandleNext]_candleVars

-----------------------------------------------------------------------------
\* What a sequence of ticks of one bar comes to.
IsCandleOf(c, s) ==
    LET prices == {s[i].price : i \in 1 .. Len(s)}
    IN  /\ c.open = s[1].price /\ c.close = s[Len(s)].price
        /\ c.high \in prices /\ c.low \in prices
        /\ \A p \in prices : c.low <= p /\ p <= c.high
        /\ c.volume = Len(s)

\* Bars are emitted in order of time, none twice; a bar made from ticks is
\* the sum of exactly the ticks taken for it, and no ticks that were in time
\* are without a bar, unless a bar from elsewhere took its place
\* (candle.py:62-134).
BarsTrue ==
    /\ \A i, j \in 1 .. Len(emitted) : i < j => emitted[i].bar.time < emitted[j].bar.time
    /\ \A i \in 1 .. Len(emitted) :
        emitted[i].own => IsCandleOf(emitted[i].bar, ticks[emitted[i].bar.time])
    /\ \A s \in Starts : ticks[s] # <<>> =>
        \/ current.time = s
        \/ \E i \in 1 .. Len(emitted) :
            IF emitted[i].own THEN emitted[i].bar.time = s ELSE emitted[i].bar.time >= s
=============================================================================
