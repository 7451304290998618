-------------------------- MODULE LiveOrchestrator --------------------------
(***************************************************************************)
(* live/orchestrator.py: one lifecycle lock, a list of engines started one *)
(* after the other on one broker, and the portfolio's daily loss limit.    *)
(*                                                                         *)
(* An engine is what the orchestrator sees of it: it starts or raises, may *)
(* report equity from the moment its start has begun, stops or raises, and *)
(* its risk manager lifts a halt whenever a bar or a fill is of another    *)
(* day than the one before, an earlier day included: bars come in order    *)
(* but may be late, and a fill counts when the venue says it was.          *)
(***************************************************************************)
EXTENDS Integers, FiniteSets

CONSTANTS
    Systems,        \* the number of systems
    Share,          \* the equity each system is given
    Swings,         \* by how much one bar may change an engine's equity
    LossPct,        \* max_daily_loss_pct of the portfolio
    LastDay,        \* bound: days
    MaxLaunches,    \* bound: starts
    MaxBars         \* bound: bars and exits

ASSUME OrchestratorAssumption ==
    /\ Systems \in Nat \ {0} /\ Share \in Nat \ {0} /\ Swings \subseteq Int
    /\ LossPct \in Nat /\ LastDay \in Nat /\ MaxLaunches \in Nat /\ MaxBars \in Nat

Ids == 1 .. Systems

VARIABLES
    engine,         \* [Ids -> what is known of the engine]
    registered,     \* self.engines holds the first `registered' systems
    forwarding,     \* systems whose bus is forwarded
    active,         \* running
    phase,          \* who holds the lifecycle lock: "none", "start", "undo", "stop"
    step,           \* the system the holder is at
    connected,      \* broker.is_connected()
    baseline,       \* day_start_equity
    currentDay,     \* current_day
    portfolioHalted,
    today,          \* the wall clock's day
    startsDone,     \* bound: starts so far
    bars,           \* bound: bars and exits so far
    leftOpen        \* history: the broker's disconnect raised

orcVars == <<engine, registered, forwarding, active, phase, step, connected, baseline,
             currentDay, portfolioHalted, today, startsDone, bars, leftOpen>>

\* day: that of its risk manager; last: the day of its last bar, NeverBar when it
\* has had none; due: a bar is handled and its equity not yet reported; stale:
\* when the portfolio halted it, one of the two days was over, or it was told of
\* an exit of an earlier day; refused: its stop() raised.
NeverBar == -1
NoEngine == [state |-> "off", equity |-> 0, day |-> 0, last |-> NeverBar, due |-> FALSE,
             halted |-> FALSE, stale |-> FALSE, refused |-> FALSE]

OrcInit ==
    /\ engine = [i \in Ids |-> NoEngine]
    /\ registered = 0 /\ forwarding = {} /\ active = FALSE
    /\ phase = "none" /\ step = 0 /\ connected = FALSE
    /\ baseline = Systems * Share /\ currentDay = -1 /\ portfolioHalted = FALSE
    /\ today = 0 /\ startsDone = 0 /\ bars = 0 /\ leftOpen = FALSE

\* aggregateEquity of get_status: f[k] is that of the first k engines.
Aggregate(eng, n) ==
    LET f[k \in 0 .. Systems] == IF k = 0 THEN 0 ELSE f[k - 1] + eng[k].equity
    IN  f[n]

-----------------------------------------------------------------------------
(* The portfolio's limit.                                                  *)

\* Mutant: a halted portfolio only marks itself.
CheckPortfolioLimits_Marks(eng) ==
    /\ engine' = eng
    /\ IF LossPct > 0 /\ currentDay # today
       THEN /\ currentDay' = today /\ portfolioHalted' = FALSE
            /\ baseline' = Aggregate(eng, registered)
       ELSE /\ portfolioHalted' = (portfolioHalted \/
                  100 * Aggregate(eng, registered) <= baseline * (100 - LossPct))
            /\ UNCHANGED <<baseline, currentDay>>

\* check_portfolio_limits, when the engines are eng: the first call of a day
\* only takes the day's baseline.
CheckPortfolioLimits(eng) ==
    \/ /\ LossPct > 0 /\ currentDay # today
       /\ engine' = eng
       /\ currentDay' = today /\ portfolioHalted' = FALSE
       /\ baseline' = Aggregate(eng, registered)
    \/ /\ LossPct = 0 \/ currentDay = today
       /\ LET hit == /\ LossPct > 0 /\ ~portfolioHalted
                     /\ 100 * Aggregate(eng, registered) <= baseline * (100 - LossPct)
          IN  /\ portfolioHalted' = (portfolioHalted \/ hit)
              /\ engine' = [i \in Ids |->
                     IF hit /\ i <= registered
                     THEN [eng[i] EXCEPT !.halted = TRUE,
                                         !.stale = ~ (eng[i].day = today /\ eng[i].last = today)]
                     ELSE eng[i]]
       /\ UNCHANGED <<baseline, currentDay>>

\* An engine takes a bar of day d: its risk manager is given the day and the
\* equity at that bar.  Bars are newer than the last one, not always of today.
EngineBar(i, d, swing) ==
    /\ engine[i].state \in {"starting", "up"} /\ ~ engine[i].due
    /\ bars < MaxBars /\ bars' = bars + 1
    /\ engine[i].last <= d /\ d <= today
    /\ engine[i].equity + swing >= 0
    /\ engine' = [engine EXCEPT ![i].equity = @ + swing, ![i].day = d, ![i].last = d,
                                ![i].due = TRUE, ![i].halted = @ /\ engine[i].day = d]
    /\ UNCHANGED <<registered, forwarding, active, phase, step, connected, baseline,
                   currentDay, portfolioHalted, today, startsDone, leftOpen>>

\* The bar is handled: its equity is reported and the limit checked, unless the
\* handler raised or the bus is no longer forwarded.
EngineReports(i) ==
    /\ engine[i].due
    /\ LET eng == [engine EXCEPT ![i].due = FALSE]
       IN  \/ i \in forwarding /\ CheckPortfolioLimits(eng)
           \/ engine' = eng /\ UNCHANGED <<baseline, currentDay, portfolioHalted>>
    /\ UNCHANGED <<registered, forwarding, active, phase, step, connected, today, bars,
                   startsDone, leftOpen>>

\* An exit filled on day d is reported: the trade is recorded, no equity sent.
EngineExit(i, d, swing) ==
    /\ engine[i].state \in {"starting", "up"}
    /\ bars < MaxBars /\ bars' = bars + 1
    /\ d <= today
    /\ engine[i].equity + swing >= 0
    /\ engine' = [engine EXCEPT ![i].equity = @ + swing, ![i].day = d,
                                ![i].halted = @ /\ engine[i].day = d,
                                ![i].stale = @ \/ d < today]
    /\ UNCHANGED <<registered, forwarding, active, phase, step, connected, baseline,
                   currentDay, portfolioHalted, today, startsDone, leftOpen>>

Midnight ==
    /\ today < LastDay
    /\ today' = today + 1
    /\ UNCHANGED <<engine, registered, forwarding, active, phase, step, connected, baseline,
                   currentDay, portfolioHalted, startsDone, bars, leftOpen>>

-----------------------------------------------------------------------------
(* start                                                                   *)

Kept == <<baseline, currentDay, portfolioHalted, today, bars>>

OrcStart ==
    /\ phase = "none" /\ ~active
    /\ startsDone < MaxLaunches /\ startsDone' = startsDone + 1
    /\ phase' = "start" /\ step' = 1
    /\ engine' = [i \in Ids |-> NoEngine]
    /\ leftOpen' = FALSE
    /\ UNCHANGED <<registered, forwarding, active, connected, Kept>>

\* The next engine's bus is forwarded and the engine made, or its factory raises.
\* It begins in the day of its last bar (kept, or of the warm-up), else in today's.
Construct ==
    /\ phase = "start" /\ engine[step].state = "off"
    /\ forwarding' = forwarding \cup {step}
    /\ \/ /\ \E last \in {NeverBar} \cup 0 .. today :
               engine' = [engine EXCEPT ![step] =
                   [NoEngine EXCEPT !.state = "starting", !.equity = Share, !.last = last,
                                    !.day = IF last = NeverBar THEN today ELSE last]]
          /\ UNCHANGED <<phase, step>>
       \/ /\ phase' = "undo" /\ step' = step - 1
          /\ UNCHANGED engine
    /\ UNCHANGED <<registered, active, connected, startsDone, leftOpen, Kept>>

\* engine.start() returns; after the last one the orchestrator runs.
EngineStarted ==
    /\ phase = "start" /\ engine[step].state = "starting"
    /\ engine' = [engine EXCEPT ![step].state = "up"]
    /\ registered' = step /\ connected' = TRUE
    /\ IF step < Systems
       THEN /\ step' = step + 1
            /\ UNCHANGED <<phase, active, baseline, currentDay, portfolioHalted>>
       ELSE /\ phase' = "none" /\ step' = 0 /\ active' = TRUE
            /\ baseline' = Aggregate(engine', Systems)
            /\ currentDay' = today /\ portfolioHalted' = FALSE
    /\ UNCHANGED <<forwarding, today, bars, startsDone, leftOpen>>

\* engine.start() raises; the engine has undone its own start.
EngineStartFails ==
    /\ phase = "start" /\ engine[step].state = "starting"
    /\ engine' = [engine EXCEPT ![step].state = "off"]
    /\ connected' \in {connected, TRUE}
    /\ phase' = "undo" /\ step' = step - 1
    /\ UNCHANGED <<registered, forwarding, active, startsDone, leftOpen, Kept>>

-----------------------------------------------------------------------------
(* Undoing a start and stop: the engines in reverse, then the transports.  *)

OrcStop ==
    /\ phase = "none"
    /\ active \/ registered > 0
    /\ phase' = "stop" /\ step' = registered
    /\ UNCHANGED <<engine, registered, forwarding, active, connected, startsDone,
                   leftOpen, Kept>>

\* Mutant: the first stop that raises ends the loop.
EngineStops_GivesUp ==
    /\ phase \in {"undo", "stop"} /\ step > 0
    /\ \/ /\ engine' = [engine EXCEPT ![step].state = "off"]
          /\ step' = step - 1
       \/ /\ engine' = [engine EXCEPT ![step].refused = TRUE]
          /\ step' = 0
    /\ UNCHANGED <<registered, forwarding, active, phase, connected, startsDone, leftOpen, Kept>>

\* engine.stop() returns or raises; either way the next one is stopped.
EngineStops ==
    /\ phase \in {"undo", "stop"} /\ step > 0
    /\ step' = step - 1
    /\ \/ engine' = [engine EXCEPT ![step].state = "off"]
       \/ engine' = [engine EXCEPT ![step].refused = TRUE]
    /\ UNCHANGED <<registered, forwarding, active, phase, connected, startsDone, leftOpen, Kept>>

\* The feeds and the broker are disconnected, which may raise, and the books
\* cleared in any case.
Cleared ==
    /\ phase \in {"undo", "stop"} /\ step = 0
    /\ connected' \in {FALSE, connected}
    /\ leftOpen' = connected'
    /\ registered' = 0 /\ forwarding' = {} /\ active' = FALSE /\ phase' = "none"
    /\ UNCHANGED <<engine, step, startsDone, Kept>>

OrcNext ==
    \/ \E i \in Ids, d \in 0 .. LastDay, s \in Swings : EngineBar(i, d, s) \/ EngineExit(i, d, s)
    \/ \E i \in Ids : EngineReports(i)
    \/ Midnight
    \/ OrcStart \/ Construct \/ EngineStarted \/ EngineStartFails
    \/ OrcStop \/ EngineStops \/ Cleared

OrcSpec == OrcInit /\ [][OrcNext]_orcVars

-----------------------------------------------------------------------------
\* Between two lifecycle calls all systems run or none does, except engines
\* whose own stop raised: no failure on the way leaves a started engine, a
\* forwarded bus or, unless its disconnect raised, the broker behind
\* (orchestrator.py:130-229, 255-311).
AllOrNothing ==
    phase = "none" =>
        \/ /\ active /\ connected /\ registered = Systems /\ forwarding = Ids
           /\ \A i \in Ids : engine[i].state = "up"
        \/ /\ ~active /\ registered = 0 /\ forwarding = {}
           /\ connected => leftOpen
           /\ \A i \in Ids : engine[i].state = "off" \/ engine[i].refused

\* A portfolio that is halted keeps every engine halted until midnight, whatever
\* bars and fills come, but for an engine that at the halt was not yet in the
\* day (no bar of today, or its risk manager in another day) or that has
\* reported an exit filled on an earlier one: the first bar or fill of another
\* day lifts its halt, and the portfolio, which is already halted, does not halt
\* it again (orchestrator.py:231-253, risk.py:123-131).
PortfolioHaltHolds ==
    (active /\ phase = "none" /\ portfolioHalted /\ currentDay = today) =>
        \A i \in Ids : engine[i].halted \/ engine[i].stale
=============================================================================
