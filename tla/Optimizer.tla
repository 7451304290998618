------------------------------ MODULE Optimizer ------------------------------
(***************************************************************************)
(* optimize (engine/optimize.py) over the parameter sets of a grid         *)
(* (engine/grid.py): one backtest per set, in turn or in a pool of         *)
(* processes whose answers come in any order and whose workers may die.    *)
(***************************************************************************)
EXTENDS Integers, Sequences, FiniteSets

CONSTANTS
    Specs,           \* grids to expand: <<values of the key>> for each key, in key order
    Outcomes,        \* what a backtest scores: a number, NoMetric or Failure
    NoMetric,        \* score_by is not a finite number of its metrics
    Failure,         \* the backtest raised
    Concurrency      \* the workers of the pool

ASSUME OptimizerAssumption ==
    /\ \A s \in Specs : Len(s) \in Nat /\ \A k \in 1 .. Len(s) : Len(s[k]) \in Nat
    /\ Concurrency \in Nat \ {0}
    /\ Outcomes \subseteq Nat \union {NoMetric, Failure} /\ {NoMetric, Failure} \intersect Nat = {}

VARIABLES
    optSets,         \* parameter_sets
    optOutcome,      \* what the backtest of each set gives
    optMode,         \* "serial", "pool", or "unpicklable"
    optPhase,        \* "run", "submit", "collect", "done"
    optFutures,      \* of the submitted sets: "queued", "running", "finished",
                     \* "broken", "taken"
    optBroken,       \* a worker died: the pool takes and runs nothing more
    optResults       \* results: a row or NoRow for each set

optVars == <<optSets, optOutcome, optMode, optPhase, optFutures, optBroken, optResults>>

NoRow == [params |-> <<>>]

\* One more key: every set so far with every value of the key, which vary first.
Expand(output, values) ==
    LET n == Len(values)
    IN  [k \in 1 .. (Len(output) * n) |->
            Append(output[((k - 1) \div n) + 1], values[((k - 1) % n) + 1])]

\* grid
Grid(spec) ==
    LET output[k \in 0 .. Len(spec)] ==
            IF k = 0 THEN <<<<>>>> ELSE Expand(output[k - 1], spec[k])
    IN  output[Len(spec)]

\* _run_parameter_set: an error of the backtest is a row as well.
ResultRow(i) == [params |-> optSets[i], index |-> i, outcome |-> optOutcome[i]]
ErrorRow(i) == [params |-> optSets[i], index |-> i, outcome |-> Failure]

OptInit ==
    /\ optSets \in {Grid(s) : s \in Specs}
    /\ optOutcome \in [DOMAIN optSets -> Outcomes]
    /\ optMode \in {"serial", "pool", "unpicklable"}
    /\ optPhase = (IF optSets = <<>> THEN "done" ELSE IF optMode = "pool" THEN "submit" ELSE "run")
    /\ optFutures = <<>> /\ optBroken = FALSE
    /\ optResults = [i \in DOMAIN optSets |-> NoRow]

Missing == {i \in DOMAIN optSets : optResults[i] = NoRow}
First(S) == CHOOSE i \in S : \A j \in S : i <= j

RunSerially ==
    /\ optPhase = "run" /\ optMode = "serial"
    /\ optResults' = [optResults EXCEPT ![First(Missing)] = ResultRow(First(Missing))]
    /\ optPhase' = (IF Missing = {First(Missing)} THEN "done" ELSE "run")
    /\ UNCHANGED <<optSets, optOutcome, optMode, optFutures, optBroken>>

\* What cannot be sent to a worker fails for every set.
FailAll ==
    /\ optPhase = "run" /\ optMode = "unpicklable"
    /\ optResults' = [i \in DOMAIN optSets |-> ErrorRow(i)]
    /\ optPhase' = "done"
    /\ UNCHANGED <<optSets, optOutcome, optMode, optFutures, optBroken>>

\* executor.submit; a broken pool refuses, and every set without a row fails.
SubmitSet ==
    /\ optPhase = "submit" /\ ~optBroken
    /\ optFutures' = Append(optFutures, "queued")
    /\ optPhase' = (IF Len(optFutures') = Len(optSets) THEN "collect" ELSE "submit")
    /\ UNCHANGED <<optSets, optOutcome, optMode, optBroken, optResults>>
SubmitFails ==
    /\ optPhase = "submit" /\ optBroken
    /\ optResults' = [i \in DOMAIN optSets |->
                         IF optResults[i] = NoRow THEN ErrorRow(i) ELSE optResults[i]]
    /\ optPhase' = "done"
    /\ UNCHANGED <<optSets, optOutcome, optMode, optFutures, optBroken>>

Workers == IF Concurrency < Len(optSets) THEN Concurrency ELSE Len(optSets)
In(state) == {i \in DOMAIN optFutures : optFutures[i] = state}

\* A free worker takes the next set; a worker gives its answer; a worker dies,
\* which breaks the pool and everything it has not answered.
WorkerTakes ==
    /\ ~optBroken /\ In("queued") # {}
    /\ Cardinality(In("running")) < Workers
    /\ optFutures' = [optFutures EXCEPT ![First(In("queued"))] = "running"]
    /\ UNCHANGED <<optSets, optOutcome, optMode, optPhase, optBroken, optResults>>
WorkerAnswers(i) ==
    /\ i \in In("running")
    /\ optFutures' = [optFutures EXCEPT ![i] = "finished"]
    /\ UNCHANGED <<optSets, optOutcome, optMode, optPhase, optBroken, optResults>>
WorkerDies ==
    /\ optPhase \in {"submit", "collect"} /\ ~optBroken
    /\ optBroken' = TRUE
    /\ optFutures' = [i \in DOMAIN optFutures |->
                         IF optFutures[i] \in {"queued", "running"} THEN "broken" ELSE optFutures[i]]
    /\ UNCHANGED <<optSets, optOutcome, optMode, optPhase, optResults>>

\* as_completed: the answers are taken as they come, each to the slot of its set.
RowOf(i) == IF optFutures[i] = "finished" THEN ResultRow(i) ELSE ErrorRow(i)
Collect_Append(i) ==
    /\ optPhase = "collect" /\ optFutures[i] \in {"finished", "broken"}
    /\ optResults' = [optResults EXCEPT ![First(Missing)] = RowOf(i)]
    /\ optFutures' = [optFutures EXCEPT ![i] = "taken"]
    /\ optPhase' = (IF Missing = {First(Missing)} THEN "done" ELSE "collect")
    /\ UNCHANGED <<optSets, optOutcome, optMode, optBroken>>
Collect(i) ==
    /\ optPhase = "collect" /\ optFutures[i] \in {"finished", "broken"}
    /\ optResults' = [optResults EXCEPT ![i] = RowOf(i)]
    /\ optFutures' = [optFutures EXCEPT ![i] = "taken"]
    /\ optPhase' = (IF Missing = {i} THEN "done" ELSE "collect")
    /\ UNCHANGED <<optSets, optOutcome, optMode, optBroken>>

\* The leaderboard: the rows with metrics by score, rows without a finite score
\* last, in their order where the scores agree (the sort is stable).
Ranked == {i \in DOMAIN optResults : optResults[i].outcome # Failure}
Score(i) == IF optResults[i].outcome = NoMetric THEN -1 ELSE optResults[i].outcome
Above(i, j) == Score(i) > Score(j) \/ (Score(i) = Score(j) /\ i < j)
Place(i) == 1 + Cardinality({j \in Ranked : Above(j, i)})
Leaderboard ==
    [k \in 1 .. Cardinality(Ranked) |-> optResults[CHOOSE i \in Ranked : Place(i) = k]]

OptNext ==
    \/ RunSerially \/ FailAll
    \/ SubmitSet \/ SubmitFails
    \/ WorkerTakes \/ WorkerDies
    \/ \E i \in DOMAIN optFutures : WorkerAnswers(i) \/ Collect(i)

OptSpec == OptInit /\ [][OptNext]_optVars

-----------------------------------------------------------------------------
\* However the workers are scheduled, a pool that stays whole ranks what a serial
\* run ranks: a row for each parameter set, in their order, and a leaderboard by
\* score that keeps this order in a tie.  A broken one still has a row
\* for each set, and no row but a failure differs from the serial one
\* (optimize.py:68-104,149-217; grid.py:32-44).
RankedAlike ==
    optPhase = "done" =>
        /\ \A i \in DOMAIN optSets :
              \/ optResults[i] = ResultRow(i)
              \/ (optBroken \/ optMode = "unpicklable") /\ optResults[i] = ErrorRow(i)
        /\ \A i \in DOMAIN Leaderboard, j \in DOMAIN Leaderboard :
              LET a == Leaderboard[i].index
                  b == Leaderboard[j].index
              IN  i < j => \/ optOutcome[b] = NoMetric /\ optOutcome[a] # NoMetric
                           \/ optOutcome[a] = optOutcome[b] /\ a < b
                           \/ /\ NoMetric \notin {optOutcome[a], optOutcome[b]}
                              /\ optOutcome[a] > optOutcome[b]
=============================================================================
