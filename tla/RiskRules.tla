------------------------------ MODULE RiskRules ------------------------------
(***************************************************************************)
(* live/risk.py: the state of a RiskManager as a record, its operations as *)
(* functions of it, and its decisions.                                     *)
(*                                                                         *)
(* Money and time are integers.  A share of x percent is compared without  *)
(* division: a / b >= x / 100 is written 100 * a >= x * b.                  *)
(***************************************************************************)
EXTENDS Integers

CONSTANTS
    DayLength,            \* ticks from one New York midnight to the next
    AllowedTicks,         \* ticks of a day inside the allowed session and windows
    MaxDailyLossPct, MaxDailyLossDollars, MaxDrawdownPct,
    MaxPositions, MaxPositionPct, MaxDailyTrades, CooldownAfterLoss,
    MaxGrossPct, MaxNetPct

None == -1                \* an optional number that is not given

ASSUME RiskAssumption ==
    /\ DayLength \in Nat \ {0}
    /\ AllowedTicks \subseteq 0 .. (DayLength - 1)
    /\ MaxDailyLossPct \in Nat /\ MaxDrawdownPct \in Nat
    /\ MaxDailyLossDollars \in Nat \cup {None}
    /\ MaxPositions \in Nat /\ MaxPositionPct \in Nat /\ MaxDailyTrades \in Nat
    /\ CooldownAfterLoss \in Nat /\ MaxGrossPct \in Nat /\ MaxNetPct \in Nat

DayKey(t) == t \div DayLength

Reasons == {"none", "drawdown", "daily loss", "manual"}

\* "none" stands for halted = False.
RiskState == [start : Nat \cup {None}, equity : Nat \cup {None}, peak : Nat \cup {None},
              day : Nat \cup {None}, dayPnl : Int, dayTrades : Nat,
              lastLossAt : Nat \cup {None}, halt : Reasons]

NewRisk == [start |-> None, equity |-> None, peak |-> None, day |-> None,
            dayPnl |-> 0, dayTrades |-> 0, lastLossAt |-> None, halt |-> "none"]

Halted(r) == r.halt # "none"

Initialize(r, e, t) ==
    [start |-> e, equity |-> e, peak |-> e, day |-> DayKey(t),
     dayPnl |-> 0, dayTrades |-> 0, lastLossAt |-> None, halt |-> "none"]

ResetDay(r, t) ==
    IF r.day = DayKey(t) THEN r
    ELSE [r EXCEPT !.day = DayKey(t), !.dayPnl = 0, !.dayTrades = 0, !.halt = "none"]

Seen(r, e) == [r EXCEPT !.equity = e, !.peak = IF r.peak = None \/ e > r.peak THEN e ELSE @]

InDrawdown(r) ==
    /\ r.equity # None /\ r.peak > 0 /\ MaxDrawdownPct > 0
    /\ 100 * (r.peak - r.equity) >= MaxDrawdownPct * r.peak

StartEquity(r) == IF r.start = None THEN 0 ELSE r.start

AtDailyLoss(r) ==
    \/ MaxDailyLossPct > 0 /\ 100 * r.dayPnl <= -(StartEquity(r) * MaxDailyLossPct)
    \/ MaxDailyLossDollars # None /\ r.dayPnl <= -MaxDailyLossDollars

Breached(r) == InDrawdown(r) \/ AtDailyLoss(r)

MaybeHaltForDrawdown(r) ==
    IF ~Halted(r) /\ InDrawdown(r) THEN [r EXCEPT !.halt = "drawdown"] ELSE r

MaybeHaltForDailyLoss(r) ==
    IF ~Halted(r) /\ AtDailyLoss(r) THEN [r EXCEPT !.halt = "daily loss"] ELSE r

\* Mutant: the limits are not looked at while a position is only marked.
Update_Trusts(r, e, t) ==
    IF r.start = None THEN Initialize(r, e, t) ELSE Seen(ResetDay(r, t), e)

Update(r, e, t) ==
    IF r.start = None THEN Initialize(r, e, t)
    ELSE MaybeHaltForDailyLoss(MaybeHaltForDrawdown(Seen(ResetDay(r, t), e)))

RecordTrade(r, pnl, e, t) ==
    LET day == ResetDay(r, t)
        booked == [day EXCEPT !.dayPnl = @ + pnl, !.dayTrades = @ + 1,
                       !.lastLossAt = IF pnl < 0 THEN t ELSE @]
        seen == IF e = None THEN booked ELSE Seen(booked, e)
    IN  MaybeHaltForDrawdown(MaybeHaltForDailyLoss(seen))

Halt(r) == [r EXCEPT !.halt = "manual"]
ClearHalt(r) == [r EXCEPT !.halt = "none"]

CanTrade(r, t) ==
    /\ ~Halted(r)
    /\ (t % DayLength) \in AllowedTicks
    /\ ~(CooldownAfterLoss > 0 /\ r.lastLossAt # None /\ t - r.lastLossAt < CooldownAfterLoss)

Size(n) == IF n < 0 THEN -n ELSE n

\* The share of n in the equity e stays within pct percent (0 for no limit).
Within(n, e, pct) == (pct > 0 /\ e # None /\ e > 0) => 100 * Size(n) <= pct * e

\* gross and net may be None.
ExposureOk(gross, net, e) ==
    /\ gross # None => Within(gross, e, MaxGrossPct)
    /\ net # None => Within(net, e, MaxNetPct)

CanOpenPosition(r, t, count, value, equity, gross, net) ==
    LET e == IF equity = None THEN r.equity ELSE equity
    IN  /\ CanTrade(r, t)
        /\ MaxPositions > 0 => count < MaxPositions
        /\ MaxDailyTrades > 0 => r.dayTrades < MaxDailyTrades
        /\ Within(value, e, MaxPositionPct)
        /\ ExposureOk(gross, net, e)
=============================================================================
