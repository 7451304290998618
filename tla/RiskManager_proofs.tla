------------------------- MODULE RiskManager_proofs -------------------------
(***************************************************************************)
(* What holds of a live engine's and of a session's use of a RiskManager   *)
(* for every value of the constants: see the README for the argument.      *)
(***************************************************************************)
EXTENDS RiskManager, SessionRisk, TLAPS

USE DEF None

-----------------------------------------------------------------------------
(* Days.                                                                    *)

\* A tick has a day, and a later tick no earlier one (_reset_day).
LEMMA DayMonotone ==
    ASSUME NEW s \in Nat, NEW t \in Nat, s <= t
    PROVE  DayKey(s) \in Nat /\ DayKey(t) \in Nat /\ DayKey(s) <= DayKey(t)
<1> DEFINE n == DayLength
<1>1. n \in Nat /\ n > 0 BY RiskAssumption
<1>2. DayKey(s) \in Nat /\ DayKey(t) \in Nat BY <1>1 DEF DayKey
<1>3. DayKey(s) <= DayKey(t) BY <1>1, <1>2 DEF DayKey
<1> QED BY <1>2, <1>3

-----------------------------------------------------------------------------
(* The operations of the manager.                                           *)

\* A manager that has been initialized (initialize).
Started(r) == r \in RiskState /\ r.start # None /\ r.equity \in Nat /\ r.peak \in Nat /\ r.day \in Nat

\* A field that is given a value of its type.
LEMMA FieldFacts ==
    ASSUME NEW r \in RiskState
    PROVE  /\ \A v \in Nat : [r EXCEPT !.start = v] \in RiskState
           /\ \A v \in Nat : [r EXCEPT !.equity = v] \in RiskState
           /\ \A v \in Nat : [r EXCEPT !.peak = v] \in RiskState
           /\ \A v \in Nat : [r EXCEPT !.day = v] \in RiskState
           /\ \A v \in Int : [r EXCEPT !.dayPnl = v] \in RiskState
           /\ \A v \in Nat : [r EXCEPT !.dayTrades = v] \in RiskState
           /\ \A v \in Nat \cup {None} : [r EXCEPT !.lastLossAt = v] \in RiskState
           /\ \A v \in Reasons : [r EXCEPT !.halt = v] \in RiskState
<1> USE DEF RiskState
<1>1. \A v \in Nat : [r EXCEPT !.start = v] \in RiskState OBVIOUS
<1>2. \A v \in Nat : [r EXCEPT !.equity = v] \in RiskState OBVIOUS
<1>3. \A v \in Nat : [r EXCEPT !.peak = v] \in RiskState OBVIOUS
<1>4. \A v \in Nat : [r EXCEPT !.day = v] \in RiskState OBVIOUS
<1>5. \A v \in Int : [r EXCEPT !.dayPnl = v] \in RiskState OBVIOUS
<1>6. \A v \in Nat : [r EXCEPT !.dayTrades = v] \in RiskState OBVIOUS
<1>7. \A v \in Nat \cup {None} : [r EXCEPT !.lastLossAt = v] \in RiskState OBVIOUS
<1>8. \A v \in Reasons : [r EXCEPT !.halt = v] \in RiskState OBVIOUS
<1> HIDE DEF RiskState
<1> QED BY <1>1, <1>2, <1>3, <1>4, <1>5, <1>6, <1>7, <1>8

\* Initializing starts a manager with no halt (initialize), also when it is
\* then given the totals of an earlier run.
LEMMA InitializeFacts ==
    ASSUME NEW q, NEW e \in Nat, NEW t \in Nat
    PROVE  LET i == Initialize(q, e, t)
           IN  /\ Started(i) /\ i.equity = e /\ i.peak = e /\ i.day = DayKey(t)
               /\ i.dayTrades = 0 /\ i.halt = "none" /\ i.start = e /\ i.dayPnl = 0
<1>1. DayKey(t) \in Nat BY DayMonotone
<1>2. Initialize(q, e, t) \in RiskState BY <1>1 DEF Initialize, RiskState, Reasons
<1> QED BY <1>1, <1>2 DEF Initialize, Started

LEMMA LoadFacts ==
    ASSUME NEW i, Started(i), NEW pnl \in Int, NEW trades \in Nat
    PROVE  LET r == [i EXCEPT !.dayPnl = pnl, !.dayTrades = trades]
           IN  /\ Started(r) /\ r.equity = i.equity /\ r.peak = i.peak /\ r.day = i.day
               /\ r.dayTrades = trades /\ r.halt = i.halt
<1> DEFINE a == [i EXCEPT !.dayPnl = pnl]
           r == [a EXCEPT !.dayTrades = trades]
<1>1. a \in RiskState BY FieldFacts DEF Started
<1>2. /\ a.start = i.start /\ a.equity = i.equity /\ a.peak = i.peak /\ a.day = i.day
      /\ a.halt = i.halt
    BY DEF Started, RiskState
<1> HIDE DEF a
<1>3. r \in RiskState BY <1>1, FieldFacts
<1>4. /\ r.start = a.start /\ r.equity = a.equity /\ r.peak = a.peak /\ r.day = a.day
      /\ r.dayTrades = trades /\ r.halt = a.halt
    BY <1>1 DEF RiskState
<1>5. r = [i EXCEPT !.dayPnl = pnl, !.dayTrades = trades] BY DEF a
<1> HIDE DEF r
<1> QED BY <1>2, <1>3, <1>4, <1>5 DEF Started

\* A new day starts the counts again and lifts the halt (_reset_day).
LEMMA ResetDayFacts ==
    ASSUME NEW r, Started(r), NEW t \in Nat
    PROVE  /\ Started(ResetDay(r, t))
           /\ ResetDay(r, t).day = DayKey(t)
           /\ r.day = DayKey(t) => ResetDay(r, t) = r
           /\ r.day # DayKey(t) => ResetDay(r, t).dayTrades = 0 /\ ResetDay(r, t).dayPnl = 0
           /\ ResetDay(r, t).start = r.start
<1>1. DayKey(t) \in Nat BY DayMonotone
<1>2. CASE r.day = DayKey(t) BY <1>2 DEF ResetDay
<1>3. CASE r.day # DayKey(t)
    <2> DEFINE a == [r EXCEPT !.day = DayKey(t)]
               b == [a EXCEPT !.dayPnl = 0]
               c == [b EXCEPT !.dayTrades = 0]
               d == [c EXCEPT !.halt = "none"]
    <2>1. a \in RiskState BY <1>1, FieldFacts DEF Started
    <2>2. a.day = DayKey(t) /\ a.start = r.start /\ a.equity = r.equity /\ a.peak = r.peak
        BY DEF Started, RiskState
    <2> HIDE DEF a
    <2>3. b \in RiskState BY <2>1, FieldFacts
    <2>4. b.dayPnl = 0 /\ b.day = a.day /\ b.start = a.start /\ b.equity = a.equity /\ b.peak = a.peak
        BY <2>1 DEF RiskState
    <2> HIDE DEF b
    <2>5. c \in RiskState BY <2>3, FieldFacts
    <2>6. c.dayTrades = 0 /\ c.dayPnl = b.dayPnl /\ c.day = b.day /\ c.start = b.start /\ c.equity = b.equity /\ c.peak = b.peak
        BY <2>3 DEF RiskState
    <2> HIDE DEF c
    <2>7. d \in RiskState BY <2>5, FieldFacts DEF Reasons
    <2>8. /\ d.dayTrades = c.dayTrades /\ d.dayPnl = c.dayPnl /\ d.day = c.day /\ d.start = c.start
          /\ d.equity = c.equity /\ d.peak = c.peak
        BY <2>5 DEF RiskState
    <2> HIDE DEF d
    <2>9. ResetDay(r, t) = d BY <1>3 DEF ResetDay, a, b, c, d
    <2> QED BY <1>1, <1>3, <2>2, <2>4, <2>6, <2>7, <2>8, <2>9 DEF Started
<1> QED BY <1>2, <1>3

\* A marked equity is not above the peak (update).
LEMMA SeenFacts ==
    ASSUME NEW r, Started(r), NEW e \in Nat
    PROVE  /\ Started(Seen(r, e))
           /\ Seen(r, e).equity <= Seen(r, e).peak
           /\ Seen(r, e).day = r.day /\ Seen(r, e).dayTrades = r.dayTrades
           /\ Seen(r, e).halt = r.halt
           /\ Seen(r, e).start = r.start /\ Seen(r, e).dayPnl = r.dayPnl
<1> DEFINE p == IF r.peak = None \/ e > r.peak THEN e ELSE r.peak
           a == [r EXCEPT !.equity = e]
           b == [a EXCEPT !.peak = p]
<1>1. p \in Nat /\ e <= p BY DEF Started
<1> HIDE DEF p
<1>2. a \in RiskState BY FieldFacts DEF Started
<1>3. /\ a.equity = e /\ a.start = r.start /\ a.day = r.day /\ a.dayTrades = r.dayTrades
      /\ a.halt = r.halt /\ a.dayPnl = r.dayPnl
    BY DEF Started, RiskState
<1> HIDE DEF a
<1>4. b \in RiskState BY <1>1, <1>2, FieldFacts
<1>5. /\ b.peak = p /\ b.equity = a.equity /\ b.start = a.start /\ b.day = a.day
      /\ b.dayTrades = a.dayTrades /\ b.halt = a.halt /\ b.dayPnl = a.dayPnl
    BY <1>2 DEF RiskState
<1> HIDE DEF b
<1>6. Seen(r, e) = b BY DEF Seen, Started, RiskState, a, b, p
<1> QED BY <1>1, <1>3, <1>4, <1>5, <1>6 DEF Started

\* A halt changes nothing else: the limits are reached as before
\* (_maybe_halt_for_drawdown, _maybe_halt_for_daily_loss).
LEMMA HaltFacts ==
    ASSUME NEW r, Started(r), NEW reason \in Reasons
    PROVE  LET h == [r EXCEPT !.halt = reason]
           IN  /\ Started(h) /\ h.halt = reason
               /\ h.day = r.day /\ h.dayTrades = r.dayTrades
               /\ h.equity = r.equity /\ h.peak = r.peak
               /\ h.start = r.start /\ h.dayPnl = r.dayPnl
               /\ InDrawdown(h) <=> InDrawdown(r)
               /\ AtDailyLoss(h) <=> AtDailyLoss(r)
<1>1. [r EXCEPT !.halt = reason] \in RiskState BY DEF Started, RiskState
<1> QED BY <1>1 DEF Started, RiskState, InDrawdown, AtDailyLoss, StartEquity

\* A manager on which both checks ran.
CheckedFacts(r, u) ==
    /\ Started(u) /\ u.equity = r.equity /\ u.peak = r.peak
    /\ u.day = r.day /\ u.dayTrades = r.dayTrades
    /\ u.start = r.start /\ u.dayPnl = r.dayPnl
    /\ Breached(u) => Halted(u)
    /\ Halted(r) => Halted(u)

\* The two checks in update's order.
LEMMA DrawdownThenLoss ==
    ASSUME NEW r, Started(r)
    PROVE  CheckedFacts(r, MaybeHaltForDailyLoss(MaybeHaltForDrawdown(r)))
<1> DEFINE d == MaybeHaltForDrawdown(r)
           u == MaybeHaltForDailyLoss(d)
<1>1. /\ Started(d) /\ d.equity = r.equity /\ d.peak = r.peak
      /\ d.day = r.day /\ d.dayTrades = r.dayTrades
      /\ d.start = r.start /\ d.dayPnl = r.dayPnl
      /\ InDrawdown(d) <=> InDrawdown(r)
      /\ InDrawdown(r) => Halted(d)
      /\ Halted(r) => Halted(d)
    BY HaltFacts DEF MaybeHaltForDrawdown, Halted, Reasons
<1> HIDE DEF d
<1>2. /\ Started(u) /\ u.equity = d.equity /\ u.peak = d.peak
      /\ u.day = d.day /\ u.dayTrades = d.dayTrades
      /\ u.start = d.start /\ u.dayPnl = d.dayPnl
      /\ InDrawdown(u) <=> InDrawdown(d)
      /\ AtDailyLoss(u) <=> AtDailyLoss(d)
      /\ AtDailyLoss(d) => Halted(u)
      /\ Halted(d) => Halted(u)
    BY <1>1, HaltFacts DEF MaybeHaltForDailyLoss, Halted, Reasons
<1> HIDE DEF u
<1>3. CheckedFacts(r, u) BY <1>1, <1>2 DEF CheckedFacts, Breached
<1> QED BY <1>3 DEF u, d

\* The two checks in record_trade's order.
LEMMA LossThenDrawdown ==
    ASSUME NEW r, Started(r)
    PROVE  CheckedFacts(r, MaybeHaltForDrawdown(MaybeHaltForDailyLoss(r)))
<1> DEFINE d == MaybeHaltForDailyLoss(r)
           u == MaybeHaltForDrawdown(d)
<1>1. /\ Started(d) /\ d.equity = r.equity /\ d.peak = r.peak
      /\ d.day = r.day /\ d.dayTrades = r.dayTrades
      /\ d.start = r.start /\ d.dayPnl = r.dayPnl
      /\ AtDailyLoss(d) <=> AtDailyLoss(r)
      /\ AtDailyLoss(r) => Halted(d)
      /\ Halted(r) => Halted(d)
    BY HaltFacts DEF MaybeHaltForDailyLoss, Halted, Reasons
<1> HIDE DEF d
<1>2. /\ Started(u) /\ u.equity = d.equity /\ u.peak = d.peak
      /\ u.day = d.day /\ u.dayTrades = d.dayTrades
      /\ u.start = d.start /\ u.dayPnl = d.dayPnl
      /\ InDrawdown(u) <=> InDrawdown(d)
      /\ AtDailyLoss(u) <=> AtDailyLoss(d)
      /\ InDrawdown(d) => Halted(u)
      /\ Halted(d) => Halted(u)
    BY <1>1, HaltFacts DEF MaybeHaltForDrawdown, Halted, Reasons
<1> HIDE DEF u
<1>3. CheckedFacts(r, u) BY <1>1, <1>2 DEF CheckedFacts, Breached
<1> QED BY <1>3 DEF u, d

\* update: the day is the bar's, what was counted that day stays, a halt of
\* that day stays, and a reached limit halts.
LEMMA UpdateFacts ==
    ASSUME NEW r, Started(r), NEW e \in Nat, NEW t \in Nat
    PROVE  LET u == Update(r, e, t)
           IN  /\ Started(u) /\ u.equity <= u.peak /\ u.day = DayKey(t)
               /\ u.dayTrades = IF r.day = DayKey(t) THEN r.dayTrades ELSE 0
               /\ u.start = r.start
               /\ u.dayPnl = IF r.day = DayKey(t) THEN r.dayPnl ELSE 0
               /\ Breached(u) => Halted(u)
               /\ (r.day = DayKey(t) /\ Halted(r)) => Halted(u)
<1> DEFINE d == ResetDay(r, t)
           s == Seen(d, e)
           u == MaybeHaltForDailyLoss(MaybeHaltForDrawdown(s))
<1>1. /\ Started(d) /\ d.day = DayKey(t)
      /\ d.dayTrades = IF r.day = DayKey(t) THEN r.dayTrades ELSE 0
      /\ d.start = r.start
      /\ d.dayPnl = IF r.day = DayKey(t) THEN r.dayPnl ELSE 0
      /\ (r.day = DayKey(t) /\ Halted(r)) => Halted(d)
    BY ResetDayFacts
<1> HIDE DEF d
<1>2. /\ Started(s) /\ s.equity <= s.peak /\ s.day = d.day /\ s.dayTrades = d.dayTrades
      /\ s.halt = d.halt /\ s.start = d.start /\ s.dayPnl = d.dayPnl
    BY <1>1, SeenFacts
<1> HIDE DEF s
<1>3. CheckedFacts(s, u) BY <1>2, DrawdownThenLoss
<1> HIDE DEF u
<1>4. /\ Started(u) /\ u.equity <= u.peak /\ u.day = DayKey(t)
      /\ u.dayTrades = IF r.day = DayKey(t) THEN r.dayTrades ELSE 0
      /\ u.start = r.start
      /\ u.dayPnl = IF r.day = DayKey(t) THEN r.dayPnl ELSE 0
      /\ Breached(u) => Halted(u)
      /\ (r.day = DayKey(t) /\ Halted(r)) => Halted(u)
    BY <1>1, <1>2, <1>3 DEF CheckedFacts, Halted
<1>5. Update(r, e, t) = u BY DEF Update, u, s, d, Started
<1> QED BY <1>4, <1>5

\* record_trade: the same of an exit, which counts one trade more.
LEMMA RecordTradeFacts ==
    ASSUME NEW r, Started(r), NEW pnl \in Int, NEW e \in Nat, NEW t \in Nat
    PROVE  LET u == RecordTrade(r, pnl, e, t)
           IN  /\ Started(u) /\ u.equity <= u.peak /\ u.day = DayKey(t)
               /\ u.dayTrades = 1 + IF r.day = DayKey(t) THEN r.dayTrades ELSE 0
               /\ u.start = r.start
               /\ u.dayPnl = pnl + IF r.day = DayKey(t) THEN r.dayPnl ELSE 0
               /\ Breached(u) => Halted(u)
               /\ (r.day = DayKey(t) /\ Halted(r)) => Halted(u)
<1> DEFINE d == ResetDay(r, t)
           b == [d EXCEPT !.dayPnl = @ + pnl, !.dayTrades = @ + 1,
                          !.lastLossAt = IF pnl < 0 THEN t ELSE @]
           s == Seen(b, e)
           u == MaybeHaltForDrawdown(MaybeHaltForDailyLoss(s))
<1>1. /\ Started(d) /\ d.day = DayKey(t)
      /\ d.dayTrades = IF r.day = DayKey(t) THEN r.dayTrades ELSE 0
      /\ d.start = r.start
      /\ d.dayPnl = IF r.day = DayKey(t) THEN r.dayPnl ELSE 0
      /\ (r.day = DayKey(t) /\ Halted(r)) => Halted(d)
    BY ResetDayFacts
<1> HIDE DEF d
<1>2. /\ Started(b) /\ b.day = d.day /\ b.dayTrades = 1 + d.dayTrades /\ b.halt = d.halt
      /\ b.start = d.start /\ b.dayPnl = pnl + d.dayPnl
    <2> DEFINE loss == IF pnl < 0 THEN t ELSE d.lastLossAt
               f == [d EXCEPT !.dayPnl = @ + pnl]
               g == [f EXCEPT !.dayTrades = @ + 1]
               h == [g EXCEPT !.lastLossAt = loss]
    <2>1. /\ d \in RiskState /\ d.dayPnl + pnl \in Int /\ d.dayTrades + 1 \in Nat
          /\ loss \in Nat \cup {None} /\ d.dayTrades \in Nat
        BY <1>1 DEF Started, RiskState
    <2>2. b = h BY <2>1 DEF RiskState
    <2> HIDE DEF b, loss
    <2>3. f \in RiskState BY <2>1, FieldFacts
    <2>4. /\ f.day = d.day /\ f.dayTrades = d.dayTrades /\ f.halt = d.halt
          /\ f.start = d.start /\ f.equity = d.equity /\ f.peak = d.peak
          /\ f.dayPnl = pnl + d.dayPnl
        BY <2>1 DEF RiskState
    <2> HIDE DEF f
    <2>5. g \in RiskState BY <2>1, <2>3, <2>4, FieldFacts
    <2>6. /\ g.day = f.day /\ g.dayTrades = f.dayTrades + 1 /\ g.halt = f.halt
          /\ g.start = f.start /\ g.equity = f.equity /\ g.peak = f.peak
          /\ g.dayPnl = f.dayPnl
        BY <2>3 DEF RiskState
    <2> HIDE DEF g
    <2>7. h \in RiskState BY <2>1, <2>5, FieldFacts
    <2>8. /\ h.day = g.day /\ h.dayTrades = g.dayTrades /\ h.halt = g.halt
          /\ h.start = g.start /\ h.equity = g.equity /\ h.peak = g.peak
          /\ h.dayPnl = g.dayPnl
        BY <2>5 DEF RiskState
    <2> HIDE DEF h
    <2> QED BY <1>1, <2>1, <2>2, <2>4, <2>6, <2>7, <2>8 DEF Started
<1> HIDE DEF b
<1>3. /\ Started(s) /\ s.equity <= s.peak /\ s.day = b.day /\ s.dayTrades = b.dayTrades
      /\ s.halt = b.halt /\ s.start = b.start /\ s.dayPnl = b.dayPnl
    BY <1>2, SeenFacts
<1> HIDE DEF s
<1>4. CheckedFacts(s, u) BY <1>3, LossThenDrawdown
<1> HIDE DEF u
<1>5. /\ Started(u) /\ u.equity <= u.peak /\ u.day = DayKey(t)
      /\ u.dayTrades = 1 + IF r.day = DayKey(t) THEN r.dayTrades ELSE 0
      /\ u.start = r.start
      /\ u.dayPnl = pnl + IF r.day = DayKey(t) THEN r.dayPnl ELSE 0
      /\ Breached(u) => Halted(u)
      /\ (r.day = DayKey(t) /\ Halted(r)) => Halted(u)
    BY <1>1, <1>2, <1>3, <1>4 DEF CheckedFacts, Halted
<1>6. RecordTrade(r, pnl, e, t) = u BY DEF RecordTrade, u, s, b, d
<1> QED BY <1>5, <1>6

-----------------------------------------------------------------------------
(* Types, and a reached limit halts.                                        *)

RiskInv ==
    /\ RiskTypeOK
    /\ Started(risk)
    /\ lastBar # None => lastBar <= now
    /\ Tripped

LEMMA RiskInvInit == RiskInit => RiskInv
<1> SUFFICES ASSUME RiskInit PROVE RiskInv OBVIOUS
<1> USE DEF RiskInit
<1>1. Deposit \in Nat /\ RiskTime \in Nat /\ MaxRestarts \in Nat BY EngineUseAssumption
<1>2. DayKey(0) \in Nat BY DayMonotone
<1>3. Started(risk) /\ risk.equity = Deposit /\ risk.peak = Deposit BY <1>1, InitializeFacts
<1>5. risk \in RiskState BY <1>3 DEF Started
<1>6. risk.equity \in 0 .. risk.peak BY <1>1, <1>3
<1>7. /\ now \in 0 .. RiskTime /\ equity \in Nat /\ totals \in [pnl : Int, trades : Nat]
      /\ open \in BOOLEAN /\ lastBar \in Nat \cup {None} /\ restarts \in 0 .. MaxRestarts
      /\ excused \in BOOLEAN
    <2>1. now \in 0 .. RiskTime /\ equity \in Nat /\ restarts \in 0 .. MaxRestarts BY <1>1
    <2>2. totals \in [pnl : Int, trades : Nat] OBVIOUS
    <2>3. lastBar \in Nat \cup {None} OBVIOUS
    <2>4. open \in BOOLEAN /\ excused \in BOOLEAN OBVIOUS
    <2> QED BY <2>1, <2>2, <2>3, <2>4
<1> HIDE DEF RiskInit
<1>8. RiskTypeOK BY <1>5, <1>6, <1>7 DEF RiskTypeOK
<1>9. excused = TRUE /\ lastBar = None BY DEF RiskInit
<1> QED BY <1>3, <1>8, <1>9 DEF RiskInv, Tripped

LEMMA RiskInvNext ==
    ASSUME RiskInv, [RiskNext]_riskVars
    PROVE  RiskInv'
<1> USE DEF RiskInv
<1>1. /\ now \in Nat /\ now <= RiskTime /\ RiskTime \in Nat /\ Pnls \subseteq Int
      /\ equity \in Nat /\ MaxRestarts \in Nat
    BY EngineUseAssumption DEF RiskTypeOK
<1>2. ASSUME NEW t \in 0 .. RiskTime, Bar(t) PROVE RiskInv'
    <2>1. PICK u \in Pnls \cup {0} : equity + u >= 0 /\ Checked(Update(risk, equity + u, t))
        BY <1>2 DEF Bar
    <2>2. equity + u \in Nat /\ t \in Nat BY <1>1, <2>1
    <2> DEFINE r == Update(risk, equity + u, t)
    <2>3. /\ Started(r) /\ r.equity <= r.peak /\ r.day \in Nat
          /\ Breached(r) => Halted(r)
        BY <2>2, UpdateFacts DEF Started
    <2> HIDE DEF r
    <2>4. risk' = r /\ excused' = FALSE
        BY <2>1 DEF Checked, r
    <2>7. risk' \in RiskState /\ risk'.equity \in 0 .. risk'.peak
        <3>1. r \in RiskState /\ r.equity \in Nat /\ r.peak \in Nat BY <2>3 DEF Started
        <3>2. r.equity \in 0 .. r.peak BY <2>3, <3>1
        <3> QED BY <2>4, <3>1, <3>2
    <2>5. RiskTypeOK' BY <1>2, <2>2, <2>4, <2>7 DEF Bar, RiskTypeOK
    <2>6. Tripped' BY <2>3, <2>4 DEF Tripped
    <2> QED BY <1>2, <2>2, <2>3, <2>4, <2>5, <2>6 DEF Bar
<1>3. ASSUME NEW pnl \in Pnls, Exit(pnl) PROVE RiskInv'
    <2>1. equity + pnl \in Nat /\ pnl \in Int BY <1>1, <1>3 DEF Exit
    <2> DEFINE e == equity + pnl
               r == RecordTrade(risk, pnl, e, now)
    <2> HIDE DEF e
    <2>9. e \in Nat BY <2>1 DEF e
    <2>2. /\ Started(r) /\ r.equity <= r.peak /\ r.day \in Nat
          /\ Breached(r) => Halted(r)
        <3>1. Started(risk) OBVIOUS
        <3>2. /\ Started(r) /\ r.equity <= r.peak
              /\ Breached(r) => Halted(r)
            BY <1>1, <2>1, <2>9, <3>1, RecordTradeFacts
        <3> QED BY <3>2 DEF Started
    <2> HIDE DEF r
    <2>3. risk' = r /\ excused' = FALSE
        BY <1>3 DEF Exit, Checked, r, e
    <2>6. totals' \in [pnl : Int, trades : Nat] BY <1>3, <2>1 DEF Exit, RiskTypeOK
    <2>10. risk' \in RiskState /\ risk'.equity \in 0 .. risk'.peak
        <3>1. r \in RiskState /\ r.equity \in Nat /\ r.peak \in Nat BY <2>2 DEF Started
        <3>2. r.equity \in 0 .. r.peak BY <2>2, <3>1
        <3> QED BY <2>3, <3>1, <3>2
    <2>7. RiskTypeOK' BY <1>3, <2>1, <2>3, <2>6, <2>10 DEF Exit, RiskTypeOK
    <2>8. Tripped' BY <2>2, <2>3 DEF Tripped
    <2> QED BY <1>3, <2>2, <2>3, <2>7, <2>8 DEF Exit
<1>4. CASE Enter
    <2>4. totals' \in [pnl : Int, trades : Nat] BY <1>4 DEF Enter, RiskTypeOK
    <2>5. RiskTypeOK' BY <1>4, <2>4 DEF Enter, RiskTypeOK
    <2> QED BY <1>4, <2>5 DEF Enter, Tripped
<1>5. CASE Restart
    <2> DEFINE at == IF lastBar = None THEN now ELSE lastBar
    <2>1. at \in Nat /\ totals.pnl \in Int /\ totals.trades \in Nat BY <1>1 DEF RiskTypeOK
    <2> DEFINE i == Initialize(risk, equity, at)
    <2> HIDE DEF at
    <2>4. Started(i) /\ i.equity = equity /\ i.peak = equity BY <1>1, <2>1, InitializeFacts
    <2>5. risk' = [i EXCEPT !.dayPnl = totals.pnl, !.dayTrades = totals.trades]
        BY <1>5 DEF Restart, at
    <2> HIDE DEF i
    <2>6. Started(risk') /\ risk'.equity = i.equity /\ risk'.peak = i.peak
        BY <2>1, <2>4, <2>5, LoadFacts
    <2>2. Started(risk') /\ risk'.equity <= risk'.peak BY <1>1, <2>4, <2>6
    <2>3. RiskTypeOK' BY <1>1, <1>5, <2>2 DEF Restart, RiskTypeOK, Started
    <2> QED BY <1>5, <2>2, <2>3 DEF Restart, Tripped
<1>6. CASE Overridden
    <2>1. /\ \/ risk' = [risk EXCEPT !.halt = "manual"]
             \/ risk' = [risk EXCEPT !.halt = "none"] /\ excused' = TRUE
          /\ excused' \in BOOLEAN
        BY <1>6 DEF Overridden, Halt, ClearHalt, RiskTypeOK
    <2>2. /\ Started(risk') /\ risk'.equity = risk.equity /\ risk'.peak = risk.peak
          /\ excused' = TRUE \/ risk'.halt = "manual"
        <3>1. CASE risk' = [risk EXCEPT !.halt = "manual"] BY <3>1, HaltFacts DEF Reasons
        <3>2. CASE risk' = [risk EXCEPT !.halt = "none"] /\ excused' = TRUE
            BY <3>2, HaltFacts DEF Reasons
        <3> QED BY <2>1, <3>1, <3>2
    <2>3. RiskTypeOK' BY <1>6, <2>1, <2>2 DEF Overridden, RiskTypeOK, Started
    <2>4. Tripped' BY <2>2 DEF Tripped, Halted
    <2> QED BY <1>6, <2>2, <2>3, <2>4 DEF Overridden
<1>7. CASE Tick
    <2>1. RiskTypeOK' BY <1>1, <1>7 DEF Tick, RiskTypeOK
    <2> QED BY <1>1, <1>7, <2>1 DEF Tick, Tripped, RiskTypeOK
<1>8. CASE UNCHANGED riskVars
    BY <1>8 DEF riskVars, RiskTypeOK, Tripped
<1> QED BY <1>2, <1>3, <1>4, <1>5, <1>6, <1>7, <1>8 DEF RiskNext

\* An engine's manager has its types in every reachable state, and no equity
\* it has seen is above the peak drawdowns are measured from.
THEOREM RiskTypes == RiskSpec => []RiskTypeOK
<1>1. RiskInv => RiskTypeOK BY DEF RiskInv
<1> QED BY <1>1, RiskInvInit, RiskInvNext, PTL DEF RiskSpec

\* Whatever the limits are, a manager that has looked at them since its last
\* reset or clear is halted when one is reached.
THEOREM LimitsTrip == RiskSpec => []Tripped
<1>1. RiskInv => Tripped BY DEF RiskInv
<1> QED BY <1>1, RiskInvInit, RiskInvNext, PTL DEF RiskSpec

-----------------------------------------------------------------------------
(* A session's use of its manager (SessionRisk).                            *)

PctLoss(r) == MaxDailyLossPct > 0 /\ 100 * r.dayPnl <= -(r.start * MaxDailyLossPct)

\* What the manager has summed up is the change since the day began, as far as
\* syncs saw it; the session knows the account when nothing moved since; and a
\* loss at the limit has halted.
GateInv ==
    /\ clock \in Nat /\ account \in Nat /\ known \in Nat /\ dayStart \in Nat
    /\ Started(gate) /\ gate.start = Balance
    /\ ~ unread => known = account
    /\ ~ swallowed => gate.dayPnl = known - dayStart
    /\ PctLoss(gate) => Halted(gate)

LEMMA GateInvInit == GateInit => GateInv
<1> SUFFICES ASSUME GateInit PROVE GateInv OBVIOUS
<1>1. Balance \in Nat /\ Balance > 0 /\ MaxDailyLossPct \in Nat
    BY RiskAssumption, SessionUseAssumption
<1>2. gate = Initialize(NewRisk, Balance, 0) BY DEF GateInit
<1>3. Started(gate) /\ gate.start = Balance /\ gate.dayPnl = 0 /\ 0 \in Nat
    BY <1>1, <1>2, InitializeFacts
<1>4. \A m, n \in Nat : m > 0 /\ n > 0 => m * n > 0 OBVIOUS
<1>5. ~ PctLoss(gate)
    <2> SUFFICES ASSUME MaxDailyLossPct > 0 PROVE ~ (0 <= -(Balance * MaxDailyLossPct))
        BY <1>3 DEF PctLoss
    <2>1. Balance * MaxDailyLossPct \in Nat /\ Balance * MaxDailyLossPct > 0 BY <1>1, <1>4
    <2> QED BY <2>1
<1> QED BY <1>1, <1>3, <1>5 DEF GateInit, GateInv

LEMMA SyncStep ==
    ASSUME GateInv, Sync
    PROVE  GateInv'
<1>1. /\ known' = account /\ unread' = FALSE /\ UNCHANGED <<clock, account, swallowed>>
      /\ dayStart' = IF DayKey(clock) # gate.day THEN known ELSE dayStart
    BY DEF Sync
<1>2. /\ clock \in Nat /\ account \in Nat /\ known \in Nat /\ dayStart \in Nat
      /\ Started(gate) /\ gate.start = Balance /\ account - known \in Int
      /\ ~ swallowed => gate.dayPnl = known - dayStart
    BY DEF GateInv
<1>3. /\ Started(gate') /\ gate'.start = Balance
      /\ Breached(gate') => Halted(gate')
      /\ gate'.dayPnl = (account - known) + IF gate.day = DayKey(clock) THEN gate.dayPnl ELSE 0
    <2>1. CASE account # known
        <3>1. gate' = RecordTrade(gate, account - known, account, clock) BY <2>1 DEF Sync
        <3>2. PICK pnl \in Int : pnl = account - known BY <1>2
        <3>3. gate' = RecordTrade(gate, pnl, account, clock) BY <3>1, <3>2
        <3>4. /\ Started(gate') /\ gate'.start = gate.start
              /\ Breached(gate') => Halted(gate')
              /\ gate'.dayPnl = pnl + IF gate.day = DayKey(clock) THEN gate.dayPnl ELSE 0
            <4>1. Started(gate) /\ account \in Nat /\ clock \in Nat BY <1>2
            <4>2. LET u == RecordTrade(gate, pnl, account, clock)
                  IN  /\ Started(u) /\ u.start = gate.start
                      /\ Breached(u) => Halted(u)
                      /\ u.dayPnl = pnl + IF gate.day = DayKey(clock) THEN gate.dayPnl ELSE 0
                BY <4>1, RecordTradeFacts
            <4> QED BY <3>3, <4>2
        <3> QED BY <1>2, <3>2, <3>4
    <2>2. CASE account = known
        <3>1. gate' = Update(gate, account, clock) BY <2>2 DEF Sync
        <3>2. gate.dayPnl \in Int BY <1>2 DEF Started, RiskState
        <3>3. /\ Started(gate') /\ gate'.start = Balance
              /\ Breached(gate') => Halted(gate')
              /\ gate'.dayPnl = IF gate.day = DayKey(clock) THEN gate.dayPnl ELSE 0
            BY <1>2, <3>1, UpdateFacts
        <3> QED BY <1>2, <2>2, <3>2, <3>3
    <2> QED BY <2>1, <2>2
<1>4. PctLoss(gate') => Halted(gate')
    <2>1. StartEquity(gate') = gate'.start BY <1>3 DEF StartEquity, Started
    <2>2. PctLoss(gate') => AtDailyLoss(gate') BY <2>1 DEF PctLoss, AtDailyLoss
    <2> QED BY <1>3, <2>2 DEF Breached
<1>5. ~ swallowed => gate'.dayPnl = account - dayStart'
    BY <1>1, <1>2, <1>3
<1>6. clock' \in Nat /\ account' \in Nat /\ known' \in Nat /\ dayStart' \in Nat
    BY <1>1, <1>2
<1> QED BY <1>1, <1>3, <1>4, <1>5, <1>6 DEF GateInv

LEMMA GateInvNext ==
    ASSUME GateInv, [GateNext]_gateVars
    PROVE  GateInv'
<1> USE SessionUseAssumption
<1>1. ASSUME Reads, UNCHANGED <<clock, account, gate, dayStart, unread>> PROVE GateInv'
    <2>1. known' = account /\ (~ swallowed' => ~ swallowed /\ known = account)
        BY <1>1 DEF Reads
    <2>2. ~ swallowed' => gate.dayPnl = known' - dayStart BY <2>1 DEF GateInv
    <2> QED BY <1>1, <2>1, <2>2 DEF GateInv
<1>2. ASSUME NEW d \in EquityMoves, AccountMoves(d) PROVE GateInv'
    BY <1>2 DEF AccountMoves, GateInv
<1>3. CASE Sync BY <1>3, SyncStep
<1>4. CASE RefreshEquity BY <1>1, <1>4 DEF RefreshEquity
<1>5. CASE ClockTicks BY <1>5 DEF ClockTicks, GateInv
<1>6. ASSUME NEW v \in 1 .. Balance, GatedOrder(v) PROVE GateInv'
    BY <1>1, <1>6 DEF GatedOrder
<1>7. CASE UNCHANGED gateVars BY <1>7 DEF gateVars, GateInv
<1> QED BY <1>2, <1>3, <1>4, <1>5, <1>6, <1>7 DEF GateNext

\* For any limit and any moves of the account, across midnights, a sync at the
\* daily loss limit halts the session (_sync_equity_and_risk).
THEOREM SessionLossHalts == GateSpec => []LossHalts
<1>1. GateInv => LossHalts
    <2> SUFFICES ASSUME GateInv, ~ unread, ~ swallowed, MaxDailyLossPct > 0,
                        100 * (dayStart - account) >= Balance * MaxDailyLossPct
                 PROVE  Halted(gate)
        BY DEF LossHalts
    <2>1. /\ account \in Nat /\ dayStart \in Nat /\ gate.dayPnl = account - dayStart
          /\ gate.start = Balance
        BY DEF GateInv
    <2>2. Balance * MaxDailyLossPct \in Int BY RiskAssumption, SessionUseAssumption
    <2>3. PctLoss(gate) BY <2>1, <2>2 DEF PctLoss
    <2> QED BY <2>3 DEF GateInv
<1> QED BY <1>1, GateInvInit, GateInvNext, PTL DEF GateSpec

=============================================================================
