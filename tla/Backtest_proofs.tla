-------------------------- MODULE Backtest_proofs --------------------------
(***************************************************************************)
(* Theorems about the backtest engines: PortfolioRun, BarRunner, TickReplay. *)
(***************************************************************************)
EXTENDS BarRunner, PortfolioRun, TickReplay, WellFoundedInduction, TLAPS

-----------------------------------------------------------------------------
(* A portfolio that its loss limit halted holds nothing.                   *)

\* The fields of a runner, which every rule keeps.
Fields == DOMAIN Rules!NewRunner(0)

\* s is r after a rule: a runner of the same last bar.
Marks(r, s) == DOMAIN r = Fields => DOMAIN s = Fields /\ s.mark = r.mark

LEMMA FieldFacts ==
    /\ {"idx", "open", "pending", "mark", "cooldown", "day", "atr"} \subseteq Fields
    /\ \A e : DOMAIN Rules!NewRunner(e) = Fields /\ Rules!NewRunner(e).mark = 0
              /\ Rules!NewRunner(e).open = Rules!NoPosition /\ Rules!NewRunner(e).pending = Rules!NoPending
BY DEF Fields, Rules!NewRunner

LEMMA CloseLegMarks == ASSUME NEW o, NEW r, NEW q, NEW p, NEW f PROVE Marks(r, Rules!CloseLeg(o, r, q, p, f))
BY FieldFacts DEF Marks, Rules!CloseLeg

LEMMA ForceExitMarks == ASSUME NEW o, NEW r, NEW p PROVE Marks(r, Rules!ForceExit(o, r, p))
BY FieldFacts, CloseLegMarks DEF Marks, Rules!ForceExit

LEMMA OpenFromPendingMarks ==
    ASSUME NEW o, NEW r, NEW price, NEW kind, NEW e, NEW room
    PROVE  Marks(r, Rules!OpenFromPending(o, r, price, kind, e, room))
<1> SUFFICES ASSUME DOMAIN r = Fields
             PROVE  LET s == Rules!OpenFromPending(o, r, price, kind, e, room)
                    IN  DOMAIN s = Fields /\ s.mark = r.mark
    BY DEF Marks
<1> QED BY FieldFacts DEF Rules!OpenFromPending, Rules!CancelPending

LEMMA VolatilityCutMarks == ASSUME NEW o, NEW r, NEW b PROVE Marks(r, Rules!VolatilityCut(o, r, b))
BY FieldFacts, CloseLegMarks DEF Marks, Rules!VolatilityCut

LEMMA AddMarks == ASSUME NEW o, NEW r, NEW b, NEW room PROVE Marks(r, Rules!Add(o, r, b, room))
BY FieldFacts DEF Marks, Rules!Add

LEMMA ScaleOutMarks == ASSUME NEW o, NEW r, NEW b PROVE Marks(r, Rules!ScaleOut(o, r, b))
BY FieldFacts, CloseLegMarks DEF Marks, Rules!ScaleOut

LEMMA OcoExitMarks == ASSUME NEW o, NEW r, NEW b PROVE Marks(r, Rules!OcoExit(o, r, b))
BY FieldFacts, CloseLegMarks DEF Marks, Rules!OcoExit

LEMMA ManageOpenMarks ==
    ASSUME NEW o, NEW r, NEW b, NEW room
    PROVE  Marks(r, Rules!ManageOpen(o, r, b, room))
<1> DEFINE trailed == [r EXCEPT !.open = Rules!Trailed(o, @, b)]
           cut == Rules!VolatilityCut(o, trailed, b)
           added == Rules!Add(o, cut, b, room)
           scaled == Rules!ScaleUnlessAdded(o, cut, added, b)
<1>1. Marks(r, trailed) BY FieldFacts DEF Marks
<1>2. Marks(trailed, cut) BY VolatilityCutMarks
<1>3. Marks(cut, added) BY AddMarks
<1>4. Marks(cut, scaled) BY <1>3, ScaleOutMarks DEF Rules!ScaleUnlessAdded
<1>5. Marks(scaled, Rules!OcoExit(o, scaled, b)) BY OcoExitMarks
<1>6. Rules!ManageOpen(o, r, b, room) = Rules!OcoExit(o, scaled, b) BY DEF Rules!ManageOpen, Rules!AfterCut
<1> HIDE DEF trailed, cut, added, scaled
<1> QED BY <1>1, <1>2, <1>4, <1>5, <1>6 DEF Marks

LEMMA ExitsMarks == ASSUME NEW o, NEW r, NEW b, NEW room PROVE Marks(r, Rules!Exits(o, r, b, room))
BY ForceExitMarks, ManageOpenMarks DEF Marks, Rules!Exits

LEMMA StartBarMarks ==
    ASSUME NEW o, NEW r, NEW b, DOMAIN r = Fields
    PROVE  LET s == Rules!StartBar(o, r, b)
           IN  DOMAIN s = Fields /\ s.mark = b.close /\ s.open = r.open /\ s.pending = r.pending
BY FieldFacts DEF Rules!StartBar

LEMMA ChaseMarks ==
    ASSUME NEW o, NEW r, NEW b, NEW e, NEW room
    PROVE  Marks(r, Rules!Chase(o, r, b, e, room))
<1> SUFFICES ASSUME DOMAIN r = Fields
             PROVE  LET s == Rules!Chase(o, r, b, e, room) IN DOMAIN s = Fields /\ s.mark = r.mark
    BY DEF Marks
<1>1. \A q : LET s == [r EXCEPT !.pending = q] IN DOMAIN s = Fields /\ s.mark = r.mark BY FieldFacts
<1>2. \A q : Marks([r EXCEPT !.pending = q],
                   Rules!OpenFromPending(o, [r EXCEPT !.pending = q], b.close, "market", e, room))
    BY OpenFromPendingMarks
<1> QED BY <1>1, <1>2 DEF Rules!Chase, Rules!CancelPending, Marks

LEMMA ManagePendingMarks ==
    ASSUME NEW o, NEW r, NEW b, NEW e, NEW can, NEW room
    PROVE  Marks(r, Rules!ManagePending(o, r, b, e, can, room))
<1>1. Marks(r, Rules!CancelPending(r)) BY FieldFacts DEF Marks, Rules!CancelPending
<1>2. Marks(r, r) BY DEF Marks
<1> QED BY <1>1, <1>2, ChaseMarks, OpenFromPendingMarks DEF Rules!ManagePending

LEMMA AtSignalMarks ==
    ASSUME NEW o, NEW r, NEW b, NEW raw, NEW shared, NEW can, NEW room
    PROVE  Marks(r, Rules!AtSignal(o, r, b, raw, shared, can, room))
<1>1. Marks(r, Rules!NoEntry(o, r, can)) BY FieldFacts DEF Marks, Rules!NoEntry, Rules!CancelPending
<1>2. \A e : Marks(r, Rules!ApplyRawSignal(o, r, raw, b, e, room))
    <2> TAKE e
    <2>1. \A q : Marks(r, [r EXCEPT !.pending = q]) BY FieldFacts DEF Marks
    <2>2. \A q, price : Marks([r EXCEPT !.pending = q],
              Rules!OpenFromPending(o, [r EXCEPT !.pending = q], price, "limit", e, room))
        BY OpenFromPendingMarks
    <2>3. \A q, price : Marks(r, Rules!OpenFromPending(o, [r EXCEPT !.pending = q], price, "limit", e, room))
        BY <2>1, <2>2 DEF Marks
    <2>4. Marks(r, r) BY DEF Marks
    <2> QED BY <2>1, <2>3, <2>4 DEF Rules!ApplyRawSignal
<1> QED BY <1>1, <1>2 DEF Rules!AtSignal

\* A step leaves a runner whose last bar is the one it was given.
LEMMA StepMarks ==
    ASSUME NEW o, NEW r, NEW b, NEW raw, NEW shared, NEW can, NEW room, DOMAIN r = Fields
    PROVE  LET s == Rules!Step(o, r, b, raw, shared, can, room) IN DOMAIN s = Fields /\ s.mark = b.close
<1> DEFINE started == Rules!StartBar(o, r, b)
           exited == Rules!Exits(o, started, b, room)
           managed == Rules!ManagePending(o, exited, b, Rules!SizingEquity(exited, shared), can, room)
           signalled == Rules!AtSignal(o, managed, b, raw, shared, can, room)
<1>1. DOMAIN started = Fields /\ started.mark = b.close BY StartBarMarks
<1>2. Marks(started, exited) BY ExitsMarks
<1>3. Marks(exited, managed) BY ManagePendingMarks
<1>4. Marks(managed, signalled) BY AtSignalMarks
<1>5. Rules!Step(o, r, b, raw, shared, can, room) = [signalled EXCEPT !.idx = @ + 1]
    BY DEF Rules!Step, Rules!PreSignal, Rules!AfterExits
<1> HIDE DEF started, exited, managed, signalled
<1>6. DOMAIN signalled = Fields /\ signalled.mark = b.close BY <1>1, <1>2, <1>3, <1>4 DEF Marks
<1> QED BY <1>5, <1>6, FieldFacts

Flat(r) == ~Rules!IsOpen(r) /\ ~Rules!IsPending(r)

\* With trading barred a runner that has nothing gets nothing.
LEMMA FlatStays ==
    ASSUME NEW o, NEW r, NEW b, NEW raw, NEW shared, NEW room, DOMAIN r = Fields, Flat(r)
    PROVE  Flat(Rules!Step(o, r, b, raw, shared, FALSE, room))
<1> DEFINE started == Rules!StartBar(o, r, b)
<1>1. DOMAIN started = Fields /\ Flat(started) BY StartBarMarks DEF Flat, Rules!IsOpen, Rules!IsPending
<1>2. ~Rules!IsOpen(started) /\ ~Rules!IsPending(started) BY <1>1 DEF Flat
<1>3. Rules!PreSignal(o, r, b, shared, FALSE, room) = started
    BY <1>2 DEF Rules!PreSignal, Rules!AfterExits, Rules!Exits, Rules!ManagePending
<1>4. Rules!AtSignal(o, started, b, raw, shared, FALSE, room) = Rules!NoEntry(o, started, FALSE)
    BY DEF Rules!AtSignal, Rules!AsksSignal
<1>5. Rules!Step(o, r, b, raw, shared, FALSE, room) = [Rules!NoEntry(o, started, FALSE) EXCEPT !.idx = @ + 1]
    BY <1>3, <1>4 DEF Rules!Step
<1> HIDE DEF started
<1>6. DOMAIN Rules!NoEntry(o, started, FALSE) = Fields /\ Flat(Rules!NoEntry(o, started, FALSE))
    BY <1>1, FieldFacts DEF Rules!NoEntry, Rules!CancelPending, Rules!NoPending, Flat, Rules!IsOpen, Rules!IsPending
<1> QED BY <1>5, <1>6, FieldFacts DEF Flat, Rules!IsOpen, Rules!IsPending

\* What makes the loss limit's exit complete: a runner that has seen no bar,
\* which force_exit leaves alone, has no position.
PortInv ==
    /\ DOMAIN systems = System
    /\ \A n \in System : DOMAIN systems[n] = Fields /\ (systems[n].mark = 0 => ~Rules!IsOpen(systems[n]))
    /\ portHalted \in BOOLEAN
    /\ portHalted => \A n \in System : Flat(systems[n])

LEMMA PortInvInit == PortInit => PortInv
<1>1. \A e : DOMAIN Rules!NewRunner(e) = Fields /\ ~Rules!IsOpen(Rules!NewRunner(e))
    BY FieldFacts DEF Rules!IsOpen, Rules!NoPosition
<1> QED BY <1>1 DEF PortInit, PortInv

LEMMA ForceExitAllFlat ==
    ASSUME NEW s, DOMAIN s = System,
           \A n \in System : DOMAIN s[n] = Fields /\ (s[n].mark = 0 => ~Rules!IsOpen(s[n]))
    PROVE  LET t == ForceExitAll(s)
           IN  /\ DOMAIN t = System
               /\ \A n \in System :
                     DOMAIN t[n] = Fields /\ Flat(t[n])
<1> SUFFICES ASSUME NEW n \in System
             PROVE  DOMAIN ForceExitAll(s)[n] = Fields /\ Flat(ForceExitAll(s)[n])
    BY DEF ForceExitAll
<1> DEFINE r == Rules!CancelPending(s[n])
           leg(f) == Rules!CloseLeg(PortOptions, r, r.open.size, f.price, f.fee)
           f0 == Rules!ApplyFill(PortOptions, r.mark, -r.open.side, "market", r.open.size)
<1>1. DOMAIN r = Fields /\ r.mark = s[n].mark /\ r.open = s[n].open /\ r.pending = Rules!NoPending
    BY FieldFacts DEF Rules!CancelPending
<1>2. ForceExitAll(s)[n] = IF r.mark = 0 THEN r ELSE Rules!ForceExit(PortOptions, r, r.mark)
    BY DEF ForceExitAll
<1>9. ~Rules!IsPending(r) /\ (Rules!IsOpen(r) <=> Rules!IsOpen(s[n]))
    BY <1>1 DEF Rules!IsOpen, Rules!IsPending, Rules!NoPending
<1>3. CASE r.mark = 0 BY <1>1, <1>2, <1>3, <1>9 DEF Flat
<1>4. CASE r.mark # 0 /\ ~Rules!IsOpen(r)
    <2>1. Rules!ForceExit(PortOptions, r, r.mark) = r BY <1>4 DEF Rules!ForceExit
    <2> QED BY <1>1, <1>2, <1>4, <1>9, <2>1 DEF Flat
<1>5. CASE r.mark # 0 /\ Rules!IsOpen(r)
    <2>1. DOMAIN leg(f0) = Fields /\ leg(f0).pending = r.pending
        BY <1>1, FieldFacts DEF Rules!CloseLeg
    <2>2. Rules!ForceExit(PortOptions, r, r.mark)
              = [leg(f0) EXCEPT !.cooldown = r.open.sig.cooldown, !.open = Rules!NoPosition]
        BY <1>5 DEF Rules!ForceExit
    <2> HIDE DEF r, leg, f0
    <2> QED BY <1>1, <1>2, <1>5, <2>1, <2>2, FieldFacts
           DEF Flat, Rules!IsOpen, Rules!IsPending, Rules!NoPosition, Rules!NoPending
<1> QED BY <1>3, <1>4, <1>5

LEMMA StepSystemInv ==
    ASSUME PortInv, NEW shape \in PortShapes, NEW raw, StepSystem(shape, raw)
    PROVE  PortInv'
<1> DEFINE n == Head(portActive)
<1>1. PICK room, total : \E r \in {Rules!Step(PortOptions, systems[n], Barred(shape), raw, total, ~portHalted, room)} :
                             CheckLoss([systems EXCEPT ![n] = r])
    BY DEF StepSystem
<1> DEFINE r == Rules!Step(PortOptions, systems[n], Barred(shape), raw, total, ~portHalted, room)
           stepped == [systems EXCEPT ![n] = r]
<1>2. CheckLoss(stepped) BY <1>1
<1>3. Barred(shape).close # 0 BY PortfolioAssumption DEF Barred
<1>4. n \in System => DOMAIN r = Fields /\ r.mark # 0 BY <1>3, StepMarks DEF PortInv
<1>5. n \in System /\ portHalted => Flat(r)
    <2> SUFFICES ASSUME n \in System, portHalted PROVE Flat(r) OBVIOUS
    <2>1. (~portHalted) = FALSE OBVIOUS
    <2>2. r = Rules!Step(PortOptions, systems[n], Barred(shape), raw, total, FALSE, room) BY <2>1
    <2>3. DOMAIN systems[n] = Fields /\ Flat(systems[n]) BY DEF PortInv
    <2> QED BY <2>2, <2>3, FlatStays
<1> HIDE DEF r, n
<1>6. /\ DOMAIN stepped = System
      /\ \A m \in System : DOMAIN stepped[m] = Fields /\ (stepped[m].mark = 0 => ~Rules!IsOpen(stepped[m]))
      /\ portHalted => \A m \in System : Flat(stepped[m])
    BY <1>4, <1>5 DEF PortInv
<1> HIDE DEF stepped
<1>7. CASE systems' = ForceExitAll(stepped) /\ portHalted' = TRUE
    BY <1>6, <1>7, ForceExitAllFlat DEF PortInv, Flat
<1>8. CASE systems' = stepped /\ UNCHANGED portHalted BY <1>6, <1>8 DEF PortInv
<1> QED BY <1>2, <1>7, <1>8 DEF CheckLoss

LEMMA PortInvStep == PortInv /\ [PortNext]_portVars => PortInv'
<1> SUFFICES ASSUME PortInv, [PortNext]_portVars PROVE PortInv' OBVIOUS
<1>1. ASSUME NEW S, NextTime(S) PROVE PortInv' BY <1>1 DEF NextTime, PortInv
<1>2. ASSUME NEW shape \in PortShapes, NEW raw, StepSystem(shape, raw) PROVE PortInv'
    BY <1>2, StepSystemInv
<1>3. CASE UNCHANGED portVars BY <1>3 DEF portVars, PortInv
<1> QED BY <1>1, <1>2, <1>3 DEF PortNext

\* From the step that crosses the daily loss limit until midnight no system of
\* a portfolio has a position or an order (portfolio.py:307-351), whatever the
\* systems, weights, options, bars and signals, and in whichever order the
\* systems step.
THEOREM HaltsAreFlat == PortSpec => []HaltFlattens
<1>1. PortInv => HaltFlattens BY DEF PortInv, HaltFlattens, Flat
<1> QED BY <1>1, PortInvInit, PortInvStep, PTL DEF PortSpec

-----------------------------------------------------------------------------
(* A stop that a bar trades through ends the position: types.              *)

\* Options of whole numbers that ask for a positive size.
Sized(o) == Rules!OptionsOk(o) /\ o.minQty > 0

PositionFields ==
    {"side", "entry", "stop", "tp", "size", "openIdx", "fill", "fee", "init", "base", "mfe", "adds",
     "risk", "realized", "beArmed", "scaled", "cutDone", "entryAtr", "sig"}
OrderFields ==
    {"side", "entry", "stop", "tp", "qty", "expiresAt", "startedAt", "chased", "planned", "sig"}

PositionOK(p) ==
    /\ DOMAIN p = PositionFields
    /\ p.side \in {1, -1}
    /\ {p.entry, p.stop, p.tp, p.openIdx, p.fill, p.fee, p.base, p.mfe, p.adds, p.risk, p.realized,
        p.size, p.init} \subseteq Int
    /\ p.size > 0 /\ p.init > 0

OrderOK(p) ==
    /\ DOMAIN p = OrderFields
    /\ p.side \in {1, -1}
    /\ {p.entry, p.stop, p.tp, p.qty, p.planned} \subseteq Int
    /\ p.sig \in Rules!SignalRecord

RunnerFields == DOMAIN Rules!NewRunner(0)

RunnerOK(r) ==
    /\ DOMAIN r = RunnerFields
    /\ {r.idx, r.equity, r.trades} \subseteq Int
    /\ Rules!IsOpen(r) => PositionOK(r.open)
    /\ Rules!IsPending(r) => OrderOK(r.pending)

\* s is r after a rule by which it may enter: it has no position of r's that
\* r did not have.
Enters(r, s) ==
    /\ s.trades >= r.trades
    /\ Rules!IsOpen(s) => Rules!IsOpen(r) \/ s.trades > r.trades

\* The stop of q is no further from the price than that of p.
Tighter(p, q) == q.side = p.side /\ p.side * (q.stop - p.stop) >= 0

LEMMA RunnerFieldFacts ==
    RunnerFields = {"idx", "equity", "day", "dayPnl", "dayTrades", "dayStart", "cooldown", "open",
                    "pending", "trades", "mark", "atr", "cash"}
BY DEF RunnerFields, Rules!NewRunner

LEMMA Extremes ==
    ASSUME NEW a \in Int, NEW b \in Int
    PROVE  /\ Rules!Least(a, b) \in Int /\ Rules!Least(a, b) <= a
           /\ Rules!Most(a, b) \in Int /\ Rules!Most(a, b) >= a /\ Rules!Most(a, b) >= b
           /\ Rules!Distance(a, b) \in Int /\ Rules!Distance(a, b) >= 0
           /\ a # b => Rules!Distance(a, b) > 0
BY DEF Rules!Least, Rules!Most, Rules!Distance

LEMMA Products ==
    /\ \A a, b \in Int : a * b \in Int
    /\ \A a \in Int, n \in Nat \ {0} : a \div n \in Int
OBVIOUS

LEMMA NoRoomType == Rules!NoRoom \in Int BY DEF Rules!NoRoom

\* What the capital in room carries is a whole number.
LEMMA ResolvedType ==
    ASSUME NEW o, Rules!OptionsOk(o), NEW room \in Int, NEW qty \in Int, NEW price \in Int
    PROVE  Rules!Resolved(o, room, qty, price) \in Int
<1>1. PICK lev : lev = Rules!Leverage(o) OBVIOUS
<1>2. PICK each : each = Rules!Most(1, price) OBVIOUS
<1>3. lev \in Int
    <2>1. o.leverage \in Int BY DEF Rules!OptionsOk
    <2> QED BY <1>1, <2>1 DEF Rules!Leverage, Rules!Most
<1>4. each \in Nat \ {0} BY <1>2 DEF Rules!Most
<1>5. room * lev \in Int BY <1>3, Products
<1>6. PICK most : most = (room * lev) \div each OBVIOUS
<1>7. most \in Int BY <1>4, <1>5, <1>6, Products
<1>8. Rules!Least(qty, most) \in Int BY <1>7, Extremes
<1> QED BY <1>1, <1>2, <1>6, <1>8 DEF Rules!Resolved

LEMMA FillType ==
    ASSUME NEW o, Rules!OptionsOk(o), NEW price \in Int, NEW dir \in Int, NEW kind, NEW qty \in Int
    PROVE  LET f == Rules!ApplyFill(o, price, dir, kind, qty) IN f.price \in Int /\ f.fee \in Int
<1>1. {o.slip, o.halfSpread, o.perUnit, o.perOrder, o.minCommission} \subseteq Int BY DEF Rules!OptionsOk
<1>2. Rules!Slippage(o, kind) \in Int
    <2>1. o.slip \div 4 \in Int /\ 5 * o.slip \in Int /\ (5 * o.slip) \div 4 \in Int BY <1>1, Products
    <2> QED BY <1>1, <2>1 DEF Rules!Slippage
<1>3. o.perUnit * qty \in Int
    <2>1. o.perUnit \in Int BY <1>1
    <2> QED BY <2>1
<1>4. Rules!Most(o.minCommission, o.perUnit * qty + o.perOrder) \in Int
    <2> DEFINE gross == o.perUnit * qty + o.perOrder
    <2>1. gross \in Int /\ o.minCommission \in Int BY <1>1, <1>3
    <2> HIDE DEF gross
    <2>2. Rules!Most(o.minCommission, gross) \in Int BY <2>1, Extremes
    <2> QED BY <2>2 DEF gross
<1>5. dir * Rules!Slippage(o, kind) \in Int BY <1>2
<1> QED BY <1>4, <1>5 DEF Rules!ApplyFill

LEMMA FinancingType ==
    ASSUME NEW o, Rules!OptionsOk(o), NEW side \in Int, NEW notional \in Int,
           NEW from \in Int, NEW to \in Int
    PROVE  Rules!FinancingCost(o, side, notional, from, to) \in Int
<1>1. {o.carry, o.rate, o.anchor} \subseteq Int /\ o.funding \in Nat BY DEF Rules!OptionsOk
<1>2. Rules!FundingEvents(o, from, to) \in Int
    <2>1. CASE o.funding = 0 BY <2>1 DEF Rules!FundingEvents
    <2>2. CASE o.funding # 0
        <3>1. (to - o.anchor) \div o.funding \in Int /\ (from - o.anchor) \div o.funding \in Int
            BY <1>1, <2>2, Products
        <3>2. Rules!Most(0, (to - o.anchor) \div o.funding - (from - o.anchor) \div o.funding) \in Int
            BY <3>1, Extremes
        <3> QED BY <3>2 DEF Rules!FundingEvents
    <2> QED BY <2>1, <2>2
<1>3. Rules!Most(0, to - from) \in Int BY Extremes
<1>4. notional * o.carry * Rules!Most(0, to - from) \in Int
    BY <1>1, <1>3, Products
<1>5. notional * o.rate * Rules!FundingEvents(o, from, to) \in Int
    BY <1>1, <1>2, Products
<1>6. side * ((notional * o.rate * Rules!FundingEvents(o, from, to)) \div 100) \in Int
    BY <1>5, Products
<1>7. (notional * o.carry * Rules!Most(0, to - from)) \div 100 \in Int BY <1>4, Products
<1> QED BY <1>6, <1>7 DEF Rules!FinancingCost

-----------------------------------------------------------------------------
(* Rules on a position.                                                    *)

\* Two positions that agree but for what a closed leg changes.
LEMMA CloseLegType ==
    ASSUME NEW o, Rules!OptionsOk(o), NEW r, RunnerOK(r), Rules!IsOpen(r),
           NEW qty \in Int, NEW price \in Int, NEW fee \in Int
    PROVE  LET s == Rules!CloseLeg(o, r, qty, price, fee)
           IN  /\ DOMAIN s = RunnerFields
               /\ s.idx = r.idx /\ s.trades = r.trades /\ s.pending = r.pending /\ s.equity \in Int
               /\ DOMAIN s.open = PositionFields
               /\ s.open.size = r.open.size - qty /\ s.open.realized \in Int
               /\ \A f \in PositionFields \ {"size", "realized"} : s.open[f] = r.open[f]
<1> DEFINE p == r.open
           financing == Rules!FinancingCost(o, p.side, p.fill * qty, p.openIdx, r.idx)
           share == (p.fee * qty) \div p.init
           pnl == (price - p.fill) * p.side * qty - share - fee - financing
           left == [p EXCEPT !.size = @ - qty, !.realized = @ + pnl]
<1>1. /\ DOMAIN p = PositionFields
      /\ p.side \in Int /\ p.fill \in Int /\ p.openIdx \in Int /\ p.fee \in Int /\ p.size \in Int
      /\ p.realized \in Int /\ p.init \in Nat \ {0}
    BY DEF RunnerOK, PositionOK
<1>2. r.idx \in Int /\ r.equity \in Int /\ DOMAIN r = RunnerFields BY DEF RunnerOK
<1>3. financing \in Int
    <2>1. p.fill * qty \in Int BY <1>1, Products
    <2> QED BY <1>1, <1>2, <2>1, FinancingType
<1>4. share \in Int
    <2>1. p.fee * qty \in Int BY <1>1, Products
    <2> QED BY <1>1, <2>1, Products
<1>5. (price - p.fill) * p.side * qty \in Int
    <2>1. (price - p.fill) * p.side \in Int BY <1>1, Products
    <2> QED BY <2>1, Products
<1>6. pnl \in Int
    <2> HIDE DEF share, financing
    <2> QED BY <1>3, <1>4, <1>5
<1>7. Rules!CloseLeg(o, r, qty, price, fee)
          = [r EXCEPT !.equity = @ + pnl, !.dayPnl = @ + pnl,
                      !.cash = @ + p.side * price * qty - fee - financing,
                      !.open.size = @ - qty, !.open.realized = @ + pnl]
    BY DEF Rules!CloseLeg
<1> HIDE DEF pnl, financing
<1>8. LET s == Rules!CloseLeg(o, r, qty, price, fee)
      IN  /\ DOMAIN s = RunnerFields /\ s.idx = r.idx /\ s.trades = r.trades /\ s.pending = r.pending
          /\ s.equity = r.equity + pnl /\ s.open = left
    BY <1>2, <1>7, RunnerFieldFacts
<1>9. /\ DOMAIN left = PositionFields /\ left.size = p.size - qty /\ left.realized = p.realized + pnl
      /\ \A f \in PositionFields \ {"size", "realized"} : left[f] = p[f]
    BY <1>1 DEF PositionFields
<1> HIDE DEF p, left
<1>10. r.equity + pnl \in Int /\ p.realized + pnl \in Int BY <1>1, <1>2, <1>6
<1> QED BY <1>8, <1>9, <1>10 DEF p

\* A leg that leaves something of the position.
LEMMA PartCloses ==
    ASSUME NEW o, Rules!OptionsOk(o), NEW r, RunnerOK(r), Rules!IsOpen(r),
           NEW qty \in Int, qty < r.open.size, NEW price \in Int, NEW fee \in Int
    PROVE  LET s == Rules!CloseLeg(o, r, qty, price, fee)
           IN  /\ RunnerOK(s) /\ Rules!IsOpen(s) /\ s.trades = r.trades /\ s.pending = r.pending
               /\ s.open.side = r.open.side /\ s.open.stop = r.open.stop
<1> DEFINE s == Rules!CloseLeg(o, r, qty, price, fee)
<1>1. /\ DOMAIN s = RunnerFields
      /\ s.idx = r.idx /\ s.trades = r.trades /\ s.pending = r.pending /\ s.equity \in Int
      /\ DOMAIN s.open = PositionFields
      /\ s.open.size = r.open.size - qty /\ s.open.realized \in Int
      /\ \A f \in PositionFields \ {"size", "realized"} : s.open[f] = r.open[f]
    BY CloseLegType
<1> HIDE DEF s
<1>2. PositionOK(r.open) /\ {r.idx, r.equity, r.trades} \subseteq Int /\ (Rules!IsPending(r) => OrderOK(r.pending))
    BY DEF RunnerOK
<1>3. /\ s.open.side = r.open.side /\ s.open.entry = r.open.entry /\ s.open.stop = r.open.stop
      /\ s.open.tp = r.open.tp /\ s.open.openIdx = r.open.openIdx /\ s.open.fill = r.open.fill
      /\ s.open.fee = r.open.fee /\ s.open.init = r.open.init /\ s.open.base = r.open.base
      /\ s.open.mfe = r.open.mfe /\ s.open.adds = r.open.adds /\ s.open.risk = r.open.risk
    BY <1>1 DEF PositionFields
<1>4. PositionOK(s.open) BY <1>1, <1>2, <1>3 DEF PositionOK
<1>5. Rules!IsOpen(s) BY <1>3 DEF Rules!IsOpen
<1>6. RunnerOK(s) BY <1>1, <1>2, <1>4 DEF RunnerOK, Rules!IsPending
<1> QED BY <1>1, <1>3, <1>5, <1>6 DEF s

\* A runner whose position a leg has closed.
Ended(r, cooldown) == [r EXCEPT !.cooldown = cooldown, !.open = Rules!NoPosition]

\* A leg that ends the position.
LEMMA LastCloses ==
    ASSUME NEW o, Rules!OptionsOk(o), NEW r, RunnerOK(r), Rules!IsOpen(r),
           NEW price \in Int, NEW fee \in Int, NEW cooldown
    PROVE  LET s == Ended(Rules!CloseLeg(o, r, r.open.size, price, fee), cooldown)
           IN  RunnerOK(s) /\ ~Rules!IsOpen(s) /\ s.trades = r.trades
<1> DEFINE leg == Rules!CloseLeg(o, r, r.open.size, price, fee)
           s == Ended(leg, cooldown)
<1>1. r.open.size \in Int BY DEF RunnerOK, PositionOK
<1>2. /\ DOMAIN leg = RunnerFields
      /\ leg.idx = r.idx /\ leg.trades = r.trades /\ leg.pending = r.pending /\ leg.equity \in Int
    BY <1>1, CloseLegType
<1> HIDE DEF leg
<1>3. /\ DOMAIN s = RunnerFields /\ s.idx = r.idx /\ s.trades = r.trades /\ s.pending = r.pending
      /\ s.equity \in Int /\ s.open = Rules!NoPosition
    BY <1>2, RunnerFieldFacts DEF Ended
<1> HIDE DEF s
<1>4. ~Rules!IsOpen(s) BY <1>3 DEF Rules!IsOpen, Rules!NoPosition
<1>5. RunnerOK(s) BY <1>3, <1>4 DEF RunnerOK, Rules!IsPending
<1> QED BY <1>3, <1>4, <1>5 DEF s, leg

-----------------------------------------------------------------------------
(* Stops.  Where they are not clamped, q's is no further than p's.          *)

Tightened(o, p, q) ==
    /\ PositionOK(q) /\ q.side = p.side
    /\ ~o.clamp => p.side * (q.stop - p.stop) >= 0

LEMMA TightenedChains ==
    ASSUME NEW o, NEW p, NEW q, NEW s, PositionOK(p), Tightened(o, p, q), Tightened(o, q, s)
    PROVE  Tightened(o, p, s)
<1>1. /\ p.side \in {1, -1} /\ q.side = p.side /\ s.side = q.side
      /\ p.stop \in Int /\ q.stop \in Int /\ s.stop \in Int /\ PositionOK(s)
    BY DEF Tightened, PositionOK
<1>2. ~o.clamp => q.side * (q.stop - p.stop) >= 0 /\ q.side * (s.stop - q.stop) >= 0
    BY <1>1 DEF Tightened
<1>3. ~o.clamp => p.side * (s.stop - p.stop) >= 0
    <2>1. CASE p.side = 1 BY <1>1, <1>2, <2>1
    <2>2. CASE p.side = -1 BY <1>1, <1>2, <2>2
    <2> QED BY <1>1, <2>1, <2>2
<1> QED BY <1>1, <1>3 DEF Tightened

\* A position after a field that no rule compares, or a number, has changed.
LEMMA FieldsOK ==
    ASSUME NEW p, PositionOK(p)
    PROVE  /\ \A v \in Int : PositionOK([p EXCEPT !.stop = v]) /\ [p EXCEPT !.stop = v].stop = v
                             /\ [p EXCEPT !.stop = v].side = p.side
           /\ \A v \in Int : PositionOK([p EXCEPT !.mfe = v]) /\ [p EXCEPT !.mfe = v].stop = p.stop
                             /\ [p EXCEPT !.mfe = v].side = p.side
           /\ \A v \in Int : PositionOK([p EXCEPT !.tp = v]) /\ [p EXCEPT !.tp = v].stop = p.stop
                             /\ [p EXCEPT !.tp = v].side = p.side
           /\ \A v : PositionOK([p EXCEPT !.beArmed = v]) /\ [p EXCEPT !.beArmed = v].stop = p.stop
                     /\ [p EXCEPT !.beArmed = v].side = p.side
           /\ \A v : PositionOK([p EXCEPT !.scaled = v]) /\ [p EXCEPT !.scaled = v].stop = p.stop
                     /\ [p EXCEPT !.scaled = v].side = p.side
           /\ \A v : PositionOK([p EXCEPT !.cutDone = v]) /\ [p EXCEPT !.cutDone = v].stop = p.stop
                     /\ [p EXCEPT !.cutDone = v].side = p.side
<1>1. "stop" \in PositionFields /\ "mfe" \in PositionFields /\ "tp" \in PositionFields
      /\ "beArmed" \in PositionFields /\ "scaled" \in PositionFields /\ "cutDone" \in PositionFields
    BY DEF PositionFields
<1>2. \A v \in Int : PositionOK([p EXCEPT !.stop = v]) /\ [p EXCEPT !.stop = v].stop = v
                     /\ [p EXCEPT !.stop = v].side = p.side
    BY <1>1 DEF PositionOK
<1>3. \A v \in Int : PositionOK([p EXCEPT !.mfe = v]) /\ [p EXCEPT !.mfe = v].stop = p.stop
                     /\ [p EXCEPT !.mfe = v].side = p.side
    BY <1>1 DEF PositionOK
<1>4. \A v \in Int : PositionOK([p EXCEPT !.tp = v]) /\ [p EXCEPT !.tp = v].stop = p.stop
                     /\ [p EXCEPT !.tp = v].side = p.side
    BY <1>1 DEF PositionOK
<1>5. \A v : PositionOK([p EXCEPT !.beArmed = v]) /\ [p EXCEPT !.beArmed = v].stop = p.stop
             /\ [p EXCEPT !.beArmed = v].side = p.side
    BY <1>1 DEF PositionOK
<1>6. \A v : PositionOK([p EXCEPT !.scaled = v]) /\ [p EXCEPT !.scaled = v].stop = p.stop
             /\ [p EXCEPT !.scaled = v].side = p.side
    BY <1>1 DEF PositionOK
<1>7. \A v : PositionOK([p EXCEPT !.cutDone = v]) /\ [p EXCEPT !.cutDone = v].stop = p.stop
             /\ [p EXCEPT !.cutDone = v].side = p.side
    BY <1>1 DEF PositionOK
<1> QED BY <1>2, <1>3, <1>4, <1>5, <1>6, <1>7

\* A change of such a field is no loosening.
LEMMA StopKept ==
    ASSUME NEW o, NEW p, NEW q, PositionOK(p), PositionOK(q), q.side = p.side, q.stop = p.stop
    PROVE  Tightened(o, p, q)
<1>1. p.stop - p.stop = 0 /\ p.side * 0 = 0 BY DEF PositionOK
<1> QED BY <1>1 DEF Tightened

LEMMA TightenOK ==
    ASSUME NEW o, Rules!OptionsOk(o), NEW p, PositionOK(p), NEW b, Rules!CandleOk(b),
           NEW candidate \in Int
    PROVE  Tightened(o, p, Rules!Tighten(o, p, b, candidate))
<1> DEFINE stop == IF p.side * (candidate - p.stop) > 0 THEN candidate ELSE p.stop
           moved == IF o.clamp THEN Rules!ClampStop(o, b.close, stop, p.side) ELSE stop
<1>1. p.side \in {1, -1} /\ p.stop \in Int /\ b.close \in Int /\ o.eps \in Int
    BY DEF PositionOK, Rules!CandleOk, Rules!OptionsOk
<1>2. stop \in Int /\ p.side * (stop - p.stop) >= 0
    <2>1. CASE p.side * (candidate - p.stop) > 0
        <3>1. stop = candidate BY <2>1
        <3> HIDE DEF stop
        <3> QED BY <1>1, <2>1, <3>1
    <2>2. CASE ~(p.side * (candidate - p.stop) > 0)
        <3>1. stop = p.stop BY <2>2
        <3>2. p.side * (p.stop - p.stop) = 0 BY <1>1
        <3> HIDE DEF stop
        <3> QED BY <1>1, <3>1, <3>2
    <2> QED BY <2>1, <2>2
<1> HIDE DEF stop
<1>3. moved \in Int
    <2>1. b.close - o.eps \in Int /\ b.close + o.eps \in Int BY <1>1
    <2>2. Rules!Least(stop, b.close - o.eps) \in Int /\ Rules!Most(stop, b.close + o.eps) \in Int
        BY <1>2, <2>1, Extremes
    <2> QED BY <1>2, <2>2 DEF Rules!ClampStop
<1>4. ~o.clamp => moved = stop OBVIOUS
<1>5. Rules!Tighten(o, p, b, candidate) = [p EXCEPT !.stop = moved] BY DEF Rules!Tighten, stop
<1> HIDE DEF moved
<1> QED BY <1>2, <1>3, <1>4, <1>5, FieldsOK DEF Tightened

LEMMA BreakevenOK ==
    ASSUME NEW o, Rules!OptionsOk(o), NEW p, PositionOK(p), NEW b, Rules!CandleOk(b)
    PROVE  Tightened(o, p, Rules!Breakeven(o, p, b))
<1>1. p.side \in {1, -1} /\ p.fill \in Int /\ p.realized \in Int /\ p.size \in Nat \ {0}
    BY DEF PositionOK
<1>2. p.realized \div p.size \in Int BY <1>1, Products
<1>3. p.fill - p.side * (p.realized \div p.size) \in Int BY <1>1, <1>2
<1>4. Tightened(o, p, p) BY StopKept
<1> QED BY <1>3, <1>4, TightenOK DEF Rules!Breakeven

LEMMA ExcursionType ==
    ASSUME NEW p, PositionOK(p), NEW b, Rules!CandleOk(b)
    PROVE  Rules!Excursion(p, b) \in Int
<1>1. p.side \in {1, -1} /\ p.entry \in Int /\ b.high \in Int /\ b.low \in Int
    BY DEF PositionOK, Rules!CandleOk
<1> QED BY <1>1 DEF Rules!Excursion, Rules!Best

LEMMA TrailedOK ==
    ASSUME NEW o, Rules!OptionsOk(o), NEW p, PositionOK(p), NEW b, Rules!CandleOk(b)
    PROVE  Tightened(o, p, Rules!Trailed(o, p, b))
<1>1. ASSUME NEW q, PositionOK(q) PROVE Tightened(o, q, Rules!BreakevenStop(o, q, b))
    <2> DEFINE t == Rules!Tighten(o, q, b, q.entry)
    <2>1. q.entry \in Int BY <1>1 DEF PositionOK
    <2>2. Tightened(o, q, t) /\ PositionOK(t) BY <1>1, <2>1, TightenOK DEF Tightened
    <2> HIDE DEF t
    <2>3. Tightened(o, t, [t EXCEPT !.beArmed = TRUE]) BY <2>2, FieldsOK, StopKept
    <2>4. Tightened(o, q, [t EXCEPT !.beArmed = TRUE]) BY <1>1, <2>2, <2>3, TightenedChains
    <2>5. Tightened(o, q, q) BY <1>1, StopKept
    <2> QED BY <2>4, <2>5 DEF Rules!BreakevenStop, t
<1>2. ASSUME NEW q, PositionOK(q) PROVE Tightened(o, q, Rules!TrailStop(o, q, b))
    <2>1. q.side \in {1, -1} /\ q.risk \in Int /\ b.close \in Int
        BY <1>2 DEF PositionOK, Rules!CandleOk
    <2>2. b.close - q.side * q.risk \in Int BY <2>1
    <2>3. Tightened(o, q, q) BY <1>2, StopKept
    <2> QED BY <1>2, <2>2, <2>3, TightenOK DEF Rules!TrailStop
<1>3. ASSUME NEW q, PositionOK(q) PROVE Tightened(o, q, Rules!ExcursionStop(o, q, b))
    <2> DEFINE kept == q.mfe - o.mfeGiveback * q.risk
    <2>1. q.side \in {1, -1} /\ q.risk \in Int /\ q.mfe \in Int /\ q.entry \in Int /\ o.mfeGiveback \in Int
        BY <1>3 DEF PositionOK, Rules!OptionsOk
    <2>2. kept \in Int BY <2>1
    <2> HIDE DEF kept
    <2>3. Rules!Most(0, kept) \in Int BY <2>2, Extremes
    <2>4. q.entry + q.side * Rules!Most(0, kept) \in Int BY <2>1, <2>3
    <2>5. Tightened(o, q, q) BY <1>3, StopKept
    <2>6. Tightened(o, q, Rules!Tighten(o, q, b, q.entry + q.side * Rules!Most(0, kept)))
        BY <1>3, <2>4, TightenOK
    <2> QED BY <2>5, <2>6 DEF Rules!ExcursionStop, kept
<1>4. ASSUME NEW q, PositionOK(q) PROVE Tightened(o, q, Rules!AtrStop(o, q, b))
    <2>1. q.side \in {1, -1} /\ b.atr \in Int /\ b.close \in Int /\ o.atrMult \in Int
        BY <1>4 DEF PositionOK, Rules!CandleOk, Rules!OptionsOk
    <2>2. q.side * b.atr * o.atrMult \in Int BY <2>1
    <2>3. b.close - q.side * b.atr * o.atrMult \in Int BY <2>1, <2>2
    <2>4. Tightened(o, q, q) BY <1>4, StopKept
    <2>5. Tightened(o, q, Rules!Tighten(o, q, b, b.close - q.side * b.atr * o.atrMult))
        BY <1>4, <2>3, TightenOK
    <2> QED BY <2>4, <2>5 DEF Rules!AtrStop
<1> DEFINE p0 == [p EXCEPT !.mfe = Rules!Most(@, Rules!Excursion(p, b))]
           p1 == Rules!BreakevenStop(o, p0, b)
           p2 == Rules!TrailStop(o, p1, b)
           p3 == Rules!ExcursionStop(o, p2, b)
           p4 == Rules!AtrStop(o, p3, b)
<1>5. Rules!Trailed(o, p, b) = p4 BY DEF Rules!Trailed
<1>6. Rules!Most(p.mfe, Rules!Excursion(p, b)) \in Int
    BY ExcursionType, Extremes DEF PositionOK
<1>7. PositionOK(p0) /\ Tightened(o, p, p0) BY <1>6, FieldsOK, StopKept
<1> HIDE DEF p0
<1>8. PositionOK(p1) /\ Tightened(o, p, p1) BY <1>1, <1>7, TightenedChains DEF Tightened
<1> HIDE DEF p1
<1>9. PositionOK(p2) /\ Tightened(o, p, p2) BY <1>2, <1>8, TightenedChains DEF Tightened
<1> HIDE DEF p2
<1>10. PositionOK(p3) /\ Tightened(o, p, p3) BY <1>3, <1>9, TightenedChains DEF Tightened
<1> HIDE DEF p3
<1>11. Tightened(o, p, p4) BY <1>4, <1>10, TightenedChains
<1> QED BY <1>5, <1>11

-----------------------------------------------------------------------------
(* What a bar does to a position.                                          *)

\* s is r with its position managed: still r's, with a stop no looser.
Managed(o, r, s) ==
    /\ RunnerOK(s) /\ s.trades = r.trades
    /\ Rules!IsOpen(s) /\ Tightened(o, r.open, s.open)

LEMMA ManagedChains ==
    ASSUME NEW o, NEW r, NEW s, NEW t, RunnerOK(r), Rules!IsOpen(r), Managed(o, r, s), Managed(o, s, t)
    PROVE  Managed(o, r, t)
<1>1. PositionOK(r.open) BY DEF RunnerOK
<1> QED BY <1>1, TightenedChains DEF Managed

\* A runner whose position was replaced by one that is in order.
LEMMA PositionReplaced ==
    ASSUME NEW o, NEW r, RunnerOK(r), NEW p, Tightened(o, r.open, p)
    PROVE  Managed(o, r, [r EXCEPT !.open = p])
<1> DEFINE s == [r EXCEPT !.open = p]
<1>1. /\ DOMAIN s = RunnerFields /\ s.idx = r.idx /\ s.equity = r.equity /\ s.trades = r.trades
      /\ s.pending = r.pending /\ s.open = p
    BY RunnerFieldFacts DEF RunnerOK
<1> HIDE DEF s
<1>2. PositionOK(p) BY DEF Tightened
<1>3. p.side # 0 BY <1>2 DEF PositionOK
<1>4. RunnerOK(s) BY <1>1, <1>2 DEF RunnerOK, Rules!IsPending
<1>5. Rules!IsOpen(s) BY <1>1, <1>3 DEF Rules!IsOpen
<1> QED BY <1>1, <1>4, <1>5 DEF Managed, s

LEMMA NothingManaged ==
    ASSUME NEW o, NEW r, RunnerOK(r), Rules!IsOpen(r)
    PROVE  Managed(o, r, r)
BY StopKept DEF Managed, RunnerOK

\* A part of the position is closed, and what is left gets another position record.
LEMMA PartManaged ==
    ASSUME NEW o, Rules!OptionsOk(o), NEW r, RunnerOK(r), Rules!IsOpen(r),
           NEW qty \in Int, qty < r.open.size, NEW price \in Int, NEW fee \in Int
    PROVE  Managed(o, r, Rules!CloseLeg(o, r, qty, price, fee))
<1> DEFINE s == Rules!CloseLeg(o, r, qty, price, fee)
<1>1. /\ RunnerOK(s) /\ Rules!IsOpen(s) /\ s.trades = r.trades
      /\ s.open.side = r.open.side /\ s.open.stop = r.open.stop
    BY PartCloses
<1> HIDE DEF s
<1>2. PositionOK(r.open) /\ PositionOK(s.open) BY <1>1 DEF RunnerOK
<1>3. Tightened(o, r.open, s.open) BY <1>1, <1>2, StopKept
<1> QED BY <1>1, <1>3 DEF Managed, s

LEMMA VolatilityCutOK ==
    ASSUME NEW o, Sized(o), NEW r, RunnerOK(r), Rules!IsOpen(r), NEW b, Rules!CandleOk(b)
    PROVE  Managed(o, r, Rules!VolatilityCut(o, r, b))
<1> DEFINE p == r.open
           qty == p.size \div o.cutDivisor
           f == Rules!ApplyFill(o, b.close, -p.side, "market", qty)
           cut == Rules!CloseLeg(o, r, qty, f.price, f.fee)
           even == Rules!Breakeven(o, cut.open, b)
           done == [even EXCEPT !.cutDone = TRUE]
<1>1. Rules!VolatilityCut(o, r, b) = r
      \/ (qty < p.size /\ Rules!VolatilityCut(o, r, b) = [cut EXCEPT !.open = done])
    BY DEF Rules!VolatilityCut
<1>2. Rules!OptionsOk(o) /\ o.cutDivisor \in Nat \ {0} BY DEF Sized, Rules!OptionsOk
<1>3. PositionOK(p) BY DEF RunnerOK
<1>4. p.size \in Int /\ p.side \in {1, -1} /\ b.close \in Int BY <1>3 DEF PositionOK, Rules!CandleOk
<1>5. qty \in Int BY <1>2, <1>4, Products
<1> HIDE DEF qty
<1>6. f.price \in Int /\ f.fee \in Int
    <2>1. -p.side \in Int BY <1>4
    <2> QED BY <1>2, <1>4, <1>5, <2>1, FillType
<1> HIDE DEF f
<1>7. CASE qty < p.size /\ Rules!VolatilityCut(o, r, b) = [cut EXCEPT !.open = done]
    <2>1. Managed(o, r, cut) BY <1>2, <1>5, <1>6, <1>7, PartManaged
    <2> HIDE DEF cut
    <2>2. PositionOK(cut.open) /\ RunnerOK(cut) /\ Rules!IsOpen(cut) BY <2>1 DEF Managed, RunnerOK
    <2>3. Tightened(o, cut.open, even) /\ PositionOK(even) BY <1>2, <2>2, BreakevenOK DEF Tightened
    <2> HIDE DEF even
    <2>4. Tightened(o, even, done) BY <2>3, FieldsOK, StopKept
    <2>5. Tightened(o, cut.open, done) BY <2>2, <2>3, <2>4, TightenedChains
    <2> HIDE DEF done
    <2>6. Managed(o, cut, [cut EXCEPT !.open = done]) BY <2>2, <2>5, PositionReplaced
    <2>7. Managed(o, r, [cut EXCEPT !.open = done]) BY <2>1, <2>6, ManagedChains
    <2> QED BY <1>7, <2>7
<1>8. CASE Rules!VolatilityCut(o, r, b) = r BY <1>8, NothingManaged
<1> QED BY <1>1, <1>7, <1>8

LEMMA ScaleOutOK ==
    ASSUME NEW o, Sized(o), NEW r, RunnerOK(r), Rules!IsOpen(r), NEW b, Rules!CandleOk(b)
    PROVE  Managed(o, r, Rules!ScaleOut(o, r, b))
<1> DEFINE p == r.open
           price == p.entry + p.side * o.scaleOutAt * p.risk
           qty == p.size \div o.scaleOutDivisor
           f == Rules!ApplyFill(o, price, -p.side, "limit", qty)
           scaled == Rules!CloseLeg(o, r, qty, f.price, f.fee)
           tp == p.entry + p.side * o.finalR * p.risk
           target == [scaled.open EXCEPT !.scaled = TRUE, !.tp = tp]
           even == Rules!Breakeven(o, target, b)
           done == [even EXCEPT !.beArmed = TRUE]
<1>1. Rules!ScaleOut(o, r, b) = r
      \/ (qty < p.size /\ Rules!ScaleOut(o, r, b) = [scaled EXCEPT !.open = done])
    BY DEF Rules!ScaleOut
<1>2. Rules!OptionsOk(o) /\ o.scaleOutDivisor \in Nat \ {0} /\ o.scaleOutAt \in Int /\ o.finalR \in Int
    BY DEF Sized, Rules!OptionsOk
<1>3. PositionOK(p) BY DEF RunnerOK
<1>4. p.size \in Int /\ p.side \in {1, -1} /\ p.entry \in Int /\ p.risk \in Int BY <1>3 DEF PositionOK
<1>5. qty \in Int BY <1>2, <1>4, Products
<1>6. price \in Int /\ tp \in Int
    <2>1. p.side * o.scaleOutAt * p.risk \in Int /\ p.side * o.finalR * p.risk \in Int BY <1>2, <1>4
    <2> QED BY <1>4, <2>1
<1> HIDE DEF qty, price, tp
<1>7. f.price \in Int /\ f.fee \in Int
    <2>1. -p.side \in Int BY <1>4
    <2> QED BY <1>2, <1>5, <1>6, <2>1, FillType
<1> HIDE DEF f
<1>8. CASE qty < p.size /\ Rules!ScaleOut(o, r, b) = [scaled EXCEPT !.open = done]
    <2>1. Managed(o, r, scaled) BY <1>2, <1>5, <1>7, <1>8, PartManaged
    <2> HIDE DEF scaled
    <2>2. PositionOK(scaled.open) /\ RunnerOK(scaled) /\ Rules!IsOpen(scaled) BY <2>1 DEF Managed, RunnerOK
    <2> DEFINE marked == [scaled.open EXCEPT !.scaled = TRUE]
    <2>3. PositionOK(marked) /\ Tightened(o, scaled.open, marked)
        <3>1. PositionOK(marked) /\ marked.stop = scaled.open.stop /\ marked.side = scaled.open.side
            BY <2>2, FieldsOK
        <3> HIDE DEF marked
        <3> QED BY <2>2, <3>1, StopKept
    <2>4. target = [marked EXCEPT !.tp = tp] OBVIOUS
    <2> HIDE DEF marked
    <2>5. Tightened(o, marked, target) /\ PositionOK(target) BY <1>6, <2>3, <2>4, FieldsOK, StopKept
    <2> HIDE DEF target
    <2>6. Tightened(o, target, even) /\ PositionOK(even) BY <1>2, <2>5, BreakevenOK DEF Tightened
    <2> HIDE DEF even
    <2>7. Tightened(o, even, done) BY <2>6, FieldsOK, StopKept
    <2>8. Tightened(o, scaled.open, target) BY <2>2, <2>3, <2>5, TightenedChains
    <2>9. Tightened(o, scaled.open, even) BY <2>2, <2>6, <2>8, TightenedChains
    <2>10. Tightened(o, scaled.open, done) BY <2>2, <2>7, <2>9, TightenedChains
    <2> HIDE DEF done
    <2>11. Managed(o, scaled, [scaled EXCEPT !.open = done]) BY <2>2, <2>10, PositionReplaced
    <2>12. Managed(o, r, [scaled EXCEPT !.open = done]) BY <2>1, <2>11, ManagedChains
    <2> QED BY <1>8, <2>12
<1>9. CASE Rules!ScaleOut(o, r, b) = r BY <1>9, NothingManaged
<1> QED BY <1>1, <1>8, <1>9

LEMMA AddOK ==
    ASSUME NEW o, Sized(o), NEW r, RunnerOK(r), Rules!IsOpen(r), NEW b, Rules!CandleOk(b), NEW room \in Int
    PROVE  Managed(o, r, Rules!Add(o, r, b, room))
<1> DEFINE p == r.open
           price == p.entry + p.side * o.addAt * (p.adds + 1) * p.risk
           qty == Rules!Resolved(o, room, p.base \div o.addDivisor, price)
           f == Rules!ApplyFill(o, price, p.side, "limit", qty)
           fill == (p.fill * p.size + f.price * qty) \div (p.size + qty)
           q == [p EXCEPT !.fee = @ + f.fee, !.size = @ + qty, !.init = @ + qty, !.fill = fill,
                          !.adds = @ + 1]
           s == [r EXCEPT !.cash = @ - p.side * f.price * qty - f.fee, !.open = q]
<1>1. /\ Rules!OptionsOk(o) /\ o.addDivisor \in Nat \ {0} /\ o.addAt \in Int
      /\ o.minQty \in Int /\ o.minQty > 0
    BY DEF Sized, Rules!OptionsOk
<1>2. PositionOK(p) BY DEF RunnerOK
<1>3. /\ p.size \in Int /\ p.side \in {1, -1} /\ p.entry \in Int /\ p.risk \in Int /\ p.base \in Int
      /\ p.adds \in Int /\ p.fill \in Int /\ p.fee \in Int /\ p.init \in Int /\ p.size > 0 /\ p.init > 0
    BY <1>2 DEF PositionOK
<1>4. price \in Int
    <2>1. p.side * o.addAt \in Int /\ p.adds + 1 \in Int BY <1>1, <1>3
    <2>2. p.side * o.addAt * (p.adds + 1) \in Int BY <2>1, Products
    <2>3. p.side * o.addAt * (p.adds + 1) * p.risk \in Int BY <1>3, <2>2, Products
    <2> QED BY <1>3, <2>3
<1>5. qty \in Int
    <2>1. p.base \div o.addDivisor \in Int BY <1>1, <1>3, Products
    <2> HIDE DEF price
    <2> QED BY <1>1, <1>4, <2>1, ResolvedType
<1>6. Rules!Add(o, r, b, room) = r \/ (qty >= o.minQty /\ Rules!Add(o, r, b, room) = s)
    <2>1. Rules!Add(o, r, b, room) = IF ~Rules!CanAdd(o, p, b, price) \/ qty < o.minQty THEN r ELSE s
        BY DEF Rules!Add
    <2> QED BY <1>1, <1>5, <2>1
<1> HIDE DEF qty, price
<1>7. f.price \in Int /\ f.fee \in Int BY <1>1, <1>3, <1>4, <1>5, FillType
<1> HIDE DEF f
<1>8. CASE qty >= o.minQty /\ Rules!Add(o, r, b, room) = s
    <2>1. p.size + qty \in Nat \ {0} /\ p.init + qty > 0 BY <1>1, <1>3, <1>5, <1>8
    <2>2. p.fill * p.size + f.price * qty \in Int BY <1>3, <1>5, <1>7
    <2>3. fill \in Int BY <2>1, <2>2, Products
    <2> HIDE DEF fill
    <2>4. /\ DOMAIN q = DOMAIN p /\ q.side = p.side /\ q.entry = p.entry /\ q.stop = p.stop
          /\ q.tp = p.tp /\ q.openIdx = p.openIdx /\ q.base = p.base /\ q.mfe = p.mfe
          /\ q.risk = p.risk /\ q.realized = p.realized
        OBVIOUS
    <2>5. /\ q.fee = p.fee + f.fee /\ q.size = p.size + qty /\ q.init = p.init + qty /\ q.fill = fill
          /\ q.adds = p.adds + 1
        BY <1>2 DEF PositionOK, PositionFields
    <2> HIDE DEF q, p
    <2>6. PositionOK(q)
        <3>1. q.fee \in Int /\ q.size \in Int /\ q.init \in Int /\ q.adds \in Int /\ q.fill \in Int
            BY <1>3, <1>5, <1>7, <2>3, <2>5
        <3>2. q.size > 0 /\ q.init > 0 BY <2>1, <2>5
        <3> QED BY <1>2, <2>4, <3>1, <3>2 DEF PositionOK
    <2>7. Tightened(o, p, q) BY <1>2, <2>4, <2>6, StopKept
    <2>8. /\ DOMAIN s = RunnerFields /\ s.idx = r.idx /\ s.equity = r.equity /\ s.trades = r.trades
          /\ s.pending = r.pending /\ s.open = q
        BY RunnerFieldFacts DEF RunnerOK
    <2> HIDE DEF s
    <2>9. RunnerOK(s) BY <2>6, <2>8 DEF RunnerOK, Rules!IsPending
    <2>10. Rules!IsOpen(s) BY <2>4, <2>8, <1>3 DEF Rules!IsOpen
    <2>11. Managed(o, r, s) BY <2>7, <2>8, <2>9, <2>10 DEF Managed, p
    <2> QED BY <1>8, <2>11 DEF s
<1>9. CASE Rules!Add(o, r, b, room) = r BY <1>9, NothingManaged
<1> QED BY <1>6, <1>8, <1>9

\* The leg on the side of the stop, or of the target, ends the position.
LEMMA OcoExitOK ==
    ASSUME NEW o, Rules!OptionsOk(o), NEW r, RunnerOK(r), Rules!IsOpen(r), NEW b
    PROVE  LET s == Rules!OcoExit(o, r, b)
           IN  \/ s = r /\ Rules!OcoExitCheck(o, r.open, b) = "no"
               \/ RunnerOK(s) /\ ~Rules!IsOpen(s) /\ s.trades = r.trades
<1> DEFINE p == r.open
           hit == Rules!OcoExitCheck(o, p, b)
           at == IF hit = "TP" THEN p.tp ELSE p.stop
           kind == IF hit = "TP" THEN "limit" ELSE "stop"
           f == Rules!ApplyFill(o, at, -p.side, kind, p.size)
           lost == IF hit = "SL" THEN Rules!Most(r.cooldown, o.postLossCooldown) ELSE r.cooldown
           cooldown == IF lost = 0 THEN p.sig.cooldown ELSE lost
           s == Ended(Rules!CloseLeg(o, r, p.size, f.price, f.fee), cooldown)
<1>1. Rules!OcoExit(o, r, b) = IF hit = "no" THEN r ELSE s BY DEF Rules!OcoExit, Ended
<1>2. p.tp \in Int /\ p.stop \in Int /\ p.side \in {1, -1} /\ p.size \in Int BY DEF RunnerOK, PositionOK
<1>3. at \in Int /\ -p.side \in Int BY <1>2
<1> HIDE DEF at, kind, hit, cooldown
<1>4. f.price \in Int /\ f.fee \in Int BY <1>2, <1>3, FillType
<1> HIDE DEF f
<1>5. RunnerOK(s) /\ ~Rules!IsOpen(s) /\ s.trades = r.trades BY <1>4, LastCloses
<1> QED BY <1>1, <1>5 DEF hit

\* A bar trades through the stop of p.
Hit(o, p, b) == p.side * (Rules!Worst(o.oco, b, p.side) - p.stop) <= 0

LEMMA HitByTighter ==
    ASSUME NEW o, NEW p, NEW q, PositionOK(p), Tightened(o, p, q), ~o.clamp,
           NEW b, Rules!CandleOk(b), Hit(o, p, b)
    PROVE  Rules!OcoExitCheck(o, q, b) # "no"
<1> DEFINE worst == Rules!Worst(o.oco, b, p.side)
<1>1. /\ p.side \in {1, -1} /\ q.side = p.side /\ p.stop \in Int /\ q.stop \in Int
      /\ p.side * (q.stop - p.stop) >= 0
    BY DEF Tightened, PositionOK
<1>2. worst \in Int BY <1>1 DEF Rules!Worst, Rules!Best, Rules!CandleOk
<1>3. p.side * (worst - p.stop) <= 0 BY DEF Hit
<1> HIDE DEF worst
<1>4. q.side * (worst - q.stop) <= 0
    <2>1. CASE p.side = 1 BY <1>1, <1>2, <1>3, <2>1
    <2>2. CASE p.side = -1 BY <1>1, <1>2, <1>3, <2>2
    <2> QED BY <1>1, <2>1, <2>2
<1>5. q.side * (Rules!Worst(o.oco, b, q.side) - q.stop) <= 0 BY <1>1, <1>4 DEF worst
<1> QED BY <1>5 DEF Rules!OcoExitCheck

LEMMA ManageOpenOK ==
    ASSUME NEW o, Sized(o), NEW r, RunnerOK(r), Rules!IsOpen(r), NEW b, Rules!CandleOk(b), NEW room \in Int
    PROVE  LET s == Rules!ManageOpen(o, r, b, room)
           IN  /\ RunnerOK(s) /\ s.trades = r.trades
               /\ Rules!IsOpen(s) => Tightened(o, r.open, s.open)
               /\ ~o.clamp /\ Hit(o, r.open, b) => ~Rules!IsOpen(s)
<1> DEFINE p1 == Rules!Trailed(o, r.open, b)
           r1 == [r EXCEPT !.open = Rules!Trailed(o, @, b)]
           r2 == Rules!VolatilityCut(o, r1, b)
           r3 == Rules!Add(o, r2, b, room)
           r4 == Rules!ScaleUnlessAdded(o, r2, r3, b)
           s == Rules!OcoExit(o, r4, b)
<1>1. Rules!OptionsOk(o) /\ PositionOK(r.open) BY DEF Sized, RunnerOK
<1>2. Managed(o, r, r1)
    <2>1. Tightened(o, r.open, p1) BY <1>1, TrailedOK
    <2>2. r1 = [r EXCEPT !.open = p1] OBVIOUS
    <2> HIDE DEF p1, r1
    <2> QED BY <2>1, <2>2, PositionReplaced
<1> HIDE DEF r1
<1>3. Managed(o, r, r2)
    <2>1. Managed(o, r1, r2) BY <1>2, VolatilityCutOK DEF Managed
    <2> QED BY <1>2, <2>1, ManagedChains
<1> HIDE DEF r2
<1>4. Managed(o, r2, r3) BY <1>3, AddOK DEF Managed
<1> HIDE DEF r3
<1>5. Managed(o, r2, r4)
    <2>1. Managed(o, r2, Rules!ScaleOut(o, r2, b)) BY <1>3, ScaleOutOK DEF Managed
    <2> QED BY <1>4, <2>1 DEF Rules!ScaleUnlessAdded
<1> HIDE DEF r4
<1>6. Managed(o, r, r4) BY <1>3, <1>5, ManagedChains
<1>7. Rules!ManageOpen(o, r, b, room) = s
    BY DEF Rules!ManageOpen, Rules!AfterCut, r1, r2, r3, r4
<1>8. \/ s = r4 /\ Rules!OcoExitCheck(o, r4.open, b) = "no"
      \/ RunnerOK(s) /\ ~Rules!IsOpen(s) /\ s.trades = r4.trades
    BY <1>1, <1>6, OcoExitOK DEF Managed
<1> HIDE DEF s
<1>9. ~o.clamp /\ Hit(o, r.open, b) => Rules!OcoExitCheck(o, r4.open, b) # "no"
    BY <1>1, <1>6, HitByTighter DEF Managed
<1> QED BY <1>6, <1>7, <1>8, <1>9 DEF Managed

-----------------------------------------------------------------------------
(* Orders, signals and the whole step.                                     *)

LEMMA StartBarOK ==
    ASSUME NEW o, NEW r, RunnerOK(r), NEW b
    PROVE  LET s == Rules!StartBar(o, r, b)
           IN  RunnerOK(s) /\ s.open = r.open /\ s.trades = r.trades
<1> DEFINE s == Rules!StartBar(o, r, b)
<1>1. /\ DOMAIN s = RunnerFields /\ s.idx = r.idx /\ s.equity = r.equity /\ s.trades = r.trades
      /\ s.open = r.open /\ s.pending = r.pending
    BY RunnerFieldFacts DEF RunnerOK, Rules!StartBar
<1> HIDE DEF s
<1>2. RunnerOK(s) BY <1>1 DEF RunnerOK, Rules!IsOpen, Rules!IsPending
<1> QED BY <1>1, <1>2 DEF s

LEMMA ForceExitOK ==
    ASSUME NEW o, Sized(o), NEW r, RunnerOK(r), Rules!IsOpen(r), NEW price \in Int
    PROVE  LET s == Rules!ForceExit(o, r, price)
           IN  RunnerOK(s) /\ ~Rules!IsOpen(s) /\ s.trades = r.trades
<1> DEFINE f == Rules!ApplyFill(o, price, -r.open.side, "market", r.open.size)
<1>1. r.open.side \in {1, -1} /\ r.open.size \in Int /\ Rules!OptionsOk(o)
    BY DEF RunnerOK, PositionOK, Sized
<1>2. -r.open.side \in Int BY <1>1
<1>3. f.price \in Int /\ f.fee \in Int BY <1>1, <1>2, FillType
<1>4. Rules!ForceExit(o, r, price)
          = Ended(Rules!CloseLeg(o, r, r.open.size, f.price, f.fee), r.open.sig.cooldown)
    BY DEF Rules!ForceExit, Ended
<1> HIDE DEF f
<1> QED BY <1>1, <1>3, <1>4, LastCloses

\* After the exits of a bar that trades through its stop the position is over.
LEMMA ExitsOK ==
    ASSUME NEW o, Sized(o), NEW r, RunnerOK(r), NEW b, Rules!CandleOk(b), NEW room \in Int
    PROVE  LET s == Rules!Exits(o, r, b, room)
           IN  /\ RunnerOK(s) /\ s.trades = r.trades
               /\ Rules!IsOpen(s) => Rules!IsOpen(r) /\ Tightened(o, r.open, s.open)
               /\ Rules!IsOpen(r) /\ ~o.clamp /\ Hit(o, r.open, b) => ~Rules!IsOpen(s)
<1>1. b.close \in Int BY DEF Rules!CandleOk
<1>2. CASE ~Rules!IsOpen(r) BY <1>2 DEF Rules!Exits
<1>3. CASE Rules!IsOpen(r) BY <1>1, <1>3, ForceExitOK, ManageOpenOK DEF Rules!Exits
<1> QED BY <1>2, <1>3

LEMMA EntersChains ==
    ASSUME NEW r, NEW s, NEW t, RunnerOK(r), RunnerOK(s), RunnerOK(t), Enters(r, s), Enters(s, t)
    PROVE  Enters(r, t)
BY DEF Enters, RunnerOK

\* A runner whose order was replaced by none, or by one that is in order.
LEMMA OrderReplaced ==
    ASSUME NEW r, RunnerOK(r), NEW p, p.side = 0 \/ OrderOK(p)
    PROVE  LET s == [r EXCEPT !.pending = p]
           IN  RunnerOK(s) /\ Enters(r, s) /\ s.pending = p /\ s.open = r.open
<1> DEFINE s == [r EXCEPT !.pending = p]
<1>1. /\ DOMAIN s = RunnerFields /\ s.idx = r.idx /\ s.equity = r.equity /\ s.trades = r.trades
      /\ s.open = r.open /\ s.pending = p
    BY RunnerFieldFacts DEF RunnerOK
<1> HIDE DEF s
<1>2. RunnerOK(s) BY <1>1 DEF RunnerOK, Rules!IsOpen, Rules!IsPending
<1>3. Enters(r, s) BY <1>1 DEF Enters, Rules!IsOpen, RunnerOK
<1> QED BY <1>1, <1>2, <1>3 DEF s

LEMMA CancelOK ==
    ASSUME NEW r, RunnerOK(r)
    PROVE  RunnerOK(Rules!CancelPending(r)) /\ Enters(r, Rules!CancelPending(r))
BY OrderReplaced DEF Rules!CancelPending, Rules!NoPending

LEMMA SizeType ==
    ASSUME NEW o, Rules!OptionsOk(o), NEW equity \in Int, NEW entry \in Int, NEW stop \in Int
    PROVE  Rules!PositionSize(o, equity, entry, stop) \in Int
<1> DEFINE dist == Rules!Distance(entry, stop)
           byRisk == (equity * o.riskPct) \div (100 * dist)
           byLeverage == (equity * o.leverage) \div Rules!Most(1, entry)
<1>1. o.riskPct \in Int /\ o.leverage \in Int BY DEF Rules!OptionsOk
<1>2. ASSUME entry # stop PROVE byRisk \in Int
    <2>1. dist \in Int /\ dist > 0 BY <1>2, Extremes
    <2>2. 100 * dist \in Nat \ {0} BY <2>1
    <2>3. equity * o.riskPct \in Int BY <1>1
    <2> HIDE DEF dist
    <2> QED BY <2>2, <2>3, Products
<1>3. byLeverage \in Int
    <2>1. Rules!Most(1, entry) \in Nat \ {0} BY DEF Rules!Most
    <2>2. equity * o.leverage \in Int BY <1>1
    <2> QED BY <2>1, <2>2, Products
<1>4. Rules!PositionSize(o, equity, entry, stop)
          = IF equity <= 0 \/ entry = stop THEN 0
            ELSE IF Rules!Least(byRisk, byLeverage) >= o.minQty THEN Rules!Least(byRisk, byLeverage) ELSE 0
    BY DEF Rules!PositionSize
<1> HIDE DEF byRisk, byLeverage
<1>5. entry # stop => Rules!Least(byRisk, byLeverage) \in Int BY <1>2, <1>3, Extremes
<1> QED BY <1>4, <1>5

\* An order that fills is a position, or is dropped.
LEMMA OpenFromPendingOK ==
    ASSUME NEW o, Sized(o), NEW r, RunnerOK(r), ~Rules!IsOpen(r), OrderOK(r.pending),
           NEW price \in Int, NEW kind, NEW equity \in Int, NEW room \in Int
    PROVE  LET s == Rules!OpenFromPending(o, r, price, kind, equity, room)
           IN  RunnerOK(s) /\ Enters(r, s)
<1> DEFINE p == r.pending
           stop == IF o.reanchor THEN price - p.side * p.planned ELSE p.stop
           tp == IF o.reanchor /\ p.sig.rr # 0 /\ p.tp = p.entry + p.side * p.sig.rr * p.planned
                 THEN price + p.side * p.sig.rr * Rules!Distance(price, stop) ELSE p.tp
           desired == IF p.qty # 0 THEN p.qty ELSE Rules!PositionSize(o, equity, price, stop)
           size == Rules!Resolved(o, room, desired, price)
           f == Rules!ApplyFill(o, price, p.side, kind, size)
           opened == [side |-> p.side, entry |-> price, stop |-> stop, tp |-> tp,
                      size |-> size, openIdx |-> r.idx, fill |-> f.price, fee |-> f.fee,
                      init |-> size, base |-> size, mfe |-> 0, adds |-> 0,
                      risk |-> Rules!Most(1, Rules!Distance(price, stop)), realized |-> 0,
                      beArmed |-> FALSE, scaled |-> FALSE, cutDone |-> FALSE,
                      entryAtr |-> r.atr, sig |-> p.sig]
           s == [r EXCEPT
                    !.trades = @ + 1, !.dayTrades = @ + 1, !.pending = Rules!NoPending,
                    !.cash = @ - p.side * f.price * size - f.fee,
                    !.open = opened]
           result == Rules!OpenFromPending(o, r, price, kind, equity, room)
<1>1. result = Rules!CancelPending(r) \/ (~(size < o.minQty) /\ result = s)
    BY DEF Rules!OpenFromPending
<1>2. Rules!OptionsOk(o) /\ o.minQty \in Int /\ o.minQty > 0 BY DEF Sized, Rules!OptionsOk
<1>3. /\ p.side \in {1, -1} /\ p.entry \in Int /\ p.stop \in Int /\ p.tp \in Int /\ p.qty \in Int
      /\ p.planned \in Int /\ p.sig.rr \in Int
    BY DEF OrderOK, Rules!SignalRecord
<1>4. r.idx \in Int /\ r.trades \in Int /\ r.equity \in Int /\ DOMAIN r = RunnerFields BY DEF RunnerOK
<1>5. stop \in Int
    <2>1. price - p.side * p.planned \in Int BY <1>3
    <2> QED BY <1>3, <2>1
<1> HIDE DEF stop
<1>6. Rules!Distance(price, stop) \in Int BY <1>5, Extremes
<1>7. tp \in Int
    <2>1. p.side * p.sig.rr \in Int BY <1>3
    <2>2. p.side * p.sig.rr * Rules!Distance(price, stop) \in Int BY <1>6, <2>1, Products
    <2> QED BY <1>3, <2>2
<1>8. size \in Int
    <2>1. Rules!PositionSize(o, equity, price, stop) \in Int BY <1>2, <1>5, SizeType
    <2>2. desired \in Int BY <1>3, <2>1
    <2> HIDE DEF desired
    <2> QED BY <1>2, <2>2, ResolvedType
<1> HIDE DEF size, tp
<1>9. f.price \in Int /\ f.fee \in Int BY <1>2, <1>3, <1>8, FillType
<1> HIDE DEF f
<1>10. Rules!Most(1, Rules!Distance(price, stop)) \in Int BY <1>6, Extremes
<1>11. CASE ~(size < o.minQty) /\ result = s
    <2>1. size > 0 BY <1>2, <1>8, <1>11
    <2>2. PositionOK(opened)
        BY <1>3, <1>4, <1>5, <1>7, <1>8, <1>9, <1>10, <2>1 DEF PositionOK, PositionFields
    <2>3. opened.side = p.side OBVIOUS
    <2> HIDE DEF opened
    <2>4. /\ DOMAIN s = RunnerFields /\ s.idx = r.idx /\ s.equity = r.equity /\ s.trades = r.trades + 1
          /\ s.open = opened /\ s.pending = Rules!NoPending
        BY <1>4, RunnerFieldFacts
    <2> HIDE DEF s
    <2>5. RunnerOK(s) BY <1>4, <2>2, <2>4 DEF RunnerOK, Rules!IsPending, Rules!NoPending
    <2>6. Enters(r, s) BY <1>4, <2>4 DEF Enters
    <2> QED BY <1>11, <2>5, <2>6
<1>12. CASE result = Rules!CancelPending(r) BY <1>12, CancelOK
<1> QED BY <1>1, <1>11, <1>12

LEMMA ChaseOK ==
    ASSUME NEW o, Sized(o), NEW r, RunnerOK(r), ~Rules!IsOpen(r), OrderOK(r.pending),
           NEW b, Rules!CandleOk(b), NEW equity \in Int, NEW room \in Int
    PROVE  LET s == Rules!Chase(o, r, b, equity, room) IN RunnerOK(s) /\ Enters(r, s)
<1> DEFINE p == r.pending
           moves == ~p.chased /\ p.sig.mid # 0 /\ r.idx - p.startedAt >= Rules!Most(1, o.chaseAfter)
           q == IF moves THEN [p EXCEPT !.entry = p.sig.mid, !.chased = TRUE] ELSE p
           moved == [r EXCEPT !.pending = q]
           filled == Rules!OpenFromPending(o, moved, b.close, "market", equity, room)
           s == Rules!Chase(o, r, b, equity, room)
<1>1. s \in {r, Rules!CancelPending(r), filled, moved} BY DEF Rules!Chase
<1>2. OrderOK(q)
    <2> DEFINE t == [p EXCEPT !.entry = p.sig.mid, !.chased = TRUE]
    <2>1. p.sig.mid \in Int BY DEF OrderOK, Rules!SignalRecord
    <2>2. /\ DOMAIN t = OrderFields /\ t.side = p.side /\ t.entry = p.sig.mid /\ t.stop = p.stop
          /\ t.tp = p.tp /\ t.qty = p.qty /\ t.planned = p.planned /\ t.sig = p.sig
        BY DEF OrderOK, OrderFields
    <2> HIDE DEF t
    <2>3. OrderOK(t) BY <2>1, <2>2 DEF OrderOK
    <2> QED BY <2>3 DEF t
<1> HIDE DEF q
<1>3. RunnerOK(moved) /\ Enters(r, moved) /\ moved.pending = q /\ moved.open = r.open
    BY <1>2, OrderReplaced
<1>4. ~Rules!IsOpen(moved) BY <1>3 DEF Rules!IsOpen
<1> HIDE DEF moved
<1>5. b.close \in Int BY DEF Rules!CandleOk
<1>6. RunnerOK(filled) /\ Enters(moved, filled) BY <1>2, <1>3, <1>4, <1>5, OpenFromPendingOK
<1> HIDE DEF filled
<1>7. Enters(r, filled) BY <1>3, <1>6, EntersChains
<1>8. Enters(r, r) BY DEF Enters, RunnerOK
<1> HIDE DEF s
<1> QED BY <1>1, <1>3, <1>6, <1>7, <1>8, CancelOK DEF s

LEMMA ManagePendingOK ==
    ASSUME NEW o, Sized(o), NEW r, RunnerOK(r), NEW b, Rules!CandleOk(b), NEW equity \in Int, NEW can, NEW room \in Int
    PROVE  LET s == Rules!ManagePending(o, r, b, equity, can, room)
           IN  RunnerOK(s) /\ Enters(r, s)
<1> DEFINE s == Rules!ManagePending(o, r, b, equity, can, room)
<1>1. Enters(r, r) BY DEF Enters, RunnerOK
<1>2. CASE Rules!IsOpen(r) \/ ~Rules!IsPending(r) BY <1>1, <1>2 DEF Rules!ManagePending
<1>3. CASE ~Rules!IsOpen(r) /\ Rules!IsPending(r)
    <2>1. OrderOK(r.pending) BY <1>3 DEF RunnerOK
    <2>2. b.close \in Int /\ r.pending.entry \in Int BY <2>1 DEF Rules!CandleOk, OrderOK
    <2>3. LET t == Rules!OpenFromPending(o, r, b.close, "market", equity, room)
          IN  RunnerOK(t) /\ Enters(r, t)
        BY <1>3, <2>1, <2>2, OpenFromPendingOK
    <2>4. LET t == Rules!OpenFromPending(o, r, r.pending.entry, "limit", equity, room)
          IN  RunnerOK(t) /\ Enters(r, t)
        BY <1>3, <2>1, <2>2, OpenFromPendingOK
    <2>5. LET t == Rules!Chase(o, r, b, equity, room) IN RunnerOK(t) /\ Enters(r, t)
        BY <1>3, <2>1, ChaseOK
    <2> QED BY <1>1, <2>3, <2>4, <2>5, CancelOK DEF Rules!ManagePending
<1> QED BY <1>2, <1>3

Raws == Rules!SignalRecord \cup {Rules!NoSignal}

LEMMA NormalizeOK ==
    ASSUME NEW o, Rules!OptionsOk(o), NEW raw \in Raws, NEW b, b.close \in Int
    PROVE  Rules!NormalizeSignal(o, raw, b) \in Raws
<1>1. CASE raw = Rules!NoSignal
    <2>1. raw.side = 0 BY <1>1 DEF Rules!NoSignal
    <2> QED BY <2>1 DEF Rules!NormalizeSignal, Raws
<1>2. CASE raw \in Rules!SignalRecord
    <2> DEFINE entry == IF raw.entry = 0 THEN b.close ELSE raw.entry
               rr == IF raw.rr = 0 THEN o.finalR ELSE raw.rr
               tp == IF raw.tp = 0 /\ rr > 0 THEN entry + raw.side * rr * Rules!Distance(entry, raw.stop)
                     ELSE raw.tp
    <2>1. /\ raw.side \in {1, -1} /\ raw.entry \in Int /\ raw.stop \in Int /\ raw.tp \in Int
          /\ raw.rr \in Int /\ b.close \in Int /\ o.finalR \in Int
        BY <1>2 DEF Rules!SignalRecord, Rules!OptionsOk
    <2>2. entry \in Int /\ rr \in Int BY <2>1
    <2> HIDE DEF entry, rr
    <2>3. Rules!Distance(entry, raw.stop) \in Int BY <2>1, <2>2, Extremes
    <2>4. raw.side * rr * Rules!Distance(entry, raw.stop) \in Int
        <3>1. raw.side * rr \in Int BY <2>1, <2>2
        <3> QED BY <2>3, <3>1, Products
    <2>5. tp \in Int BY <2>1, <2>2, <2>4
    <2> HIDE DEF tp
    <2>6. [raw EXCEPT !.entry = entry] \in Rules!SignalRecord BY <1>2, <2>2 DEF Rules!SignalRecord
    <2>7. [[raw EXCEPT !.entry = entry] EXCEPT !.tp = tp] \in Rules!SignalRecord
        BY <2>5, <2>6 DEF Rules!SignalRecord
    <2>8. [raw EXCEPT !.entry = entry, !.tp = tp] = [[raw EXCEPT !.entry = entry] EXCEPT !.tp = tp] OBVIOUS
    <2>9. Rules!NormalizeSignal(o, raw, b) \in {Rules!NoSignal, [raw EXCEPT !.entry = entry, !.tp = tp]}
        BY DEF Rules!NormalizeSignal, entry, rr, tp
    <2> QED BY <2>7, <2>8, <2>9 DEF Raws
<1> QED BY <1>1, <1>2 DEF Raws

LEMMA ApplyRawSignalOK ==
    ASSUME NEW o, Sized(o), NEW r, RunnerOK(r), ~Rules!IsOpen(r), NEW raw \in Raws,
           NEW b, Rules!CandleOk(b), NEW equity \in Int, NEW room \in Int
    PROVE  LET s == Rules!ApplyRawSignal(o, r, raw, b, equity, room)
           IN  RunnerOK(s) /\ Enters(r, s)
<1> DEFINE n == Rules!NormalizeSignal(o, raw, b)
           order == [side |-> n.side, entry |-> n.entry, stop |-> n.stop, tp |-> n.tp, qty |-> n.qty,
                     expiresAt |-> r.idx + Rules!Most(1, IF n.expiry = 0 THEN 5 ELSE n.expiry),
                     startedAt |-> r.idx, chased |-> FALSE,
                     planned |-> Rules!Distance(n.entry, n.stop), sig |-> n]
           placed == [r EXCEPT !.pending = order]
           filled == Rules!OpenFromPending(o, placed, n.entry, "limit", equity, room)
           s == Rules!ApplyRawSignal(o, r, raw, b, equity, room)
<1>1. s = IF n = Rules!NoSignal THEN r
          ELSE IF Rules!TouchedLimit(o, n.side, n.entry, b) THEN filled ELSE placed
    BY DEF Rules!ApplyRawSignal
<1>2. n \in Raws BY NormalizeOK DEF Sized, Rules!CandleOk
<1>3. Enters(r, r) BY DEF Enters, RunnerOK
<1> HIDE DEF n
<1>4. CASE n # Rules!NoSignal
    <2>1. n \in Rules!SignalRecord BY <1>2, <1>4 DEF Raws
    <2>2. /\ n.side \in {1, -1} /\ n.entry \in Int /\ n.stop \in Int /\ n.tp \in Int /\ n.qty \in Int
        BY <2>1 DEF Rules!SignalRecord
    <2>3. Rules!Distance(n.entry, n.stop) \in Int BY <2>2, Extremes
    <2>4. OrderOK(order) BY <2>1, <2>2, <2>3 DEF OrderOK, OrderFields
    <2> HIDE DEF order
    <2>5. RunnerOK(placed) /\ Enters(r, placed) /\ placed.pending = order /\ placed.open = r.open
        BY <2>4, OrderReplaced
    <2>6. ~Rules!IsOpen(placed) BY <2>5 DEF Rules!IsOpen
    <2> HIDE DEF placed
    <2>7. RunnerOK(filled) /\ Enters(placed, filled) BY <2>2, <2>4, <2>5, <2>6, OpenFromPendingOK
    <2> HIDE DEF filled
    <2>8. Enters(r, filled) BY <2>5, <2>7, EntersChains
    <2> QED BY <1>1, <1>4, <2>5, <2>7, <2>8
<1>5. CASE n = Rules!NoSignal BY <1>1, <1>3, <1>5
<1> QED BY <1>4, <1>5

LEMMA AtSignalOK ==
    ASSUME NEW o, Sized(o), NEW r, RunnerOK(r), NEW raw \in Raws, NEW b, Rules!CandleOk(b),
           NEW shared \in Int, NEW can \in BOOLEAN, NEW room \in Int
    PROVE  LET s == Rules!AtSignal(o, r, b, raw, shared, can, room)
           IN  RunnerOK(s) /\ Enters(r, s) /\ (Rules!IsOpen(r) => s.open = r.open)
<1> DEFINE rested == [r EXCEPT !.cooldown = Rules!Most(0, @ - 1)]
<1>1. Rules!SizingEquity(r, shared) \in Int BY DEF Rules!SizingEquity, RunnerOK
<1>2. /\ DOMAIN rested = RunnerFields /\ rested.idx = r.idx /\ rested.equity = r.equity
      /\ rested.trades = r.trades /\ rested.open = r.open /\ rested.pending = r.pending
    BY RunnerFieldFacts DEF RunnerOK
<1> HIDE DEF rested
<1>3. RunnerOK(rested) BY <1>2 DEF RunnerOK, Rules!IsOpen, Rules!IsPending
<1>4. Enters(r, rested) /\ Enters(r, r) BY <1>2 DEF Enters, Rules!IsOpen, RunnerOK
<1>5. LET t == Rules!NoEntry(o, r, can) IN RunnerOK(t) /\ Enters(r, t) /\ (Rules!IsOpen(r) => t.open = r.open)
    <2>1. Rules!NoEntry(o, r, can) \in {rested, Rules!CancelPending(r), r}
          /\ (Rules!IsOpen(r) => Rules!NoEntry(o, r, can) = rested)
        BY DEF Rules!NoEntry, rested
    <2> QED BY <1>2, <1>3, <1>4, <2>1, CancelOK
<1>6. CASE Rules!AsksSignal(o, r, can)
    <2>1. ~Rules!IsOpen(r) BY <1>6 DEF Rules!AsksSignal
    <2> QED BY <1>1, <1>6, <2>1, ApplyRawSignalOK DEF Rules!AtSignal
<1>7. CASE ~Rules!AsksSignal(o, r, can) BY <1>5, <1>7 DEF Rules!AtSignal
<1> QED BY <1>6, <1>7

\* A whole bar: types, and what a bar beyond the stop does.
LEMMA StepOK ==
    ASSUME NEW o, Sized(o), NEW r, RunnerOK(r), NEW raw \in Raws, NEW b, Rules!CandleOk(b),
           NEW shared \in Int, NEW can \in BOOLEAN, NEW room \in Int
    PROVE  LET s == Rules!Step(o, r, b, raw, shared, can, room)
           IN  /\ RunnerOK(s)
               /\ Rules!IsOpen(r) /\ ~o.clamp /\ Hit(o, r.open, b)
                     => ~Rules!IsOpen(s) \/ s.trades > r.trades
               /\ Rules!IsOpen(r) /\ Rules!IsOpen(s) /\ s.trades = r.trades
                     => Tightened(o, r.open, s.open)
<1> DEFINE started == Rules!StartBar(o, r, b)
           exited == Rules!Exits(o, started, b, room)
           managed == Rules!ManagePending(o, exited, b, Rules!SizingEquity(exited, shared), can, room)
           signalled == Rules!AtSignal(o, managed, b, raw, shared, can, room)
           s == [signalled EXCEPT !.idx = @ + 1]
<1>1. Rules!Step(o, r, b, raw, shared, can, room) = s
    BY DEF Rules!Step, Rules!PreSignal, Rules!AfterExits
<1>2. RunnerOK(started) /\ started.open = r.open /\ started.trades = r.trades BY StartBarOK
<1>3. Rules!IsOpen(started) <=> Rules!IsOpen(r) BY <1>2 DEF Rules!IsOpen
<1> HIDE DEF started
<1>4. /\ RunnerOK(exited) /\ exited.trades = r.trades
      /\ Rules!IsOpen(r) /\ ~o.clamp /\ Hit(o, r.open, b) => ~Rules!IsOpen(exited)
      /\ Rules!IsOpen(exited) => Tightened(o, r.open, exited.open)
    BY <1>2, <1>3, ExitsOK
<1> HIDE DEF exited
<1>5. Rules!SizingEquity(exited, shared) \in Int BY <1>4 DEF Rules!SizingEquity, RunnerOK
<1>6. RunnerOK(managed) /\ Enters(exited, managed) BY <1>4, <1>5, ManagePendingOK
<1>12. Rules!IsOpen(exited) => managed = exited BY DEF Rules!ManagePending
<1> HIDE DEF managed
<1>7. /\ RunnerOK(signalled) /\ Enters(managed, signalled)
      /\ Rules!IsOpen(managed) => signalled.open = managed.open
    BY <1>6, AtSignalOK
<1> HIDE DEF signalled
<1>8. Enters(exited, signalled) BY <1>4, <1>6, <1>7, EntersChains
<1>9. /\ DOMAIN s = RunnerFields /\ s.idx = signalled.idx + 1 /\ s.equity = signalled.equity
      /\ s.trades = signalled.trades /\ s.open = signalled.open /\ s.pending = signalled.pending
    BY <1>7, RunnerFieldFacts DEF RunnerOK
<1> HIDE DEF s
<1>10. RunnerOK(s) BY <1>7, <1>9 DEF RunnerOK, Rules!IsOpen, Rules!IsPending
<1>11. Rules!IsOpen(s) <=> Rules!IsOpen(signalled) BY <1>9 DEF Rules!IsOpen
<1>13. Rules!IsOpen(exited) => s.open = exited.open BY <1>7, <1>9, <1>12
<1>14. Rules!IsOpen(s) /\ s.trades = r.trades => Rules!IsOpen(exited)
    BY <1>4, <1>7, <1>8, <1>9, <1>11 DEF Enters, RunnerOK
<1> QED BY <1>1, <1>4, <1>8, <1>9, <1>10, <1>11, <1>13, <1>14 DEF Enters

\* A runner of the options it was made with, whose numbers are numbers.
RunnerInv == options \in RunnerOptions /\ RunnerOK(runner)

LEMMA RunnerInvInit == RunnerInit => RunnerInv
<1> SUFFICES ASSUME RunnerInit PROVE RunnerInv OBVIOUS
<1> DEFINE n == Rules!NewRunner(RunnerEquity)
<1>1. /\ DOMAIN n = RunnerFields /\ n.idx = 1 /\ n.equity = RunnerEquity /\ n.trades = 0
      /\ n.open = Rules!NoPosition /\ n.pending = Rules!NoPending
    BY RunnerFieldFacts DEF Rules!NewRunner
<1> HIDE DEF n
<1>2. ~Rules!IsOpen(n) /\ ~Rules!IsPending(n)
    BY <1>1 DEF Rules!IsOpen, Rules!IsPending, Rules!NoPosition, Rules!NoPending
<1>3. RunnerOK(n) BY <1>1, <1>2, RunnerAssumption DEF RunnerOK
<1> QED BY <1>3 DEF RunnerInit, RunnerInv, n

\* Every option record asks for a positive size; with a minimum of zero the
\* code may open a position of no size, and divides by it when it closes.
SizesOK == \A o \in RunnerOptions : o.minQty > 0

LEMMA RunnerStepOK ==
    ASSUME SizesOK, RunnerInv, NEW shape \in BarShapes, NEW raw \in RawSignals \cup {Rules!NoSignal},
           RunnerStep(shape, raw)
    PROVE  /\ RunnerInv'
           /\ Rules!IsOpen(runner) /\ ~options.clamp
                /\ runner.open.side * (Rules!Worst(options.oco, lastShape', runner.open.side)
                                           - runner.open.stop) <= 0
              => ~Rules!IsOpen(runner') \/ runner'.trades > runner.trades
           /\ Rules!IsOpen(runner) /\ Rules!IsOpen(runner') /\ runner'.trades = runner.trades
              => Tightened(options, runner.open, runner'.open)
<1> DEFINE b == BarAt(shape, runner.idx)
<1>1. Sized(options) BY RunnerAssumption DEF Sized, SizesOK, RunnerInv
<1>2. Rules!CandleOk(shape) /\ raw \in Raws BY RunnerAssumption DEF Raws
<1>3. b.low = shape.low /\ b.high = shape.high /\ b.close = shape.close /\ b.atr = shape.atr
    BY DEF BarAt
<1>4. PICK shared, can, room : shared = 0 /\ can = TRUE /\ room = Rules!NoRoom OBVIOUS
<1>5. shared \in Int /\ can \in BOOLEAN /\ room \in Int BY <1>4, NoRoomType
<1>6. runner' = Rules!Step(options, runner, b, raw, shared, can, room)
      /\ lastShape' = shape /\ options' = options
    BY <1>4 DEF RunnerStep
<1> HIDE DEF b
<1>7. Rules!CandleOk(b) BY <1>2, <1>3 DEF Rules!CandleOk
<1>8. \A side : Rules!Worst(options.oco, shape, side) = Rules!Worst(options.oco, b, side)
    BY <1>3 DEF Rules!Worst, Rules!Best
<1>9. /\ RunnerOK(runner')
      /\ Rules!IsOpen(runner) /\ ~options.clamp /\ Hit(options, runner.open, b)
            => ~Rules!IsOpen(runner') \/ runner'.trades > runner.trades
      /\ Rules!IsOpen(runner) /\ Rules!IsOpen(runner') /\ runner'.trades = runner.trades
            => Tightened(options, runner.open, runner'.open)
    BY <1>1, <1>2, <1>6, <1>7, <1>5, StepOK DEF RunnerInv
<1>10. RunnerInv' BY <1>6, <1>9 DEF RunnerInv
<1> QED BY <1>6, <1>8, <1>9, <1>10 DEF Hit

LEMMA RunnerKeepsInv == ASSUME SizesOK, RunnerInv, [RunnerNext]_runnerVars PROVE RunnerInv'
<1>1. CASE RunnerNext BY <1>1, RunnerStepOK DEF RunnerNext
<1>2. CASE UNCHANGED runnerVars BY <1>2 DEF runnerVars, RunnerInv
<1> QED BY <1>1, <1>2

\* Where stops are not clamped to the close, a bar that trades through the
\* stop a position had before it ends the position, whatever the trails, the
\* cut, the pyramid entry and the scale-out of that bar do to it
\* (backtest.py:759-1006), for any options, bars and signals.
THEOREM StopsBind == SizesOK => (RunnerSpec => StopBinds)
<1> SUFFICES ASSUME SizesOK PROVE RunnerSpec => StopBinds OBVIOUS
<1>1. RunnerInv /\ [RunnerNext]_runnerVars => RunnerInv' BY RunnerKeepsInv
<1>2. RunnerInv /\ [RunnerNext]_runnerVars =>
        [(Rules!IsOpen(runner) /\ ~options.clamp
            /\ runner.open.side * (Rules!Worst(options.oco, lastShape', runner.open.side)
                                       - runner.open.stop) <= 0)
        => (~Rules!IsOpen(runner') \/ runner'.trades > runner.trades)]_runnerVars
    BY RunnerStepOK DEF RunnerNext
<1> QED BY <1>1, <1>2, RunnerInvInit, PTL DEF RunnerSpec, StopBinds

\* No option record clamps stops to the near side of the close.
Unclamped == \A o \in RunnerOptions : ~o.clamp

\* Without the clamp a position's stop only ever moves in its favour: the
\* clamp of tighten() and _tighten_breakeven (backtest.py:785-797) is the one
\* reason why it may move away from the price.
THEOREM StopsTighten == SizesOK /\ Unclamped => (RunnerSpec => TighteningKeepsStop)
<1> SUFFICES ASSUME SizesOK, Unclamped PROVE RunnerSpec => TighteningKeepsStop OBVIOUS
<1>1. RunnerInv /\ [RunnerNext]_runnerVars => RunnerInv' BY RunnerKeepsInv
<1>2. RunnerInv /\ [RunnerNext]_runnerVars =>
        [(Rules!IsOpen(runner) /\ Rules!IsOpen(runner') /\ runner'.trades = runner.trades)
            => runner.open.side * (runner'.open.stop - runner.open.stop) >= 0]_runnerVars
    BY RunnerStepOK DEF RunnerNext, RunnerInv, Unclamped, Tightened
<1> QED BY <1>1, <1>2, RunnerInvInit, PTL DEF RunnerSpec, TighteningKeepsStop

-----------------------------------------------------------------------------
(* The equity of a runner is what its trades moved.                        *)

\* Options whose commission is an amount per unit, as the shares in which the
\* code charges it to the legs presume.
Proportional(o) == Sized(o) /\ o.perUnit >= 0 /\ o.perOrder = 0 /\ o.minCommission <= 0

\* What an open position is worth at its average fill, with the fees it has
\* yet to be charged.
Stake(o, p) == p.side * p.fill * p.size + o.perUnit * p.size

BooksOK(o, r) ==
    /\ r.cash \in Int
    /\ r.equity = RunnerEquity + r.cash + (IF Rules!IsOpen(r) THEN Stake(o, r.open) ELSE 0)
    /\ Rules!IsOpen(r) => r.open.fee = o.perUnit * r.open.init

\* A runner whose types and books are in order.
Balanced(o, r) == RunnerOK(r) /\ BooksOK(o, r)

SameStake(p, q) ==
    /\ q.side = p.side /\ q.fill = p.fill /\ q.size = p.size /\ q.fee = p.fee /\ q.init = p.init
    /\ q.entry = p.entry /\ q.adds = p.adds /\ q.risk = p.risk

LEMMA ProportionalFee ==
    ASSUME NEW o, Proportional(o), NEW price, NEW dir, NEW kind, NEW qty \in Nat
    PROVE  Rules!ApplyFill(o, price, dir, kind, qty).fee = o.perUnit * qty
<1>1. /\ o.perUnit \in Nat /\ o.perOrder = 0 /\ o.minCommission \in Int /\ o.minCommission <= 0
    BY DEF Proportional, Sized, Rules!OptionsOk
<1>2. PICK g : g = o.perUnit * qty OBVIOUS
<1>3. g \in Nat BY <1>1, <1>2
<1>4. Rules!Most(o.minCommission, g + o.perOrder) = g BY <1>1, <1>3 DEF Rules!Most
<1> QED BY <1>2, <1>4 DEF Rules!ApplyFill

\* A share of a fee that is so much a unit is so much for each of its units.
LEMMA ExactShares ==
    ASSUME NEW u \in Int, NEW q \in Int, NEW n \in Nat \ {0}
    PROVE  ((u * n) * q) \div n = u * q
<1>1. PICK m : m = u * q OBVIOUS
<1>2. m \in Int /\ (u * n) * q = n * m BY <1>1
<1>3. (n * m) \div n = m BY <1>2
<1> QED BY <1>1, <1>2, <1>3

\* What is left of r's books in s when n units of the position are.
Leaves(o, r, n, s) ==
    /\ s.cash \in Int
    /\ s.equity = RunnerEquity + s.cash + (r.open.side * r.open.fill * n + o.perUnit * n)

LEMMA CloseLegBooks ==
    ASSUME NEW o, Proportional(o), NEW r, Balanced(o, r), Rules!IsOpen(r),
           NEW qty \in Int, NEW price \in Int, NEW fee \in Int
    PROVE  Leaves(o, r, r.open.size - qty, Rules!CloseLeg(o, r, qty, price, fee))
<1> DEFINE p == r.open
           financing == Rules!FinancingCost(o, p.side, p.fill * qty, p.openIdx, r.idx)
           share == (p.fee * qty) \div p.init
           pnl == (price - p.fill) * p.side * qty - share - fee - financing
<1>1. /\ p.side \in {1, -1} /\ p.fill \in Int /\ p.openIdx \in Int /\ p.size \in Int
      /\ p.init \in Nat \ {0} /\ r.idx \in Int /\ r.equity \in Int /\ DOMAIN r = RunnerFields
    BY DEF Balanced, RunnerOK, PositionOK
<1>2. /\ r.cash \in Int /\ p.fee = o.perUnit * p.init
      /\ r.equity = RunnerEquity + r.cash + (p.side * p.fill * p.size + o.perUnit * p.size)
    BY DEF Balanced, BooksOK, Stake
<1>3. Rules!OptionsOk(o) /\ o.perUnit \in Int BY DEF Proportional, Sized, Rules!OptionsOk
<1>4. financing \in Int
    <2>1. p.fill * qty \in Int /\ p.side \in Int BY <1>1, Products
    <2> QED BY <1>1, <1>3, <2>1, FinancingType
<1>5. share = o.perUnit * qty BY <1>1, <1>2, <1>3, ExactShares
<1>6. Rules!CloseLeg(o, r, qty, price, fee)
          = [r EXCEPT !.equity = @ + pnl, !.dayPnl = @ + pnl,
                      !.cash = @ + p.side * price * qty - fee - financing,
                      !.open.size = @ - qty, !.open.realized = @ + pnl]
    BY DEF Rules!CloseLeg
<1> HIDE DEF financing, share
<1>7. PICK d, F, n, u, c, e, x : /\ d = p.side /\ F = p.fill /\ n = p.size /\ u = o.perUnit
                                 /\ c = r.cash /\ e = r.equity /\ x = financing
    OBVIOUS
<1>8. PICK gain, paid : /\ gain = (price - F) * d * qty - u * qty - fee - x
                        /\ paid = d * price * qty - fee - x
    OBVIOUS
<1>9. pnl = gain BY <1>5, <1>7, <1>8
<1> HIDE DEF pnl
<1>10. LET s == Rules!CloseLeg(o, r, qty, price, fee)
       IN  s.equity = e + gain /\ s.cash = c + d * price * qty - fee - x
    BY <1>1, <1>6, <1>7, <1>9, RunnerFieldFacts
<1> HIDE DEF p
<1>11. RunnerEquity \in Int BY RunnerAssumption
<1>12. e = RunnerEquity + c + (d * F * n + u * n) BY <1>2, <1>7
<1>13. /\ d \in {1, -1} /\ F \in Int /\ n \in Int /\ u \in Int /\ c \in Int /\ e \in Int /\ x \in Int
    BY <1>1, <1>2, <1>3, <1>4, <1>7
<1>14. /\ c + d * price * qty - fee - x \in Int
       /\ e + gain = RunnerEquity + (c + d * price * qty - fee - x) + (d * F * (n - qty) + u * (n - qty))
    <2>1. CASE d = 1 BY <1>8, <1>11, <1>12, <1>13, <2>1
    <2>2. CASE d = -1 BY <1>8, <1>11, <1>12, <1>13, <2>2
    <2> QED BY <1>13, <2>1, <2>2
<1> QED BY <1>7, <1>10, <1>14 DEF p, Leaves

LEMMA PartBooks ==
    ASSUME NEW o, Proportional(o), NEW r, Balanced(o, r), Rules!IsOpen(r),
           NEW qty \in Int, qty < r.open.size, NEW price \in Int, NEW fee \in Int
    PROVE  LET s == Rules!CloseLeg(o, r, qty, price, fee) IN Balanced(o, s) /\ Rules!IsOpen(s)
<1> DEFINE s == Rules!CloseLeg(o, r, qty, price, fee)
           rest == r.open.size - qty
<1>1. Rules!OptionsOk(o) /\ RunnerOK(r) BY DEF Proportional, Sized, Balanced
<1>2. RunnerOK(s) /\ Rules!IsOpen(s) BY <1>1, PartCloses
<1>3. s.open.size = rest /\ \A f \in PositionFields \ {"size", "realized"} : s.open[f] = r.open[f]
    BY <1>1, CloseLegType
<1>4. Leaves(o, r, rest, s) BY CloseLegBooks
<1>5. r.open.fee = o.perUnit * r.open.init BY DEF Balanced, BooksOK
<1> HIDE DEF s, rest
<1>6. s.open.side = r.open.side /\ s.open.fill = r.open.fill /\ s.open.fee = r.open.fee
      /\ s.open.init = r.open.init
    BY <1>3 DEF PositionFields
<1>7. BooksOK(o, s) BY <1>2, <1>3, <1>4, <1>5, <1>6 DEF BooksOK, Stake, Leaves
<1> QED BY <1>2, <1>7 DEF Balanced, s

LEMMA LastBooks ==
    ASSUME NEW o, Proportional(o), NEW r, Balanced(o, r), Rules!IsOpen(r),
           NEW price \in Int, NEW fee \in Int, NEW cooldown
    PROVE  Balanced(o, Ended(Rules!CloseLeg(o, r, r.open.size, price, fee), cooldown))
<1> DEFINE n == r.open.size
           leg == Rules!CloseLeg(o, r, n, price, fee)
           s == Ended(leg, cooldown)
<1>1. Rules!OptionsOk(o) /\ RunnerOK(r) BY DEF Proportional, Sized, Balanced
<1>2. RunnerOK(s) /\ ~Rules!IsOpen(s) BY <1>1, LastCloses
<1>3. n \in Int /\ n - n = 0 BY <1>1 DEF RunnerOK, PositionOK
<1>4. Leaves(o, r, n - n, leg) BY <1>3, CloseLegBooks
<1>5. DOMAIN leg = RunnerFields BY <1>1, <1>3, CloseLegType
<1> HIDE DEF leg, n
<1>6. s.cash = leg.cash /\ s.equity = leg.equity BY <1>5, RunnerFieldFacts DEF Ended
<1>7. r.open.side \in Int /\ r.open.fill \in Int /\ o.perUnit \in Int
    BY <1>1 DEF RunnerOK, PositionOK, Rules!OptionsOk
<1>8. r.open.side * r.open.fill * (n - n) + o.perUnit * (n - n) = 0 BY <1>3, <1>7
<1> HIDE DEF s
<1>9. BooksOK(o, s) BY <1>2, <1>4, <1>6, <1>8 DEF BooksOK, Leaves
<1> QED BY <1>2, <1>9 DEF Balanced, s, leg, n

\* A position record that differs in nothing the books hold.
LEMMA StakeKept ==
    ASSUME NEW o, NEW r, Balanced(o, r), Rules!IsOpen(r), NEW p, SameStake(r.open, p),
           RunnerOK([r EXCEPT !.open = p])
    PROVE  Balanced(o, [r EXCEPT !.open = p])
<1> DEFINE s == [r EXCEPT !.open = p]
<1>1. DOMAIN r = RunnerFields BY DEF Balanced, RunnerOK
<1>2. s.equity = r.equity /\ s.open = p /\ s.cash = r.cash BY <1>1, RunnerFieldFacts
<1> HIDE DEF s
<1>3. Rules!IsOpen(s) BY <1>2 DEF Rules!IsOpen, SameStake
<1>4. Stake(o, p) = Stake(o, r.open) BY DEF Stake, SameStake
<1>5. BooksOK(o, s) BY <1>2, <1>3, <1>4 DEF Balanced, BooksOK, SameStake
<1> QED BY <1>5 DEF Balanced, s

\* Stops move without the books.
LEMMA TightenStake ==
    ASSUME NEW o, NEW p, NEW b, NEW candidate
    PROVE  SameStake(p, Rules!Tighten(o, p, b, candidate))
BY DEF Rules!Tighten, SameStake

LEMMA BreakevenStake == ASSUME NEW o, NEW p, NEW b PROVE SameStake(p, Rules!Breakeven(o, p, b))
BY TightenStake DEF Rules!Breakeven, SameStake

LEMMA TrailedStake == ASSUME NEW o, NEW p, NEW b PROVE SameStake(p, Rules!Trailed(o, p, b))
<1> DEFINE p0 == [p EXCEPT !.mfe = Rules!Most(@, Rules!Excursion(p, b))]
           p1 == Rules!BreakevenStop(o, p0, b)
           p2 == Rules!TrailStop(o, p1, b)
           p3 == Rules!ExcursionStop(o, p2, b)
           p4 == Rules!AtrStop(o, p3, b)
<1>1. Rules!Trailed(o, p, b) = p4 BY DEF Rules!Trailed
<1>2. SameStake(p, p0) BY DEF SameStake
<1> HIDE DEF p0
<1>3. SameStake(p0, p1)
    <2> DEFINE t == Rules!Tighten(o, p0, b, p0.entry)
    <2>1. SameStake(p0, t) BY TightenStake
    <2> HIDE DEF t
    <2>2. SameStake(p0, [t EXCEPT !.beArmed = TRUE]) BY <2>1 DEF SameStake
    <2> QED BY <2>2 DEF Rules!BreakevenStop, SameStake, t
<1> HIDE DEF p1
<1>4. SameStake(p1, p2) BY TightenStake DEF Rules!TrailStop, SameStake
<1> HIDE DEF p2
<1>5. SameStake(p2, p3) BY TightenStake DEF Rules!ExcursionStop, SameStake
<1> HIDE DEF p3
<1>6. SameStake(p3, p4) BY TightenStake DEF Rules!AtrStop, SameStake
<1> HIDE DEF p4
<1> QED BY <1>1, <1>2, <1>3, <1>4, <1>5, <1>6 DEF SameStake

LEMMA VolatilityCutBooks ==
    ASSUME NEW o, Proportional(o), NEW r, Balanced(o, r), Rules!IsOpen(r), NEW b, Rules!CandleOk(b)
    PROVE  LET s == Rules!VolatilityCut(o, r, b) IN Balanced(o, s) /\ Rules!IsOpen(s)
<1> DEFINE p == r.open
           qty == p.size \div o.cutDivisor
           f == Rules!ApplyFill(o, b.close, -p.side, "market", qty)
           cut == Rules!CloseLeg(o, r, qty, f.price, f.fee)
           even == Rules!Breakeven(o, cut.open, b)
           done == [even EXCEPT !.cutDone = TRUE]
           s == Rules!VolatilityCut(o, r, b)
<1>1. s = r \/ (qty < p.size /\ s = [cut EXCEPT !.open = done]) BY DEF Rules!VolatilityCut
<1>2. Sized(o) /\ Rules!OptionsOk(o) /\ RunnerOK(r) BY DEF Proportional, Sized, Balanced
<1>3. Managed(o, r, s) BY <1>2, VolatilityCutOK
<1>4. p.size \in Int /\ p.side \in {1, -1} /\ b.close \in Int /\ o.cutDivisor \in Nat \ {0}
    BY <1>2 DEF RunnerOK, PositionOK, Rules!CandleOk, Rules!OptionsOk
<1>5. qty \in Int BY <1>4, Products
<1> HIDE DEF qty, s
<1>6. f.price \in Int /\ f.fee \in Int
    <2>1. -p.side \in Int BY <1>4
    <2> QED BY <1>2, <1>4, <1>5, <2>1, FillType
<1> HIDE DEF f
<1>7. CASE qty < p.size /\ s = [cut EXCEPT !.open = done]
    <2>1. Balanced(o, cut) /\ Rules!IsOpen(cut) BY <1>5, <1>6, <1>7, PartBooks
    <2> HIDE DEF cut
    <2>2. SameStake(cut.open, even) BY BreakevenStake
    <2> HIDE DEF even
    <2>3. SameStake(cut.open, done) BY <2>2 DEF SameStake
    <2> HIDE DEF done
    <2>4. Balanced(o, s) BY <1>3, <1>7, <2>1, <2>3, StakeKept DEF Managed
    <2> QED BY <1>3, <2>4 DEF Managed, s
<1>8. CASE s = r BY <1>8 DEF s
<1> QED BY <1>1, <1>7, <1>8 DEF s

LEMMA ScaleOutBooks ==
    ASSUME NEW o, Proportional(o), NEW r, Balanced(o, r), Rules!IsOpen(r), NEW b, Rules!CandleOk(b)
    PROVE  LET s == Rules!ScaleOut(o, r, b) IN Balanced(o, s) /\ Rules!IsOpen(s)
<1> DEFINE p == r.open
           price == p.entry + p.side * o.scaleOutAt * p.risk
           qty == p.size \div o.scaleOutDivisor
           f == Rules!ApplyFill(o, price, -p.side, "limit", qty)
           scaled == Rules!CloseLeg(o, r, qty, f.price, f.fee)
           target == [scaled.open EXCEPT !.scaled = TRUE, !.tp = p.entry + p.side * o.finalR * p.risk]
           even == Rules!Breakeven(o, target, b)
           done == [even EXCEPT !.beArmed = TRUE]
           s == Rules!ScaleOut(o, r, b)
<1>1. s = r \/ (qty < p.size /\ s = [scaled EXCEPT !.open = done]) BY DEF Rules!ScaleOut
<1>2. Sized(o) /\ Rules!OptionsOk(o) /\ RunnerOK(r) BY DEF Proportional, Sized, Balanced
<1>3. Managed(o, r, s) BY <1>2, ScaleOutOK
<1>4. /\ p.size \in Int /\ p.side \in {1, -1} /\ p.entry \in Int /\ p.risk \in Int
      /\ o.scaleOutDivisor \in Nat \ {0} /\ o.scaleOutAt \in Int
    BY <1>2 DEF RunnerOK, PositionOK, Rules!OptionsOk
<1>5. qty \in Int BY <1>4, Products
<1>6. price \in Int
    <2>1. p.side * o.scaleOutAt * p.risk \in Int BY <1>4
    <2> QED BY <1>4, <2>1
<1> HIDE DEF qty, price, s
<1>7. f.price \in Int /\ f.fee \in Int
    <2>1. -p.side \in Int BY <1>4
    <2> QED BY <1>2, <1>5, <1>6, <2>1, FillType
<1> HIDE DEF f
<1>8. CASE qty < p.size /\ s = [scaled EXCEPT !.open = done]
    <2>1. Balanced(o, scaled) /\ Rules!IsOpen(scaled) BY <1>5, <1>7, <1>8, PartBooks
    <2> HIDE DEF scaled
    <2>2. SameStake(scaled.open, target) BY DEF SameStake
    <2> HIDE DEF target
    <2>3. SameStake(target, even) BY BreakevenStake
    <2> HIDE DEF even
    <2>4. SameStake(scaled.open, done) BY <2>2, <2>3 DEF SameStake
    <2> HIDE DEF done
    <2>5. Balanced(o, s) BY <1>3, <1>8, <2>1, <2>4, StakeKept DEF Managed
    <2> QED BY <1>3, <2>5 DEF Managed, s
<1>9. CASE s = r BY <1>9 DEF s
<1> QED BY <1>1, <1>8, <1>9 DEF s

\* The pyramid entry of b, if there is one, averages the fill without a
\* remainder: the model's prices are whole numbers, the code's floats.
WholeAdd(o, r, b) ==
    LET p == r.open
        price == p.entry + p.side * o.addAt * (p.adds + 1) * p.risk
        qty == p.base \div o.addDivisor
        paid == Rules!ApplyFill(o, price, p.side, "limit", qty).price
    IN  Rules!CanAdd(o, p, b, price) /\ qty >= o.minQty
            => (p.fill * p.size + paid * qty) % (p.size + qty) = 0

LEMMA AddBooks ==
    ASSUME NEW o, Proportional(o), NEW r, Balanced(o, r), Rules!IsOpen(r), NEW b, Rules!CandleOk(b),
           WholeAdd(o, r, b)
    PROVE  LET s == Rules!Add(o, r, b, Rules!NoRoom) IN Balanced(o, s) /\ Rules!IsOpen(s)
<1> DEFINE p == r.open
           price == p.entry + p.side * o.addAt * (p.adds + 1) * p.risk
           qty == p.base \div o.addDivisor
           f == Rules!ApplyFill(o, price, p.side, "limit", qty)
           fill == (p.fill * p.size + f.price * qty) \div (p.size + qty)
           q == [p EXCEPT !.fee = @ + f.fee, !.size = @ + qty, !.init = @ + qty, !.fill = fill,
                          !.adds = @ + 1]
           added == [r EXCEPT !.cash = @ - p.side * f.price * qty - f.fee, !.open = q]
           s == Rules!Add(o, r, b, Rules!NoRoom)
<1>1. s = IF ~Rules!CanAdd(o, p, b, price) \/ qty < o.minQty THEN r ELSE added
    BY DEF Rules!Add, Rules!Resolved
<1>2. Sized(o) /\ Rules!OptionsOk(o) /\ RunnerOK(r) BY DEF Proportional, Sized, Balanced
<1>3. Managed(o, r, s) BY <1>2, NoRoomType, AddOK
<1>4. /\ DOMAIN p = PositionFields /\ p.side \in {1, -1} /\ p.entry \in Int /\ p.risk \in Int
      /\ p.base \in Int /\ p.adds \in Int /\ p.fill \in Int /\ p.init \in Int /\ p.size \in Nat \ {0}
      /\ DOMAIN r = RunnerFields
    BY <1>2 DEF RunnerOK, PositionOK
<1>5. /\ o.addDivisor \in Nat \ {0} /\ o.addAt \in Int /\ o.minQty \in Int /\ o.minQty > 0 /\ o.perUnit \in Int
    BY <1>2 DEF Sized, Rules!OptionsOk
<1>6. qty \in Int BY <1>4, <1>5, Products
<1>7. price \in Int
    <2>1. p.side * o.addAt \in Int /\ p.adds + 1 \in Int BY <1>4, <1>5
    <2>2. p.side * o.addAt * (p.adds + 1) \in Int BY <2>1, Products
    <2>3. p.side * o.addAt * (p.adds + 1) * p.risk \in Int BY <1>4, <2>2, Products
    <2> QED BY <1>4, <2>3
<1>8. Rules!CanAdd(o, p, b, price) /\ qty >= o.minQty => (p.fill * p.size + f.price * qty) % (p.size + qty) = 0
    BY DEF WholeAdd
<1> HIDE DEF qty, price, s
<1>9. f.price \in Int BY <1>2, <1>4, <1>6, <1>7, FillType
<1>10. qty \in Nat => f.fee = o.perUnit * qty BY ProportionalFee
<1> HIDE DEF f
<1>11. /\ r.cash \in Int /\ p.fee = o.perUnit * p.init
       /\ r.equity = RunnerEquity + r.cash + (p.side * p.fill * p.size + o.perUnit * p.size)
    BY DEF Balanced, BooksOK, Stake
<1>12. CASE s = added /\ Rules!CanAdd(o, p, b, price) /\ qty >= o.minQty
    <2>1. qty \in Nat \ {0} /\ f.fee = o.perUnit * qty BY <1>5, <1>6, <1>10, <1>12
    <2>2. PICK d, F, n, m, P, u, k, c, e, v :
              /\ d = p.side /\ F = p.fill /\ n = p.size /\ m = qty /\ P = f.price /\ u = o.perUnit
              /\ k = p.init /\ c = r.cash /\ e = r.equity /\ v = fill
        OBVIOUS
    <2>3. (F * n + P * m) % (n + m) = 0 /\ v = (F * n + P * m) \div (n + m) BY <1>8, <1>12, <2>2
    <2> HIDE DEF fill
    <2>4. /\ q.side = d /\ q.fill = v /\ q.size = n + m /\ q.fee = u * k + u * m /\ q.init = k + m
        BY <1>4, <1>11, <2>1, <2>2 DEF PositionFields
    <2> HIDE DEF q, p
    <2>5. s.cash = c - d * P * m - u * m /\ s.equity = e /\ s.open = q
        BY <1>4, <1>12, <2>1, <2>2, RunnerFieldFacts DEF p
    <2> HIDE DEF added
    <2>6. /\ d \in {1, -1} /\ F \in Int /\ n \in Nat \ {0} /\ m \in Nat \ {0} /\ P \in Int /\ u \in Int
          /\ k \in Int /\ c \in Int /\ RunnerEquity \in Int
          /\ e = RunnerEquity + c + (d * F * n + u * n)
        BY <1>4, <1>5, <1>9, <1>11, <2>1, <2>2, RunnerAssumption DEF p
    <2>7. v \in Int /\ v * (n + m) = F * n + P * m
        <3>1. PICK w, t : w = F * n + P * m /\ t = n + m OBVIOUS
        <3>2. w \in Int /\ t \in Nat \ {0} /\ w % t = 0 /\ v = w \div t BY <2>3, <2>6, <3>1
        <3>3. v \in Int /\ v * t = w BY <3>2
        <3> QED BY <3>1, <3>3
    <2>8. s.cash \in Int /\ u * k + u * m = u * (k + m) BY <2>5, <2>6
    <2>9. e = RunnerEquity + (c - d * P * m - u * m) + (d * v * (n + m) + u * (n + m))
        <3>1. CASE d = 1 BY <2>6, <2>7, <3>1
        <3>2. CASE d = -1 BY <2>6, <2>7, <3>2
        <3> QED BY <2>6, <3>1, <3>2
    <2>10. Rules!IsOpen(s) /\ RunnerOK(s) BY <1>3 DEF Managed
    <2>11. BooksOK(o, s) BY <2>2, <2>4, <2>5, <2>8, <2>9, <2>10 DEF BooksOK, Stake
    <2> QED BY <2>10, <2>11 DEF Balanced, s
<1>13. CASE s = r BY <1>13 DEF s
<1> QED BY <1>1, <1>5, <1>6, <1>12, <1>13

LEMMA OcoExitBooks ==
    ASSUME NEW o, Proportional(o), NEW r, Balanced(o, r), Rules!IsOpen(r), NEW b
    PROVE  Balanced(o, Rules!OcoExit(o, r, b))
<1> DEFINE p == r.open
           hit == Rules!OcoExitCheck(o, p, b)
           at == IF hit = "TP" THEN p.tp ELSE p.stop
           kind == IF hit = "TP" THEN "limit" ELSE "stop"
           f == Rules!ApplyFill(o, at, -p.side, kind, p.size)
           lost == IF hit = "SL" THEN Rules!Most(r.cooldown, o.postLossCooldown) ELSE r.cooldown
           cooldown == IF lost = 0 THEN p.sig.cooldown ELSE lost
           s == Ended(Rules!CloseLeg(o, r, p.size, f.price, f.fee), cooldown)
<1>1. Rules!OcoExit(o, r, b) = IF hit = "no" THEN r ELSE s BY DEF Rules!OcoExit, Ended
<1>2. Rules!OptionsOk(o) /\ RunnerOK(r) BY DEF Proportional, Sized, Balanced
<1>3. p.tp \in Int /\ p.stop \in Int /\ p.side \in {1, -1} /\ p.size \in Int
    BY <1>2 DEF RunnerOK, PositionOK
<1>4. at \in Int /\ -p.side \in Int BY <1>3
<1> HIDE DEF at, kind, hit, cooldown
<1>5. f.price \in Int /\ f.fee \in Int BY <1>2, <1>3, <1>4, FillType
<1> HIDE DEF f
<1>6. Balanced(o, s) BY <1>5, LastBooks
<1> HIDE DEF s
<1> QED BY <1>1, <1>6

LEMMA ForceExitBooks ==
    ASSUME NEW o, Proportional(o), NEW r, Balanced(o, r), Rules!IsOpen(r), NEW price \in Int
    PROVE  Balanced(o, Rules!ForceExit(o, r, price))
<1> DEFINE f == Rules!ApplyFill(o, price, -r.open.side, "market", r.open.size)
<1>1. r.open.side \in {1, -1} /\ r.open.size \in Int /\ Rules!OptionsOk(o)
    BY DEF Balanced, RunnerOK, PositionOK, Proportional, Sized
<1>2. -r.open.side \in Int BY <1>1
<1>3. f.price \in Int /\ f.fee \in Int BY <1>1, <1>2, FillType
<1>4. Rules!ForceExit(o, r, price)
          = Ended(Rules!CloseLeg(o, r, r.open.size, f.price, f.fee), r.open.sig.cooldown)
    BY DEF Rules!ForceExit, Ended
<1> HIDE DEF f
<1> QED BY <1>3, <1>4, LastBooks

\* A runner when the pyramid entry of a bar is next.
BeforeAdd(o, r, b) == Rules!VolatilityCut(o, [r EXCEPT !.open = Rules!Trailed(o, @, b)], b)

LEMMA ManageOpenBooks ==
    ASSUME NEW o, Proportional(o), NEW r, Balanced(o, r), Rules!IsOpen(r), NEW b, Rules!CandleOk(b),
           WholeAdd(o, BeforeAdd(o, r, b), b)
    PROVE  Balanced(o, Rules!ManageOpen(o, r, b, Rules!NoRoom))
<1> DEFINE p1 == Rules!Trailed(o, r.open, b)
           r1 == [r EXCEPT !.open = p1]
           r2 == Rules!VolatilityCut(o, r1, b)
           r3 == Rules!Add(o, r2, b, Rules!NoRoom)
           r4 == Rules!ScaleUnlessAdded(o, r2, r3, b)
<1>1. Sized(o) /\ Rules!OptionsOk(o) /\ RunnerOK(r) /\ PositionOK(r.open)
    BY DEF Proportional, Sized, Balanced, RunnerOK
<1>2. [r EXCEPT !.open = Rules!Trailed(o, @, b)] = r1 OBVIOUS
<1>3. Rules!ManageOpen(o, r, b, Rules!NoRoom) = Rules!OcoExit(o, r4, b)
    BY <1>2 DEF Rules!ManageOpen, Rules!AfterCut
<1>4. WholeAdd(o, r2, b) BY <1>2 DEF BeforeAdd
<1>5. Tightened(o, r.open, p1) /\ SameStake(r.open, p1) BY <1>1, TrailedOK, TrailedStake
<1> HIDE DEF p1
<1>6. Managed(o, r, r1) BY <1>1, <1>5, PositionReplaced
<1>7. Balanced(o, r1) /\ Rules!IsOpen(r1) BY <1>5, <1>6, StakeKept DEF Managed
<1> HIDE DEF r1
<1>8. Balanced(o, r2) /\ Rules!IsOpen(r2) BY <1>7, VolatilityCutBooks
<1> HIDE DEF r2
<1>9. Balanced(o, r3) /\ Rules!IsOpen(r3) BY <1>4, <1>8, AddBooks
<1> HIDE DEF r3
<1>10. Balanced(o, r4) /\ Rules!IsOpen(r4) BY <1>8, <1>9, ScaleOutBooks DEF Rules!ScaleUnlessAdded
<1> HIDE DEF r4
<1> QED BY <1>3, <1>10, OcoExitBooks

LEMMA ExitsBooks ==
    ASSUME NEW o, Proportional(o), NEW r, Balanced(o, r), NEW b, Rules!CandleOk(b),
           Rules!IsOpen(r) => WholeAdd(o, BeforeAdd(o, r, b), b)
    PROVE  Balanced(o, Rules!Exits(o, r, b, Rules!NoRoom))
<1>1. b.close \in Int BY DEF Rules!CandleOk
<1>2. CASE ~Rules!IsOpen(r) BY <1>2 DEF Rules!Exits
<1>3. CASE Rules!IsOpen(r) BY <1>1, <1>3, ForceExitBooks, ManageOpenBooks DEF Rules!Exits
<1> QED BY <1>2, <1>3

LEMMA StartBarBooks ==
    ASSUME NEW o, NEW r, Balanced(o, r), NEW b
    PROVE  Balanced(o, Rules!StartBar(o, r, b))
<1> DEFINE s == Rules!StartBar(o, r, b)
<1>1. RunnerOK(r) /\ DOMAIN r = RunnerFields BY DEF Balanced, RunnerOK
<1>2. s.equity = r.equity /\ s.open = r.open /\ s.cash = r.cash
    BY <1>1, RunnerFieldFacts DEF Rules!StartBar
<1>3. RunnerOK(s) BY <1>1, StartBarOK
<1> HIDE DEF s
<1>4. BooksOK(o, s) BY <1>2 DEF Balanced, BooksOK, Rules!IsOpen
<1> QED BY <1>3, <1>4 DEF Balanced, s

\* Orders move without the books.
LEMMA OrderKept ==
    ASSUME NEW o, NEW r, Balanced(o, r), NEW p, p.side = 0 \/ OrderOK(p)
    PROVE  Balanced(o, [r EXCEPT !.pending = p])
<1> DEFINE s == [r EXCEPT !.pending = p]
<1>1. RunnerOK(r) /\ DOMAIN r = RunnerFields BY DEF Balanced, RunnerOK
<1>2. s.equity = r.equity /\ s.open = r.open /\ s.cash = r.cash BY <1>1, RunnerFieldFacts
<1>3. RunnerOK(s) BY <1>1, OrderReplaced
<1> HIDE DEF s
<1>4. BooksOK(o, s) BY <1>2 DEF Balanced, BooksOK, Rules!IsOpen
<1> QED BY <1>3, <1>4 DEF Balanced, s

LEMMA CancelBooks == ASSUME NEW o, NEW r, Balanced(o, r) PROVE Balanced(o, Rules!CancelPending(r))
<1>1. Rules!NoPending.side = 0 BY DEF Rules!NoPending
<1> QED BY <1>1, OrderKept DEF Rules!CancelPending

LEMMA OpenFromPendingBooks ==
    ASSUME NEW o, Proportional(o), NEW r, Balanced(o, r), ~Rules!IsOpen(r), OrderOK(r.pending),
           NEW price \in Int, NEW kind, NEW equity \in Int
    PROVE  Balanced(o, Rules!OpenFromPending(o, r, price, kind, equity, Rules!NoRoom))
<1> DEFINE p == r.pending
           stop == IF o.reanchor THEN price - p.side * p.planned ELSE p.stop
           tp == IF o.reanchor /\ p.sig.rr # 0 /\ p.tp = p.entry + p.side * p.sig.rr * p.planned
                 THEN price + p.side * p.sig.rr * Rules!Distance(price, stop) ELSE p.tp
           size == IF p.qty # 0 THEN p.qty ELSE Rules!PositionSize(o, equity, price, stop)
           f == Rules!ApplyFill(o, price, p.side, kind, size)
           opened == [side |-> p.side, entry |-> price, stop |-> stop, tp |-> tp,
                      size |-> size, openIdx |-> r.idx, fill |-> f.price, fee |-> f.fee,
                      init |-> size, base |-> size, mfe |-> 0, adds |-> 0,
                      risk |-> Rules!Most(1, Rules!Distance(price, stop)), realized |-> 0,
                      beArmed |-> FALSE, scaled |-> FALSE, cutDone |-> FALSE,
                      entryAtr |-> r.atr, sig |-> p.sig]
           s == [r EXCEPT
                    !.trades = @ + 1, !.dayTrades = @ + 1, !.pending = Rules!NoPending,
                    !.cash = @ - p.side * f.price * size - f.fee,
                    !.open = opened]
           result == Rules!OpenFromPending(o, r, price, kind, equity, Rules!NoRoom)
<1>1. result = Rules!CancelPending(r) \/ (~(size < o.minQty) /\ result = s)
    BY DEF Rules!OpenFromPending, Rules!Resolved
<1>2. Sized(o) /\ Rules!OptionsOk(o) /\ RunnerOK(r) /\ o.minQty \in Int /\ o.minQty > 0 /\ o.perUnit \in Int
    BY DEF Proportional, Sized, Balanced, Rules!OptionsOk
<1>3. RunnerOK(result) BY <1>2, NoRoomType, OpenFromPendingOK
<1>4. /\ p.side \in {1, -1} /\ p.stop \in Int /\ p.qty \in Int /\ p.planned \in Int /\ DOMAIN r = RunnerFields
    BY <1>2 DEF OrderOK, RunnerOK
<1>5. stop \in Int
    <2>1. price - p.side * p.planned \in Int BY <1>4
    <2> QED BY <1>4, <2>1
<1> HIDE DEF stop, tp, result
<1>6. size \in Int
    <2>1. Rules!PositionSize(o, equity, price, stop) \in Int BY <1>2, <1>5, SizeType
    <2> QED BY <1>4, <2>1
<1> HIDE DEF size
<1>7. f.price \in Int BY <1>2, <1>4, <1>6, FillType
<1>8. size \in Nat => f.fee = o.perUnit * size BY ProportionalFee
<1> HIDE DEF f
<1>9. r.cash \in Int /\ r.equity = RunnerEquity + r.cash BY RunnerAssumption DEF Balanced, BooksOK
<1>10. CASE ~(size < o.minQty) /\ result = s
    <2>1. f.fee = o.perUnit * size BY <1>2, <1>6, <1>8, <1>10
    <2>2. /\ opened.side = p.side /\ opened.fill = f.price /\ opened.size = size /\ opened.fee = f.fee
          /\ opened.init = size
        OBVIOUS
    <2> HIDE DEF opened
    <2>3. result.equity = r.equity /\ result.open = opened /\ result.cash = r.cash - p.side * f.price * size - f.fee
        BY <1>4, <1>10, RunnerFieldFacts
    <2> HIDE DEF s
    <2>4. Rules!IsOpen(result) BY <1>4, <2>2, <2>3 DEF Rules!IsOpen
    <2>5. PICK d, P, n, u, c : /\ d = p.side /\ P = f.price /\ n = size /\ u = o.perUnit /\ c = r.cash
        OBVIOUS
    <2>6. d \in {1, -1} /\ P \in Int /\ n \in Int /\ u \in Int /\ c \in Int /\ RunnerEquity \in Int
        BY <1>2, <1>4, <1>6, <1>7, <1>9, <2>5, RunnerAssumption
    <2>7. /\ c - d * P * n - u * n \in Int
          /\ RunnerEquity + c = RunnerEquity + (c - d * P * n - u * n) + (d * P * n + u * n)
        BY <2>6
    <2>8. BooksOK(o, result) BY <1>9, <2>1, <2>2, <2>3, <2>4, <2>5, <2>7 DEF BooksOK, Stake
    <2> QED BY <1>3, <2>8 DEF Balanced, result
<1>11. CASE result = Rules!CancelPending(r) BY <1>11, CancelBooks DEF result
<1> QED BY <1>1, <1>10, <1>11 DEF result

LEMMA ChaseBooks ==
    ASSUME NEW o, Proportional(o), NEW r, Balanced(o, r), ~Rules!IsOpen(r), OrderOK(r.pending),
           NEW b, Rules!CandleOk(b), NEW equity \in Int
    PROVE  Balanced(o, Rules!Chase(o, r, b, equity, Rules!NoRoom))
<1> DEFINE p == r.pending
           moves == ~p.chased /\ p.sig.mid # 0 /\ r.idx - p.startedAt >= Rules!Most(1, o.chaseAfter)
           q == IF moves THEN [p EXCEPT !.entry = p.sig.mid, !.chased = TRUE] ELSE p
           moved == [r EXCEPT !.pending = q]
           filled == Rules!OpenFromPending(o, moved, b.close, "market", equity, Rules!NoRoom)
           s == Rules!Chase(o, r, b, equity, Rules!NoRoom)
<1>1. s \in {r, Rules!CancelPending(r), filled, moved} BY DEF Rules!Chase
<1>2. OrderOK(q)
    <2> DEFINE t == [p EXCEPT !.entry = p.sig.mid, !.chased = TRUE]
    <2>1. p.sig.mid \in Int BY DEF OrderOK, Rules!SignalRecord
    <2>2. /\ DOMAIN t = OrderFields /\ t.side = p.side /\ t.entry = p.sig.mid /\ t.stop = p.stop
          /\ t.tp = p.tp /\ t.qty = p.qty /\ t.planned = p.planned /\ t.sig = p.sig
        BY DEF OrderOK, OrderFields
    <2> HIDE DEF t
    <2>3. OrderOK(t) BY <2>1, <2>2 DEF OrderOK
    <2> QED BY <2>3 DEF t
<1> HIDE DEF q
<1>3. Balanced(o, moved) /\ moved.pending = q /\ moved.open = r.open
    BY <1>2, OrderKept, OrderReplaced DEF Balanced
<1>4. ~Rules!IsOpen(moved) BY <1>3 DEF Rules!IsOpen
<1> HIDE DEF moved
<1>5. b.close \in Int BY DEF Rules!CandleOk
<1>6. Balanced(o, filled) BY <1>2, <1>3, <1>4, <1>5, OpenFromPendingBooks
<1> HIDE DEF filled, s
<1> QED BY <1>1, <1>3, <1>6, CancelBooks DEF s

LEMMA ManagePendingBooks ==
    ASSUME NEW o, Proportional(o), NEW r, Balanced(o, r), NEW b, Rules!CandleOk(b), NEW equity \in Int, NEW can
    PROVE  Balanced(o, Rules!ManagePending(o, r, b, equity, can, Rules!NoRoom))
<1>1. CASE Rules!IsOpen(r) \/ ~Rules!IsPending(r) BY <1>1 DEF Rules!ManagePending
<1>2. CASE ~Rules!IsOpen(r) /\ Rules!IsPending(r)
    <2>1. OrderOK(r.pending) BY <1>2 DEF Balanced, RunnerOK
    <2>2. b.close \in Int /\ r.pending.entry \in Int BY <2>1 DEF Rules!CandleOk, OrderOK
    <2>3. Balanced(o, Rules!OpenFromPending(o, r, b.close, "market", equity, Rules!NoRoom))
        BY <1>2, <2>1, <2>2, OpenFromPendingBooks
    <2>4. Balanced(o, Rules!OpenFromPending(o, r, r.pending.entry, "limit", equity, Rules!NoRoom))
        BY <1>2, <2>1, <2>2, OpenFromPendingBooks
    <2>5. Balanced(o, Rules!Chase(o, r, b, equity, Rules!NoRoom)) BY <1>2, <2>1, ChaseBooks
    <2> QED BY <2>3, <2>4, <2>5, CancelBooks DEF Rules!ManagePending
<1> QED BY <1>1, <1>2

LEMMA ApplyRawSignalBooks ==
    ASSUME NEW o, Proportional(o), NEW r, Balanced(o, r), ~Rules!IsOpen(r), NEW raw \in Raws,
           NEW b, Rules!CandleOk(b), NEW equity \in Int
    PROVE  Balanced(o, Rules!ApplyRawSignal(o, r, raw, b, equity, Rules!NoRoom))
<1> DEFINE n == Rules!NormalizeSignal(o, raw, b)
           order == [side |-> n.side, entry |-> n.entry, stop |-> n.stop, tp |-> n.tp, qty |-> n.qty,
                     expiresAt |-> r.idx + Rules!Most(1, IF n.expiry = 0 THEN 5 ELSE n.expiry),
                     startedAt |-> r.idx, chased |-> FALSE,
                     planned |-> Rules!Distance(n.entry, n.stop), sig |-> n]
           placed == [r EXCEPT !.pending = order]
           filled == Rules!OpenFromPending(o, placed, n.entry, "limit", equity, Rules!NoRoom)
           s == Rules!ApplyRawSignal(o, r, raw, b, equity, Rules!NoRoom)
<1>1. s = IF n = Rules!NoSignal THEN r
          ELSE IF Rules!TouchedLimit(o, n.side, n.entry, b) THEN filled ELSE placed
    BY DEF Rules!ApplyRawSignal
<1>2. n \in Raws BY NormalizeOK DEF Proportional, Sized, Rules!CandleOk
<1> HIDE DEF n, s
<1>3. CASE n # Rules!NoSignal
    <2>1. n \in Rules!SignalRecord BY <1>2, <1>3 DEF Raws
    <2>2. /\ n.side \in {1, -1} /\ n.entry \in Int /\ n.stop \in Int /\ n.tp \in Int /\ n.qty \in Int
        BY <2>1 DEF Rules!SignalRecord
    <2>3. Rules!Distance(n.entry, n.stop) \in Int BY <2>2, Extremes
    <2>4. OrderOK(order) BY <2>1, <2>2, <2>3 DEF OrderOK, OrderFields
    <2> HIDE DEF order
    <2>5. Balanced(o, placed) /\ placed.pending = order /\ placed.open = r.open
        BY <2>4, OrderKept, OrderReplaced DEF Balanced
    <2>6. ~Rules!IsOpen(placed) BY <2>5 DEF Rules!IsOpen
    <2> HIDE DEF placed
    <2>7. Balanced(o, filled) BY <2>2, <2>4, <2>5, <2>6, OpenFromPendingBooks
    <2> HIDE DEF filled
    <2> QED BY <1>1, <1>3, <2>5, <2>7 DEF s
<1>4. CASE n = Rules!NoSignal BY <1>1, <1>4 DEF s
<1> QED BY <1>3, <1>4

LEMMA AtSignalBooks ==
    ASSUME NEW o, Proportional(o), NEW r, Balanced(o, r), NEW raw \in Raws, NEW b, Rules!CandleOk(b)
    PROVE  Balanced(o, Rules!AtSignal(o, r, b, raw, 0, TRUE, Rules!NoRoom))
<1> DEFINE rested == [r EXCEPT !.cooldown = Rules!Most(0, @ - 1)]
<1>1. RunnerOK(r) /\ DOMAIN r = RunnerFields BY DEF Balanced, RunnerOK
<1>2. Rules!SizingEquity(r, 0) = r.equity /\ r.equity \in Int BY <1>1 DEF Rules!SizingEquity, RunnerOK
<1>3. /\ DOMAIN rested = RunnerFields /\ rested.idx = r.idx /\ rested.equity = r.equity
      /\ rested.trades = r.trades /\ rested.open = r.open /\ rested.pending = r.pending
      /\ rested.cash = r.cash
    BY <1>1, RunnerFieldFacts
<1> HIDE DEF rested
<1>4. RunnerOK(rested) BY <1>1, <1>3 DEF RunnerOK, Rules!IsOpen, Rules!IsPending
<1>5. Balanced(o, rested) BY <1>3, <1>4 DEF Balanced, BooksOK, Rules!IsOpen
<1>6. CASE Rules!AsksSignal(o, r, TRUE)
    <2>1. ~Rules!IsOpen(r) BY <1>6 DEF Rules!AsksSignal
    <2> QED BY <1>2, <1>6, <2>1, ApplyRawSignalBooks DEF Rules!AtSignal
<1>7. CASE ~Rules!AsksSignal(o, r, TRUE)
    <2>1. Rules!NoEntry(o, r, TRUE) \in {rested, Rules!CancelPending(r), r} BY DEF Rules!NoEntry, rested
    <2>2. Balanced(o, Rules!NoEntry(o, r, TRUE)) BY <1>5, <2>1, CancelBooks
    <2> QED BY <1>7, <2>2 DEF Rules!AtSignal
<1> QED BY <1>6, <1>7

\* A whole bar.
LEMMA StepBooks ==
    ASSUME NEW o, Proportional(o), NEW r, Balanced(o, r), NEW raw \in Raws, NEW b, Rules!CandleOk(b),
           Rules!IsOpen(r) => WholeAdd(o, BeforeAdd(o, Rules!StartBar(o, r, b), b), b)
    PROVE  Balanced(o, Rules!Step(o, r, b, raw, 0, TRUE, Rules!NoRoom))
<1> DEFINE started == Rules!StartBar(o, r, b)
           exited == Rules!Exits(o, started, b, Rules!NoRoom)
           managed == Rules!ManagePending(o, exited, b, Rules!SizingEquity(exited, 0), TRUE, Rules!NoRoom)
           signalled == Rules!AtSignal(o, managed, b, raw, 0, TRUE, Rules!NoRoom)
           s == [signalled EXCEPT !.idx = @ + 1]
<1>1. Rules!Step(o, r, b, raw, 0, TRUE, Rules!NoRoom) = s
    BY DEF Rules!Step, Rules!PreSignal, Rules!AfterExits
<1>2. started.open = r.open BY StartBarOK DEF Balanced
<1>3. Rules!IsOpen(started) => WholeAdd(o, BeforeAdd(o, started, b), b) BY <1>2 DEF Rules!IsOpen
<1>4. Balanced(o, started) BY StartBarBooks
<1> HIDE DEF started
<1>5. Balanced(o, exited) BY <1>3, <1>4, ExitsBooks
<1> HIDE DEF exited
<1>6. Rules!SizingEquity(exited, 0) \in Int BY <1>5 DEF Rules!SizingEquity, Balanced, RunnerOK
<1>7. Balanced(o, managed) BY <1>5, <1>6, ManagePendingBooks
<1> HIDE DEF managed
<1>8. Balanced(o, signalled) BY <1>7, AtSignalBooks
<1> HIDE DEF signalled
<1>9. /\ DOMAIN s = RunnerFields /\ s.idx = signalled.idx + 1 /\ s.equity = signalled.equity
      /\ s.trades = signalled.trades /\ s.open = signalled.open /\ s.pending = signalled.pending
      /\ s.cash = signalled.cash
    BY <1>8, RunnerFieldFacts DEF Balanced, RunnerOK
<1> HIDE DEF s
<1>10. RunnerOK(s) BY <1>8, <1>9 DEF Balanced, RunnerOK, Rules!IsOpen, Rules!IsPending
<1> QED BY <1>1, <1>8, <1>9, <1>10 DEF Balanced, BooksOK, Rules!IsOpen

\* The runner's commissions are amounts per unit.
CommissionsProportional ==
    \A o \in RunnerOptions : o.perUnit >= 0 /\ o.perOrder = 0 /\ o.minCommission <= 0

\* A step whose pyramid entry, if there is one, averages without a remainder.
ExactAdditions ==
    LET b == BarAt(lastShape', runner.idx)
    IN  Rules!IsOpen(runner) =>
            WholeAdd(options, BeforeAdd(options, Rules!StartBar(options, runner, b), b), b)

\* A runner of the options it was made with, whose books are in order.
LedgerInv == options \in RunnerOptions /\ Balanced(options, runner)

LEMMA LedgerInvInit == RunnerInit => LedgerInv
<1> SUFFICES ASSUME RunnerInit PROVE LedgerInv OBVIOUS
<1> DEFINE n == Rules!NewRunner(RunnerEquity)
<1>1. n.cash = 0 /\ n.equity = RunnerEquity /\ n.open = Rules!NoPosition BY DEF Rules!NewRunner
<1>2. RunnerEquity \in Int BY RunnerAssumption
<1> HIDE DEF n
<1>3. ~Rules!IsOpen(n) BY <1>1 DEF Rules!IsOpen, Rules!NoPosition
<1>4. BooksOK(options, n) BY <1>1, <1>2, <1>3 DEF BooksOK
<1>5. RunnerOK(runner) /\ runner = n BY RunnerInvInit DEF RunnerInv, RunnerInit, n
<1> QED BY <1>4, <1>5 DEF RunnerInit, LedgerInv, Balanced

LEMMA LedgerInvStep ==
    ASSUME SizesOK, CommissionsProportional, LedgerInv, [RunnerNext]_runnerVars, [ExactAdditions]_runnerVars
    PROVE  LedgerInv'
<1>1. ASSUME NEW shape \in BarShapes, NEW raw \in RawSignals \cup {Rules!NoSignal}, RunnerStep(shape, raw),
             ExactAdditions
      PROVE  LedgerInv'
    <2> DEFINE b == BarAt(shape, runner.idx)
    <2>1. Proportional(options)
        BY RunnerAssumption DEF Proportional, Sized, SizesOK, CommissionsProportional, LedgerInv
    <2>2. Rules!CandleOk(shape) /\ raw \in Raws BY RunnerAssumption DEF Raws
    <2>3. b.low = shape.low /\ b.high = shape.high /\ b.close = shape.close /\ b.atr = shape.atr
        BY DEF BarAt
    <2>4. runner' = Rules!Step(options, runner, b, raw, 0, TRUE, Rules!NoRoom)
          /\ lastShape' = shape /\ options' = options
        BY <1>1 DEF RunnerStep
    <2>5. Rules!IsOpen(runner) =>
            WholeAdd(options, BeforeAdd(options, Rules!StartBar(options, runner, b), b), b)
        BY <1>1, <2>4 DEF ExactAdditions
    <2> HIDE DEF b
    <2>6. Rules!CandleOk(b) BY <2>2, <2>3 DEF Rules!CandleOk
    <2>7. Balanced(options, runner') BY <2>1, <2>2, <2>4, <2>5, <2>6, StepBooks DEF LedgerInv
    <2> QED BY <2>4, <2>7 DEF LedgerInv
<1>2. CASE UNCHANGED runnerVars BY <1>2 DEF runnerVars, LedgerInv
<1> QED BY <1>1, <1>2 DEF RunnerNext

\* The equity of a runner is the money its trades moved, plus an open position
\* at its average fill with the fees it has yet to be charged: partial exits,
\* pyramid entries and forced exits charge every fee once, when commissions
\* are amounts per unit (backtest.py:537-620, 919-938).
THEOREM RunnerBooksBalance ==
    SizesOK /\ CommissionsProportional => (RunnerSpec /\ [][ExactAdditions]_runnerVars => []BarBooks)
<1> SUFFICES ASSUME SizesOK, CommissionsProportional
             PROVE  RunnerSpec /\ [][ExactAdditions]_runnerVars => []BarBooks
    OBVIOUS
<1>1. LedgerInv /\ [RunnerNext]_runnerVars /\ [ExactAdditions]_runnerVars => LedgerInv' BY LedgerInvStep
<1>2. LedgerInv => BarBooks
    <2> SUFFICES ASSUME LedgerInv PROVE BarBooks OBVIOUS
    <2>1. BooksOK(options, runner) /\ RunnerOK(runner) /\ options.perUnit \in Int
        BY RunnerAssumption DEF LedgerInv, Balanced, Rules!OptionsOk
    <2>2. CASE ~Rules!IsOpen(runner) BY <2>1, <2>2, RunnerAssumption DEF BarBooks, AddsUp, BooksOK
    <2>3. CASE Rules!IsOpen(runner)
        <3>1. runner.open.init \in Nat \ {0} /\ runner.open.size \in Int
            BY <2>1, <2>3 DEF RunnerOK, PositionOK
        <3>2. runner.open.fee = options.perUnit * runner.open.init BY <2>1, <2>3 DEF BooksOK
        <3>3. (runner.open.fee * runner.open.size) \div runner.open.init = options.perUnit * runner.open.size
            BY <2>1, <3>1, <3>2, ExactShares
        <3> QED BY <2>1, <2>3, <3>3 DEF BarBooks, AddsUp, BooksOK, Stake
    <2> QED BY <2>2, <2>3
<1> QED BY <1>1, <1>2, LedgerInvInit, PTL DEF RunnerSpec

-----------------------------------------------------------------------------
(* What the entries of a portfolio lock.                                   *)

\* Options by which a fill costs the price of its order.
Plain(o) == Sized(o) /\ o.slip = 0 /\ o.halfSpread = 0

\* Every price at which r has filled, or has asked to, is positive.
Priced(r) ==
    /\ Rules!IsOpen(r) => r.open.entry > 0 /\ r.open.fill > 0 /\ r.open.adds >= 0 /\ r.open.risk >= 0
    /\ Rules!IsPending(r) => r.pending.entry > 0 /\ r.pending.sig.mid >= 0

Sound(r) == RunnerOK(r) /\ Priced(r)

BarOK(b) == Rules!CandleOk(b) /\ b.low > 0

\* What the position of r cost.
Basis(r) == IF Rules!IsOpen(r) THEN r.open.fill * r.open.size ELSE 0

\* s is r after rules that leave it its position, none of them an addition.
Shrinks(r, s) == Sound(s) /\ Rules!IsOpen(s) /\ s.pending = r.pending /\ Basis(s) <= Basis(r)

\* s is r after rules that spend no more than room.
Spends(o, r, s, room) == Sound(s) /\ Basis(s) <= Basis(r) + room * Rules!Leverage(o)

LEMMA PlainFill ==
    ASSUME NEW o, Plain(o), NEW price \in Int, NEW dir \in Int, NEW kind, NEW qty
    PROVE  Rules!ApplyFill(o, price, dir, kind, qty).price = price
<1>1. o.slip \div 4 = 0 /\ (5 * o.slip) \div 4 = 0 BY DEF Plain
<1>2. Rules!Slippage(o, kind) = 0 BY <1>1 DEF Plain, Rules!Slippage
<1>3. price + dir * 0 = price OBVIOUS
<1> QED BY <1>2, <1>3 DEF Rules!ApplyFill

LEMMA LeverageType ==
    ASSUME NEW o, Rules!OptionsOk(o)
    PROVE  Rules!Leverage(o) \in Nat \ {0}
<1>1. o.leverage \in Int BY DEF Rules!OptionsOk
<1> QED BY <1>1 DEF Rules!Leverage, Rules!Most

LEMMA BasisType == ASSUME NEW r, Sound(r) PROVE Basis(r) \in Nat
<1>1. CASE Rules!IsOpen(r)
    <2>1. r.open.fill \in Nat /\ r.open.size \in Nat BY <1>1 DEF Sound, RunnerOK, PositionOK, Priced
    <2>2. r.open.fill * r.open.size \in Nat BY <2>1
    <2> QED BY <1>1, <2>2 DEF Basis
<1>2. CASE ~Rules!IsOpen(r) BY <1>2 DEF Basis
<1> QED BY <1>1, <1>2

\* What is at most a share is covered by the whole.
LEMMA Shares ==
    ASSUME NEW a \in Int, NEW n \in Nat \ {0}, NEW q \in Int, q <= a \div n
    PROVE  q * n <= a
<1>1. PICK d : d = a \div n OBVIOUS
<1>2. d \in Int /\ d * n <= a BY <1>1
<1>3. q * n <= d * n BY <1>1, <1>2
<1>4. q * n \in Int /\ d * n \in Int BY <1>2
<1> QED BY <1>2, <1>3, <1>4

\* The capital in room carries what is bought with it.
LEMMA RoomCarries ==
    ASSUME NEW o, Rules!OptionsOk(o), NEW room \in Nat, NEW qty \in Int, NEW price \in Int, price > 0
    PROVE  price * Rules!Resolved(o, room, qty, price) <= room * Rules!Leverage(o)
<1>1. PICK q, a : q = Rules!Resolved(o, room, qty, price) /\ a = room * Rules!Leverage(o) OBVIOUS
<1>2. a \in Int BY <1>1, LeverageType
<1>3. room # Rules!NoRoom BY DEF Rules!NoRoom
<1>4. Rules!Most(1, price) = price BY DEF Rules!Most
<1>5. q = Rules!Least(qty, a \div price) BY <1>1, <1>3, <1>4 DEF Rules!Resolved
<1>6. a \div price \in Int BY <1>2
<1>7. q \in Int /\ q <= a \div price BY <1>5, <1>6 DEF Rules!Least
<1>8. q * price <= a BY <1>2, <1>7, Shares
<1>9. q * price = price * q BY <1>7
<1> QED BY <1>1, <1>8, <1>9

\* A position record that differs in nothing its cost depends on.
LEMMA BasisKept ==
    ASSUME NEW r, Sound(r), Rules!IsOpen(r), NEW p, SameStake(r.open, p), RunnerOK([r EXCEPT !.open = p])
    PROVE  Shrinks(r, [r EXCEPT !.open = p])
<1> DEFINE s == [r EXCEPT !.open = p]
<1>1. DOMAIN r = RunnerFields BY DEF Sound, RunnerOK
<1>2. s.open = p /\ s.pending = r.pending BY <1>1, RunnerFieldFacts
<1> HIDE DEF s
<1>3. Rules!IsOpen(s) BY <1>2 DEF Rules!IsOpen, SameStake
<1>4. Basis(s) = Basis(r) BY <1>2, <1>3 DEF Basis, SameStake
<1>5. Priced(s) BY <1>2, <1>3 DEF Sound, Priced, SameStake, Rules!IsPending
<1>6. Basis(r) \in Nat BY BasisType
<1> QED BY <1>2, <1>3, <1>4, <1>5, <1>6 DEF Shrinks, Sound, s

LEMMA ShrinksChains ==
    ASSUME NEW r, NEW s, NEW t, Sound(r), Shrinks(r, s), Shrinks(s, t)
    PROVE  Shrinks(r, t)
<1>1. Basis(r) \in Nat /\ Basis(s) \in Nat /\ Basis(t) \in Nat BY BasisType DEF Shrinks
<1> QED BY <1>1 DEF Shrinks

LEMMA NothingShrinks == ASSUME NEW r, Sound(r), Rules!IsOpen(r) PROVE Shrinks(r, r)
BY BasisType DEF Shrinks

LEMMA PartShrinks ==
    ASSUME NEW o, Sized(o), NEW r, Sound(r), Rules!IsOpen(r),
           NEW qty \in Nat, qty < r.open.size, NEW price \in Int, NEW fee \in Int
    PROVE  Shrinks(r, Rules!CloseLeg(o, r, qty, price, fee))
<1> DEFINE s == Rules!CloseLeg(o, r, qty, price, fee)
<1>1. Rules!OptionsOk(o) /\ RunnerOK(r) BY DEF Sized, Sound
<1>2. RunnerOK(s) /\ Rules!IsOpen(s) BY <1>1, PartCloses
<1>3. /\ s.pending = r.pending /\ s.open.size = r.open.size - qty
      /\ \A f \in PositionFields \ {"size", "realized"} : s.open[f] = r.open[f]
    BY <1>1, CloseLegType
<1> HIDE DEF s
<1>4. s.open.fill = r.open.fill /\ s.open.entry = r.open.entry /\ s.open.adds = r.open.adds
      /\ s.open.risk = r.open.risk
    BY <1>3 DEF PositionFields
<1>5. Priced(s) BY <1>2, <1>3, <1>4 DEF Sound, Priced, Rules!IsPending
<1>6. PICK F, n : F = r.open.fill /\ n = r.open.size OBVIOUS
<1>7. F \in Nat /\ n \in Nat BY <1>1, <1>6 DEF RunnerOK, PositionOK, Sound, Priced
<1>8. F * (n - qty) <= F * n BY <1>7
<1>9. Basis(s) = F * (n - qty) /\ Basis(r) = F * n BY <1>2, <1>3, <1>4, <1>6 DEF Basis
<1> QED BY <1>2, <1>3, <1>5, <1>8, <1>9 DEF Shrinks, Sound, s

LEMMA VolatilityCutShrinks ==
    ASSUME NEW o, Sized(o), NEW r, Sound(r), Rules!IsOpen(r), NEW b, Rules!CandleOk(b)
    PROVE  Shrinks(r, Rules!VolatilityCut(o, r, b))
<1> DEFINE p == r.open
           qty == p.size \div o.cutDivisor
           f == Rules!ApplyFill(o, b.close, -p.side, "market", qty)
           cut == Rules!CloseLeg(o, r, qty, f.price, f.fee)
           even == Rules!Breakeven(o, cut.open, b)
           done == [even EXCEPT !.cutDone = TRUE]
           s == Rules!VolatilityCut(o, r, b)
<1>1. s = r \/ (o.minQty <= qty /\ qty < p.size /\ s = [cut EXCEPT !.open = done])
    BY DEF Rules!VolatilityCut
<1>2. Rules!OptionsOk(o) /\ RunnerOK(r) BY DEF Sized, Sound
<1>3. Managed(o, r, s) BY <1>2, VolatilityCutOK
<1>4. /\ p.size \in Int /\ p.side \in {1, -1} /\ b.close \in Int /\ o.cutDivisor \in Nat \ {0}
      /\ o.minQty \in Nat
    BY <1>2 DEF RunnerOK, PositionOK, Rules!CandleOk, Rules!OptionsOk
<1>5. qty \in Int BY <1>4, Products
<1> HIDE DEF qty, s
<1>6. f.price \in Int /\ f.fee \in Int
    <2>1. -p.side \in Int BY <1>4
    <2> QED BY <1>2, <1>4, <1>5, <2>1, FillType
<1> HIDE DEF f
<1>7. CASE o.minQty <= qty /\ qty < p.size /\ s = [cut EXCEPT !.open = done]
    <2>1. qty \in Nat BY <1>4, <1>5, <1>7
    <2>2. Shrinks(r, cut) BY <1>6, <1>7, <2>1, PartShrinks
    <2> HIDE DEF cut
    <2>3. SameStake(cut.open, even) BY BreakevenStake
    <2> HIDE DEF even
    <2>4. SameStake(cut.open, done) BY <2>3 DEF SameStake
    <2> HIDE DEF done
    <2>5. Shrinks(cut, s) BY <1>3, <1>7, <2>2, <2>4, BasisKept DEF Managed, Shrinks
    <2> QED BY <2>2, <2>5, ShrinksChains DEF s
<1>8. CASE s = r BY <1>8, NothingShrinks DEF s
<1> QED BY <1>1, <1>7, <1>8 DEF s

LEMMA ScaleOutShrinks ==
    ASSUME NEW o, Sized(o), NEW r, Sound(r), Rules!IsOpen(r), NEW b, Rules!CandleOk(b)
    PROVE  Shrinks(r, Rules!ScaleOut(o, r, b))
<1> DEFINE p == r.open
           price == p.entry + p.side * o.scaleOutAt * p.risk
           qty == p.size \div o.scaleOutDivisor
           f == Rules!ApplyFill(o, price, -p.side, "limit", qty)
           scaled == Rules!CloseLeg(o, r, qty, f.price, f.fee)
           target == [scaled.open EXCEPT !.scaled = TRUE, !.tp = p.entry + p.side * o.finalR * p.risk]
           even == Rules!Breakeven(o, target, b)
           done == [even EXCEPT !.beArmed = TRUE]
           s == Rules!ScaleOut(o, r, b)
<1>1. s = r \/ (o.minQty <= qty /\ qty < p.size /\ s = [scaled EXCEPT !.open = done])
    BY DEF Rules!ScaleOut
<1>2. Rules!OptionsOk(o) /\ RunnerOK(r) BY DEF Sized, Sound
<1>3. Managed(o, r, s) BY <1>2, ScaleOutOK
<1>4. /\ p.size \in Int /\ p.side \in {1, -1} /\ p.entry \in Int /\ p.risk \in Int
      /\ o.scaleOutDivisor \in Nat \ {0} /\ o.scaleOutAt \in Int /\ o.minQty \in Nat
    BY <1>2 DEF RunnerOK, PositionOK, Rules!OptionsOk
<1>5. qty \in Int BY <1>4, Products
<1>6. price \in Int
    <2>1. p.side * o.scaleOutAt * p.risk \in Int BY <1>4
    <2> QED BY <1>4, <2>1
<1> HIDE DEF qty, price, s
<1>7. f.price \in Int /\ f.fee \in Int
    <2>1. -p.side \in Int BY <1>4
    <2> QED BY <1>2, <1>5, <1>6, <2>1, FillType
<1> HIDE DEF f
<1>8. CASE o.minQty <= qty /\ qty < p.size /\ s = [scaled EXCEPT !.open = done]
    <2>1. qty \in Nat BY <1>4, <1>5, <1>8
    <2>2. Shrinks(r, scaled) BY <1>7, <1>8, <2>1, PartShrinks
    <2> HIDE DEF scaled
    <2>3. SameStake(scaled.open, target) BY DEF SameStake
    <2> HIDE DEF target
    <2>4. SameStake(target, even) BY BreakevenStake
    <2> HIDE DEF even
    <2>5. SameStake(scaled.open, done) BY <2>3, <2>4 DEF SameStake
    <2> HIDE DEF done
    <2>6. Shrinks(scaled, s) BY <1>3, <1>8, <2>2, <2>5, BasisKept DEF Managed, Shrinks
    <2> QED BY <2>2, <2>6, ShrinksChains DEF s
<1>9. CASE s = r BY <1>9, NothingShrinks DEF s
<1> QED BY <1>1, <1>8, <1>9 DEF s

\* The average of two positive prices is positive, and costs no more than both.
LEMMA Averages ==
    ASSUME NEW F \in Nat \ {0}, NEW n \in Nat \ {0}, NEW P \in Nat \ {0}, NEW m \in Nat \ {0}
    PROVE  LET v == (F * n + P * m) \div (n + m)
           IN  v \in Nat \ {0} /\ v * (n + m) <= F * n + P * m
<1>1. PICK w, t, v : w = F * n + P * m /\ t = n + m /\ v = w \div t OBVIOUS
<1>2. F * n >= n /\ P * m >= m BY Z3
<1>3. F * n \in Nat /\ P * m \in Nat OBVIOUS
<1>4. w \in Nat /\ t \in Nat \ {0} /\ w >= t BY <1>1, <1>2, <1>3
<1>5. v \in Int /\ v * t <= w /\ w < (v + 1) * t BY <1>1, <1>4
<1>6. v > 0
    <2>1. ASSUME v <= 0 PROVE FALSE
        <3>1. (v + 1) * t <= t BY <1>4, <1>5, <2>1
        <3>2. (v + 1) * t \in Int BY <1>4, <1>5
        <3> QED BY <1>4, <1>5, <3>1, <3>2
    <2> QED BY <1>5, <2>1
<1> QED BY <1>1, <1>5, <1>6

\* A pyramid entry is made at a price the bar has reached.
LEMMA AddPriced ==
    ASSUME NEW o, Plain(o), NEW r, Sound(r), Rules!IsOpen(r), NEW b, BarOK(b)
    PROVE  LET p == r.open
               price == p.entry + p.side * o.addAt * (p.adds + 1) * p.risk
           IN  price \in Int /\ (Rules!CanAdd(o, p, b, price) => price > 0)
<1> DEFINE p == r.open
           gap == o.addAt * (p.adds + 1) * p.risk
           price == p.entry + p.side * o.addAt * (p.adds + 1) * p.risk
<1>1. /\ p.side \in {1, -1} /\ p.entry \in Nat \ {0} /\ p.adds \in Nat /\ p.risk \in Nat /\ o.addAt \in Nat
    BY DEF Sound, RunnerOK, PositionOK, Priced, Plain, Sized, Rules!OptionsOk
<1>2. gap \in Nat
    <2>1. o.addAt * (p.adds + 1) \in Nat BY <1>1
    <2> QED BY <1>1, <2>1
<1>3. price = p.entry + p.side * gap
    <2>1. PICK d, a, k, R : d = p.side /\ a = o.addAt /\ k = p.adds + 1 /\ R = p.risk OBVIOUS
    <2>2. d \in {1, -1} /\ a \in Nat /\ k \in Nat /\ R \in Nat BY <1>1, <2>1
    <2>3. d * a * k * R = d * (a * k * R)
        <3>1. CASE d = 1 BY <2>2, <3>1
        <3>2. CASE d = -1 BY <2>2, <3>2
        <3> QED BY <2>2, <3>1, <3>2
    <2> QED BY <2>1, <2>3
<1> HIDE DEF gap
<1>4. price \in Int BY <1>1, <1>2, <1>3
<1>5. ASSUME p.side = 1 PROVE price > 0 BY <1>1, <1>2, <1>3, <1>5
<1>6. ASSUME p.side = -1, Rules!CanAdd(o, p, b, price) PROVE price > 0
    <2>1. PICK best : best = Rules!Best(o.trigger, b, p.side) OBVIOUS
    <2>2. best \in Nat \ {0} BY <1>6, <2>1 DEF Rules!Best, BarOK, Rules!CandleOk
    <2>3. p.side * (best - price) >= 0 BY <1>6, <2>1 DEF Rules!CanAdd, Rules!Reached
    <2> HIDE DEF price
    <2> QED BY <1>4, <1>6, <2>2, <2>3
<1> QED BY <1>1, <1>4, <1>5, <1>6

LEMMA AddSpends ==
    ASSUME NEW o, Plain(o), NEW r, Sound(r), Rules!IsOpen(r), NEW b, BarOK(b), NEW room \in Nat
    PROVE  LET s == Rules!Add(o, r, b, room)
           IN  Spends(o, r, s, room) /\ Rules!IsOpen(s) /\ s.pending = r.pending
<1> DEFINE p == r.open
           price == p.entry + p.side * o.addAt * (p.adds + 1) * p.risk
           wanted == p.base \div o.addDivisor
           qty == Rules!Resolved(o, room, wanted, price)
           f == Rules!ApplyFill(o, price, p.side, "limit", qty)
           fill == (p.fill * p.size + f.price * qty) \div (p.size + qty)
           q == [p EXCEPT !.fee = @ + f.fee, !.size = @ + qty, !.init = @ + qty, !.fill = fill,
                          !.adds = @ + 1]
           added == [r EXCEPT !.cash = @ - p.side * f.price * qty - f.fee, !.open = q]
           s == Rules!Add(o, r, b, room)
<1>1. s = IF ~Rules!CanAdd(o, p, b, price) \/ qty < o.minQty THEN r ELSE added BY DEF Rules!Add
<1>2. Sized(o) /\ Rules!OptionsOk(o) /\ RunnerOK(r) /\ Rules!CandleOk(b) BY DEF Plain, Sized, Sound, BarOK
<1>3. Managed(o, r, s) BY <1>2, AddOK
<1>4. /\ DOMAIN p = PositionFields /\ p.side \in {1, -1} /\ p.base \in Int /\ p.adds \in Nat
      /\ p.fill \in Nat \ {0} /\ p.size \in Nat \ {0} /\ p.entry \in Nat \ {0} /\ p.risk \in Nat
      /\ DOMAIN r = RunnerFields /\ o.addDivisor \in Nat \ {0} /\ o.minQty \in Nat \ {0}
    BY <1>2 DEF Sound, RunnerOK, PositionOK, Priced, Plain, Sized, Rules!OptionsOk
<1>5. wanted \in Int BY <1>4, Products
<1>6. price \in Int /\ (Rules!CanAdd(o, p, b, price) => price > 0) BY AddPriced
<1> HIDE DEF wanted, price
<1>7. qty \in Int BY <1>2, <1>5, <1>6, ResolvedType
<1>8. price > 0 => price * qty <= room * Rules!Leverage(o) BY <1>2, <1>5, <1>6, RoomCarries
<1> HIDE DEF qty, s
<1>9. f.price = price BY <1>4, <1>6, PlainFill
<1> HIDE DEF f
<1>10. PICK F, n, P, m, v, a : /\ F = p.fill /\ n = p.size /\ P = price /\ m = qty /\ v = fill
                               /\ a = room * Rules!Leverage(o)
    OBVIOUS
<1>11. Basis(r) = F * n /\ Basis(r) \in Nat BY <1>10, BasisType DEF Basis
<1>12. a \in Nat BY <1>2, <1>10, LeverageType
<1>13. CASE s = added /\ Rules!CanAdd(o, p, b, price) /\ qty >= o.minQty
    <2>1. F \in Nat \ {0} /\ n \in Nat \ {0} /\ P \in Nat \ {0} /\ m \in Nat \ {0}
        BY <1>4, <1>6, <1>7, <1>10, <1>13
    <2>2. v = (F * n + P * m) \div (n + m) BY <1>9, <1>10
    <2> HIDE DEF fill
    <2>3. v \in Nat \ {0} /\ v * (n + m) <= F * n + P * m BY <2>1, <2>2, Averages
    <2>4. P * m <= a BY <1>6, <1>8, <1>10, <1>13
    <2>5. /\ q.side = p.side /\ q.fill = v /\ q.size = n + m /\ q.adds = p.adds + 1
          /\ q.entry = p.entry /\ q.risk = p.risk
        BY <1>4, <1>10 DEF PositionFields
    <2> HIDE DEF q, p
    <2>6. s.open = q /\ s.pending = r.pending BY <1>4, <1>13, RunnerFieldFacts
    <2> HIDE DEF added
    <2>7. RunnerOK(s) /\ Rules!IsOpen(s) BY <1>3 DEF Managed
    <2>8. Priced(s) BY <1>4, <2>3, <2>5, <2>6 DEF Sound, Priced, Rules!IsPending
    <2>9. Basis(s) = v * (n + m) BY <2>5, <2>6, <2>7 DEF Basis
    <2>10. Basis(s) <= F * n + a
        <3>1. v * (n + m) \in Int /\ F * n \in Int /\ P * m \in Int BY <2>1, <2>3
        <3> QED BY <1>12, <2>3, <2>4, <2>9, <3>1
    <2> QED BY <1>10, <1>11, <2>6, <2>7, <2>8, <2>10 DEF Spends, Sound, s
<1>14. CASE s = r
    <2>1. Basis(s) <= Basis(r) + a BY <1>11, <1>12, <1>14
    <2> QED BY <1>10, <1>14, <2>1 DEF Spends, s
<1> QED BY <1>1, <1>4, <1>7, <1>13, <1>14

\* A position that is over leaves the order as it was.
LEMMA LastSpends ==
    ASSUME NEW o, Sized(o), NEW r, Sound(r), Rules!IsOpen(r), NEW price \in Int, NEW fee \in Int, NEW cooldown
    PROVE  LET s == Ended(Rules!CloseLeg(o, r, r.open.size, price, fee), cooldown)
           IN  Sound(s) /\ ~Rules!IsOpen(s)
<1> DEFINE n == r.open.size
           leg == Rules!CloseLeg(o, r, n, price, fee)
           s == Ended(leg, cooldown)
<1>1. Rules!OptionsOk(o) /\ RunnerOK(r) /\ n \in Int BY DEF Sized, Sound, RunnerOK, PositionOK
<1>2. RunnerOK(s) /\ ~Rules!IsOpen(s) BY <1>1, LastCloses
<1>3. DOMAIN leg = RunnerFields /\ leg.pending = r.pending BY <1>1, CloseLegType
<1> HIDE DEF leg
<1>4. s.pending = r.pending BY <1>3, RunnerFieldFacts DEF Ended
<1> HIDE DEF s
<1>5. Priced(s) BY <1>2, <1>4 DEF Sound, Priced, Rules!IsPending
<1> QED BY <1>2, <1>5 DEF Sound, s, leg, n

LEMMA OcoExitSpends ==
    ASSUME NEW o, Sized(o), NEW r, Sound(r), Rules!IsOpen(r), NEW b
    PROVE  LET s == Rules!OcoExit(o, r, b) IN s = r \/ (Sound(s) /\ ~Rules!IsOpen(s))
<1> DEFINE p == r.open
           hit == Rules!OcoExitCheck(o, p, b)
           at == IF hit = "TP" THEN p.tp ELSE p.stop
           kind == IF hit = "TP" THEN "limit" ELSE "stop"
           f == Rules!ApplyFill(o, at, -p.side, kind, p.size)
           lost == IF hit = "SL" THEN Rules!Most(r.cooldown, o.postLossCooldown) ELSE r.cooldown
           cooldown == IF lost = 0 THEN p.sig.cooldown ELSE lost
           s == Ended(Rules!CloseLeg(o, r, p.size, f.price, f.fee), cooldown)
<1>1. Rules!OcoExit(o, r, b) = IF hit = "no" THEN r ELSE s BY DEF Rules!OcoExit, Ended
<1>2. Rules!OptionsOk(o) /\ p.tp \in Int /\ p.stop \in Int /\ p.side \in {1, -1} /\ p.size \in Int
    BY DEF Sized, Sound, RunnerOK, PositionOK
<1>3. at \in Int /\ -p.side \in Int BY <1>2
<1> HIDE DEF at, kind, hit, cooldown
<1>4. f.price \in Int /\ f.fee \in Int BY <1>2, <1>3, FillType
<1> HIDE DEF f
<1>5. Sound(s) /\ ~Rules!IsOpen(s) BY <1>4, LastSpends
<1> HIDE DEF s
<1> QED BY <1>1, <1>5

LEMMA ForceExitSpends ==
    ASSUME NEW o, Sized(o), NEW r, Sound(r), Rules!IsOpen(r), NEW price \in Int
    PROVE  LET s == Rules!ForceExit(o, r, price) IN Sound(s) /\ ~Rules!IsOpen(s)
<1> DEFINE f == Rules!ApplyFill(o, price, -r.open.side, "market", r.open.size)
<1>1. r.open.side \in {1, -1} /\ r.open.size \in Int /\ Rules!OptionsOk(o)
    BY DEF Sound, RunnerOK, PositionOK, Sized
<1>2. -r.open.side \in Int BY <1>1
<1>3. f.price \in Int /\ f.fee \in Int BY <1>1, <1>2, FillType
<1>4. Rules!ForceExit(o, r, price)
          = Ended(Rules!CloseLeg(o, r, r.open.size, f.price, f.fee), r.open.sig.cooldown)
    BY DEF Rules!ForceExit, Ended
<1> HIDE DEF f
<1> QED BY <1>3, <1>4, LastSpends

\* A runner without a position has spent nothing.
LEMMA FlatSpends ==
    ASSUME NEW o, Sized(o), NEW r, Sound(r), NEW s, Sound(s), ~Rules!IsOpen(s), NEW room \in Nat
    PROVE  Spends(o, r, s, room)
<1>1. PICK a, c : a = room * Rules!Leverage(o) /\ c = Basis(r) OBVIOUS
<1>2. a \in Nat /\ c \in Nat BY <1>1, LeverageType, BasisType DEF Sized
<1>3. Basis(s) = 0 BY DEF Basis
<1> QED BY <1>1, <1>2, <1>3 DEF Spends

LEMMA ManageOpenSpends ==
    ASSUME NEW o, Plain(o), NEW r, Sound(r), Rules!IsOpen(r), NEW b, BarOK(b), NEW room \in Nat
    PROVE  Spends(o, r, Rules!ManageOpen(o, r, b, room), room)
<1> DEFINE p1 == Rules!Trailed(o, r.open, b)
           r1 == [r EXCEPT !.open = p1]
           r2 == Rules!VolatilityCut(o, r1, b)
           r3 == Rules!Add(o, r2, b, room)
           r4 == Rules!ScaleUnlessAdded(o, r2, r3, b)
           r5 == Rules!OcoExit(o, r4, b)
<1>1. /\ Sized(o) /\ Rules!OptionsOk(o) /\ RunnerOK(r) /\ PositionOK(r.open) /\ Rules!CandleOk(b)
    BY DEF Plain, Sized, Sound, RunnerOK, BarOK
<1>2. [r EXCEPT !.open = Rules!Trailed(o, @, b)] = r1 OBVIOUS
<1>3. Rules!ManageOpen(o, r, b, room) = r5 BY <1>2 DEF Rules!ManageOpen, Rules!AfterCut
<1>4. Tightened(o, r.open, p1) /\ SameStake(r.open, p1) BY <1>1, TrailedOK, TrailedStake
<1> HIDE DEF p1
<1>5. Managed(o, r, r1) BY <1>1, <1>4, PositionReplaced
<1>6. Shrinks(r, r1) BY <1>4, <1>5, BasisKept DEF Managed
<1> HIDE DEF r1
<1>7. Shrinks(r1, r2) BY <1>1, <1>6, VolatilityCutShrinks DEF Shrinks
<1> HIDE DEF r2
<1>8. Shrinks(r, r2) BY <1>6, <1>7, ShrinksChains
<1>9. Spends(o, r2, r3, room) /\ Rules!IsOpen(r3) BY <1>8, AddSpends DEF Shrinks
<1> HIDE DEF r3
<1>10. Shrinks(r2, Rules!ScaleOut(o, r2, b)) BY <1>1, <1>8, ScaleOutShrinks DEF Shrinks
<1>11. r4 = r3 \/ r4 = Rules!ScaleOut(o, r2, b) BY DEF Rules!ScaleUnlessAdded
<1> HIDE DEF r4
<1>12. PICK a, c, d, e, t : /\ a = room * Rules!Leverage(o) /\ c = Basis(r) /\ d = Basis(r2) /\ e = Basis(r4)
                            /\ t = Basis(r3)
    OBVIOUS
<1>13. Sound(r4) /\ Rules!IsOpen(r4) BY <1>9, <1>10, <1>11 DEF Spends, Shrinks
<1>14. a \in Nat /\ c \in Nat /\ d \in Nat /\ e \in Nat
    BY <1>1, <1>8, <1>12, <1>13, LeverageType, BasisType DEF Shrinks
<1>15. d <= c BY <1>8, <1>12 DEF Shrinks
<1>16. e <= d + a BY <1>9, <1>10, <1>11, <1>12, <1>14 DEF Spends, Shrinks
<1>17. e <= c + a BY <1>14, <1>15, <1>16
<1>18. Spends(o, r, r4, room) BY <1>12, <1>13, <1>17 DEF Spends
<1>19. r5 = r4 \/ (Sound(r5) /\ ~Rules!IsOpen(r5)) BY <1>1, <1>13, OcoExitSpends
<1> HIDE DEF r5
<1>20. Spends(o, r, r5, room) BY <1>1, <1>18, <1>19, FlatSpends
<1> QED BY <1>3, <1>20

LEMMA ExitsSpends ==
    ASSUME NEW o, Plain(o), NEW r, Sound(r), NEW b, BarOK(b), NEW room \in Nat
    PROVE  Spends(o, r, Rules!Exits(o, r, b, room), room)
<1>1. b.close \in Int /\ Sized(o) BY DEF BarOK, Rules!CandleOk, Plain
<1>2. CASE ~Rules!IsOpen(r) BY <1>1, <1>2, FlatSpends DEF Rules!Exits
<1>3. CASE Rules!IsOpen(r)
    <2>1. LET s == Rules!ForceExit(o, r, b.close) IN Sound(s) /\ ~Rules!IsOpen(s)
        BY <1>1, <1>3, ForceExitSpends
    <2>2. Spends(o, r, Rules!ForceExit(o, r, b.close), room) BY <1>1, <2>1, FlatSpends
    <2>3. Spends(o, r, Rules!ManageOpen(o, r, b, room), room) BY <1>3, ManageOpenSpends
    <2> QED BY <1>3, <2>2, <2>3 DEF Rules!Exits
<1> QED BY <1>2, <1>3

LEMMA StartBarSpends ==
    ASSUME NEW o, NEW r, Sound(r), NEW b
    PROVE  LET s == Rules!StartBar(o, r, b) IN Sound(s) /\ Basis(s) = Basis(r)
<1> DEFINE s == Rules!StartBar(o, r, b)
<1>1. RunnerOK(r) /\ DOMAIN r = RunnerFields BY DEF Sound, RunnerOK
<1>2. s.open = r.open /\ s.pending = r.pending BY <1>1, RunnerFieldFacts DEF Rules!StartBar
<1>3. RunnerOK(s) BY <1>1, StartBarOK
<1> HIDE DEF s
<1>4. Priced(s) /\ Basis(s) = Basis(r)
    BY <1>2 DEF Sound, Priced, Basis, Rules!IsOpen, Rules!IsPending
<1> QED BY <1>3, <1>4 DEF Sound, s

\* An order with its prices in order.
PricedOrder(p) == OrderOK(p) /\ p.entry > 0 /\ p.sig.mid >= 0

\* Orders move without the position.
LEMMA OrderSpends ==
    ASSUME NEW r, Sound(r), NEW p, p.side = 0 \/ PricedOrder(p)
    PROVE  LET s == [r EXCEPT !.pending = p]
           IN  Sound(s) /\ s.open = r.open /\ s.pending = p /\ Basis(s) = Basis(r)
<1> DEFINE s == [r EXCEPT !.pending = p]
<1>1. RunnerOK(r) /\ DOMAIN r = RunnerFields BY DEF Sound, RunnerOK
<1>2. s.open = r.open /\ s.pending = p BY <1>1, RunnerFieldFacts
<1>3. RunnerOK(s) BY <1>1, OrderReplaced DEF PricedOrder
<1> HIDE DEF s
<1>4. Priced(s) /\ Basis(s) = Basis(r)
    BY <1>2 DEF Sound, Priced, PricedOrder, Basis, Rules!IsOpen, Rules!IsPending
<1> QED BY <1>2, <1>3, <1>4 DEF Sound, s

LEMMA CancelSpends ==
    ASSUME NEW r, Sound(r)
    PROVE  LET s == Rules!CancelPending(r) IN Sound(s) /\ s.open = r.open /\ Basis(s) = Basis(r)
<1>1. Rules!NoPending.side = 0 BY DEF Rules!NoPending
<1> QED BY <1>1, OrderSpends DEF Rules!CancelPending

\* What costs no more than before spends nothing.
LEMMA SameSpends ==
    ASSUME NEW o, Sized(o), NEW r, Sound(r), NEW s, Sound(s), Basis(s) = Basis(r), NEW room \in Nat
    PROVE  Spends(o, r, s, room)
<1>1. PICK a, c : a = room * Rules!Leverage(o) /\ c = Basis(r) OBVIOUS
<1>2. a \in Nat /\ c \in Nat BY <1>1, LeverageType, BasisType DEF Sized
<1> QED BY <1>1, <1>2 DEF Spends

LEMMA SpendsNow ==
    ASSUME NEW o, NEW r, NEW s, NEW t, NEW room, Basis(s) = Basis(r), Spends(o, s, t, room)
    PROVE  Spends(o, r, t, room)
BY DEF Spends

LEMMA OpenFromPendingSpends ==
    ASSUME NEW o, Plain(o), NEW r, Sound(r), ~Rules!IsOpen(r), PricedOrder(r.pending),
           NEW price \in Int, price > 0, NEW kind, NEW equity \in Int, NEW room \in Nat
    PROVE  Spends(o, r, Rules!OpenFromPending(o, r, price, kind, equity, room), room)
<1> DEFINE p == r.pending
           stop == IF o.reanchor THEN price - p.side * p.planned ELSE p.stop
           tp == IF o.reanchor /\ p.sig.rr # 0 /\ p.tp = p.entry + p.side * p.sig.rr * p.planned
                 THEN price + p.side * p.sig.rr * Rules!Distance(price, stop) ELSE p.tp
           desired == IF p.qty # 0 THEN p.qty ELSE Rules!PositionSize(o, equity, price, stop)
           size == Rules!Resolved(o, room, desired, price)
           f == Rules!ApplyFill(o, price, p.side, kind, size)
           opened == [side |-> p.side, entry |-> price, stop |-> stop, tp |-> tp,
                      size |-> size, openIdx |-> r.idx, fill |-> f.price, fee |-> f.fee,
                      init |-> size, base |-> size, mfe |-> 0, adds |-> 0,
                      risk |-> Rules!Most(1, Rules!Distance(price, stop)), realized |-> 0,
                      beArmed |-> FALSE, scaled |-> FALSE, cutDone |-> FALSE,
                      entryAtr |-> r.atr, sig |-> p.sig]
           s == [r EXCEPT
                    !.trades = @ + 1, !.dayTrades = @ + 1, !.pending = Rules!NoPending,
                    !.cash = @ - p.side * f.price * size - f.fee,
                    !.open = opened]
           result == Rules!OpenFromPending(o, r, price, kind, equity, room)
<1>1. result = Rules!CancelPending(r) \/ result = s BY DEF Rules!OpenFromPending
<1>2. Sized(o) /\ Rules!OptionsOk(o) /\ RunnerOK(r) /\ OrderOK(p)
    BY DEF Plain, Sized, Sound, PricedOrder
<1>3. RunnerOK(result) BY <1>2, OpenFromPendingOK
<1>4. /\ p.side \in {1, -1} /\ p.stop \in Int /\ p.qty \in Int /\ p.planned \in Int /\ DOMAIN r = RunnerFields
    BY <1>2 DEF OrderOK, RunnerOK
<1>5. stop \in Int
    <2>1. price - p.side * p.planned \in Int BY <1>4
    <2> QED BY <1>4, <2>1
<1> HIDE DEF stop, tp, result
<1>6. desired \in Int
    <2>1. Rules!PositionSize(o, equity, price, stop) \in Int BY <1>2, <1>5, SizeType
    <2> QED BY <1>4, <2>1
<1> HIDE DEF desired
<1>7. price * size <= room * Rules!Leverage(o) BY <1>2, <1>6, RoomCarries
<1> HIDE DEF size
<1>8. f.price = price BY <1>4, PlainFill
<1> HIDE DEF f
<1>9. Rules!Most(1, Rules!Distance(price, stop)) >= 0
    <2>1. Rules!Distance(price, stop) \in Int BY <1>5, Extremes
    <2> QED BY <2>1 DEF Rules!Most
<1>10. PICK a, c : a = room * Rules!Leverage(o) /\ c = Basis(r) OBVIOUS
<1>11. c = 0 /\ a \in Nat BY <1>2, <1>10, LeverageType DEF Basis
<1>12. CASE result = s
    <2>1. /\ opened.side = p.side /\ opened.fill = price /\ opened.entry = price /\ opened.size = size
          /\ opened.adds = 0 /\ opened.risk >= 0
        BY <1>8, <1>9
    <2> HIDE DEF opened
    <2>2. result.open = opened /\ result.pending = Rules!NoPending BY <1>4, <1>12, RunnerFieldFacts
    <2> HIDE DEF s
    <2>3. Rules!IsOpen(result) /\ ~Rules!IsPending(result)
        BY <1>4, <2>1, <2>2 DEF Rules!IsOpen, Rules!IsPending, Rules!NoPending
    <2>4. Priced(result) BY <2>1, <2>2, <2>3 DEF Priced
    <2>5. Basis(result) = price * size BY <2>1, <2>2, <2>3 DEF Basis
    <2>6. Basis(result) <= c + a
        <3>1. PICK d : d = price * size OBVIOUS
        <3>2. result.open.size \in Int BY <1>3, <2>3 DEF RunnerOK, PositionOK
        <3>3. d \in Int BY <2>1, <2>2, <3>1, <3>2
        <3> QED BY <1>7, <1>10, <1>11, <2>5, <3>1, <3>3
    <2> QED BY <1>3, <1>10, <2>4, <2>6 DEF Spends, Sound, result
<1>13. CASE result = Rules!CancelPending(r) BY <1>2, <1>13, CancelSpends, SameSpends DEF result
<1> QED BY <1>1, <1>12, <1>13

LEMMA ChaseSpends ==
    ASSUME NEW o, Plain(o), NEW r, Sound(r), ~Rules!IsOpen(r), PricedOrder(r.pending),
           NEW b, BarOK(b), NEW equity \in Int, NEW room \in Nat
    PROVE  Spends(o, r, Rules!Chase(o, r, b, equity, room), room)
<1> DEFINE p == r.pending
           moves == ~p.chased /\ p.sig.mid # 0 /\ r.idx - p.startedAt >= Rules!Most(1, o.chaseAfter)
           q == IF moves THEN [p EXCEPT !.entry = p.sig.mid, !.chased = TRUE] ELSE p
           moved == [r EXCEPT !.pending = q]
           filled == Rules!OpenFromPending(o, moved, b.close, "market", equity, room)
           s == Rules!Chase(o, r, b, equity, room)
<1>1. s \in {r, Rules!CancelPending(r), filled, moved} BY DEF Rules!Chase
<1>2. PricedOrder(q)
    <2> DEFINE t == [p EXCEPT !.entry = p.sig.mid, !.chased = TRUE]
    <2>1. p.sig.mid \in Int /\ p.sig.mid >= 0 BY DEF PricedOrder, OrderOK, Rules!SignalRecord
    <2>2. /\ DOMAIN t = OrderFields /\ t.side = p.side /\ t.entry = p.sig.mid /\ t.stop = p.stop
          /\ t.tp = p.tp /\ t.qty = p.qty /\ t.planned = p.planned /\ t.sig = p.sig
        BY DEF PricedOrder, OrderOK, OrderFields
    <2> HIDE DEF t
    <2>3. OrderOK(t) BY <2>1, <2>2 DEF PricedOrder, OrderOK
    <2>4. moves => PricedOrder(t) BY <2>1, <2>2, <2>3 DEF PricedOrder
    <2> QED BY <2>4 DEF t
<1> HIDE DEF q
<1>3. Sound(moved) /\ moved.pending = q /\ moved.open = r.open /\ Basis(moved) = Basis(r) BY <1>2, OrderSpends
<1>4. ~Rules!IsOpen(moved) BY <1>3 DEF Rules!IsOpen
<1> HIDE DEF moved
<1>5. b.close \in Int /\ b.close > 0 /\ Sized(o) BY DEF BarOK, Rules!CandleOk, Plain
<1>6. Spends(o, moved, filled, room) BY <1>2, <1>3, <1>4, <1>5, OpenFromPendingSpends
<1> HIDE DEF filled
<1>7. Spends(o, r, filled, room) BY <1>3, <1>6, SpendsNow
<1>8. Spends(o, r, moved, room) /\ Spends(o, r, r, room) BY <1>3, <1>5, SameSpends
<1>9. Spends(o, r, Rules!CancelPending(r), room) BY <1>5, CancelSpends, SameSpends
<1> HIDE DEF s
<1> QED BY <1>1, <1>7, <1>8, <1>9 DEF s

LEMMA ManagePendingSpends ==
    ASSUME NEW o, Plain(o), NEW r, Sound(r), NEW b, BarOK(b), NEW equity \in Int, NEW can, NEW room \in Nat
    PROVE  Spends(o, r, Rules!ManagePending(o, r, b, equity, can, room), room)
<1>1. Sized(o) /\ b.close \in Int /\ b.close > 0 BY DEF Plain, BarOK, Rules!CandleOk
<1>2. Spends(o, r, r, room) BY <1>1, SameSpends
<1>3. Spends(o, r, Rules!CancelPending(r), room) BY <1>1, CancelSpends, SameSpends
<1>4. CASE Rules!IsOpen(r) \/ ~Rules!IsPending(r) BY <1>2, <1>4 DEF Rules!ManagePending
<1>5. CASE ~Rules!IsOpen(r) /\ Rules!IsPending(r)
    <2>1. PricedOrder(r.pending) BY <1>5 DEF Sound, RunnerOK, Priced, PricedOrder
    <2>2. r.pending.entry \in Int /\ r.pending.entry > 0 BY <2>1 DEF PricedOrder, OrderOK
    <2>3. Spends(o, r, Rules!OpenFromPending(o, r, b.close, "market", equity, room), room)
        BY <1>1, <1>5, <2>1, OpenFromPendingSpends
    <2>4. Spends(o, r, Rules!OpenFromPending(o, r, r.pending.entry, "limit", equity, room), room)
        BY <1>5, <2>1, <2>2, OpenFromPendingSpends
    <2>5. Spends(o, r, Rules!Chase(o, r, b, equity, room), room) BY <1>5, <2>1, ChaseSpends
    <2> QED BY <1>2, <1>3, <2>3, <2>4, <2>5 DEF Rules!ManagePending
<1> QED BY <1>4, <1>5

\* Signals that name no negative prices.
PricedRaw(raw) == raw \in Raws /\ (raw # Rules!NoSignal => raw.entry >= 0 /\ raw.mid >= 0)

LEMMA NormalizePriced ==
    ASSUME NEW o, NEW raw, PricedRaw(raw), NEW b, BarOK(b)
    PROVE  LET n == Rules!NormalizeSignal(o, raw, b) IN n # Rules!NoSignal => n.entry > 0 /\ n.mid >= 0
<1>1. CASE raw = Rules!NoSignal
    <2>1. raw.side = 0 BY <1>1 DEF Rules!NoSignal
    <2> QED BY <2>1 DEF Rules!NormalizeSignal
<1>2. CASE raw # Rules!NoSignal
    <2> DEFINE entry == IF raw.entry = 0 THEN b.close ELSE raw.entry
               rr == IF raw.rr = 0 THEN o.finalR ELSE raw.rr
               tp == IF raw.tp = 0 /\ rr > 0 THEN entry + raw.side * rr * Rules!Distance(entry, raw.stop)
                     ELSE raw.tp
    <2>1. raw \in Rules!SignalRecord /\ raw.entry >= 0 /\ raw.mid >= 0 BY <1>2 DEF PricedRaw, Raws
    <2>2. b.close \in Int /\ b.close > 0 /\ raw.entry \in Int
        BY <2>1 DEF BarOK, Rules!CandleOk, Rules!SignalRecord
    <2>3. entry > 0 BY <2>1, <2>2
    <2>4. Rules!NormalizeSignal(o, raw, b) \in {Rules!NoSignal, [raw EXCEPT !.entry = entry, !.tp = tp]}
        BY DEF Rules!NormalizeSignal
    <2> HIDE DEF entry, tp
    <2>5. LET n == [raw EXCEPT !.entry = entry, !.tp = tp] IN n.entry = entry /\ n.mid = raw.mid
        BY <2>1 DEF Rules!SignalRecord
    <2> QED BY <2>1, <2>3, <2>4, <2>5
<1> QED BY <1>1, <1>2

LEMMA ApplyRawSignalSpends ==
    ASSUME NEW o, Plain(o), NEW r, Sound(r), ~Rules!IsOpen(r), NEW raw, PricedRaw(raw),
           NEW b, BarOK(b), NEW equity \in Int, NEW room \in Nat
    PROVE  Spends(o, r, Rules!ApplyRawSignal(o, r, raw, b, equity, room), room)
<1> DEFINE n == Rules!NormalizeSignal(o, raw, b)
           order == [side |-> n.side, entry |-> n.entry, stop |-> n.stop, tp |-> n.tp, qty |-> n.qty,
                     expiresAt |-> r.idx + Rules!Most(1, IF n.expiry = 0 THEN 5 ELSE n.expiry),
                     startedAt |-> r.idx, chased |-> FALSE,
                     planned |-> Rules!Distance(n.entry, n.stop), sig |-> n]
           placed == [r EXCEPT !.pending = order]
           filled == Rules!OpenFromPending(o, placed, n.entry, "limit", equity, room)
           s == Rules!ApplyRawSignal(o, r, raw, b, equity, room)
<1>1. s = IF n = Rules!NoSignal THEN r
          ELSE IF Rules!TouchedLimit(o, n.side, n.entry, b) THEN filled ELSE placed
    BY DEF Rules!ApplyRawSignal
<1>2. Sized(o) /\ Rules!OptionsOk(o) /\ b.close \in Int /\ raw \in Raws
    BY DEF Plain, Sized, BarOK, Rules!CandleOk, PricedRaw
<1>3. n \in Raws BY <1>2, NormalizeOK
<1>4. n # Rules!NoSignal => n.entry > 0 /\ n.mid >= 0 BY NormalizePriced
<1> HIDE DEF n, s
<1>5. CASE n # Rules!NoSignal
    <2>1. n \in Rules!SignalRecord BY <1>3, <1>5 DEF Raws
    <2>2. /\ n.side \in {1, -1} /\ n.entry \in Int /\ n.stop \in Int /\ n.tp \in Int /\ n.qty \in Int
        BY <2>1 DEF Rules!SignalRecord
    <2>3. Rules!Distance(n.entry, n.stop) \in Int BY <2>2, Extremes
    <2>4. OrderOK(order) BY <2>1, <2>2, <2>3 DEF OrderOK, OrderFields
    <2>5. PricedOrder(order) BY <1>4, <1>5, <2>4 DEF PricedOrder
    <2> HIDE DEF order
    <2>6. Sound(placed) /\ placed.pending = order /\ placed.open = r.open /\ Basis(placed) = Basis(r)
        BY <2>5, OrderSpends
    <2>7. ~Rules!IsOpen(placed) BY <2>6 DEF Rules!IsOpen
    <2> HIDE DEF placed
    <2>8. Spends(o, placed, filled, room) BY <1>4, <1>5, <2>2, <2>5, <2>6, <2>7, OpenFromPendingSpends
    <2> HIDE DEF filled
    <2>9. Spends(o, r, filled, room) BY <2>6, <2>8, SpendsNow
    <2>10. Spends(o, r, placed, room) BY <1>2, <2>6, SameSpends
    <2> QED BY <1>1, <1>5, <2>9, <2>10 DEF s
<1>6. CASE n = Rules!NoSignal
    <2>1. Spends(o, r, r, room) BY <1>2, SameSpends
    <2> QED BY <1>1, <1>6, <2>1 DEF s
<1> QED BY <1>5, <1>6

LEMMA AtSignalSpends ==
    ASSUME NEW o, Plain(o), NEW r, Sound(r), NEW raw, PricedRaw(raw), NEW b, BarOK(b),
           NEW shared \in Int, NEW can \in BOOLEAN, NEW room \in Nat
    PROVE  LET s == Rules!AtSignal(o, r, b, raw, shared, can, room)
           IN  Spends(o, r, s, room) /\ (Rules!IsOpen(r) => Basis(s) = Basis(r))
<1> DEFINE rested == [r EXCEPT !.cooldown = Rules!Most(0, @ - 1)]
           quiet == Rules!NoEntry(o, r, can)
<1>1. Sized(o) /\ RunnerOK(r) /\ DOMAIN r = RunnerFields BY DEF Plain, Sound, RunnerOK
<1>2. Rules!SizingEquity(r, shared) \in Int BY <1>1 DEF Rules!SizingEquity, RunnerOK
<1>3. /\ DOMAIN rested = RunnerFields /\ rested.idx = r.idx /\ rested.equity = r.equity
      /\ rested.trades = r.trades /\ rested.open = r.open /\ rested.pending = r.pending
    BY <1>1, RunnerFieldFacts
<1>4. quiet \in {rested, Rules!CancelPending(r), r} BY DEF Rules!NoEntry
<1> HIDE DEF rested, quiet
<1>5. RunnerOK(rested) BY <1>1, <1>3 DEF RunnerOK, Rules!IsOpen, Rules!IsPending
<1>6. Sound(rested) /\ Basis(rested) = Basis(r)
    BY <1>3, <1>5 DEF Sound, Priced, Basis, Rules!IsOpen, Rules!IsPending
<1>7. Sound(quiet) /\ Basis(quiet) = Basis(r) BY <1>4, <1>6, CancelSpends
<1>8. Spends(o, r, quiet, room) BY <1>1, <1>7, SameSpends
<1>9. CASE Rules!AsksSignal(o, r, can)
    <2>1. ~Rules!IsOpen(r) BY <1>9 DEF Rules!AsksSignal
    <2> QED BY <1>2, <1>9, <2>1, ApplyRawSignalSpends DEF Rules!AtSignal
<1>10. CASE ~Rules!AsksSignal(o, r, can) BY <1>7, <1>8, <1>10 DEF Rules!AtSignal, quiet
<1> QED BY <1>9, <1>10

\* A whole bar, with its addition or its entry, spends no more than room: a
\* bar that ends with an addition makes no entry.
LEMMA StepSpends ==
    ASSUME NEW o, Plain(o), NEW r, Sound(r), NEW raw, PricedRaw(raw), NEW b, BarOK(b),
           NEW shared \in Int, NEW can \in BOOLEAN, NEW room \in Nat
    PROVE  Spends(o, r, Rules!Step(o, r, b, raw, shared, can, room), room)
<1> DEFINE started == Rules!StartBar(o, r, b)
           exited == Rules!Exits(o, started, b, room)
           managed == Rules!ManagePending(o, exited, b, Rules!SizingEquity(exited, shared), can, room)
           signalled == Rules!AtSignal(o, managed, b, raw, shared, can, room)
           s == [signalled EXCEPT !.idx = @ + 1]
<1>1. Rules!Step(o, r, b, raw, shared, can, room) = s
    BY DEF Rules!Step, Rules!PreSignal, Rules!AfterExits
<1>2. Sound(started) /\ Basis(started) = Basis(r) BY StartBarSpends
<1> HIDE DEF started
<1>3. Spends(o, started, exited, room) BY <1>2, ExitsSpends
<1> HIDE DEF exited
<1>4. Sound(exited) /\ Rules!SizingEquity(exited, shared) \in Int
    BY <1>3 DEF Rules!SizingEquity, Spends, Sound, RunnerOK
<1>5. Spends(o, exited, managed, room) BY <1>4, ManagePendingSpends
<1>6. Rules!IsOpen(exited) => managed = exited BY DEF Rules!ManagePending
<1> HIDE DEF managed
<1>7. Sound(managed) BY <1>5 DEF Spends
<1>8. Spends(o, managed, signalled, room) /\ (Rules!IsOpen(managed) => Basis(signalled) = Basis(managed))
    BY <1>7, AtSignalSpends
<1> HIDE DEF signalled
<1>9. Sound(signalled) BY <1>8 DEF Spends
<1>10. PICK a, x, e, m, g : /\ a = room * Rules!Leverage(o) /\ x = Basis(r) /\ e = Basis(exited)
                            /\ m = Basis(managed) /\ g = Basis(signalled)
    OBVIOUS
<1>11. a \in Nat /\ x \in Nat /\ e \in Nat /\ m \in Nat /\ g \in Nat
    BY <1>4, <1>7, <1>9, <1>10, LeverageType, BasisType DEF Plain, Sized
<1>12. e <= x + a /\ m <= e + a /\ g <= m + a BY <1>2, <1>3, <1>5, <1>8, <1>10 DEF Spends
<1>13. /\ Rules!IsOpen(exited) => m = e
       /\ ~Rules!IsOpen(exited) => e = 0
       /\ Rules!IsOpen(managed) => g = m
       /\ ~Rules!IsOpen(managed) => m = 0
    BY <1>6, <1>8, <1>10 DEF Basis
<1>14. g <= x + a BY <1>11, <1>12, <1>13
<1>15. /\ DOMAIN s = RunnerFields /\ s.idx = signalled.idx + 1 /\ s.equity = signalled.equity
       /\ s.trades = signalled.trades /\ s.open = signalled.open /\ s.pending = signalled.pending
    BY <1>9, RunnerFieldFacts DEF Sound, RunnerOK
<1> HIDE DEF s
<1>16. RunnerOK(s) BY <1>9, <1>15 DEF Sound, RunnerOK, Rules!IsOpen, Rules!IsPending
<1>17. Priced(s) /\ Basis(s) = Basis(signalled)
    BY <1>9, <1>15 DEF Sound, Priced, Basis, Rules!IsOpen, Rules!IsPending
<1> QED BY <1>1, <1>10, <1>14, <1>16, <1>17 DEF Spends, Sound

\* What is spent is locked, but for the leverage.
LEMMA SpendsLocks ==
    ASSUME NEW o, Sized(o), NEW r, Sound(r), NEW room \in Nat, NEW s, Spends(o, r, s, room)
    PROVE  /\ Rules!LockedCapital(o, r) \in Nat /\ Rules!LockedCapital(o, s) \in Nat
           /\ Rules!LockedCapital(o, s) <= Rules!LockedCapital(o, r) + room
<1>1. PICK lev, x, y : lev = Rules!Leverage(o) /\ x = Basis(r) /\ y = Basis(s) OBVIOUS
<1>2. lev \in Nat \ {0} /\ x \in Nat /\ y \in Nat BY <1>1, LeverageType, BasisType DEF Sized, Spends
<1>3. y <= x + room * lev BY <1>1 DEF Spends
<1>4. 0 \div lev = 0 BY <1>2
<1>5. Rules!LockedCapital(o, r) = x \div lev /\ Rules!LockedCapital(o, s) = y \div lev
    BY <1>1, <1>4 DEF Rules!LockedCapital, Basis
<1>6. x \div lev \in Nat /\ y \div lev \in Nat BY <1>2
<1>7. y \div lev <= (x \div lev) + room
    <2>1. PICK c, d, a : c = x \div lev /\ d = y \div lev /\ a = room * lev OBVIOUS
    <2>2. c \in Nat /\ d \in Nat /\ a \in Nat BY <1>2, <1>6, <2>1
    <2>3. d * lev <= y /\ x < (c + 1) * lev BY <1>2, <2>1
    <2>4. d * lev < (c + 1) * lev + room * lev
        <3>1. d * lev \in Int /\ (c + 1) * lev \in Int BY <1>2, <2>2
        <3> QED BY <1>2, <1>3, <2>1, <2>2, <2>3, <3>1
    <2>5. d * lev < (c + 1 + room) * lev BY <1>2, <2>2, <2>4
    <2>6. d < c + 1 + room
        <3>1. ASSUME d >= c + 1 + room PROVE FALSE
            <4>1. d * lev >= (c + 1 + room) * lev BY <1>2, <2>2, <3>1
            <4>2. d * lev \in Int /\ (c + 1 + room) * lev \in Int BY <1>2, <2>2
            <4> QED BY <2>5, <4>1, <4>2
        <3> QED BY <2>2, <3>1
    <2> QED BY <2>1, <2>2, <2>6
<1> QED BY <1>5, <1>6, <1>7

-----------------------------------------------------------------------------
(* Sums over the systems.  That they exist, and what one of their terms    *)
(* contributes, is induction over the systems, by a least counterexample.  *)

\* f holds the sums of the first numbers of w, up to n of them.
Sums(f, w, n) == f = [k \in 0 .. n |-> IF k = 0 THEN 0 ELSE f[k - 1] + w[k]]

LEMMA SumsUnfold ==
    ASSUME NEW f, NEW w, NEW n \in Nat, Sums(f, w, n)
    PROVE  f[0] = 0 /\ \A k \in 1 .. n : f[k] = f[k - 1] + w[k]
<1>1. f = [k \in 0 .. n |-> IF k = 0 THEN 0 ELSE f[k - 1] + w[k]] BY DEF Sums
<1> QED BY <1>1

\* A set of natural numbers that has a member has a least one.
LEMMA LeastOne ==
    ASSUME NEW S, S \subseteq Nat, S # {}
    PROVE  \E x \in S : \A y \in S : x <= y
<1>1. PICK R : R = OpToRel(<, Nat) OBVIOUS
<1>2. IsWellFoundedOn(R, Nat) BY <1>1, NatLessThanWellFounded
<1>3. PICK x \in S : \A y \in S : ~(<<y, x>> \in R) BY <1>2, WFMin
<1>4. ASSUME NEW y \in S PROVE x <= y
    <2>1. y < x => <<y, x>> \in R BY <1>1 DEF OpToRel
    <2> QED BY <1>3, <2>1
<1> QED BY <1>4

LEMMA SumsExist ==
    ASSUME NEW n \in Nat, NEW w \in [1 .. n -> Int]
    PROVE  \E f : Sums(f, w, n)
<1> DEFINE Bad == {k \in 0 .. n : ~\E f : Sums(f, w, k)}
<1>1. SUFFICES ASSUME Bad # {} PROVE FALSE
    <2>1. n \in 0 .. n OBVIOUS
    <2> QED BY <2>1
<1>2. Bad \subseteq Nat OBVIOUS
<1>3. PICK k \in Bad : \A y \in Bad : k <= y BY <1>1, <1>2, LeastOne
<1>4. k \in 0 .. n /\ ~\E f : Sums(f, w, k) OBVIOUS
<1>5. k # 0
    <2>1. PICK f : f = [j \in 0 .. 0 |-> 0] OBVIOUS
    <2>2. Sums(f, w, 0) BY <2>1 DEF Sums
    <2> QED BY <1>4, <2>2
<1>6. k \in 1 .. n /\ k - 1 \in 0 .. n /\ ~(k <= k - 1) BY <1>4, <1>5
<1>7. PICK f : Sums(f, w, k - 1) BY <1>3, <1>6
<1>8. PICK g : g = [j \in 0 .. k |-> IF j = k THEN f[k - 1] + w[k] ELSE f[j]] OBVIOUS
<1>9. f[0] = 0 /\ \A j \in 1 .. (k - 1) : f[j] = f[j - 1] + w[j] BY <1>6, <1>7, SumsUnfold
<1>10. ASSUME NEW j \in 0 .. k PROVE g[j] = IF j = 0 THEN 0 ELSE g[j - 1] + w[j]
    BY <1>6, <1>8, <1>9
<1>11. Sums(g, w, k) BY <1>8, <1>10 DEF Sums
<1> QED BY <1>4, <1>11

\* Every sum is a whole number, and of terms that are not negative none is
\* less than a term it has.
LEMMA SumsCover ==
    ASSUME NEW n \in Nat, NEW w \in [1 .. n -> Int], NEW f, Sums(f, w, n)
    PROVE  /\ f[n] \in Int
           /\ (\A k \in 1 .. n : w[k] >= 0) => f[n] >= 0 /\ \A k \in 1 .. n : f[n] >= w[k]
<1> DEFINE Good(j) == /\ f[j] \in Int
                      /\ (\A k \in 1 .. n : w[k] >= 0) => f[j] >= 0 /\ \A k \in 1 .. j : f[j] >= w[k]
           Bad == {j \in 0 .. n : ~Good(j)}
<1>1. SUFFICES ASSUME Bad # {} PROVE FALSE
    <2>1. n \in 0 .. n OBVIOUS
    <2> QED BY <2>1
<1>2. Bad \subseteq Nat OBVIOUS
<1>3. PICK j \in Bad : \A y \in Bad : j <= y BY <1>1, <1>2, LeastOne
<1>4. j \in 0 .. n /\ ~Good(j) OBVIOUS
<1>5. f[0] = 0 /\ \A k \in 1 .. n : f[k] = f[k - 1] + w[k] BY SumsUnfold
<1>6. Good(0) BY <1>5
<1>7. j \in 1 .. n /\ j - 1 \in 0 .. n /\ ~(j <= j - 1) BY <1>4, <1>6
<1>8. Good(j - 1) BY <1>3, <1>7
<1>9. f[j] = f[j - 1] + w[j] /\ w[j] \in Int BY <1>5, <1>7
<1>10. f[j] \in Int BY <1>8, <1>9
<1>11. ASSUME \A k \in 1 .. n : w[k] >= 0 PROVE f[j] >= 0 /\ \A k \in 1 .. j : f[j] >= w[k]
    <2>1. /\ f[j - 1] >= 0 /\ f[j - 1] \in Int /\ w[j] >= 0
          /\ \A k \in 1 .. (j - 1) : f[j - 1] >= w[k]
        BY <1>7, <1>8, <1>11
    <2>2. ASSUME NEW k \in 1 .. j PROVE f[j] >= w[k]
        <3>1. w[k] \in Int BY <1>7
        <3>2. CASE k = j BY <1>9, <2>1, <3>2
        <3>3. CASE k # j
            <4>1. k \in 1 .. (j - 1) BY <1>7, <3>3
            <4> QED BY <1>9, <2>1, <3>1, <4>1
        <3> QED BY <3>2, <3>3
    <2> QED BY <1>9, <2>1, <2>2
<1> QED BY <1>4, <1>10, <1>11

\* v has the terms of w, one of them changed.
Differ(w, v, m, n) ==
    /\ n \in Nat /\ w \in [1 .. n -> Int] /\ v \in [1 .. n -> Int] /\ m \in 1 .. n
    /\ \A k \in 1 .. n : k # m => v[k] = w[k]

\* A term that changes by d changes the sum by d.
LEMMA SumsDiffer ==
    ASSUME NEW n, NEW w, NEW v, NEW m, Differ(w, v, m, n),
           NEW f, Sums(f, w, n), NEW g, Sums(g, v, n)
    PROVE  g[n] = f[n] + (v[m] - w[m])
<1>1. n \in Nat /\ w \in [1 .. n -> Int] /\ v \in [1 .. n -> Int] /\ m \in 1 .. n
    BY DEF Differ
<1>2. f[0] = 0 /\ \A k \in 1 .. n : f[k] = f[k - 1] + w[k] BY <1>1, SumsUnfold
<1>3. g[0] = 0 /\ \A k \in 1 .. n : g[k] = g[k - 1] + v[k] BY <1>1, SumsUnfold
<1> DEFINE Good(j) == f[j] \in Int /\ g[j] = f[j] + (IF m <= j THEN v[m] - w[m] ELSE 0)
           Bad == {j \in 0 .. n : ~Good(j)}
<1>4. SUFFICES ASSUME Bad # {} PROVE FALSE
    <2>1. n \in 0 .. n /\ m <= n BY <1>1
    <2> QED BY <2>1
<1>5. Bad \subseteq Nat BY <1>1
<1>6. PICK j \in Bad : \A y \in Bad : j <= y BY <1>4, <1>5, LeastOne
<1>7. j \in 0 .. n /\ ~Good(j) OBVIOUS
<1>8. Good(0) BY <1>1, <1>2, <1>3
<1>9. j \in 1 .. n /\ j - 1 \in 0 .. n /\ ~(j <= j - 1) BY <1>1, <1>7, <1>8
<1>10. Good(j - 1) BY <1>6, <1>9
<1>11. PICK a, b, c, e, x, y : /\ a = f[j - 1] /\ b = g[j - 1] /\ c = w[j] /\ e = v[j]
                               /\ x = w[m] /\ y = v[m]
    OBVIOUS
<1>12. a \in Int /\ c \in Int /\ e \in Int /\ x \in Int /\ y \in Int BY <1>1, <1>9, <1>10, <1>11
<1>13. f[j] = a + c /\ g[j] = b + e BY <1>2, <1>3, <1>9, <1>11
<1>14. b = a + (IF m <= j - 1 THEN y - x ELSE 0) BY <1>10, <1>11
<1>15. IF j = m THEN e = y /\ c = x ELSE e = c BY <1>9, <1>11 DEF Differ
<1>16. b + e = a + c + (IF m <= j THEN y - x ELSE 0)
    <2>1. CASE m < j
        <3>1. m <= j - 1 /\ m <= j /\ j # m BY <1>1, <1>9, <2>1
        <3> QED BY <1>12, <1>14, <1>15, <3>1
    <2>2. CASE m = j
        <3>1. ~(m <= j - 1) /\ m <= j BY <1>1, <1>9, <2>2
        <3> QED BY <1>12, <1>14, <1>15, <2>2, <3>1
    <2>3. CASE m > j
        <3>1. ~(m <= j - 1) /\ ~(m <= j) /\ j # m BY <1>1, <1>9, <2>3
        <3> QED BY <1>12, <1>14, <1>15, <3>1
    <2> QED BY <1>1, <1>9, <2>1, <2>2, <2>3
<1>17. Good(j) BY <1>11, <1>12, <1>13, <1>16
<1> QED BY <1>7, <1>17

LEMMA SystemFacts ==
    /\ Len(PortWeights) \in Nat /\ System = 1 .. Len(PortWeights)
    /\ PortWeights \in [System -> Nat]
BY PortfolioAssumption DEF System

LEMMA OverSystemsSums ==
    ASSUME NEW w \in [System -> Int]
    PROVE  \E f : Sums(f, w, Len(PortWeights)) /\ OverSystems(w) = f[Len(PortWeights)]
<1>1. PICK n : n = Len(PortWeights) OBVIOUS
<1>2. n \in Nat /\ w \in [1 .. n -> Int] BY <1>1, SystemFacts
<1>3. \E f : Sums(f, w, n) BY <1>2, SumsExist
<1>4. PICK f : f = CHOOSE h : h = [k \in 0 .. n |-> IF k = 0 THEN 0 ELSE h[k - 1] + w[k]] OBVIOUS
<1>5. Sums(f, w, n) BY <1>3, <1>4 DEF Sums
<1>6. OverSystems(w) = f[n] BY <1>1, <1>4 DEF OverSystems
<1> QED BY <1>1, <1>5, <1>6

\* What the sums over the systems are.
LEMMA OverSystemsFacts ==
    ASSUME NEW w \in [System -> Int]
    PROVE  /\ OverSystems(w) \in Int
           /\ (\A k \in System : w[k] >= 0) => OverSystems(w) >= 0 /\ \A k \in System : OverSystems(w) >= w[k]
<1>1. PICK n : n = Len(PortWeights) OBVIOUS
<1>2. n \in Nat /\ w \in [1 .. n -> Int] /\ System = 1 .. n BY <1>1, SystemFacts
<1>3. PICK f : Sums(f, w, n) /\ OverSystems(w) = f[n] BY <1>1, OverSystemsSums
<1>4. /\ f[n] \in Int
      /\ (\A k \in 1 .. n : w[k] >= 0) => f[n] >= 0 /\ \A k \in 1 .. n : f[n] >= w[k]
    BY <1>2, <1>3, SumsCover
<1> QED BY <1>2, <1>3, <1>4

LEMMA OverSystemsDiffer ==
    ASSUME NEW w \in [System -> Int], NEW v \in [System -> Int], NEW m \in System,
           \A k \in System : k # m => v[k] = w[k]
    PROVE  OverSystems(v) = OverSystems(w) + (v[m] - w[m])
<1>1. PICK n : n = Len(PortWeights) OBVIOUS
<1>2. n \in Nat /\ System = 1 .. n BY <1>1, SystemFacts
<1>3. PICK f : Sums(f, w, n) /\ OverSystems(w) = f[n] BY <1>1, OverSystemsSums
<1>4. PICK g : Sums(g, v, n) /\ OverSystems(v) = g[n] BY <1>1, OverSystemsSums
<1>5. Differ(w, v, m, n) BY <1>2 DEF Differ
<1>6. Sums(f, w, n) /\ Sums(g, v, n) BY <1>3, <1>4
<1>7. g[n] = f[n] + (v[m] - w[m]) BY <1>5, <1>6, SumsDiffer
<1> QED BY <1>3, <1>4, <1>7

-----------------------------------------------------------------------------
(* A portfolio shares its capital.                                         *)

\* Prices are positive, fills cost the price of their order.
PortPlain ==
    /\ Plain(PortOptions)
    /\ \A s \in PortShapes : s.low > 0
    /\ \A raw \in PortSignals : raw.entry >= 0 /\ raw.mid >= 0

\* Runners of a portfolio.
SoundRunners(s) ==
    DOMAIN s = System /\ \A n \in System : Sound(s[n]) /\ s[n].mark \in Int

SharesInv == PortInv /\ SoundRunners(systems)

LEMMA WeightFacts ==
    /\ WeightTotal \in Nat \ {0}
    /\ \A n \in System : PortWeights[n] \in Nat /\ Reference(n) \in Int
<1>1. PortWeights \in [System -> Int] /\ \A n \in System : PortWeights[n] \in Nat BY SystemFacts
<1>2. PICK n \in System : PortWeights[n] > 0 BY PortfolioAssumption DEF System
<1>3. /\ WeightTotal \in Int
      /\ (\A k \in System : PortWeights[k] >= 0) => \A k \in System : WeightTotal >= PortWeights[k]
    BY <1>1, OverSystemsFacts DEF WeightTotal
<1>4. WeightTotal \in Nat \ {0} BY <1>1, <1>2, <1>3
<1>5. ASSUME NEW k \in System PROVE Reference(k) \in Int
    <2>1. PortWeights[k] \in Int /\ PortEquity \in Int BY <1>1, PortfolioAssumption
    <2>2. PortEquity * PortWeights[k] \in Int BY <2>1, Products
    <2> QED BY <1>4, <2>2, Products DEF Reference
<1> QED BY <1>1, <1>4, <1>5

LEMMA CapType == ASSUME NEW n \in System, NEW total \in Int PROVE Cap(n, total) \in Int
<1> DEFINE equity == Rules!Most(0, total)
           share == IF PortWeights[n] = 0 THEN equity ELSE (equity * PortWeights[n]) \div WeightTotal
<1>1. equity \in Int BY Extremes
<1>2. PortWeights[n] \in Int /\ WeightTotal \in Nat \ {0} /\ PortMaxAlloc \in Int
    BY WeightFacts, PortfolioAssumption
<1>3. Cap(n, total) \in {share, PortMaxAlloc, Rules!Least(share, PortMaxAlloc)} BY DEF Cap
<1> HIDE DEF equity
<1>4. equity * PortWeights[n] \in Int BY <1>1, <1>2, Products
<1>5. (equity * PortWeights[n]) \div WeightTotal \in Int BY <1>2, <1>4, Products
<1>6. share \in Int BY <1>1, <1>5
<1> HIDE DEF share
<1>7. Rules!Least(share, PortMaxAlloc) \in Int BY <1>2, <1>6, Extremes
<1> QED BY <1>2, <1>3, <1>6, <1>7

LEMMA MarkedType ==
    ASSUME NEW r, Sound(r), r.mark \in Int
    PROVE  Rules!MarkedEquity(r) \in Int
<1>1. r.equity \in Int BY DEF Sound, RunnerOK
<1>2. CASE Rules!IsOpen(r)
    <2>1. r.open.fill \in Int /\ r.open.side \in Int /\ r.open.size \in Int
        BY <1>2 DEF Sound, RunnerOK, PositionOK
    <2>2. (r.mark - r.open.fill) * r.open.side \in Int BY <2>1, Products
    <2>3. (r.mark - r.open.fill) * r.open.side * r.open.size \in Int BY <2>1, <2>2, Products
    <2> QED BY <1>1, <2>3 DEF Rules!MarkedEquity
<1>3. CASE ~Rules!IsOpen(r) BY <1>1, <1>3 DEF Rules!MarkedEquity
<1> QED BY <1>2, <1>3

\* What each system has locked.
Locks(s) == [n \in System |-> Locked(s, n)]

LEMMA LockedType ==
    ASSUME Sized(PortOptions), NEW s, SoundRunners(s), NEW n \in System
    PROVE  Locked(s, n) \in Nat
<1>1. PICK r : r = s[n] OBVIOUS
<1>2. PICK room : room = 0 OBVIOUS
<1>3. Sound(r) /\ room \in Nat BY <1>1, <1>2 DEF SoundRunners
<1>4. Spends(PortOptions, r, r, room) BY <1>3, SameSpends
<1>5. Rules!LockedCapital(PortOptions, r) \in Nat BY <1>3, <1>4, SpendsLocks
<1> QED BY <1>1, <1>5 DEF Locked

LEMMA TotalsType ==
    ASSUME Sized(PortOptions), NEW s, SoundRunners(s)
    PROVE  /\ Marked(s) \in Int
           /\ Locks(s) \in [System -> Int] /\ AllLocked(s) = OverSystems(Locks(s)) /\ AllLocked(s) \in Int
<1>1. PICK w : w = [n \in System |-> Rules!MarkedEquity(s[n]) - Reference(n)] OBVIOUS
<1>2. ASSUME NEW n \in System PROVE Rules!MarkedEquity(s[n]) - Reference(n) \in Int
    <2>1. Rules!MarkedEquity(s[n]) \in Int BY MarkedType DEF SoundRunners
    <2>2. Reference(n) \in Int BY WeightFacts
    <2> QED BY <2>1, <2>2
<1>3. w \in [System -> Int] BY <1>1, <1>2
<1>4. OverSystems(w) \in Int BY <1>3, OverSystemsFacts
<1>5. Marked(s) \in Int BY <1>1, <1>4, PortfolioAssumption DEF Marked
<1>6. PICK v : v = Locks(s) OBVIOUS
<1>7. \A n \in System : Locked(s, n) \in Int BY LockedType
<1>8. v \in [System -> Int] BY <1>6, <1>7 DEF Locks
<1>9. OverSystems(v) \in Int BY <1>8, OverSystemsFacts
<1>10. AllLocked(s) = OverSystems(v) BY <1>6 DEF AllLocked, Locks
<1> QED BY <1>5, <1>6, <1>8, <1>9, <1>10

\* The room of a system fits in its share and in what no system has locked.
LEMMA RoomFits ==
    ASSUME Sized(PortOptions), NEW s, SoundRunners(s), NEW n \in System
    PROVE  /\ Room(s, n) \in Nat
           /\ Room(s, n) > 0 => /\ Locked(s, n) + Room(s, n) <= Cap(n, Marked(s))
                                /\ AllLocked(s) + Room(s, n) <= Marked(s)
<1>1. PICK all, cap, mine, marked :
          all = AllLocked(s) /\ cap = Cap(n, Marked(s)) /\ mine = Locked(s, n) /\ marked = Marked(s)
    OBVIOUS
<1>2. all \in Int /\ marked \in Int BY <1>1, TotalsType
<1>3. cap \in Int BY <1>1, <1>2, CapType
<1>4. mine \in Int BY <1>1, LockedType
<1>5. Room(s, n) = Rules!Most(0, Rules!Least(Rules!Most(0, marked - all), cap - mine)) BY <1>1 DEF Room
<1>6. PICK x, y : x = marked - all /\ y = cap - mine OBVIOUS
<1>7. x \in Int /\ y \in Int BY <1>2, <1>3, <1>4, <1>6
<1>8. Room(s, n) = Rules!Most(0, Rules!Least(Rules!Most(0, x), y)) BY <1>5, <1>6
<1>9. Room(s, n) \in Nat /\ (Room(s, n) > 0 => Room(s, n) <= x /\ Room(s, n) <= y)
    BY <1>7, <1>8 DEF Rules!Most, Rules!Least
<1> QED BY <1>1, <1>2, <1>3, <1>4, <1>6, <1>9

\* What CapitalShared says of two states of the systems.
Shared(s, t) ==
    \A n \in System : Locked(t, n) > Locked(s, n) =>
        /\ Locked(t, n) <= Cap(n, Marked(s))
        /\ AllLocked(t) <= Marked(s)

LEMMA SharesInvInit == PortInit => SharesInv
<1> SUFFICES ASSUME PortInit PROVE SharesInv OBVIOUS
<1>1. ASSUME NEW e \in Int PROVE Sound(Rules!NewRunner(e)) /\ Rules!NewRunner(e).mark \in Int
    <2> DEFINE r == Rules!NewRunner(e)
    <2>1. /\ DOMAIN r = RunnerFields /\ r.idx = 1 /\ r.equity = e /\ r.trades = 0 /\ r.mark = 0
          /\ r.open = Rules!NoPosition /\ r.pending = Rules!NoPending
        BY RunnerFieldFacts DEF Rules!NewRunner
    <2> HIDE DEF r
    <2>2. ~Rules!IsOpen(r) /\ ~Rules!IsPending(r)
        BY <2>1 DEF Rules!IsOpen, Rules!IsPending, Rules!NoPosition, Rules!NoPending
    <2>3. RunnerOK(r) BY <2>1, <2>2 DEF RunnerOK
    <2>4. Priced(r) BY <2>2 DEF Priced
    <2>5. Sound(r) BY <2>3, <2>4 DEF Sound
    <2> QED BY <2>1, <2>5 DEF r
<1>2. systems = [n \in System |-> Rules!NewRunner(Reference(n))] BY DEF PortInit
<1>3. ASSUME NEW n \in System PROVE Sound(systems[n]) /\ systems[n].mark \in Int
    <2>1. Reference(n) \in Int BY WeightFacts
    <2>2. systems[n] = Rules!NewRunner(Reference(n)) BY <1>2
    <2> QED BY <1>1, <2>1, <2>2
<1>4. SoundRunners(systems) BY <1>2, <1>3 DEF SoundRunners
<1> QED BY <1>4, PortInvInit DEF SharesInv

\* The step of one system.
LEMMA OneSteps ==
    ASSUME PortPlain, NEW s, SoundRunners(s), NEW n \in System, DOMAIN s[n] = Fields,
           NEW shape \in PortShapes, NEW raw \in PortSignals \cup {Rules!NoSignal}, NEW can \in BOOLEAN,
           NEW r, r = Rules!Step(PortOptions, s[n], Barred(shape), raw, Marked(s), can, Room(s, n))
    PROVE  /\ SoundRunners([s EXCEPT ![n] = r])
           /\ Shared(s, [s EXCEPT ![n] = r])
<1> DEFINE b == Barred(shape)
           t == [s EXCEPT ![n] = r]
<1>1. Plain(PortOptions) /\ Sized(PortOptions) BY DEF PortPlain, Plain
<1>2. BarOK(b)
    <2>1. Rules!CandleOk(shape) /\ shape.low > 0 BY PortfolioAssumption DEF PortPlain
    <2> QED BY <2>1 DEF BarOK, Barred, Rules!CandleOk
<1>3. b.close \in Int BY <1>2 DEF BarOK, Rules!CandleOk
<1> HIDE DEF b
<1>4. PricedRaw(raw) BY PortfolioAssumption DEF PortPlain, PricedRaw, Raws
<1>5. PICK room, shared, q : room = Room(s, n) /\ shared = Marked(s) /\ q = s[n] OBVIOUS
<1>6. room \in Nat BY <1>1, <1>5, RoomFits
<1>7. shared \in Int BY <1>1, <1>5, TotalsType
<1>8. Sound(q) /\ DOMAIN q = Fields BY <1>5 DEF SoundRunners
<1>9. r = Rules!Step(PortOptions, q, b, raw, shared, can, room) BY <1>5 DEF b
<1>10. Spends(PortOptions, q, r, room) BY <1>1, <1>2, <1>4, <1>6, <1>7, <1>8, <1>9, StepSpends
<1>11. r.mark = b.close BY <1>8, <1>9, StepMarks
<1>12. DOMAIN t = System /\ t[n] = r /\ \A m \in System : m # n => t[m] = s[m] BY DEF SoundRunners
<1> HIDE DEF t
<1>13. SoundRunners(t) BY <1>3, <1>10, <1>11, <1>12 DEF SoundRunners, Spends
<1>14. Shared(s, t)
    <2>1. ASSUME NEW m \in System, m # n PROVE Locked(t, m) = Locked(s, m) BY <1>12, <2>1 DEF Locked
    <2>2. PICK x, y, marked : x = Locked(s, n) /\ y = Locked(t, n) /\ marked = Marked(s) OBVIOUS
    <2>3. x = Rules!LockedCapital(PortOptions, q) /\ y = Rules!LockedCapital(PortOptions, r)
        BY <1>5, <1>12, <2>2 DEF Locked
    <2>4. x \in Nat /\ y \in Nat /\ y <= x + room BY <1>1, <1>6, <1>8, <1>10, <2>3, SpendsLocks
    <2>5. PICK w, v : w = Locks(s) /\ v = Locks(t) OBVIOUS
    <2>6. w \in [System -> Int] /\ AllLocked(s) = OverSystems(w) /\ AllLocked(s) \in Int
        BY <1>1, <2>5, TotalsType
    <2>7. v \in [System -> Int] /\ AllLocked(t) = OverSystems(v) BY <1>1, <1>13, <2>5, TotalsType
    <2>8. w[n] = x /\ v[n] = y /\ \A m \in System : m # n => v[m] = w[m]
        BY <2>1, <2>2, <2>5 DEF Locks
    <2>9. OverSystems(v) = OverSystems(w) + (v[n] - w[n]) BY <2>6, <2>7, <2>8, OverSystemsDiffer
    <2>10. AllLocked(t) = AllLocked(s) + (y - x) BY <2>6, <2>7, <2>8, <2>9
    <2>11. room > 0 => x + room <= Cap(n, marked) /\ AllLocked(s) + room <= marked
        BY <1>1, <1>5, <2>2, RoomFits
    <2>12. marked \in Int /\ Cap(n, marked) \in Int BY <1>5, <1>7, <2>2, CapType
    <2>13. y > x => y <= Cap(n, marked) /\ AllLocked(t) <= marked
        BY <1>6, <2>4, <2>6, <2>10, <2>11, <2>12
    <2>14. ASSUME NEW m \in System, Locked(t, m) > Locked(s, m)
           PROVE  m = n
        <3>1. Locked(s, m) \in Nat BY <1>1, LockedType
        <3> QED BY <2>1, <2>14, <3>1
    <2> QED BY <2>2, <2>13, <2>14 DEF Shared
<1> QED BY <1>13, <1>14 DEF t

\* The exit of all systems leaves nothing locked.
LEMMA ForceExitAllShares ==
    ASSUME Sized(PortOptions), NEW s, SoundRunners(s), NEW t, SoundRunners(t),
           \A n \in System : DOMAIN t[n] = Fields /\ (t[n].mark = 0 => ~Rules!IsOpen(t[n]))
    PROVE  SoundRunners(ForceExitAll(t)) /\ Shared(s, ForceExitAll(t))
<1> DEFINE u == ForceExitAll(t)
<1>1. DOMAIN u = System /\ \A n \in System : DOMAIN u[n] = Fields /\ Flat(u[n])
    BY ForceExitAllFlat DEF SoundRunners
<1>2. ASSUME NEW n \in System PROVE Sound(u[n]) /\ u[n].mark \in Int
    <2>1. PICK r : r = Rules!CancelPending(t[n]) OBVIOUS
    <2>2. u[n] = IF r.mark = 0 THEN r ELSE Rules!ForceExit(PortOptions, r, r.mark)
        BY <2>1 DEF ForceExitAll
    <2>3. Sound(t[n]) /\ t[n].mark \in Int /\ DOMAIN t[n] = Fields BY DEF SoundRunners
    <2>4. Sound(r) BY <2>1, <2>3, CancelSpends
    <2>5. r.mark \in Int /\ DOMAIN r = Fields BY <2>1, <2>3, FieldFacts DEF Rules!CancelPending
    <2>6. Sound(Rules!ForceExit(PortOptions, r, r.mark))
        <3>1. CASE Rules!IsOpen(r) BY <2>4, <2>5, <3>1, ForceExitSpends
        <3>2. CASE ~Rules!IsOpen(r) BY <2>4, <3>2 DEF Rules!ForceExit
        <3> QED BY <3>1, <3>2
    <2>7. Rules!ForceExit(PortOptions, r, r.mark).mark = r.mark BY <2>5, ForceExitMarks DEF Marks
    <2> QED BY <2>2, <2>4, <2>5, <2>6, <2>7
<1> HIDE DEF u
<1>3. SoundRunners(u) BY <1>1, <1>2 DEF SoundRunners
<1>4. ASSUME NEW n \in System PROVE ~(Locked(u, n) > Locked(s, n))
    <2>1. Locked(u, n) = 0 BY <1>1 DEF Locked, Rules!LockedCapital, Flat
    <2>2. Locked(s, n) \in Nat BY LockedType
    <2> QED BY <2>1, <2>2
<1>5. Shared(s, u) BY <1>4 DEF Shared
<1> QED BY <1>3, <1>5 DEF u

LEMMA SameShares ==
    ASSUME Sized(PortOptions), NEW s, SoundRunners(s), NEW t, DOMAIN t = System, \A n \in System : t[n] = s[n]
    PROVE  SoundRunners(t) /\ Shared(s, t)
<1>1. ASSUME NEW n \in System PROVE ~(Locked(t, n) > Locked(s, n))
    <2>1. Locked(s, n) \in Nat BY LockedType
    <2>2. Locked(t, n) = Locked(s, n) BY DEF Locked
    <2> QED BY <2>1, <2>2
<1> QED BY <1>1 DEF Shared, SoundRunners

LEMMA StepSystemShares ==
    ASSUME PortPlain, SharesInv, NEW shape \in PortShapes, NEW raw \in PortSignals \cup {Rules!NoSignal},
           StepSystem(shape, raw)
    PROVE  SoundRunners(systems') /\ Shared(systems, systems')
<1>1. Sized(PortOptions) BY DEF PortPlain, Plain
<1>2. PICK n, total, room :
          /\ total = Marked(systems) /\ room = Room(systems, n)
          /\ \E r \in {Rules!Step(PortOptions, systems[n], Barred(shape), raw, total, ~portHalted, room)} :
                CheckLoss([systems EXCEPT ![n] = r])
    BY DEF StepSystem
<1>3. PICK r : /\ r = Rules!Step(PortOptions, systems[n], Barred(shape), raw, Marked(systems), ~portHalted,
                                 Room(systems, n))
               /\ CheckLoss([systems EXCEPT ![n] = r])
    BY <1>2
<1>4. PICK t : t = [systems EXCEPT ![n] = r] OBVIOUS
<1>5. SoundRunners(systems) /\ PortInv BY DEF SharesInv
<1>6. SoundRunners(t) /\ Shared(systems, t)
    <2>1. CASE n \in System
        <3>1. DOMAIN systems[n] = Fields /\ (~portHalted) \in BOOLEAN BY <1>5, <2>1 DEF PortInv
        <3> QED BY <1>3, <1>4, <1>5, <2>1, <3>1, OneSteps
    <2>2. CASE n \notin System
        <3>1. DOMAIN t = System /\ \A m \in System : t[m] = systems[m] BY <1>4, <1>5, <2>2 DEF SoundRunners
        <3> QED BY <1>1, <1>5, <3>1, SameShares
    <2> QED BY <2>1, <2>2
<1>7. CheckLoss(t) BY <1>3, <1>4
<1>8. CASE systems' = t BY <1>6, <1>8
<1>9. CASE systems' = ForceExitAll(t)
    <2>1. \A m \in System : DOMAIN t[m] = Fields /\ (t[m].mark = 0 => ~Rules!IsOpen(t[m]))
        <3>1. Barred(shape).close # 0 BY PortfolioAssumption DEF Barred
        <3>2. n \in System => DOMAIN r = Fields /\ r.mark # 0 BY <1>3, <1>5, <3>1, StepMarks DEF PortInv
        <3> QED BY <1>4, <1>5, <3>2 DEF PortInv
    <2>2. SoundRunners(ForceExitAll(t)) /\ Shared(systems, ForceExitAll(t))
        BY <1>1, <1>5, <1>6, <2>1, ForceExitAllShares
    <2> QED BY <1>9, <2>2
<1> QED BY <1>7, <1>8, <1>9 DEF CheckLoss

LEMMA StepShares ==
    ASSUME PortPlain, SharesInv, [PortNext]_portVars
    PROVE  SharesInv' /\ (Shared(systems, systems') \/ UNCHANGED portVars)
<1>1. PortInv' BY PortInvStep DEF SharesInv
<1>2. SoundRunners(systems) /\ Sized(PortOptions) BY DEF SharesInv, PortPlain, Plain
<1>3. SoundRunners(systems') /\ Shared(systems, systems')
    <2>1. CASE systems' = systems
        <3>1. DOMAIN systems' = System /\ \A m \in System : systems'[m] = systems[m]
            BY <1>2, <2>1 DEF SoundRunners
        <3> QED BY <1>2, <3>1, SameShares
    <2>2. ASSUME NEW S, NextTime(S) PROVE systems' = systems BY <2>2 DEF NextTime
    <2>3. ASSUME NEW shape \in PortShapes, NEW raw \in PortSignals \cup {Rules!NoSignal},
                 StepSystem(shape, raw)
          PROVE  SoundRunners(systems') /\ Shared(systems, systems')
        BY <2>3, StepSystemShares
    <2>4. UNCHANGED portVars => systems' = systems BY DEF portVars
    <2> QED BY <2>1, <2>2, <2>3, <2>4 DEF PortNext
<1> QED BY <1>1, <1>3 DEF SharesInv, SoundRunners

\* An entry or a pyramid entry never locks more than the system's share of
\* the equity, nor, with what the other systems have locked, more than all of
\* it (portfolio.py:315-340), whatever the systems, weights, signals and bars,
\* and in whichever order the systems step: while no fill slips, since a room
\* is measured at the price of the order.
THEOREM SharesKept == PortPlain => (PortSpec => CapitalShared)
<1> SUFFICES ASSUME PortPlain PROVE PortSpec => CapitalShared OBVIOUS
<1>1. SharesInv /\ [PortNext]_portVars => SharesInv' BY StepShares
<1>2. SharesInv /\ [PortNext]_portVars =>
        [\A n \in System : Locked(systems', n) > Locked(systems, n) =>
            /\ Locked(systems', n) <= Cap(n, Marked(systems))
            /\ AllLocked(systems') <= Marked(systems)]_portVars
    BY StepShares DEF Shared
<1> QED BY <1>1, <1>2, SharesInvInit, PTL DEF PortSpec, CapitalShared

-----------------------------------------------------------------------------
(* The equity of a tick backtest agrees with its trades.                   *)

TickPosition(p) ==
    {p.side, p.stop, p.tp, p.size, p.openTick, p.fill, p.fee} \subseteq Int

TickPending(o) == {o.side, o.entry, o.stop, o.tp, o.qty} \subseteq Int

\* The value of an open position at its fill, with the fee it was opened for.
AtCost(p) == IF p.side = 0 THEN 0 ELSE p.side * p.fill * p.size + p.fee

\* A state of the replay whose equity is the money its trades moved and its
\* position at cost.
ReplayOK(s) ==
    /\ DOMAIN s = {"book", "order", "cash"}
    /\ DOMAIN s.book = {"open", "equity", "day", "dayStart", "dayPnl", "dayTrades"}
    /\ s.book.equity \in Int /\ s.cash \in Int
    /\ s.book.open.side # 0 => TickPosition(s.book.open)
    /\ s.order.side # 0 => TickPending(s.order)
    /\ s.book.equity = TickEquity + s.cash + AtCost(s.book.open)

\* What closing moves is what the position was worth and what it gained.
LEMMA CloseArithmetic ==
    ASSUME NEW side \in Int, NEW fill \in Int, NEW size \in Int, NEW price \in Int
    PROVE  /\ side * fill * size \in Int /\ side * price * size \in Int
           /\ (price - fill) * side * size = side * price * size - side * fill * size
<1>1. side * fill \in Int /\ side * price \in Int /\ (price - fill) * side \in Int OBVIOUS
<1>2. (price - fill) * side = side * price - side * fill OBVIOUS
<1>3. side * fill * size \in Int /\ side * price * size \in Int BY <1>1, Products
<1>4. \A a, b, c \in Int : (a - b) * c = a * c - b * c OBVIOUS
<1> QED BY <1>1, <1>2, <1>3, <1>4

LEMMA CloseOnTickOK ==
    ASSUME NEW s, ReplayOK(s), s.book.open.side # 0, NEW price \in Int, NEW kind, NEW at \in Int
    PROVE  LET t == CloseOnTick(s, price, kind, at)
           IN  ReplayOK(t) /\ t.book.open.side = 0 /\ t.order = s.order
<1> DEFINE p == s.book.open
           f == Rules!ApplyFill(TickOptions, price, -p.side, kind, p.size)
           financing == Rules!FinancingCost(TickOptions, p.side, p.fill * p.size, p.openTick, at)
           pnl == (f.price - p.fill) * p.side * p.size - p.fee - f.fee - financing
           book == [s.book EXCEPT !.open = Rules!NoPosition, !.equity = @ + pnl, !.dayPnl = @ + pnl]
           cash == s.cash + p.side * f.price * p.size - f.fee - financing
           t == CloseOnTick(s, price, kind, at)
<1>1. t = [book |-> book, order |-> s.order, cash |-> cash] BY DEF CloseOnTick, Replay
<1>2. Rules!OptionsOk(TickOptions) /\ TickEquity \in Int BY TickAssumption
<1>3. /\ p.side \in Int /\ p.fill \in Int /\ p.size \in Int /\ p.openTick \in Int /\ p.fee \in Int
      /\ s.book.equity \in Int /\ s.cash \in Int
    BY DEF ReplayOK, TickPosition
<1>4. f.price \in Int /\ f.fee \in Int
    <2>1. -p.side \in Int BY <1>3
    <2> QED BY <1>2, <1>3, <2>1, FillType
<1>5. financing \in Int
    <2>1. p.fill * p.size \in Int BY <1>3, Products
    <2> QED BY <1>2, <1>3, <2>1, FinancingType
<1> HIDE DEF f, financing
<1>6. /\ p.side * p.fill * p.size \in Int /\ p.side * f.price * p.size \in Int
      /\ (f.price - p.fill) * p.side * p.size = p.side * f.price * p.size - p.side * p.fill * p.size
    BY <1>3, <1>4, CloseArithmetic
<1>7. s.book.equity = TickEquity + s.cash + p.side * p.fill * p.size + p.fee
    <2>1. AtCost(p) = p.side * p.fill * p.size + p.fee BY DEF AtCost
    <2> DEFINE value == p.side * p.fill * p.size
    <2>2. value \in Int BY <1>6
    <2>3. s.book.equity = TickEquity + s.cash + (value + p.fee) BY <2>1 DEF ReplayOK
    <2> HIDE DEF value
    <2>4. s.book.equity = TickEquity + s.cash + value + p.fee BY <1>2, <1>3, <2>2, <2>3
    <2> QED BY <2>4 DEF value
<1>8. pnl \in Int /\ cash \in Int /\ s.book.equity + pnl = TickEquity + cash
    <2> DEFINE value == p.side * p.fill * p.size
               money == p.side * f.price * p.size
               gain == (f.price - p.fill) * p.side * p.size
    <2>1. value \in Int /\ money \in Int /\ gain = money - value /\ gain \in Int BY <1>6
    <2>2. s.book.equity = TickEquity + s.cash + value + p.fee BY <1>7
    <2>3. pnl = gain - p.fee - f.fee - financing /\ cash = s.cash + money - f.fee - financing OBVIOUS
    <2> HIDE DEF value, money, gain, pnl, cash
    <2> QED BY <1>2, <1>3, <1>4, <1>5, <2>1, <2>2, <2>3
<1> HIDE DEF pnl, cash
<1>9. DOMAIN book = DOMAIN s.book /\ book.equity = s.book.equity + pnl /\ book.open = Rules!NoPosition
    BY DEF ReplayOK
<1> HIDE DEF book
<1>10. book.open.side = 0 /\ AtCost(book.open) = 0 BY <1>9 DEF Rules!NoPosition, AtCost
<1>11. book.equity \in Int /\ book.equity = TickEquity + cash + 0 BY <1>2, <1>3, <1>8, <1>9
<1>12. t.book = book /\ t.order = s.order /\ t.cash = cash /\ DOMAIN t = {"book", "order", "cash"}
    BY <1>1
<1> HIDE DEF t
<1>13. ReplayOK(t) BY <1>8, <1>9, <1>10, <1>11, <1>12 DEF ReplayOK
<1> QED BY <1>10, <1>12, <1>13 DEF t

\* Opening costs what the position is then worth.
LEMMA OpenPendingOK ==
    ASSUME NEW s, ReplayOK(s), s.book.open.side = 0, s.order.side # 0, tick \in Int,
           NEW t, t.close \in Int, NEW kind
    PROVE  ReplayOK(OpenPending(s, t, kind))
<1> DEFINE o == s.order
           entry == IF kind = "market" THEN t.close ELSE o.entry
           size == IF o.qty # 0 THEN o.qty
                   ELSE Rules!PositionSize(TickOptions, s.book.equity, entry, o.stop)
           f == Rules!ApplyFill(TickOptions, entry, o.side, kind, size)
           position == [side |-> o.side, stop |-> o.stop, tp |-> o.tp, size |-> size,
                        openTick |-> tick, fill |-> f.price, fee |-> f.fee]
           book == [s.book EXCEPT !.open = position, !.dayTrades = @ + 1]
           cash == s.cash - o.side * f.price * size - f.fee
           dropped == [book |-> s.book, order |-> NoTickOrder, cash |-> s.cash]
           opened == [book |-> book, order |-> NoTickOrder, cash |-> cash]
<1>1. OpenPending(s, t, kind) \in {dropped, opened} BY DEF OpenPending, Replay
<1>2. Rules!OptionsOk(TickOptions) /\ TickEquity \in Int BY TickAssumption
<1>3. /\ o.side \in Int /\ o.side # 0 /\ o.entry \in Int /\ o.stop \in Int /\ o.tp \in Int /\ o.qty \in Int
      /\ s.book.equity \in Int /\ s.cash \in Int
    BY DEF ReplayOK, TickPending
<1>4. entry \in Int BY <1>3
<1> HIDE DEF entry
<1>5. size \in Int BY <1>2, <1>3, <1>4, SizeType
<1> HIDE DEF size
<1>6. f.price \in Int /\ f.fee \in Int BY <1>2, <1>3, <1>4, <1>5, FillType
<1> HIDE DEF f
<1>7. NoTickOrder.side = 0 BY DEF NoTickOrder
<1>8. ReplayOK(dropped) BY <1>7 DEF ReplayOK
<1>9. ReplayOK(opened)
    <2>1. s.book.equity = TickEquity + s.cash
        <3>1. AtCost(s.book.open) = 0 BY DEF AtCost
        <3> QED BY <1>2, <1>3, <3>1 DEF ReplayOK
    <2>2. TickPosition(position) BY <1>3, <1>5, <1>6 DEF TickPosition
    <2>3. AtCost(position) = o.side * f.price * size + f.fee BY <1>3 DEF AtCost
    <2> DEFINE value == o.side * f.price * size
    <2>4. value \in Int BY <1>3, <1>5, <1>6, CloseArithmetic
    <2>5. cash = s.cash - value - f.fee /\ AtCost(position) = value + f.fee BY <2>3
    <2>6. position.side = o.side OBVIOUS
    <2> HIDE DEF value, position, cash
    <2>7. cash \in Int /\ s.book.equity = TickEquity + cash + AtCost(position)
        BY <1>2, <1>3, <1>6, <2>1, <2>4, <2>5
    <2>8. DOMAIN book = DOMAIN s.book /\ book.equity = s.book.equity /\ book.open = position
        BY DEF ReplayOK
    <2> HIDE DEF book
    <2>9. opened.book = book /\ opened.order = NoTickOrder /\ opened.cash = cash
          /\ DOMAIN opened = {"book", "order", "cash"}
        OBVIOUS
    <2> HIDE DEF opened
    <2> QED BY <1>3, <1>7, <2>2, <2>7, <2>8, <2>9 DEF ReplayOK
<1> QED BY <1>1, <1>8, <1>9

LEMMA TickExitOK ==
    ASSUME NEW s, ReplayOK(s), tick \in Int, NEW t
    PROVE  ReplayOK(TickExit(s, t))
<1> DEFINE p == s.book.open
           hit == IF p.side = 0 THEN "no" ELSE Rules!OcoExitCheck(TickOptions, p, t)
<1>1. hit \in {"no", "TP", "SL"} BY DEF Rules!OcoExitCheck
<1>2. TickExit(s, t) = CASE hit = "no" -> s
                         [] hit = "TP" -> CloseOnTick(s, p.tp, "limit", tick)
                         [] hit = "SL" -> CloseOnTick(s, p.stop, "stop", tick)
    BY DEF TickExit
<1>3. hit # "no" => p.side # 0 OBVIOUS
<1> HIDE DEF hit
<1>4. CASE hit = "no" BY <1>2, <1>4
<1>5. CASE hit \in {"TP", "SL"}
    <2>1. p.side # 0 BY <1>3, <1>5
    <2>2. p.tp \in Int /\ p.stop \in Int BY <2>1 DEF ReplayOK, TickPosition
    <2>3. ReplayOK(CloseOnTick(s, p.tp, "limit", tick)) BY <2>1, <2>2, CloseOnTickOK
    <2>4. ReplayOK(CloseOnTick(s, p.stop, "stop", tick)) BY <2>1, <2>2, CloseOnTickOK
    <2> QED BY <1>2, <1>5, <2>3, <2>4
<1> QED BY <1>1, <1>4, <1>5

LEMMA TickEntryOK ==
    ASSUME NEW s, ReplayOK(s), tick \in Int, NEW t, t.close \in Int, NEW queued
    PROVE  ReplayOK(TickEntry(s, t, queued))
<1>1. CASE s.book.open.side # 0 \/ s.order.side = 0 BY <1>1 DEF TickEntry
<1>2. CASE s.book.open.side = 0 /\ s.order.side # 0
    <2>1. \A kind : ReplayOK(OpenPending(s, t, kind)) BY <1>2, OpenPendingOK
    <2> QED BY <2>1 DEF TickEntry
<1> QED BY <1>1, <1>2

LEMMA PlacedOK ==
    ASSUME NEW s, ReplayOK(s), NEW raw \in TickSignals, NEW t, t.close \in Int
    PROVE  ReplayOK(Placed(s, raw, t))
<1> DEFINE n == Rules!NormalizeSignal(TickOptions, raw, t)
           order == [side |-> n.side, entry |-> n.entry, stop |-> n.stop, tp |-> n.tp, qty |-> n.qty,
                     type |-> IF raw.entry # 0 THEN "limit" ELSE "market", createdAt |-> tick]
           placed == [s EXCEPT !.order = order]
<1>1. Placed(s, raw, t) = IF n = Rules!NoSignal THEN s ELSE placed BY DEF Placed
<1>2. n \in Raws
    <2>1. raw \in Raws /\ Rules!OptionsOk(TickOptions) BY TickAssumption DEF Raws
    <2>2. Rules!NormalizeSignal(TickOptions, raw, t) \in Raws BY <2>1, NormalizeOK
    <2> QED BY <2>2
<1> HIDE DEF n
<1>3. CASE n # Rules!NoSignal
    <2>1. n \in Rules!SignalRecord BY <1>2, <1>3 DEF Raws
    <2>2. n.side \in Int /\ n.entry \in Int /\ n.stop \in Int /\ n.tp \in Int /\ n.qty \in Int
        BY <2>1 DEF Rules!SignalRecord
    <2>3. TickPending(order) BY <2>2 DEF TickPending
    <2> HIDE DEF order
    <2>4. DOMAIN placed = DOMAIN s /\ placed.book = s.book /\ placed.cash = s.cash /\ placed.order = order
        BY DEF ReplayOK
    <2> HIDE DEF placed
    <2>5. ReplayOK(placed) BY <2>3, <2>4 DEF ReplayOK
    <2> QED BY <1>1, <1>3, <2>5
<1>4. CASE n = Rules!NoSignal BY <1>1, <1>4
<1> QED BY <1>3, <1>4

LEMMA StartTickOK ==
    ASSUME NEW book, NEW order, NEW cash, ReplayOK([book |-> book, order |-> order, cash |-> cash])
    PROVE  ReplayOK(Replay(StartTick(book), order, cash))
<1> DEFINE day == tick \div TicksPerDay
           next == [book EXCEPT !.day = day, !.dayStart = book.equity, !.dayPnl = 0, !.dayTrades = 0]
           s == [book |-> book, order |-> order, cash |-> cash]
           t == Replay(StartTick(book), order, cash)
<1>1. s.book = book /\ s.order = order /\ s.cash = cash OBVIOUS
<1>2. DOMAIN book = {"open", "equity", "day", "dayStart", "dayPnl", "dayTrades"} BY <1>1 DEF ReplayOK
<1>3. DOMAIN next = DOMAIN book /\ next.equity = book.equity /\ next.open = book.open BY <1>2
<1>4. StartTick(book) \in {book, next} BY DEF StartTick
<1>5. /\ t.book \in {book, next} /\ t.order = order /\ t.cash = cash
      /\ DOMAIN t = {"book", "order", "cash"}
    BY <1>4 DEF Replay
<1> HIDE DEF next, t, s
<1>6. /\ DOMAIN t.book = DOMAIN book /\ t.book.equity = book.equity /\ t.book.open = book.open
    BY <1>3, <1>5
<1> QED BY <1>1, <1>2, <1>5, <1>6 DEF ReplayOK, t, s

TickInv ==
    /\ ReplayOK([book |-> tickBook, order |-> tickOrder, cash |-> tickCash])
    /\ tick \in Nat
    /\ tick > 0 => lastTick.close \in Int
    /\ replayed => tickBook.open.side = 0

LEMMA TickInvInit == TickInit => TickInv
<1> SUFFICES ASSUME TickInit PROVE TickInv OBVIOUS
<1> DEFINE s == [book |-> tickBook, order |-> tickOrder, cash |-> tickCash]
<1>1. /\ tickBook = [open |-> Rules!NoPosition, equity |-> TickEquity, day |-> -1,
                    dayStart |-> TickEquity, dayPnl |-> 0, dayTrades |-> 0]
      /\ tickOrder = NoTickOrder /\ tickCash = 0 /\ tick = 0 /\ ~replayed
    BY DEF TickInit
<1>2. TickEquity \in Int BY TickAssumption
<1>3. Rules!NoPosition.side = 0 /\ NoTickOrder.side = 0 BY DEF Rules!NoPosition, NoTickOrder
<1>4. AtCost(Rules!NoPosition) = 0 BY <1>3 DEF AtCost
<1>5. /\ DOMAIN s = {"book", "order", "cash"} /\ s.book = tickBook /\ s.order = NoTickOrder /\ s.cash = 0
      /\ tickBook.equity = TickEquity /\ tickBook.open = Rules!NoPosition
      /\ DOMAIN tickBook = {"open", "equity", "day", "dayStart", "dayPnl", "dayTrades"}
    BY <1>1
<1> HIDE DEF s
<1>6. ReplayOK(s) BY <1>2, <1>3, <1>4, <1>5 DEF ReplayOK
<1> QED BY <1>1, <1>6 DEF TickInv, s

LEMMA HandleTickOK ==
    ASSUME TickInv, NEW row \in TickRows, NEW raw \in TickSignals \cup {Rules!NoSignal}, NEW queued,
           HandleTick(row, raw, queued)
    PROVE  TickInv'
<1> DEFINE t == NormalizeTick(row)
           begun == Replay(StartTick(tickBook), tickOrder, tickCash)
           left == TickExit(begun, t)
           s == TickEntry(left, t, queued)
           last == IF raw = Rules!NoSignal THEN s ELSE Placed(s, raw, t)
<1>1. /\ ~replayed /\ tick' = tick + 1 /\ lastTick' = t /\ replayed' = replayed
      /\ tickBook' = last.book /\ tickOrder' = last.order /\ tickCash' = last.cash
    BY DEF HandleTick
<1>2. tick \in Nat BY DEF TickInv
<1>3. t.close \in Int
    <2>1. row.bid \in Int /\ row.ask \in Int /\ row.last \in Int BY TickAssumption
    <2>2. (row.bid + row.ask) \div 2 \in Int BY <2>1
    <2>3. Middle(row) \in Int BY <2>1, <2>2 DEF Middle, Rules!Most
    <2> QED BY <2>3 DEF NormalizeTick
<1> HIDE DEF t
<1>4. ReplayOK(begun) BY StartTickOK DEF TickInv
<1> HIDE DEF begun
<1>5. ReplayOK(left) BY <1>2, <1>4, TickExitOK
<1> HIDE DEF left
<1>6. ReplayOK(s) BY <1>2, <1>3, <1>5, TickEntryOK
<1> HIDE DEF s
<1>7. ReplayOK(last) BY <1>3, <1>6, PlacedOK
<1> HIDE DEF last
<1> DEFINE u == [book |-> last.book, order |-> last.order, cash |-> last.cash]
<1>8. ReplayOK(u)
    <2>1. DOMAIN u = {"book", "order", "cash"} /\ u.book = last.book /\ u.order = last.order
          /\ u.cash = last.cash
        OBVIOUS
    <2> HIDE DEF u
    <2> QED BY <1>7, <2>1 DEF ReplayOK
<1>9. ReplayOK([book |-> tickBook', order |-> tickOrder', cash |-> tickCash']) BY <1>1, <1>8
<1> QED BY <1>1, <1>2, <1>3, <1>9 DEF TickInv, ReplayOK, TickPosition, TickPending, AtCost

LEMMA EndOfTicksOK ==
    ASSUME TickInv, EndOfTicks
    PROVE  TickInv'
<1> DEFINE s == Replay(tickBook, tickOrder, tickCash)
           e == IF tickBook.open.side = 0 THEN s ELSE CloseOnTick(s, lastTick.close, "market", tick - 1)
<1>1. /\ tick > 0 /\ replayed' = TRUE /\ tickBook' = e.book /\ tickCash' = e.cash
      /\ tick' = tick /\ tickOrder' = tickOrder /\ lastTick' = lastTick
    BY DEF EndOfTicks
<1>2. tick \in Nat /\ lastTick.close \in Int /\ tick - 1 \in Int BY <1>1 DEF TickInv
<1>3. ReplayOK(s) /\ s.book = tickBook /\ s.order = tickOrder /\ s.cash = tickCash
    BY DEF Replay, TickInv
<1> HIDE DEF s
<1>4. ReplayOK(e) /\ e.book.open.side = 0 /\ e.order = tickOrder
    <2>1. CASE tickBook.open.side = 0 BY <1>3, <2>1
    <2>2. CASE tickBook.open.side # 0 BY <1>2, <1>3, <2>2, CloseOnTickOK
    <2> QED BY <2>1, <2>2
<1> HIDE DEF e
<1> DEFINE u == [book |-> e.book, order |-> tickOrder, cash |-> e.cash]
<1>5. ReplayOK(u)
    <2>1. DOMAIN u = {"book", "order", "cash"} /\ u.book = e.book /\ u.order = e.order /\ u.cash = e.cash
        BY <1>4
    <2> HIDE DEF u
    <2> QED BY <1>4, <2>1 DEF ReplayOK
<1>6. ReplayOK([book |-> tickBook', order |-> tickOrder', cash |-> tickCash']) BY <1>1, <1>5
<1> QED BY <1>1, <1>2, <1>4, <1>6 DEF TickInv, ReplayOK, TickPosition, TickPending, AtCost

\* The equity of a tick backtest is what it began with, the money its trades
\* moved, and an open position at its fill with the fee it was opened for; when
\* the replay ends nothing is open (backtest_ticks.py:313-369, 426-530).  For
\* any ticks, signals, costs and draws of the queue.
THEOREM TicksAlwaysAddUp == TickSpec => []TicksAddUp
<1>1. TickInv => TicksAddUp
    <2> SUFFICES ASSUME TickInv PROVE TicksAddUp OBVIOUS
    <2> DEFINE s == [book |-> tickBook, order |-> tickOrder, cash |-> tickCash]
    <2>1. ReplayOK(s) /\ s.book = tickBook /\ s.cash = tickCash BY DEF TickInv
    <2> HIDE DEF s
    <2>2. tickBook.equity = TickEquity + tickCash + AtCost(tickBook.open) BY <2>1 DEF ReplayOK
    <2> QED BY <2>2 DEF TickInv, TicksAddUp, AtCost
<1>2. TickInv /\ [TickNext]_tickVars => TickInv'
    <2> SUFFICES ASSUME TickInv, [TickNext]_tickVars PROVE TickInv' OBVIOUS
    <2>1. CASE TickNext BY <2>1, HandleTickOK, EndOfTicksOK DEF TickNext
    <2>2. CASE UNCHANGED tickVars
        BY <2>2 DEF tickVars, TickInv, ReplayOK, TickPosition, TickPending, AtCost
    <2> QED BY <2>1, <2>2
<1> QED BY <1>1, <1>2, TickInvInit, PTL DEF TickSpec
=============================================================================
