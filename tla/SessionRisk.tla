----------------------------- MODULE SessionRisk -----------------------------
(***************************************************************************)
(* A trading session's use of its RiskManager (live/session.py): the       *)
(* manager never sees trades, only the account's equity as the session     *)
(* happens to read it: in push_bar and close_position to record a change,  *)
(* in refresh to remember it only.                                         *)
(***************************************************************************)
EXTENDS RiskRules

CONSTANTS
    Balance,       \* the account's equity at start
    EquityMoves,   \* by how much the account's equity may change at once
    ClockEnd,      \* bound: time
    MaxPlaced,     \* bound: orders
    MaxMoves       \* bound: moves of the account

ASSUME SessionUseAssumption ==
    /\ Balance \in Nat \ {0} /\ EquityMoves \subseteq Int
    /\ ClockEnd \in Nat /\ MaxPlaced \in Nat /\ MaxMoves \in Nat

VARIABLES
    clock,         \* the session's clock
    account,       \* the broker's equity
    known,         \* the session's equity
    gate,          \* the session's risk_manager
    moves,         \* history: moves of the account
    placed,        \* history: orders placed
    dayStart,      \* history: the equity known when the manager's day began
    unread,        \* history: the account moved since the last sync
    swallowed      \* history: a refresh read a change before a sync could

gateVars == <<clock, account, known, gate, moves, placed, dayStart, unread, swallowed>>

GateInit ==
    /\ clock = 0 /\ account = Balance /\ known = Balance
    /\ gate = Initialize(NewRisk, Balance, 0)
    /\ moves = 0 /\ placed = 0 /\ dayStart = Balance
    /\ unread = FALSE /\ swallowed = FALSE

\* Prices, fills and fees move the account.
AccountMoves(d) ==
    /\ moves < MaxMoves /\ moves' = moves + 1
    /\ account + d >= 0
    /\ account' = account + d
    /\ unread' = TRUE
    /\ UNCHANGED <<clock, known, gate, placed, dayStart, swallowed>>

\* Mutant: a change is marked but not recorded.
Sync_Marks ==
    /\ known' = account
    /\ gate' = Update(gate, account, clock)
    /\ dayStart' = IF DayKey(clock) # gate.day THEN known ELSE dayStart
    /\ unread' = FALSE
    /\ UNCHANGED <<clock, account, moves, placed, swallowed>>

\* _sync_equity_and_risk, of push_bar and close_position.
Sync ==
    /\ known' = account
    /\ gate' = IF account # known
               THEN RecordTrade(gate, account - known, account, clock)
               ELSE Update(gate, account, clock)
    /\ dayStart' = IF DayKey(clock) # gate.day THEN known ELSE dayStart
    /\ unread' = FALSE
    /\ UNCHANGED <<clock, account, moves, placed, swallowed>>

Reads ==
    /\ known' = account
    /\ swallowed' = (swallowed \/ known # account)

\* refresh, of place_order, cancel_order, flatten and the user.
RefreshEquity ==
    /\ Reads
    /\ UNCHANGED <<clock, account, gate, moves, placed, dayStart, unread>>

\* place_order: the gates, the order and its refresh.
GatedOrder(value) ==
    /\ placed < MaxPlaced
    /\ ~Halted(gate)
    /\ CanOpenPosition(gate, clock, 0, value, known, value, value)
    /\ placed' = placed + 1
    /\ Reads
    /\ UNCHANGED <<clock, account, gate, moves, dayStart, unread>>

ClockTicks ==
    /\ clock < ClockEnd
    /\ clock' = clock + 1
    /\ UNCHANGED <<account, known, gate, moves, placed, dayStart, unread, swallowed>>

GateNext ==
    \/ \E d \in EquityMoves : AccountMoves(d)
    \/ Sync \/ RefreshEquity \/ ClockTicks
    \/ \E v \in 1 .. Balance : GatedOrder(v)

GateSpec == GateInit /\ [][GateNext]_gateVars

-----------------------------------------------------------------------------
\* The session sums up the day's loss from what its syncs see, across
\* midnights; unless a refresh swallowed a change, an account that is at its
\* daily loss limit in a sync is halted by that sync (session.py:746-760).
LossHalts ==
    (/\ ~unread /\ ~swallowed
     /\ MaxDailyLossPct > 0
     /\ 100 * (dayStart - account) >= Balance * MaxDailyLossPct) => Halted(gate)
=============================================================================
