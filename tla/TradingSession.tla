---------------------------- MODULE TradingSession ----------------------------
(***************************************************************************)
(* live/session.py: entries, the protective stop and target the session    *)
(* attaches to them, and what it does when a leg fills or fails.           *)
(*                                                                         *)
(* Everything runs on one asyncio loop.  A coroutine is a call of a user   *)
(* of the session or a task the session spawned from a broker callback; an *)
(* action is the code of one coroutine between two awaits, or a step of    *)
(* the account.  One symbol (the session keys its books by symbol), every  *)
(* entry of one unit; `side' of BrokerAccount is the signed quantity here. *)
(***************************************************************************)
EXTENDS BrokerAccount, FiniteSets

CONSTANTS
    Callers,      \* coroutines of users of the session
    Tasks,        \* slots for spawned tasks (bounds how many run at once)
    MaxEntries,   \* bound: calls of place_order
    MaxCloses,    \* bound: market orders that close
    MaxStarts,    \* bound: calls of start
    Dirs,         \* sides of entries
    Plans,        \* the sets of legs an entry may ask for
    Faults,       \* subset of {"submit", "cancel", "venue", "user"}
    Delayed,      \* TRUE: an entry's fill may be reported before its submit returns
    Pyramids,     \* TRUE: users enter again before the last trade is over
    Rollover      \* TRUE: a new day may lift a halt

Procs == Callers \cup Tasks

ASSUME SessionAssumption ==
    /\ 1 .. (3 * MaxEntries + MaxCloses) \subseteq Orders /\ Orders \subseteq Nat
    /\ NoOrder = 0
    /\ Callers \cap Tasks = {}
    /\ Plans \subseteq SUBSET {"stop", "target"}

VARIABLES
    running,      \* started and listening to the broker
    halted,       \* risk_manager.halted
    pending,      \* _pending_brackets: the entry whose bracket is staged
    bracket,      \* brackets: the ids of the stop and the target
    recovery,     \* _bracket_recoveries: the stop whose compensation failed
    winner,       \* _oco_winners: the sibling still to be canceled
    meta,         \* _entry_meta and _leg_meta
    seq,          \* _coid_seq
    tasks,        \* _tasks
    co,           \* [Procs -> frame]: what each coroutine is doing
    starts,       \* calls of start so far
    raised,       \* history: some coroutine ended with an exception
    lost          \* history: the session dropped the id of an order that may act

sessionVars == <<running, halted, pending, bracket, recovery, winner, meta, seq, tasks>>
vars == <<accountVars, sessionVars, co, starts, raised, lost>>

Bare == [stop |-> NoOrder, target |-> NoOrder]
LegsOf(b) == {b.stop, b.target} \ {NoOrder}

\* A coroutine: the await it is at, the operation, the order it waits for,
\* the entry it works for, the legs or orders or tasks still to be handled.
Idle == [at |-> "idle", op |-> "none", order |-> NoOrder, entry |-> NoOrder,
         legs |-> {}, stop |-> NoOrder, left |-> {}, done |-> FALSE]

\* The operations that hold the lifecycle lock.
Stoppers == {"start", "leaving", "stopping", "stop"}

Submits == {"entry", "stop", "target", "close"}
Cancels == {"undo", "recover", "sibling", "unleg", "sweep", "oco", "cancel"}

Init ==
    /\ AccountInit
    /\ running = FALSE /\ halted = FALSE
    /\ pending = NoOrder /\ bracket = Bare /\ recovery = NoOrder /\ winner = NoOrder
    /\ meta = [o \in Orders |-> [kind |-> "none", parent |-> NoOrder, legs |-> {}]]
    /\ seq = 0 /\ tasks = {}
    /\ co = [p \in Procs |-> Idle]
    /\ starts = 0 /\ raised = FALSE /\ lost = FALSE

-----------------------------------------------------------------------------
(* The loop.  Calls into PaperEngine do not suspend, so the coroutine that *)
(* makes them keeps the loop until it waits for tasks or ends.             *)

Suspended(f) ==
    \/ f.at \in {"idle", "ready", "done", "failed"}
    \/ f.at = "drain" /\ f.left # {}

Runs(p) == Synchronous => \A q \in Procs \ {p} : Suspended(co[q])

\* An order that is let go of without knowing that it is over.
Forgets(ids) == \E o \in ids : Live(o) \/ (status[o] = "filled" /\ ~told[o])

FreeSlots == {t \in Tasks \ tasks :
                 co[t].at \in {"idle", "done", "failed"}
                 /\ \A p \in Procs : co[p].at = "drain" => t \notin co[p].left}

\* What the callbacks do about order o, now in status s: the books, and the
\* task they spawn (Idle for none).
Heard(o, s) ==
    LET b    == [pending |-> IF pending = o THEN NoOrder ELSE pending,
                 bracket |-> bracket, winner |-> winner, halted |-> halted, task |-> Idle]
        leg  == o \in LegsOf(bracket)
        sib  == IF o = bracket.stop THEN bracket.target ELSE bracket.stop
        oco  == [Idle EXCEPT !.at = "ready", !.op = "oco", !.order = sib]
    IN  CASE ~running -> [b EXCEPT !.pending = pending]
          [] running /\ s = "filled" /\ pending = o ->
                [b EXCEPT !.task = [Idle EXCEPT !.at = "ready", !.op = "attach",
                                                !.entry = o, !.legs = meta[o].legs]]
          [] running /\ s = "filled" /\ pending # o /\ leg ->
                IF sib = NoOrder \/ Synchronous     \* cancel_order_nowait
                THEN [b EXCEPT !.bracket = Bare, !.winner = NoOrder]
                ELSE [b EXCEPT !.winner = IF winner = NoOrder THEN sib ELSE winner,
                               !.task = oco]
          [] running /\ s # "filled" /\ leg /\ winner = NoOrder ->
                IF sib = NoOrder
                THEN [b EXCEPT !.halted = TRUE, !.bracket = Bare]
                ELSE [b EXCEPT !.halted = TRUE, !.winner = sib, !.task = oco]
          [] OTHER -> b

\* The callbacks run with result h.
Tells(h) ==
    /\ pending' = h.pending /\ bracket' = h.bracket
    /\ winner' = h.winner /\ halted' = h.halted
    /\ IF h.task = Idle
       THEN UNCHANGED <<co, tasks>>
       ELSE /\ FreeSlots # {}
            /\ LET t == CHOOSE x \in FreeSlots : TRUE
               IN  co' = [co EXCEPT ![t] = h.task] /\ tasks' = tasks \cup {t}
    /\ UNCHANGED <<running, recovery, meta, seq, starts, raised, lost>>

\* Order o reaches status s.  PaperEngine tells at once, and cancels the
\* sibling of a filled leg within the callback.
Moves(o, s) ==
    LET sib  == IF o = bracket.stop THEN bracket.target ELSE bracket.stop
        gone == IF /\ Synchronous /\ running /\ s = "filled"
                   /\ pending # o /\ o \in LegsOf(bracket)
                THEN {x \in {sib} \ {NoOrder} : status[x] = "working"} ELSE {}
    IN  /\ status' = [x \in Orders |-> IF x = o THEN s
                                       ELSE IF x \in gone THEN "canceled" ELSE status[x]]
        /\ told' = [x \in Orders |-> IF x \in gone \cup {o} THEN Synchronous /\ s \in Done
                                     ELSE told[x]]
        /\ net' = IF s = "filled" THEN net + side[o] ELSE net
        /\ UNCHANGED <<side, market>>
        /\ IF Synchronous /\ s \in Done
           THEN Tells(Heard(o, s))
           ELSE UNCHANGED <<sessionVars, co, starts, raised, lost>>

-----------------------------------------------------------------------------
(* The account. *)

AccountAnswers(o) ==
    /\ status[o] = "sent"
    /\ \E s \in Answers(o) :
        /\ s = "rejected" => "venue" \in Faults
        /\ Moves(o, s)

\* A resting order fills: on a bar at PaperEngine, at any time elsewhere.
AccountFills(o) ==
    /\ status[o] = "working"
    /\ Synchronous => \E p \in Callers : co[p].at = "bar"
    /\ Moves(o, "filled")

\* The venue ends a working order on its own.
AccountDrops(o) ==
    /\ ~Synchronous /\ "venue" \in Faults
    /\ status[o] = "working"
    /\ Moves(o, "canceled")

\* A cancel call reaches the account.
CancelActs(p) ==
    /\ co[p].at \in Cancels
    /\ status[co[p].order] = "working"
    /\ Moves(co[p].order, "canceled")

AccountTells(o) ==
    /\ Delayed \/ \A p \in Procs : ~(co[p].at \in Submits /\ co[p].order = o)
    /\ Tell(o)
    /\ Tells(Heard(o, status[o]))

-----------------------------------------------------------------------------
(* How a coroutine goes on.                                                *)

Stays(p, f) == co' = [co EXCEPT ![p] = f]

\* refresh() begins: it waits for the tasks there are, if any.
Refreshing(f) == [f EXCEPT !.at = "drain", !.order = NoOrder, !.left = tasks]

\* An exception leaves the coroutine.  stop() still shuts down (its finally
\* clauses), a failed start undoes itself, a task keeps its result.
Raises(p) ==
    /\ raised' = TRUE
    /\ running' = (running /\ co[p].op \notin Stoppers)
    /\ Stays(p, IF p \in Tasks THEN [Idle EXCEPT !.at = "failed"] ELSE Idle)

\* The coroutine is through with its refresh.
Finishes(p) ==
    IF co[p].op \in {"flatten", "stop"} /\ ~co[p].done
    THEN Stays(p, [co[p] EXCEPT !.at = "open"]) /\ UNCHANGED running
    ELSE /\ Stays(p, Idle)
         /\ running' = (running /\ co[p].op # "stop")

\* submit_order is called for the next client id, of which there is one
\* (SessionAssumption).
Sends(o, d, m, kind, parent, legs) ==
    /\ o \in Orders
    /\ seq' = o
    /\ Send(o, d, m)
    /\ meta' = [meta EXCEPT ![o] = [kind |-> kind, parent |-> parent, legs |-> legs]]

\* _attach_bracket submits the next leg of entry e.
SubmitsLeg(p, f, e, legs) ==
    LET k == IF "stop" \in legs THEN "stop" ELSE "target"
    IN  /\ Sends(seq + 1, -side[e], FALSE, k, e, {})
        /\ Stays(p, [f EXCEPT !.at = k, !.order = seq + 1, !.entry = e, !.legs = legs \ {k}])

\* What a submit call may return: PaperEngine's status, elsewhere perhaps an
\* earlier one.
Receipts(o) == IF Synchronous THEN {status[o]} ELSE {status[o], "working"}

\* The bracket is in place; a new one takes the place of the old.
Attaches(p, b) ==
    /\ bracket' = b
    /\ lost' = (lost \/ Forgets(LegsOf(bracket) \ LegsOf(b)))
    /\ Stays(p, IF p \in Tasks THEN [Idle EXCEPT !.at = "done"] ELSE Refreshing(co[p]))

-----------------------------------------------------------------------------
(* place_order and _attach_bracket                                         *)

\* No trade of this symbol is under way.
Flat == /\ net = 0
        /\ \A o \in Orders : ~Live(o) /\ (status[o] \in Done => told[o])
        /\ \A p \in Procs : co[p].at \notin Submits \cup {"ready", "bar"}
        /\ tasks = {}

Entries == {o \in Orders : meta[o].kind = "entry"}
Closes  == {o \in Orders : meta[o].kind = "close"}

PlaceOrder(p) ==
    /\ co[p].at = "idle" /\ Runs(p)
    /\ running /\ ~halted
    /\ Cardinality(Entries) < MaxEntries
    /\ Pyramids \/ Flat
    /\ \E d \in Dirs, m \in BOOLEAN, legs \in Plans :
        /\ Sends(seq + 1, d, m, "entry", NoOrder, legs)
        /\ Stays(p, [Idle EXCEPT !.at = "entry", !.op = "place", !.order = seq + 1])
    /\ UNCHANGED <<running, halted, pending, bracket, recovery, winner, tasks,
                   starts, raised, lost>>

\* Mutant: the bracket of an entry that is not filled yet is not staged.
EntryReturns_Unstaged(p) ==
    /\ co[p].at = "entry" /\ Runs(p)
    /\ status[co[p].order] # "sent"
    /\ Stays(p, Refreshing(co[p]))
    /\ UNCHANGED <<accountVars, sessionVars, starts, raised, lost>>

\* Mutant: the bracket goes out with the entry, whether that has filled or not.
EntryReturns_Early(p) ==
    /\ co[p].at = "entry" /\ Runs(p)
    /\ LET o == co[p].order
           legs == meta[o].legs
       IN  /\ status[o] # "sent"
           /\ IF legs # {}
              THEN SubmitsLeg(p, co[p], o, legs)
              ELSE Stays(p, Refreshing(co[p])) /\ UNCHANGED <<accountVars, meta, seq>>
    /\ UNCHANGED <<running, halted, pending, bracket, recovery, winner, lost, tasks, starts, raised>>

EntryReturns(p) ==
    /\ co[p].at = "entry" /\ Runs(p)
    /\ LET o == co[p].order
           legs == meta[o].legs
       IN  /\ status[o] # "sent"
           /\ \E r \in Receipts(o) :
               IF legs # {} /\ r = "filled"
               THEN /\ SubmitsLeg(p, co[p], o, legs)
                    /\ UNCHANGED <<pending, lost>>
               ELSE /\ pending' = IF legs # {} /\ r # "rejected" THEN o ELSE pending
                    /\ lost' = (lost \/ (pending' # pending /\ Forgets({pending} \ {NoOrder})))
                    /\ Stays(p, Refreshing(co[p]))
                    /\ UNCHANGED <<accountVars, meta, seq>>
    /\ UNCHANGED <<running, halted, bracket, recovery, winner, tasks, starts, raised>>

\* The entry's submit raises: nothing is staged for it.
EntryFails(p) ==
    /\ ~Synchronous /\ "submit" \in Faults
    /\ co[p].at = "entry"
    /\ NeverArrives(co[p].order) \/ UNCHANGED accountVars
    /\ Raises(p)
    /\ UNCHANGED <<halted, pending, bracket, recovery, winner, meta, seq, tasks, starts, lost>>

\* A spawned _attach_bracket begins to run.
AttachBegins(p) ==
    /\ co[p].at = "ready" /\ co[p].op = "attach" /\ Runs(p)
    /\ SubmitsLeg(p, co[p], co[p].entry, co[p].legs)
    /\ UNCHANGED <<running, halted, pending, bracket, recovery, winner, tasks,
                   starts, raised, lost>>

StopReturns(p) ==
    /\ co[p].at = "stop" /\ Runs(p)
    /\ LET o == co[p].order
           f == [co[p] EXCEPT !.stop = o]
       IN  /\ status[o] # "sent"
           /\ \E r \in Receipts(o) :
              \/ /\ r = "rejected"
                 /\ halted' = TRUE
                 /\ Raises(p)
                 /\ UNCHANGED <<accountVars, meta, seq, bracket, lost>>
              \/ /\ r # "rejected" /\ f.legs # {}
                 /\ SubmitsLeg(p, f, f.entry, f.legs)
                 /\ UNCHANGED <<running, halted, bracket, raised, lost>>
              \/ /\ r # "rejected" /\ f.legs = {}
                 /\ Attaches(p, [Bare EXCEPT !.stop = o])
                 /\ UNCHANGED <<accountVars, running, halted, meta, seq, raised>>
    /\ UNCHANGED <<pending, recovery, winner, tasks, starts>>

StopFails(p) ==
    /\ ~Synchronous /\ "submit" \in Faults
    /\ co[p].at = "stop"
    /\ \/ NeverArrives(co[p].order) /\ UNCHANGED lost
       \/ UNCHANGED accountVars /\ lost' = TRUE
    /\ Raises(p)
    /\ UNCHANGED <<halted, pending, bracket, recovery, winner, meta, seq, tasks, starts>>

\* The target was not accepted: the stop is to be canceled again.
Compensates(p) ==
    IF co[p].stop = NoOrder
    THEN Raises(p) /\ UNCHANGED <<bracket, recovery>>
    ELSE /\ bracket' = [Bare EXCEPT !.stop = co[p].stop]
         /\ recovery' = co[p].stop
         /\ Stays(p, [co[p] EXCEPT !.at = "undo", !.order = co[p].stop])
         /\ UNCHANGED <<running, raised>>

TargetReturns(p) ==
    /\ co[p].at = "target" /\ Runs(p)
    /\ LET o == co[p].order
       IN  /\ status[o] # "sent"
           /\ \E r \in Receipts(o) :
              \/ r = "rejected" /\ Compensates(p)
                 /\ lost' = (lost \/ (co[p].stop # NoOrder
                                      /\ Forgets(LegsOf(bracket) \ {co[p].stop})))
              \/ r # "rejected" /\ Attaches(p, [stop |-> co[p].stop, target |-> o])
                 /\ UNCHANGED <<running, recovery, raised>>
    /\ UNCHANGED <<accountVars, halted, pending, winner, meta, seq, tasks, starts>>

TargetFails(p) ==
    /\ ~Synchronous /\ "submit" \in Faults
    /\ co[p].at = "target"
    /\ \/ NeverArrives(co[p].order)
          /\ lost' = (lost \/ (co[p].stop # NoOrder
                               /\ Forgets(LegsOf(bracket) \ {co[p].stop})))
       \/ UNCHANGED accountVars /\ lost' = TRUE
    /\ Compensates(p)
    /\ UNCHANGED <<halted, pending, winner, meta, seq, tasks, starts>>

UndoReturns(p) ==
    /\ co[p].at = "undo" /\ Runs(p)
    /\ ~Live(co[p].order)
    /\ bracket' = Bare /\ recovery' = NoOrder
    /\ lost' = (lost \/ Forgets(LegsOf(bracket) \ {co[p].order}))
    /\ Raises(p)
    /\ UNCHANGED <<accountVars, halted, pending, winner, meta, seq, tasks, starts>>

\* Mutant: the stop that could not be canceled is popped all the same.
UndoFails_Forgets(p) ==
    /\ ~Synchronous /\ "cancel" \in Faults
    /\ co[p].at = "undo"
    /\ halted' = TRUE /\ bracket' = Bare /\ recovery' = NoOrder
    /\ Raises(p)
    /\ UNCHANGED <<accountVars, pending, winner, meta, seq, tasks, starts, lost>>

UndoFails(p) ==
    /\ ~Synchronous /\ "cancel" \in Faults
    /\ co[p].at = "undo"
    /\ halted' = TRUE
    /\ Raises(p)
    /\ UNCHANGED <<accountVars, pending, bracket, recovery, winner, meta, seq, tasks,
                   starts, lost>>

-----------------------------------------------------------------------------
(* Canceling the sibling of a leg that is over: _cancel_oco_sibling.       *)

OcoBegins(p) ==
    /\ co[p].at = "ready" /\ co[p].op = "oco" /\ Runs(p)
    /\ Stays(p, [co[p] EXCEPT !.at = "oco"])
    /\ UNCHANGED <<accountVars, sessionVars, starts, raised, lost>>

\* Mutant: the winner is kept after the sibling was canceled.
OcoReturns_Keeps(p) ==
    /\ co[p].at = "oco" /\ Runs(p)
    /\ ~Live(co[p].order)
    /\ Stays(p, [Idle EXCEPT !.at = "done"])
    /\ UNCHANGED <<accountVars, sessionVars, starts, raised, lost>>

OcoReturns(p) ==
    /\ co[p].at = "oco" /\ Runs(p)
    /\ ~Live(co[p].order)
    /\ bracket' = Bare /\ winner' = NoOrder
    /\ lost' = (lost \/ Forgets(LegsOf(bracket) \ {co[p].order}))
    /\ Stays(p, [Idle EXCEPT !.at = "done"])
    /\ UNCHANGED <<accountVars, running, halted, pending, recovery, meta, seq, tasks,
                   starts, raised>>

OcoFails(p) ==
    /\ ~Synchronous /\ "cancel" \in Faults
    /\ co[p].at \in {"oco", "sibling", "recover", "cancel", "sweep"}
    /\ Raises(p)
    /\ UNCHANGED <<accountVars, halted, pending, bracket, recovery, winner, meta, seq,
                   tasks, starts, lost>>

-----------------------------------------------------------------------------
(* refresh                                                                 *)

\* Mutant: tasks that are done stay in the set.
DrainReturns_Keeps(p) ==
    /\ co[p].at = "drain" /\ Runs(p)
    /\ \A t \in co[p].left : co[t].at = "done"
    /\ running' = (running /\ ~(co[p].op = "leaving" /\ tasks = {}))
    /\ Stays(p, IF tasks # {} THEN [co[p] EXCEPT !.left = tasks]
                ELSE IF co[p].op = "leaving" THEN Idle
                ELSE [co[p] EXCEPT !.left = {},
                         !.at = CASE co[p].op = "bar" /\ ~co[p].done -> "risk"
                                  [] co[p].op = "stopping" -> "find"
                                  [] OTHER -> "orders",
                         !.op = IF @ = "stopping" THEN "stop" ELSE @])
    /\ UNCHANGED <<accountVars, halted, pending, bracket, recovery, winner,
                   meta, seq, tasks, starts, raised, lost>>

\* gather() returns when every task it waits for is done, or raises as soon
\* as one has failed; either way the session forgets them all.
DrainReturns(p) ==
    /\ co[p].at = "drain" /\ Runs(p)
    /\ \A t \in co[p].left : co[t].at = "done"
    /\ tasks' = tasks \ co[p].left
    /\ running' = (running /\ ~(co[p].op = "leaving" /\ tasks' = {}))
    /\ Stays(p, IF tasks' # {} THEN [co[p] EXCEPT !.left = tasks']
                ELSE IF co[p].op = "leaving" THEN Idle
                ELSE [co[p] EXCEPT !.left = {},
                         !.at = CASE co[p].op = "bar" /\ ~co[p].done -> "risk"
                                  [] co[p].op = "stopping" -> "find"
                                  [] OTHER -> "orders",
                         !.op = IF @ = "stopping" THEN "stop" ELSE @])
    /\ UNCHANGED <<accountVars, halted, pending, bracket, recovery, winner,
                   meta, seq, starts, raised, lost>>

DrainRaises(p) ==
    /\ co[p].at = "drain" /\ Runs(p)
    /\ \E t \in co[p].left : co[t].at = "failed"
    /\ tasks' = tasks \ co[p].left
    /\ raised' = TRUE
    /\ running' = (running /\ co[p].op \notin Stoppers)
    /\ Stays(p, Idle)
    /\ UNCHANGED <<accountVars, halted, pending, bracket, recovery, winner, meta, seq,
                   starts, lost>>

Open == {o \in Orders : status[o] = "working"}

\* With the open orders at hand: a recovery first, then the OCO winner.
Settles(p, open, rec) ==
    IF rec # NoOrder /\ rec \in open
    THEN /\ Stays(p, [co[p] EXCEPT !.at = "recover", !.order = rec, !.left = open])
         /\ UNCHANGED <<running, bracket, recovery, winner, lost>>
    ELSE /\ recovery' = NoOrder
         /\ IF winner \in open
            THEN /\ Stays(p, [co[p] EXCEPT !.at = "sibling", !.order = winner, !.left = open])
                 /\ bracket' = IF rec # NoOrder THEN Bare ELSE bracket
                 /\ UNCHANGED <<running, winner>>
            ELSE /\ bracket' = IF rec # NoOrder \/ winner # NoOrder THEN Bare ELSE bracket
                 /\ winner' = NoOrder
                 /\ Finishes(p)
         /\ lost' = (lost \/ (bracket' = Bare /\ Forgets(LegsOf(bracket))))

OrdersRead(p) ==
    /\ co[p].at = "orders" /\ Runs(p)
    /\ Settles(p, Open, recovery)
    /\ UNCHANGED <<accountVars, halted, pending, meta, seq, tasks, starts, raised>>

\* The canceled recovery is over; the winner is judged by the same list.
RecoverReturns(p) ==
    /\ co[p].at = "recover" /\ Runs(p)
    /\ ~Live(co[p].order)
    /\ LET open == co[p].left
       IN  /\ recovery' = NoOrder /\ bracket' = Bare
           /\ lost' = (lost \/ Forgets(LegsOf(bracket) \ {co[p].order}))
           /\ IF winner \in open
              THEN /\ Stays(p, [co[p] EXCEPT !.at = "sibling", !.order = winner])
                   /\ UNCHANGED <<running, winner>>
              ELSE winner' = NoOrder /\ Finishes(p)
    /\ UNCHANGED <<accountVars, halted, pending, meta, seq, tasks, starts, raised>>

SiblingReturns(p) ==
    /\ co[p].at = "sibling" /\ Runs(p)
    /\ ~Live(co[p].order)
    /\ bracket' = Bare /\ winner' = NoOrder
    /\ lost' = (lost \/ Forgets(LegsOf(bracket) \ {co[p].order}))
    /\ Finishes(p)
    /\ UNCHANGED <<accountVars, halted, pending, recovery, meta, seq, tasks, starts, raised>>

Refresh(p) ==
    /\ co[p].at = "idle" /\ p \in Callers /\ Runs(p) /\ running
    /\ Stays(p, Refreshing([Idle EXCEPT !.op = "refresh"]))
    /\ UNCHANGED <<accountVars, sessionVars, starts, raised, lost>>

-----------------------------------------------------------------------------
(* push_bar                                                                *)

PushBar(p) ==
    /\ co[p].at = "idle" /\ p \in Callers /\ Runs(p) /\ running
    /\ Stays(p, [Idle EXCEPT !.at = "bar", !.op = "bar"])
    /\ UNCHANGED <<accountVars, sessionVars, starts, raised, lost>>

BarReturns(p) ==
    /\ co[p].at = "bar" /\ Runs(p)
    /\ Stays(p, Refreshing(co[p]))
    /\ UNCHANGED <<accountVars, sessionVars, starts, raised, lost>>

\* _sync_equity_and_risk, of push_bar and close_position: a new day lifts a
\* halt.  (A loss limit only refuses entries, which nobody need place.)
RiskSynced(p) ==
    /\ co[p].at = "risk" /\ Runs(p)
    /\ halted' \in {halted} \cup IF Rollover THEN {FALSE} ELSE {}
    /\ Stays(p, Refreshing([co[p] EXCEPT !.done = (co[p].op = "bar")]))
    /\ UNCHANGED <<accountVars, running, pending, bracket, recovery, winner, meta, seq,
                   tasks, starts, raised, lost>>

-----------------------------------------------------------------------------
(* close_position, flatten, stop, cancel_order, start                      *)

Begins(p, op, at) ==
    /\ co[p].at = "idle" /\ p \in Callers /\ Runs(p) /\ running
    /\ Cardinality(Closes) < MaxCloses
    /\ Stays(p, IF at = "drain" THEN Refreshing([Idle EXCEPT !.op = op])
                ELSE [Idle EXCEPT !.op = op, !.at = at])
    /\ UNCHANGED <<accountVars, sessionVars, starts, raised, lost>>

ClosePosition(p) == Begins(p, "close", "find")
Flatten(p)       == Begins(p, "flatten", "find")
Stop(p) ==
    /\ \A q \in Callers : co[q].op \notin Stoppers
    /\ \E f \in BOOLEAN : Begins(p, IF f THEN "stopping" ELSE "leaving", "drain")

\* The market order that closes what get_positions said: `left' holds the
\* legs still to cancel, `entry' the signed quantity.
NextUnleg(p, f, legs) ==
    IF legs # {}
    THEN LET o == CHOOSE x \in legs : \A y \in legs : x <= y
         IN  /\ Stays(p, [f EXCEPT !.at = "unleg", !.order = o, !.left = legs \ {o}])
             /\ UNCHANGED <<accountVars, meta, seq>>
    ELSE /\ Cardinality(Closes) < MaxCloses
         /\ Sends(seq + 1, -f.entry, TRUE, "close", NoOrder, {})
         /\ Stays(p, [f EXCEPT !.at = "close", !.order = seq + 1, !.left = {}])

FindReturns(p) ==
    /\ co[p].at = "find" /\ Runs(p)
    /\ IF net = 0
       THEN /\ Stays(p, IF co[p].op = "close" THEN Idle ELSE [co[p] EXCEPT !.at = "open"])
            /\ UNCHANGED <<accountVars, bracket, recovery, meta, seq>>
       ELSE /\ bracket' = Bare /\ recovery' = NoOrder
            /\ NextUnleg(p, [co[p] EXCEPT !.entry = net], LegsOf(bracket))
    /\ UNCHANGED <<running, halted, pending, winner, tasks, starts, raised, lost>>

UnlegReturns(p) ==
    /\ co[p].at = "unleg" /\ Runs(p)
    /\ ~Live(co[p].order)
    /\ NextUnleg(p, co[p], co[p].left)
    /\ UNCHANGED <<running, halted, pending, bracket, recovery, winner, tasks,
                   starts, raised, lost>>

UnlegFails(p) ==
    /\ ~Synchronous /\ "cancel" \in Faults
    /\ co[p].at = "unleg"
    /\ lost' = (lost \/ Forgets(co[p].left \cup {co[p].order}))
    /\ Raises(p)
    /\ UNCHANGED <<accountVars, halted, pending, bracket, recovery, winner, meta, seq,
                   tasks, starts>>

CloseReturns(p) ==
    /\ co[p].at = "close" /\ Runs(p)
    /\ status[co[p].order] # "sent"
    /\ Stays(p, [co[p] EXCEPT !.at = "risk", !.order = NoOrder, !.entry = NoOrder])
    /\ UNCHANGED <<accountVars, sessionVars, starts, raised, lost>>

CloseFails(p) ==
    /\ ~Synchronous /\ "submit" \in Faults
    /\ co[p].at = "close"
    /\ NeverArrives(co[p].order) \/ UNCHANGED accountVars
    /\ Raises(p)
    /\ UNCHANGED <<halted, pending, bracket, recovery, winner, meta, seq, tasks, starts, lost>>

\* flatten cancels the open orders one by one, then clears its books.
NextSweep(p, left) ==
    IF left # {}
    THEN LET o == CHOOSE x \in left : \A y \in left : x <= y
         IN  /\ Stays(p, [co[p] EXCEPT !.at = "sweep", !.order = o, !.left = left \ {o}])
             /\ UNCHANGED <<pending, bracket, recovery, winner, lost>>
    ELSE /\ pending' = NoOrder /\ bracket' = Bare
         /\ recovery' = NoOrder /\ winner' = NoOrder
         /\ lost' = (lost \/ Forgets(LegsOf(bracket)
                                   \cup ({winner, recovery, pending} \ {NoOrder})))
         /\ Stays(p, Refreshing([co[p] EXCEPT !.done = TRUE]))

\* Mutant: flatten does not cancel the open orders.
OpenRead_Skips(p) ==
    /\ co[p].at = "open" /\ Runs(p)
    /\ NextSweep(p, {})
    /\ UNCHANGED <<accountVars, running, halted, meta, seq, tasks, starts, raised>>

OpenRead(p) ==
    /\ co[p].at = "open" /\ Runs(p)
    /\ NextSweep(p, Open)
    /\ UNCHANGED <<accountVars, running, halted, meta, seq, tasks, starts, raised>>

SweepReturns(p) ==
    /\ co[p].at = "sweep" /\ Runs(p)
    /\ ~Live(co[p].order)
    /\ NextSweep(p, co[p].left)
    /\ UNCHANGED <<accountVars, running, halted, meta, seq, tasks, starts, raised>>

CancelOrder(p) ==
    /\ co[p].at = "idle" /\ p \in Callers /\ Runs(p) /\ running
    /\ "user" \in Faults
    /\ \E o \in Open : Stays(p, [Idle EXCEPT !.at = "cancel", !.op = "cancel", !.order = o])
    /\ UNCHANGED <<accountVars, sessionVars, starts, raised, lost>>

CancelReturns(p) ==
    /\ co[p].at = "cancel" /\ Runs(p)
    /\ ~Live(co[p].order)
    /\ Stays(p, Refreshing(co[p]))
    /\ UNCHANGED <<accountVars, sessionVars, starts, raised, lost>>

\* start() wires the callbacks, resets the risk manager and refreshes.
Start(p) ==
    /\ co[p].at = "idle" /\ p \in Callers /\ Runs(p)
    /\ ~running /\ starts < MaxStarts
    /\ \A q \in Callers : co[q].op \notin Stoppers
    /\ starts' = starts + 1
    /\ running' = TRUE /\ halted' = FALSE
    /\ Stays(p, Refreshing([Idle EXCEPT !.op = "start"]))
    /\ UNCHANGED <<accountVars, pending, bracket, recovery, winner, meta, seq, tasks,
                   raised, lost>>

-----------------------------------------------------------------------------
Resumes(p) ==
    \/ EntryReturns(p) \/ AttachBegins(p) \/ StopReturns(p) \/ TargetReturns(p)
    \/ UndoReturns(p) \/ OcoBegins(p) \/ OcoReturns(p)
    \/ DrainReturns(p) \/ DrainRaises(p) \/ OrdersRead(p)
    \/ RecoverReturns(p) \/ SiblingReturns(p) \/ BarReturns(p) \/ RiskSynced(p)
    \/ FindReturns(p) \/ UnlegReturns(p) \/ CloseReturns(p)
    \/ OpenRead(p) \/ SweepReturns(p) \/ CancelReturns(p)

Fails(p) ==
    \/ EntryFails(p) \/ StopFails(p) \/ TargetFails(p) \/ UndoFails(p)
    \/ OcoFails(p) \/ UnlegFails(p) \/ CloseFails(p)

Calls(p) ==
    \/ PlaceOrder(p) \/ Refresh(p) \/ PushBar(p) \/ ClosePosition(p) \/ Flatten(p)
    \/ Stop(p) \/ CancelOrder(p) \/ Start(p)

Next ==
    \/ \E p \in Callers : Calls(p)
    \/ \E p \in Procs : Resumes(p) \/ Fails(p) \/ CancelActs(p)
    \/ \E o \in Orders :
        AccountAnswers(o) \/ AccountFills(o) \/ AccountDrops(o) \/ AccountTells(o)

(* A coroutine that can go on does, a call to the account is answered and  *)
(* what the account did is reported; users need not call anything.         *)
Fairness ==
    /\ \A p \in Procs : WF_vars(Resumes(p)) /\ WF_vars(CancelActs(p))
    /\ \A o \in Orders : WF_vars(AccountAnswers(o)) /\ WF_vars(AccountTells(o))

Spec == Init /\ [][Next]_vars
FairSpec == Spec /\ Fairness

-----------------------------------------------------------------------------
(* Properties                                                              *)

\* No coroutine is under way and the account has reported everything.
AtRest ==
    /\ \A p \in Procs : co[p].at \in {"idle", "done", "failed"}
    /\ \A o \in Orders : status[o] \in Done => told[o]

\* An entry that was filled with a stop planned has had its stop submitted,
\* unless a call raised, a flatten or a later entry took the staged bracket away
\* or the session is halted (session.py:354-383, 631-649).
Protected ==
    (AtRest /\ running /\ ~raised /\ ~halted /\ ~lost) =>
        \A e \in Entries : (status[e] = "filled" /\ "stop" \in meta[e].legs) =>
            \E o \in Orders : meta[o].kind = "stop" /\ meta[o].parent = e

Legs == {o \in Orders : meta[o].kind \in {"stop", "target"}}
Held(p) == {co[p].order, co[p].stop} \cup
           (IF co[p].at \in {"unleg", "sweep", "recover", "sibling"} THEN co[p].left ELSE {})

\* As long as the session has not knowingly dropped one, a leg that can act is
\* named by the bracket, the OCO winner or the recovery, or in some coroutine's hands.
NoStrayLeg ==
    ~lost => \A o \in Legs : Live(o) =>
        o \in LegsOf(bracket) \cup {winner, recovery} \cup UNION {Held(p) : p \in Procs}

Abs(n) == IF n < 0 THEN -n ELSE n

\* A leg or a close that fills reduces the position; it never opens, enlarges
\* or reverses one.
ExitReduces ==
    \A o \in Legs \cup Closes :
        (status[o] # "filled" /\ status'[o] = "filled") => Abs(net') < Abs(net)

\* When flatten, or stop with flatten, ends without an exception, there is
\* neither a position nor an order that could open one.
FlattenClears ==
    \A p \in Callers :
        (co[p].op \in {"flatten", "stop"} /\ co[p].done /\ co'[p] = Idle /\ raised' = raised)
            => net' = 0 /\ \A o \in Orders : status'[o] \notin {"sent", "working"}

\* Exactly one exit per trade on a paper account, whoever is quicker: the legs
\* of the bracket, close_position or flatten (session.py:384-420, 779-797).
ExitsReduce == [][ExitReduces]_vars

\* On a paper account flatten, or stop with flatten, leaves neither position
\* nor order (session.py:788-797).
FlattenLeavesNothing == [][FlattenClears]_vars

\* The sibling of a leg that is over is canceled, or turns out to be over too.
OcoSettles == (winner # NoOrder) ~> (winner = NoOrder)

\* Every call of the session returns or raises.
CallsReturn == \A p \in Callers : (co[p].at # "idle") ~> (co[p].at = "idle")
=============================================================================
