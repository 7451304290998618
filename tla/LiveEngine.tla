------------------------------ MODULE LiveEngine ------------------------------
(***************************************************************************)
(* LiveEngine (live/engine.py): one signal system trading one symbol.      *)
(*                                                                         *)
(* The process is one asyncio loop.  Three activities interleave at their  *)
(* awaits: the bar handler (serialised by _bar_lock), start/stop           *)
(* (serialised by _lifecycle_lock), and tasks spawned by broker callbacks; *)
(* the callbacks themselves run whenever the account reports.  An action   *)
(* is the code between two awaits, and `at' and `life' say at which await  *)
(* the handler and start/stop are suspended.  Appending to the equity and  *)
(* trade logs changes nothing modelled here and is left out.               *)
(*                                                                         *)
(* Bars carry no data: whether a bar triggers an exit, expires or chases   *)
(* the pending entry, closes the session, breaches a limit or yields a     *)
(* signal is a free choice.  A bar that waits for _bar_lock arrives, in    *)
(* the model, when the lock is released.                                   *)
(***************************************************************************)
EXTENDS BrokerAccount, Sequences

CONSTANTS
    Dirs,            \* directions a signal may take: a subset of {-1, 1}
    Rollover,        \* the run spans New York midnight, which lifts halts
    FilledReceipts,  \* a streaming broker may answer a submit with "filled"
    FeedKinds,       \* "on": the feed calls handle_bar; "poll": a task does
    Faults,          \* which calls may fail, and whether the process may
    MaxStarts        \* bound on the number of start() calls

AllFaults == {"submit", "cancel", "positions", "start", "crash"}

ASSUME EngineAssumption ==
    /\ Dirs \subseteq {-1, 1}
    /\ Rollover \in BOOLEAN
    /\ FilledReceipts \in BOOLEAN
    /\ FeedKinds \subseteq {"on", "poll"}
    /\ Faults \subseteq AllFaults
    /\ Synchronous => Faults \cap {"submit", "cancel", "crash"} = {}
    /\ MaxStarts \in Nat

VARIABLES
    life,       \* where start() or stop() is suspended
    flat,       \* the last stop() flattens a position, and has not failed
    feed,       \* bars: they come, no more do, or the last ones may
    starts,     \* number of start() calls
    at,         \* where handle_bar is suspended
    call,       \* the order handle_bar has a call out for
    stopCall,   \* the order stop() has a call out for
    pos,        \* open_position, with its pending exit
    pend,       \* pending_order
    halted,     \* risk_manager.halted
    saves,      \* the writes to the store that are asked for, in order
    disk,       \* the stored openPosition and pendingOrder
    boot,       \* what start() has read so far: stored position, broker net
    lost        \* history: see Forgets

memory == <<pos, pend, halted, saves, lost>>
process == <<life, flat, feed, starts, at, call, stopCall, disk, boot>>
vars == <<accountVars, memory, process>>

-------------------------------------------------------------------------------
(* dir = 0 stands for None.  client and id are the two names of an order   *)
(* the engine matches updates by: of the entry for pend, of the exit for   *)
(* pos.  id is set only when the submit call has returned.                 *)

Slot == [dir: {-1, 0, 1}, client: OrderIds, id: OrderIds]
None == [dir |-> 0, client |-> NoOrder, id |-> NoOrder]
Stored == [pos: Slot, pend: Slot]

\* Mutant: only the broker's order id is matched.
Names_ById(slot, o) == slot.dir # 0 /\ o = slot.id

Names(slot, o) == slot.dir # 0 /\ o \in {slot.client, slot.id}

Snapshot == [pos |-> pos, pend |-> pend]

(* A persist takes its snapshot when it is called and writes it when it    *)
(* gets the store's lock, which is first come, first served.  by: bar and  *)
(* life are waited for by the handler and by start/stop; task is spawned   *)
(* by a callback, trade too: it appends to the trade log before it         *)
(* persists; void was canceled.  p and q are the position and pending      *)
(* entry written.                                                          *)
Jobs == [by: {"bar", "life", "task", "trade", "void"}, state: Stored]
Job(by, p, q) == [by |-> by, state |-> [pos |-> p, pend |-> q]]
Asks(by, p, q) == saves' = Append(saves, Job(by, p, q))

Queued(by) == \E i \in 1 .. Len(saves) : saves[i].by = by

\* _drain_event_tasks is over.
Drained == ~Queued("task") /\ ~Queued("trade")

Running == life \in {"started", "on", "flatCancel", "flatExit", "flatHeard",
                     "flatDrain", "flatSave", "flatFail",
                     "unpolling", "closing", "leaving"}
Wired == Running \/ life \in {"loaded", "read"}

\* An order that may still change the account, or did so unheard.
MayAct(st, o) == o \in Orders /\ st[o] \in {"sent", "working", "filled"}

(* The engine forgets when it drops the name of an order that may act,     *)
(* closes a position on the fill of another order, or goes on from a       *)
(* stored state that is not the one it had.  `lost' records that it did.   *)
Forgets(st, slot) == slot.dir # 0 /\ MayAct(st, slot.client)

\* RiskManager.update and record_trade: a new day lifts a halt, a limit sets it.
RiskAfter(h) == {h, TRUE} \cup (IF Rollover THEN {FALSE} ELSE {})

-------------------------------------------------------------------------------
(* Broker callbacks.                                                       *)

\* The position a filled pending entry opens.
Opened == [dir |-> pend.dir, client |-> NoOrder, id |-> NoOrder]

\* Mutant: a closed position is not persisted.
Filled_Unsaved(p, o) ==
    \/ /\ Names(pend, o)
       /\ pos' = Opened
       /\ pend' = None
       /\ Asks("task", Opened, None)
       /\ UNCHANGED <<halted, lost>>
    \/ /\ ~Names(pend, o)
       /\ p.dir # 0
       /\ side[o] = -p.dir
       /\ pos' = None
       /\ halted' \in RiskAfter(halted)
       /\ lost' = (lost \/ p.client # o)
       /\ UNCHANGED <<pend, saves>>
    \/ /\ ~Names(pend, o)
       /\ side[o] # -p.dir
       /\ pos' = p
       /\ UNCHANGED <<pend, halted, saves, lost>>

\* _on_order_filled, when p is the open position.
Filled(p, o) ==
    \/ /\ Names(pend, o)
       /\ pos' = Opened
       /\ pend' = None
       /\ Asks("task", Opened, None)
       /\ UNCHANGED <<halted, lost>>
    \/ /\ ~Names(pend, o)
       /\ p.dir # 0
       /\ side[o] = -p.dir
       /\ pos' = None
       /\ halted' \in RiskAfter(halted)
       /\ Asks("trade", None, pend)
       /\ lost' = (lost \/ p.client # o)
       /\ UNCHANGED pend
    \/ /\ ~Names(pend, o)
       /\ side[o] # -p.dir
       /\ pos' = p
       /\ UNCHANGED <<pend, halted, saves, lost>>

\* Mutant: an exit that is over is taken for a closed position.
Refused_Closes(o) ==
    /\ pend' = IF Names(pend, o) THEN None ELSE pend
    /\ pos' = IF ~Names(pend, o) /\ Names(pos, o) THEN None ELSE pos
    /\ IF Names(pend, o) \/ Names(pos, o)
       THEN Asks("task", pos', pend') ELSE UNCHANGED saves
    /\ UNCHANGED <<halted, lost>>

\* _on_order_terminal: an order was canceled or rejected.
Refused(o) ==
    /\ pend' = IF Names(pend, o) THEN None ELSE pend
    /\ halted' = (halted \/ (~Names(pend, o) /\ Names(pos, o)))
    /\ IF Names(pend, o) \/ Names(pos, o)
       THEN Asks("task", pos, pend') ELSE UNCHANGED saves
    /\ UNCHANGED <<pos, lost>>

Hears(o, s) ==
    IF ~Wired THEN UNCHANGED memory
    ELSE IF s = "filled" THEN Filled(pos, o) ELSE Refused(o)

\* The account moves o to status s; PaperEngine calls back inside the move.
AccountMoves(o, s) ==
    /\ Reach(o, s)
    /\ IF Synchronous /\ s \in Done THEN Hears(o, s) ELSE UNCHANGED memory

AccountAnswers(o) ==
    /\ status[o] = "sent"
    /\ \E s \in Answers(o) : AccountMoves(o, s)
    /\ UNCHANGED process

AccountFills(o) ==
    /\ status[o] = "working"
    /\ AccountMoves(o, "filled")
    /\ UNCHANGED process

\* The venue cancels a working order: a day order at the close.
AccountDrops(o) ==
    /\ ~Synchronous
    /\ status[o] = "working"
    /\ AccountMoves(o, "canceled")
    /\ UNCHANGED process

AccountTells(o) ==
    /\ Tell(o)
    /\ Hears(o, status[o])
    /\ UNCHANGED process

\* The next write reaches the store.
Writes ==
    /\ saves # <<>>
    /\ IF Head(saves).by = "trade"
       THEN saves' = Append(Tail(saves), Job("task", pos, pend))
       ELSE saves' = Tail(saves)
    /\ disk' = IF Head(saves).by \in {"trade", "void"} THEN disk ELSE Head(saves).state
    /\ UNCHANGED <<accountVars, pos, pend, halted, lost,
                   life, flat, feed, starts, at, call, stopCall, boot>>

-------------------------------------------------------------------------------
(* handle_bar.                                                             *)

\* Mutant: a pending entry does not keep the signal from being called.
Gate_IgnoresPending(p, q, h, l) ==
    /\ at' = IF ~h /\ p.dir = 0 THEN "signal" ELSE "idle"
    /\ pend' = q /\ lost' = l /\ call' = NoOrder
    /\ UNCHANGED saves

\* Mutant: an open position does not keep the signal from being called.
Gate_IgnoresPosition(p, q, h, l) ==
    /\ at' = IF ~h /\ q.dir = 0 THEN "signal" ELSE "idle"
    /\ pend' = q /\ lost' = l /\ call' = NoOrder
    /\ UNCHANGED saves

\* From can_trade to the end of handle_bar, or to its next await.  p, q, h
\* and l are the position, pending entry, halt and history so far.  Nothing
\* of a bar that is outside the session window gets past can_trade either.
Gate(p, q, h, l) ==
    \E inSession \in BOOLEAN :
        LET ok == ~h /\ inSession IN
        \/ /\ ok /\ p.dir = 0 /\ q.dir = 0
           /\ at' = "signal"
           /\ pend' = q /\ lost' = l /\ call' = NoOrder
           /\ UNCHANGED saves
        \/ /\ IF ok THEN p.dir # 0 \/ q.dir # 0 ELSE q.dir = 0
           /\ at' = "idle"
           /\ pend' = q /\ lost' = l /\ call' = NoOrder
           /\ UNCHANGED saves
        \/ /\ ~ok /\ q.dir # 0 /\ q.id # NoOrder
           /\ at' = "veto" /\ call' = q.id
           /\ pend' = q /\ lost' = l
           /\ UNCHANGED saves
        \/ /\ ~ok /\ q.dir # 0 /\ q.id = NoOrder
           /\ at' = "vetoSave" /\ call' = NoOrder
           /\ pend' = None /\ lost' = (l \/ Forgets(status, q))
           /\ Asks("bar", p, None)

\* A bar is accepted once the spawned tasks are drained.  After stop() has let
\* the feed go, only those come that were waiting already.
BarBegins ==
    /\ at = "idle"
    /\ Running
    /\ feed \notin {"ending", "off"}
    /\ Drained
    /\ feed' \in IF feed = "late" THEN {"late", "off"} ELSE {feed}
    /\ halted' \in RiskAfter(halted)

\* No exit to submit (none triggered, or one is pending already), and the
\* pending entry neither expires nor is chased.
BarPasses ==
    /\ BarBegins
    /\ Gate(pos, pend, halted', lost)
    /\ UNCHANGED <<accountVars, pos, life, flat, starts, stopCall, disk, boot>>

\* Mutant: a pending exit does not keep another from being submitted.
BarExits_Again ==
    /\ BarBegins
    /\ pos.dir # 0
    /\ \E o \in Orders, m \in BOOLEAN :
        /\ Send(o, -pos.dir, m)
        /\ pos' = [pos EXCEPT !.client = o]
        /\ call' = o
    /\ at' = "exit"
    /\ UNCHANGED <<pend, saves, lost,
                   life, flat, starts, stopCall, disk, boot>>

\* _manage_open_position: EOD and TIME exit at market, OCO at its own price.
BarExits ==
    /\ BarBegins
    /\ pos.dir # 0
    /\ pos.client = NoOrder
    /\ \E o \in Orders, m \in BOOLEAN :
        /\ Send(o, -pos.dir, m)
        /\ pos' = [pos EXCEPT !.client = o]
        /\ call' = o
    /\ at' = "exit"
    /\ UNCHANGED <<pend, saves, lost,
                   life, flat, starts, stopCall, disk, boot>>

\* _manage_pending, past expiresAt.  pend and pos are never both set while
\* ~lost (see NoStrayOrder), so at most one of the two managers has work.
BarExpires ==
    /\ BarBegins
    /\ pend.dir # 0
    /\ IF pend.id # NoOrder
       THEN /\ at' = "expire" /\ call' = pend.id
            /\ UNCHANGED <<pend, saves, lost>>
       ELSE /\ at' = "expireSave" /\ call' = NoOrder
            /\ pend' = None
            /\ Asks("bar", pos, None)
            /\ lost' = (lost \/ Forgets(status, pend))
    /\ UNCHANGED <<accountVars, pos, life, flat, starts, stopCall, disk, boot>>

\* _manage_pending, entry chase.
BarChases ==
    /\ BarBegins
    /\ pend.dir # 0
    /\ pend.id # NoOrder
    /\ at' = "chase" /\ call' = pend.id
    /\ UNCHANGED <<accountVars, pos, pend, saves, lost,
                   life, flat, starts, stopCall, disk, boot>>

-------------------------------------------------------------------------------
(* Calls to the broker and how they end.  cancel_order of an order that is *)
(* already done is a silent no-op at PaperEngine and an error elsewhere.   *)

CancelWorks(o) == status[o] = "working" /\ Reach(o, "canceled")

CancelRaises(o) ==
    /\ ~Synchronous
    /\ status[o] \in Done \/ "cancel" \in Faults
    /\ UNCHANGED accountVars

CancelIsVoid(o) ==
    /\ Synchronous
    /\ status[o] \in Done
    /\ UNCHANGED accountVars

\* PaperEngine reports a cancellation inside the call, to a wired engine.
HeardCancel(o) == Synchronous /\ Wired /\ status[o] = "working"

\* The writes asked for once a call to cancel o has returned and left p, q.
AfterCancel(o, p, q) ==
    IF HeardCancel(o) THEN Append(saves, Job("task", p, q)) ELSE saves

ExpireReturns ==
    /\ at = "expire"
    /\ \/ /\ CancelWorks(call) \/ CancelIsVoid(call)
          /\ pend' = None
          /\ saves' = Append(AfterCancel(call, pos, None), Job("bar", pos, None))
          /\ lost' = (lost \/ Forgets(status', pend))
          /\ at' = "expireSave" /\ call' = NoOrder
       \/ /\ CancelRaises(call)
          /\ Gate(pos, pend, halted, lost)
    /\ UNCHANGED <<pos, halted, life, flat, feed, starts, stopCall, disk, boot>>

\* The veto of can_trade: an error is suppressed.
VetoReturns ==
    /\ at = "veto"
    /\ CancelWorks(call) \/ CancelIsVoid(call) \/ CancelRaises(call)
    /\ pend' = None
    /\ saves' = Append(AfterCancel(call, pos, None), Job("bar", pos, None))
    /\ lost' = (lost \/ Forgets(status', pend))
    /\ at' = "vetoSave" /\ call' = NoOrder
    /\ UNCHANGED <<pos, halted, life, flat, feed, starts, stopCall, disk, boot>>

\* modify_order.  A fill during the call leaves no pending_order to update
\* and the handler raises.
ChaseReturns ==
    /\ at = "chase"
    /\ \/ /\ ~Synchronous \/ status[call] = "working"
          /\ IF pend.dir = 0
             THEN at' = "idle" /\ UNCHANGED saves
             ELSE at' = "chaseSave" /\ Asks("bar", pos, pend)
          /\ call' = NoOrder
          /\ UNCHANGED <<pend, lost>>
       \/ /\ ~Synchronous \/ status[call] # "working"
          /\ Gate(pos, pend, halted, lost)
    /\ UNCHANGED <<accountVars, pos, halted,
                   life, flat, feed, starts, stopCall, disk, boot>>

\* May the answer to the submit of o have been "filled"?
SaidFilled(o) ==
    IF status[o] # "filled" THEN {FALSE}
    ELSE IF Synchronous THEN {market[o]}
    ELSE IF FilledReceipts THEN BOOLEAN ELSE {FALSE}

\* The open position, if there is one, with the order id of its exit.
ExitNamed(o) == IF pos.dir # 0 THEN [pos EXCEPT !.id = o] ELSE pos

\* Mutant: the exit's call waits until the order has filled.
ExitReceipt_AwaitsFill(p, o, by, said) ==
    /\ status[o] = "filled"
    /\ pos' = p
    /\ Asks(by, p, pend)
    /\ UNCHANGED <<accountVars, pend, halted, lost>>

\* _submit_exit after its receipt and the drain, to its persist or, if the
\* receipt is taken for a fill, to the drain before it.  p is the position.
ExitReceipt(p, o, by, said) ==
    /\ said \in SaidFilled(o)
    /\ IF said /\ p.dir # 0 THEN Filled(p, o)
       ELSE /\ pos' = p
            /\ halted' = (halted \/ status[o] = "rejected")
            /\ Asks(by, p, pend)
            /\ UNCHANGED <<pend, lost>>
    /\ UNCHANGED accountVars

\* The receipt names the exit; spawned tasks are waited for before it is read.
ExitHeard(o) ==
    /\ ~Drained
    /\ pos' = ExitNamed(o)
    /\ UNCHANGED <<accountVars, pend, halted, saves, lost>>

\* The submit of an exit raises: the order may or may not have arrived.
ExitRaises(o, by) ==
    /\ UNCHANGED accountVars \/ NeverArrives(o)
    /\ halted' = TRUE
    /\ Asks(by, pos, pend)
    /\ UNCHANGED <<pos, pend, lost>>

\* p is the open position, named already or not.
ExitRead(p) ==
    /\ Drained
    /\ \E said \in BOOLEAN :
        /\ ExitReceipt(p, call, "bar", said)
        /\ at' = IF said /\ pos.dir # 0 THEN "exitDrain" ELSE "exitSave"
    /\ call' = NoOrder

ExitReturns ==
    /\ at = "exit"
    /\ status[call] # "sent"
    /\ \/ ExitRead(ExitNamed(call))
       \/ ExitHeard(call) /\ at' = "exitHeard" /\ UNCHANGED call
    /\ UNCHANGED <<life, flat, feed, starts, stopCall, disk, boot>>

ExitResumes ==
    /\ at = "exitHeard"
    /\ ExitRead(pos)
    /\ UNCHANGED <<life, flat, feed, starts, stopCall, disk, boot>>

ExitDrained ==
    /\ at = "exitDrain"
    /\ Drained
    /\ at' = "exitSave"
    /\ Asks("bar", pos, pend)
    /\ UNCHANGED <<accountVars, pos, pend, halted, lost,
                   life, flat, feed, starts, call, stopCall, disk, boot>>

ExitFails ==
    /\ at = "exit"
    /\ "submit" \in Faults
    /\ ExitRaises(call, "bar")
    /\ at' = "raiseSave" /\ call' = NoOrder
    /\ UNCHANGED <<life, flat, feed, starts, stopCall, disk, boot>>

-------------------------------------------------------------------------------
(* The signal and _submit_entry.                                           *)

\* No decision, a size or limit that stops it, or a signal that raises.
SignalDeclines ==
    /\ at = "signal"
    /\ at' = "idle"
    /\ UNCHANGED <<accountVars, memory,
                   life, flat, feed, starts, call, stopCall, disk, boot>>

SignalEnters ==
    /\ at = "signal"
    /\ ~halted
    /\ \E o \in Orders, d \in Dirs, m \in BOOLEAN :
        /\ Send(o, d, m)
        /\ pend' = [dir |-> d, client |-> o, id |-> NoOrder]
        /\ call' = o
    /\ at' = "entry"
    /\ UNCHANGED <<pos, halted, saves, lost,
                   life, flat, feed, starts, stopCall, disk, boot>>

\* The receipt of an entry is read once the spawned tasks are drained.
EntryRead ==
    /\ Drained
    /\ IF pend.dir = 0
       THEN at' = "idle" /\ call' = NoOrder /\ UNCHANGED <<pend, saves>>
       ELSE /\ pend' = [pend EXCEPT !.client = call, !.id = call]
            /\ Asks("bar", pos, pend')
            /\ at' = "entrySave" /\ UNCHANGED call
    /\ UNCHANGED <<accountVars, pos, halted, lost,
                   life, flat, feed, starts, stopCall, disk, boot>>

EntryReturns ==
    /\ at = "entry"
    /\ status[call] # "sent"
    /\ \/ EntryRead
       \/ /\ ~Drained
          /\ at' = "entryHeard"
          /\ UNCHANGED <<accountVars, memory,
                         life, flat, feed, starts, call, stopCall, disk, boot>>

EntryResumes == at = "entryHeard" /\ EntryRead

\* The submit of an entry raises: the pending order is left as it is.
EntryFails ==
    /\ at = "entry"
    /\ "submit" \in Faults
    /\ UNCHANGED accountVars \/ NeverArrives(call)
    /\ at' = "idle" /\ call' = NoOrder
    /\ UNCHANGED <<memory, life, flat, feed, starts, stopCall, disk, boot>>

EntrySaved ==
    /\ at = "entrySave"
    /\ ~Queued("bar")
    /\ \E said \in SaidFilled(call) :
        IF said /\ pend.dir # 0 THEN Filled(pos, call) ELSE UNCHANGED memory
    /\ at' = "idle" /\ call' = NoOrder
    /\ UNCHANGED <<accountVars, life, flat, feed, starts, stopCall, disk, boot>>

\* A persist the handler waits for is done, and it goes on to can_trade.
HandlerSaved ==
    /\ at \in {"exitSave", "expireSave", "chaseSave"}
    /\ ~Queued("bar")
    /\ Gate(pos, pend, halted, lost)
    /\ UNCHANGED <<accountVars, pos, halted,
                   life, flat, feed, starts, stopCall, disk, boot>>

\* ... or it was the last thing the handler does.
HandlerEnds ==
    /\ at \in {"vetoSave", "raiseSave"}
    /\ ~Queued("bar")
    /\ at' = "idle"
    /\ UNCHANGED <<accountVars, memory,
                   life, flat, feed, starts, call, stopCall, disk, boot>>

-------------------------------------------------------------------------------
(* start().                                                                *)

\* Mutant: reconciliation is given the whole stored state as the position.
StartLoads_Whole ==
    /\ life \in {"off", "crashed"}
    /\ starts < MaxStarts
    /\ saves = <<>>
    /\ life' = "loaded"
    /\ starts' = starts + 1
    /\ flat' = FALSE
    /\ pos' = disk.pos
    /\ pend' = disk.pend
    /\ boot' = [pos |-> disk, net |-> 0]
    /\ lost' = (lost \/ Snapshot # disk)
    /\ UNCHANGED <<accountVars, halted, saves, feed, at, call, stopCall, disk>>

\* Connect, wire the callbacks, load the stored state, once the writes asked
\* for before are done.  A second start in the same process replaces what is
\* in memory.
StartLoads ==
    /\ life \in {"off", "crashed"}
    /\ starts < MaxStarts
    /\ saves = <<>>
    /\ life' = "loaded"
    /\ starts' = starts + 1
    /\ flat' = FALSE
    /\ pos' = disk.pos
    /\ pend' = disk.pend
    /\ boot' = [pos |-> disk.pos, net |-> 0]
    /\ lost' = (lost \/ Snapshot # disk)
    /\ UNCHANGED <<accountVars, halted, saves, feed, at, call, stopCall, disk>>

\* get_positions; an error reads as no positions.
StartReads ==
    /\ life = "loaded"
    /\ life' = "read"
    /\ \/ boot' = [boot EXCEPT !.net = net]
       \/ "positions" \in Faults /\ UNCHANGED boot
    /\ UNCHANGED <<accountVars, memory, flat, feed, starts, at, call, stopCall, disk>>

\* StateManager.reconcile on the stored position and the broker's.
Agrees == boot.pos.dir # 0 /\ boot.net = boot.pos.dir
Mismatch == boot.pos.dir # 0 /\ boot.net # 0 /\ boot.net # boot.pos.dir
\* closed-externally and external-position are reported and change nothing.

ExitMissing ==
    /\ pos.dir # 0
    /\ pos.client # NoOrder
    /\ ~\E o \in Orders : Names(pos, o) /\ status[o] = "working"

\* get_open_orders, adoption, risk_manager.initialize and the halts after it,
\* the subscription; an error of get_open_orders halts as well.
StartRuns ==
    /\ life = "read"
    /\ life' = "started"
    /\ IF Agrees /\ pos.dir = 0
       THEN /\ pos' = boot.pos
            /\ lost' = TRUE
       ELSE UNCHANGED <<pos, lost>>
    /\ \/ halted' = (Mismatch \/ ExitMissing)
       \/ "positions" \in Faults /\ pos.client # NoOrder /\ halted' = TRUE
    /\ Asks("life", pos', pend)
    /\ feed' \in FeedKinds
    /\ UNCHANGED <<accountVars, pend,
                   flat, starts, at, call, stopCall, disk, boot>>

StartSaved ==
    /\ life = "started"
    /\ ~Queued("life")
    /\ life' = "on"
    /\ UNCHANGED <<accountVars, memory, flat, feed, starts, at, call, stopCall, disk, boot>>

\* _rollback_start.
StartFails ==
    /\ "start" \in Faults
    /\ life \in {"loaded", "read"}
    /\ life' = "off" /\ feed' = "off"
    /\ UNCHANGED <<accountVars, memory, flat, starts, at, call, stopCall, disk, boot>>

-------------------------------------------------------------------------------
(* stop().  It does not take _bar_lock: the handler may be at any await.   *)

\* stop_polling, then unsubscribe, then the last persist.  Without a poll task
\* a bar may be left that waits for _bar_lock, or holds it to drain the tasks.
LetsGo ==
    IF feed = "poll"
    THEN life' = "unpolling" /\ UNCHANGED <<feed, saves>>
    ELSE /\ life' = "closing"
         /\ feed' \in {"off"} \cup (IF at = "idle" /\ Drained THEN {} ELSE {"late"})
         /\ Asks("life", pos, pend)

\* Its poll task canceled, the handler gives up the writes it waits for: its
\* own persist, or the spawned tasks it drains.  A write that has begun is
\* finished, and a task spawned after the drain began goes on.
Abandons ==
    \E given \in SUBSET (1 .. Len(saves)) :
        LET by == IF at \in {"idle", "exitHeard", "exitDrain", "entryHeard"}
                  THEN {"task", "trade"} ELSE {"bar"}
        IN /\ \A i \in 2 .. Len(saves) : saves[i].by = "bar" => i \in given
           /\ saves' = [i \in 1 .. Len(saves) |->
                          IF i \in given /\ saves[i].by \in by
                          THEN [saves[i] EXCEPT !.by = "void"] ELSE saves[i]]

\* stop_polling, or else the disconnection of the feed, cancels the poll task
\* and waits for it: the handler raises at whichever await it is.
PollEnds ==
    /\ feed = "poll"
    /\ life \in {"unpolling", "leaving"}
    /\ feed' = "ending"
    /\ IF at = "exit"
       THEN ExitRaises(call, "bar") /\ at' = "raiseSave"
       ELSE /\ at' = "idle"
            /\ UNCHANGED accountVars \/ (at = "entry" /\ NeverArrives(call))
            /\ Abandons
            /\ UNCHANGED <<pos, pend, halted, lost>>
    /\ call' = NoOrder
    /\ UNCHANGED <<life, flat, starts, stopCall, disk, boot>>

StopUnpolled ==
    /\ life = "unpolling"
    /\ feed = "ending" /\ at = "idle"
    /\ life' = "closing" /\ feed' = "off"
    /\ Asks("life", pos, pend)
    /\ UNCHANGED <<accountVars, pos, pend, halted, lost,
                   flat, starts, at, call, stopCall, disk, boot>>

StopPlain ==
    /\ life = "on"
    /\ Drained
    /\ LetsGo
    /\ UNCHANGED <<accountVars, pos, pend, halted, lost,
                   flat, starts, at, call, stopCall, disk, boot>>

StopFlattens ==
    /\ life = "on"
    /\ Drained
    /\ \/ /\ pos.dir = 0
          /\ LetsGo
          /\ UNCHANGED <<accountVars, pos, flat, stopCall>>
       \/ /\ pos.dir # 0 /\ pos.client # NoOrder /\ pos.id = NoOrder
          /\ life' = "leaving"          \* cannot safely flatten
          /\ UNCHANGED <<accountVars, pos, saves, flat, feed, stopCall>>
       \/ /\ pos.dir # 0 /\ pos.client # NoOrder /\ pos.id # NoOrder
          /\ life' = "flatCancel" /\ flat' = TRUE
          /\ stopCall' = pos.id
          /\ UNCHANGED <<accountVars, pos, saves, feed>>
       \/ /\ pos.dir # 0 /\ pos.client = NoOrder
          /\ \E o \in Orders :
                /\ Send(o, -pos.dir, TRUE)
                /\ pos' = [pos EXCEPT !.client = o]
                /\ stopCall' = o
          /\ life' = "flatExit" /\ flat' = TRUE
          /\ UNCHANGED <<saves, feed>>
    /\ UNCHANGED <<pend, halted, lost, starts, at, call, disk, boot>>

\* Mutant: a failed cancel of the pending exit is tried again.
FlatCancelFails_Retries ==
    /\ life = "flatCancel"
    /\ pos.dir = 0 /\ (CancelWorks(stopCall) \/ CancelIsVoid(stopCall))
    /\ life' = "leaving" /\ flat' = FALSE
    /\ UNCHANGED <<memory, feed, starts, at, call, stopCall, disk, boot>>

\* Failure after the try: disconnect and unwire, without a persist.
FlatCancelFails ==
    /\ life = "flatCancel"
    /\ \/ CancelRaises(stopCall)
       \* the exit filled during the cancel: open_position is None, subscripted
       \/ pos.dir = 0 /\ (CancelWorks(stopCall) \/ CancelIsVoid(stopCall))
    /\ life' = "leaving" /\ flat' = FALSE
    /\ UNCHANGED <<memory, feed, starts, at, call, stopCall, disk, boot>>

\* The pending exit is canceled, its names popped, a market exit submitted.
FlatCancelReturns ==
    /\ life = "flatCancel"
    /\ pos.dir # 0
    /\ status[stopCall] = "working" \/ (Synchronous /\ status[stopCall] \in Done)
    /\ LET works == status[stopCall] = "working"
           after == IF works THEN [status EXCEPT ![stopCall] = "canceled"] ELSE status
       IN /\ \E o \in Orders :
                /\ status[o] = "none"
                /\ status' = [after EXCEPT ![o] = "sent"]
                /\ side' = [side EXCEPT ![o] = -pos.dir]
                /\ market' = [market EXCEPT ![o] = TRUE]
                /\ pos' = [pos EXCEPT !.client = o, !.id = NoOrder]
                /\ stopCall' = o
          /\ told' = [told EXCEPT ![stopCall] = IF works THEN Synchronous ELSE @]
          /\ lost' = (lost \/ Forgets(after, pos))
    /\ halted' = (halted \/ HeardCancel(stopCall))
    /\ saves' = AfterCancel(stopCall, pos', pend)
    /\ life' = "flatExit"
    /\ UNCHANGED <<net, pend, flat, feed, starts, at, call, disk, boot>>

FlatRead(p) ==
    /\ Drained
    /\ \E said \in BOOLEAN :
        /\ ExitReceipt(p, stopCall, "life", said)
        /\ life' = IF said /\ pos.dir # 0 THEN "flatDrain" ELSE "flatSave"

FlatExitReturns ==
    /\ life = "flatExit"
    /\ status[stopCall] # "sent"
    /\ \/ FlatRead(ExitNamed(stopCall))
       \/ ExitHeard(stopCall) /\ life' = "flatHeard"
    /\ UNCHANGED <<flat, feed, starts, at, call, stopCall, disk, boot>>

FlatResumes ==
    /\ life = "flatHeard"
    /\ FlatRead(pos)
    /\ UNCHANGED <<flat, feed, starts, at, call, stopCall, disk, boot>>

FlatDrained ==
    /\ life = "flatDrain"
    /\ Drained
    /\ life' = "flatSave"
    /\ Asks("life", pos, pend)
    /\ UNCHANGED <<accountVars, pos, pend, halted, lost,
                   flat, feed, starts, at, call, stopCall, disk, boot>>

FlatExitFails ==
    /\ life = "flatExit"
    /\ "submit" \in Faults
    /\ ExitRaises(stopCall, "life")
    /\ life' = "flatFail"
    /\ UNCHANGED <<flat, feed, starts, at, call, stopCall, disk, boot>>

\* The persists of stop(), and the failure of its last submit.
StopSaves ==
    /\ life \in {"flatSave", "flatFail", "closing"}
    /\ ~Queued("life")
    /\ IF life = "flatSave"
       THEN LetsGo
       ELSE life' = "leaving" /\ UNCHANGED <<feed, saves>>
    /\ flat' = (flat /\ life # "flatFail")
    /\ UNCHANGED <<accountVars, pos, pend, halted, lost,
                   starts, at, call, stopCall, disk, boot>>

\* Disconnected: unwire, clear running, return.
StopReturns ==
    /\ life = "leaving"
    /\ feed = "ending" => at = "idle"
    /\ life' = "off"
    /\ feed' = IF feed = "ending" THEN "off" ELSE feed
    /\ stopCall' = NoOrder
    /\ UNCHANGED <<accountVars, memory, flat, starts, at, call, disk, boot>>

\* The process dies.  From here on, what the engine has is what the next
\* process will load.
Crash ==
    /\ "crash" \in Faults
    /\ life # "crashed" /\ starts > 0
    /\ life' = "crashed" /\ flat' = FALSE /\ feed' = "off"
    /\ at' = "idle" /\ call' = NoOrder /\ stopCall' = NoOrder
    /\ pos' = disk.pos /\ pend' = disk.pend
    /\ halted' = FALSE /\ saves' = <<>>
    /\ lost' = (lost \/ Snapshot # disk)
    /\ UNCHANGED <<accountVars, starts, disk, boot>>

-------------------------------------------------------------------------------
Init ==
    /\ AccountInit
    /\ life = "off" /\ flat = FALSE /\ feed = "off" /\ starts = 0
    /\ at = "idle" /\ call = NoOrder /\ stopCall = NoOrder
    /\ pos = None /\ pend = None
    /\ halted = FALSE /\ saves = <<>>
    /\ disk = [pos |-> None, pend |-> None]
    /\ boot = [pos |-> None, net |-> 0]
    /\ lost = FALSE

\* A call into PaperEngine is one step of the loop: nothing else runs in it.
InCall ==
    /\ Synchronous
    /\ \/ at \in {"exit", "entry", "expire", "veto", "chase"}
       \/ life \in {"flatExit", "flatCancel"}

AccountNext ==
    \E o \in Orders : AccountFills(o) \/ AccountDrops(o) \/ AccountTells(o)

\* A call to the broker that the handler, or stop(), has out returns.
BarCallNext == \/ ExpireReturns \/ VetoReturns \/ ChaseReturns
               \/ ExitReturns \/ EntryReturns
StopCallNext == FlatCancelFails \/ FlatCancelReturns \/ FlatExitReturns

BarNext == BarPasses \/ BarExits \/ BarExpires \/ BarChases

\* What the handler does next of itself, once its await is over.
HandlerNext ==
    \/ ExitResumes \/ ExitDrained \/ SignalDeclines \/ SignalEnters
    \/ EntryResumes \/ EntrySaved \/ HandlerSaved \/ HandlerEnds

StartNext == StartReads \/ StartRuns \/ StartSaved

StopNext == \/ FlatResumes \/ FlatDrained \/ PollEnds \/ StopUnpolled
            \/ StopSaves \/ StopReturns

Next ==
    \/ \E o \in Orders : AccountAnswers(o)
    \/ BarCallNext \/ StopCallNext
    \/ /\ ~InCall
       /\ \/ AccountNext \/ Writes
          \/ BarNext \/ HandlerNext
          \/ StartLoads \/ StartNext
          \/ StopPlain \/ StopFlattens \/ StopNext
          \/ ExitFails \/ EntryFails \/ FlatExitFails \/ StartFails
          \/ Crash

Spec == Init /\ [][Next]_vars

-------------------------------------------------------------------------------
(* Properties.                                                             *)

Lives == {"off", "crashed", "loaded", "read", "started", "on", "flatCancel",
          "flatExit", "flatHeard", "flatDrain", "flatSave", "flatFail",
          "unpolling", "closing", "leaving"}
Feeds == {"on", "poll", "late", "ending", "off"}
Ats == {"idle", "exit", "exitHeard", "exitDrain", "exitSave", "expire", "expireSave",
        "chase", "chaseSave", "veto", "vetoSave", "signal", "entry", "entryHeard",
        "entrySave", "raiseSave"}

\* Every variable has its type.
TypeOK ==
    /\ AccountTypeOK
    /\ life \in Lives /\ flat \in BOOLEAN /\ feed \in Feeds /\ starts \in Nat
    /\ at \in Ats /\ call \in OrderIds /\ stopCall \in OrderIds
    /\ pos \in Slot /\ pend \in Slot
    /\ halted \in BOOLEAN
    /\ saves \in Seq(Jobs)
    /\ disk \in Stored
    /\ boot \in [pos: Slot, net: Int]
    /\ lost \in BOOLEAN

\* The change an entry or exit that has filled makes to the account and the
\* engine has not booked.
Unbooked(slot) ==
    IF slot.dir # 0 /\ slot.client # NoOrder /\ status[slot.client] = "filled"
    THEN slot.dir ELSE 0

\* Unless the engine forgot an order, the account holds exactly the position
\* the engine has, plus the fills of the entry and of the exit it still names:
\* no sequence of fills, cancels, receipts, stops and restarts loses a fill.
BookAgrees ==
    ~lost => net = pos.dir + Unbooked(pend) - Unbooked(pos)

\* Unless it forgot one, every order that may still fill is the pending entry
\* or the pending exit of the position, never both: at most one order can
\* fill, so an exit is never doubled and an entry never stacked.
NoStrayOrder ==
    ~lost => /\ ~(pos.dir # 0 /\ pend.dir # 0)
             /\ \A o \in Orders :
                    Live(o) => \/ pend.dir # 0 /\ pend.client = o
                               \/ pos.dir # 0 /\ pos.client = o

Cycle == INSTANCE TradeCycle
    WITH position <- net, forgotten <- lost,
         working <- {<<o, side[o]>> : o \in {p \in Orders : Live(p)}}

\* Measured at the account, trades come one after another: the engine sends an
\* entry only when the account is flat, an exit only for the whole position,
\* and neither while another order may fill, in any interleaving of bars,
\* callbacks, stop and restarts, until it has forgotten an order
\* (engine.py:541-667, 861-889).
TradesInTurn == Cycle!CycleSpec

\* The calls the handler and stop() have out are for orders.
CallOK ==
    /\ at \in {"exit", "exitHeard", "entry", "entryHeard", "entrySave",
              "expire", "veto", "chase"} => call \in Orders
    /\ life \in {"flatCancel", "flatExit", "flatHeard"} => stopCall \in Orders

\* What the engine knows of its orders: the entry is on the side of the
\* position it will open, the exit on the other, and a signal or a submit
\* is under way only for the pending order it will make or has made.
SlotsOK ==
    /\ pend.dir # 0 => /\ pend.client \in Orders
                       /\ pend.id \in {NoOrder, pend.client}
                       /\ side[pend.client] = pend.dir
    /\ pos.dir # 0 /\ pos.client # NoOrder => side[pos.client] = -pos.dir
    /\ at = "signal" => pos.dir = 0 /\ pend.dir = 0
    /\ at \in {"entry", "entryHeard", "entrySave"} /\ pend.dir # 0 => pend.client = call

\* The inductive invariant behind BookAgrees and NoStrayOrder.
EngineInv ==
    /\ TypeOK
    /\ CallOK
    /\ ~lost => SlotsOK
    /\ NoStrayOrder
    /\ BookAgrees

\* At PaperEngine, until the first stop() is over and unless it flattens, the
\* engine's position is the account's at every await, whatever the handler
\* and stop() are doing.
PaperAgrees ==
    Synchronous /\ starts <= 1 /\ Wired /\ ~flat => net = pos.dir

\* stop(flatten_on_shutdown=True) with a position open at PaperEngine leaves
\* none behind, in the engine or in the account, when no order was rejected.
FlattenSticks ==
    Synchronous /\ life = "off" /\ flat /\ (\A o \in Orders : status[o] # "rejected")
        => pos.dir = 0 /\ net = 0

\* A restarted engine at rest, whose account holds a position it does not
\* have, is halted.
RestartSafe ==
    /\ life = "on" /\ at = "idle" /\ starts > 1
    /\ \A o \in Orders : status[o] # "sent" /\ (status[o] \in Done => told[o])
    /\ net # pos.dir
    => halted

\* With no call out, no persist outstanding and no failed submit behind it, a
\* running engine is on disk as it is in memory: a crash there loses nothing.
DurableAtRest ==
    life = "on" /\ at = "idle" /\ saves = <<>> /\ "submit" \notin Faults
        => Snapshot = disk

\* The scheduling of asyncio: a task whose await is over runs, and the broker
\* answers every call and reports every order that is done.  Bars, fills of
\* resting orders, start() and stop() need never come, nor need a call fail.
Fairness ==
    /\ \A o \in Orders : /\ WF_vars(AccountAnswers(o))
                        /\ WF_vars(~InCall /\ AccountTells(o))
    /\ WF_vars(BarCallNext) /\ WF_vars(StopCallNext)
    /\ WF_vars(~InCall /\ Writes)
    /\ WF_vars(~InCall /\ HandlerNext)
    /\ WF_vars(~InCall /\ StartNext)
    /\ WF_vars(~InCall /\ StopNext)

FairSpec == Spec /\ Fairness

\* The bar lock is always released: handle_bar never waits for ever, whatever
\* callbacks, cancels and stop() do meanwhile.
HandlerReturns == at # "idle" ~> at = "idle"

\* stop() comes to an end: flattening, failed calls and callbacks included.
StopReturnsEventually ==
    life \in {"flatCancel", "flatExit", "flatHeard", "flatDrain", "flatSave", "flatFail",
              "unpolling", "closing", "leaving"}
        ~> life \in {"off", "crashed"}
=============================================================================
