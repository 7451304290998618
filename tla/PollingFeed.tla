----------------------------- MODULE PollingFeed -----------------------------
(***************************************************************************)
(* live/feed/polling.py: one stream of bars, polled by the feed's own loop *)
(* and by callers of poll_once, and the handlers subscribed to it.         *)
(*                                                                         *)
(* A bar is its time.  A handler is awaited and may raise; a poll of the   *)
(* loop may be cancelled at any await.                                     *)
(***************************************************************************)
EXTENDS Integers, Sequences

CONSTANTS
    Handlers,
    BarsPerPoll,   \* default_bars_per_poll
    LastBarTime,   \* bound: bars the broker publishes
    MaxPolls,      \* bound: polls
    MaxUnsubscribed \* bound: unsubscriptions

ASSUME FeedAssumption ==
    /\ BarsPerPoll \in Nat \ {0}
    /\ LastBarTime \in Nat /\ MaxPolls \in Nat /\ MaxUnsubscribed \in Nat

VARIABLES
    published,     \* time of the newest bar the broker has
    feedConnected,
    subscribed,    \* the handlers of bar_subscriptions
    streamKnown,   \* bar_subscriptions has the stream
    poller,        \* what the loop and the caller are doing
    todo,          \* next_bars not yet delivered, by the poll that has the lock
    calls,         \* handlers the first of them is still to be given to
    newest,        \* the last of next_bars
    lastEmitted,   \* last_emitted_by_stream
    polls, unsubscribed,
    answered,      \* history: per handler, bars of the last answer while subscribed
    seen           \* history: per handler, bars it has handled

feedVars == <<published, feedConnected, subscribed, streamKnown, poller, todo, calls, newest,
              lastEmitted, polls, unsubscribed, answered, seen>>

Pollers == {"loop", "caller"}
Polling(p) == poller[p] \in {"fetch", "deliver"}

FeedInit ==
    /\ published = 0 /\ feedConnected = FALSE /\ subscribed = {} /\ streamKnown = FALSE
    /\ poller = [p \in Pollers |-> "off"]
    /\ todo = <<>> /\ calls = {} /\ newest = 0 /\ lastEmitted = 0
    /\ polls = 0 /\ unsubscribed = 0
    /\ answered = [h \in Handlers |-> {}] /\ seen = [h \in Handlers |-> {}]

Publish ==
    /\ published < LastBarTime
    /\ published' = published + 1
    /\ UNCHANGED <<feedConnected, subscribed, streamKnown, poller, todo, calls, newest,
                   lastEmitted, polls, unsubscribed, answered, seen>>

Books == <<published, lastEmitted, polls>>
Delivery == <<todo, calls, newest>>

Subscribe(h) ==
    /\ h \notin subscribed
    /\ subscribed' = subscribed \cup {h} /\ streamKnown' = TRUE
    /\ UNCHANGED <<feedConnected, poller, unsubscribed, answered, seen, Books, Delivery>>

Unsubscribe(h) ==
    /\ h \in subscribed
    /\ unsubscribed < MaxUnsubscribed /\ unsubscribed' = unsubscribed + 1
    /\ subscribed' = subscribed \ {h}
    /\ answered' = [answered EXCEPT ![h] = {}]
    /\ UNCHANGED <<feedConnected, streamKnown, poller, seen, Books, Delivery>>

ConnectFeed ==
    /\ feedConnected' = TRUE
    /\ UNCHANGED <<subscribed, streamKnown, poller, unsubscribed, answered, seen, Books, Delivery>>

StartPolling ==
    /\ feedConnected /\ poller["loop"] = "off"
    /\ poller' = [poller EXCEPT !["loop"] = "asleep"]
    /\ UNCHANGED <<feedConnected, subscribed, streamKnown, unsubscribed, answered, seen, Books,
                   Delivery>>

Forget(p) == IF Polling(p) THEN todo' = <<>> /\ calls' = {} /\ newest' = 0
             ELSE UNCHANGED Delivery

\* stop_polling, and disconnect, which calls it: the task ends at its await.
StopPolling ==
    /\ poller["loop"] # "off"
    /\ feedConnected' \in {feedConnected, FALSE}
    /\ poller' = [poller EXCEPT !["loop"] = "off"]
    /\ Forget("loop")
    /\ UNCHANGED <<subscribed, streamKnown, unsubscribed, answered, seen, Books>>

\* The loop's sleep is over, or a caller calls poll_once: it wants the lock.
CallPoll(p) ==
    /\ poller[p] = (IF p = "loop" THEN "asleep" ELSE "off")
    /\ polls < MaxPolls /\ polls' = polls + 1
    /\ poller' = [poller EXCEPT ![p] = "waiting"]
    /\ UNCHANGED <<published, feedConnected, subscribed, streamKnown, lastEmitted, unsubscribed,
                   answered, seen, Delivery>>

Over(p) == [poller EXCEPT ![p] = IF p = "loop" THEN "asleep" ELSE "off"]

TakeLock(p) ==
    /\ poller[p] = "waiting" /\ \A q \in Pollers : ~Polling(q)
    /\ poller' = IF streamKnown THEN [poller EXCEPT ![p] = "fetch"] ELSE Over(p)
    /\ UNCHANGED <<feedConnected, subscribed, streamKnown, unsubscribed, answered, seen, Books,
                   Delivery>>

\* get_historical_bars returns.
Answer(p) ==
    /\ poller[p] = "fetch"
    /\ LET bars == {t \in 1 .. published : t > published - BarsPerPoll /\ t > lastEmitted}
           from == published - BarsPerPoll
           first == IF from > lastEmitted THEN from ELSE lastEmitted
       IN  IF bars = {}
           THEN /\ poller' = Over(p)
                /\ UNCHANGED <<todo, calls, newest, answered>>
           ELSE /\ poller' = [poller EXCEPT ![p] = "deliver"]
                /\ todo' = [i \in 1 .. (published - first) |-> first + i]
                /\ newest' = published
                /\ calls' = subscribed
                /\ answered' = [h \in Handlers |->
                       (answered[h] \cap seen[h]) \cup (IF h \in subscribed THEN bars ELSE {})]
    /\ UNCHANGED <<feedConnected, subscribed, streamKnown, unsubscribed, seen, Books>>

\* get_historical_bars or a handler raises: the loop suppresses it.
PollRaises(p) ==
    /\ Polling(p)
    /\ poller' = Over(p)
    /\ todo' = <<>> /\ calls' = {} /\ newest' = 0
    /\ UNCHANGED <<feedConnected, subscribed, streamKnown, unsubscribed, answered, seen, Books>>

\* A handler has handled the first of the bars.
Deliver(p, h) ==
    /\ poller[p] = "deliver" /\ h \in calls
    /\ calls' = calls \ {h}
    /\ seen' = [seen EXCEPT ![h] = @ \cup {Head(todo)}]
    /\ UNCHANGED <<feedConnected, subscribed, streamKnown, poller, todo, newest, unsubscribed,
                   answered, Books>>

\* Mutant: a bar counts as emitted before its handlers have seen it.
NextBar_Early(p) ==
    /\ poller[p] = "deliver" /\ calls = {}
    /\ lastEmitted' = newest
    /\ todo' = Tail(todo)
    /\ IF Tail(todo) # <<>>
       THEN /\ calls' = subscribed
            /\ UNCHANGED <<poller, newest>>
       ELSE /\ calls' = {} /\ newest' = 0 /\ poller' = Over(p)
    /\ UNCHANGED <<published, feedConnected, subscribed, streamKnown, polls, unsubscribed,
                   answered, seen>>

\* All handlers of a bar have it: the next bar, or the end of the poll.
NextBar(p) ==
    /\ poller[p] = "deliver" /\ calls = {}
    /\ todo' = Tail(todo)
    /\ IF Tail(todo) # <<>>
       THEN /\ calls' = subscribed
            /\ UNCHANGED <<poller, newest, lastEmitted>>
       ELSE /\ calls' = {} /\ newest' = 0 /\ poller' = Over(p)
            /\ lastEmitted' = newest
    /\ UNCHANGED <<published, feedConnected, subscribed, streamKnown, polls, unsubscribed,
                   answered, seen>>

FeedNext ==
    \/ Publish \/ ConnectFeed \/ StartPolling \/ StopPolling
    \/ \E h \in Handlers : Subscribe(h) \/ Unsubscribe(h)
    \/ \E p \in Pollers :
        CallPoll(p) \/ TakeLock(p) \/ Answer(p) \/ PollRaises(p) \/ NextBar(p)
    \/ \E p \in Pollers, h \in Handlers : Deliver(p, h)

FeedSpec == FeedInit /\ [][FeedNext]_feedVars

-----------------------------------------------------------------------------
\* A poll passes over the bars of its answer only when every handler that
\* was subscribed at the answer has handled them: handlers raise and polls are
\* cancelled half way, and what the next answer still holds is delivered
\* again (polling.py:105-123).  A bar that has left the window is lost.
NothingSkipped ==
    \A h \in Handlers : \A t \in answered[h] : t <= lastEmitted => t \in seen[h]
=============================================================================
