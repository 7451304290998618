---------------------------- MODULE Feeds_proofs ----------------------------
(***************************************************************************)
(* What passes events on in order: the polls of live/feed.py, the bars of  *)
(* live/candle.py, the streams of live/dashboard.py: see the README for    *)
(* the arguments.                                                          *)
(***************************************************************************)
EXTENDS PollingFeed, CandleAggregator, EventStream, SequenceTheorems, TLAPS

-----------------------------------------------------------------------------
(* live/feed.py: a poll passes over no bar that a handler has not handled. *)

FeedTypes ==
    /\ published \in Nat /\ lastEmitted \in Nat /\ newest \in Nat
    /\ todo \in Seq(Int)
    /\ poller \in [Pollers -> {"off", "asleep", "waiting", "fetch", "deliver"}]
    /\ DOMAIN answered = Handlers /\ DOMAIN seen = Handlers
    /\ \A h \in Handlers : answered[h] \subseteq Int
    /\ lastEmitted <= published /\ newest <= published

\* The lock of the polls.
OnePolls == \A p, q \in Pollers : Polling(p) /\ Polling(q) => p = q

\* Only a subscribed handler is owed a bar.
Owed == \A h \in Handlers : answered[h] # {} => h \in subscribed

\* The bars a poll still has are the last of its answer, without a gap; a
\* handler has those before, and the first unless it is about to get it.
DeliveryOK ==
    (\E p \in Pollers : poller[p] = "deliver") =>
        /\ Len(todo) >= 1
        /\ \A i \in 1 .. Len(todo) : todo[i] = newest - Len(todo) + i
        /\ \A h \in Handlers : \A t \in answered[h] :
              /\ t <= newest - Len(todo) => t \in seen[h]
              /\ t = newest - Len(todo) + 1 => t \in seen[h] \/ h \in calls

FeedInv == FeedTypes /\ OnePolls /\ Owed /\ DeliveryOK /\ NothingSkipped

-----------------------------------------------------------------------------
LEMMA FeedInvInit == FeedInit => FeedInv
<1> SUFFICES ASSUME FeedInit PROVE FeedInv OBVIOUS
<1> USE FeedAssumption DEF FeedInit
<1>1. FeedTypes BY DEF FeedTypes
<1>2. OnePolls /\ Owed /\ DeliveryOK /\ NothingSkipped
    BY DEF OnePolls, Polling, Owed, DeliveryOK, NothingSkipped
<1> QED BY <1>1, <1>2 DEF FeedInv

\* A poll that ends, or does not begin, owes nothing new.
LEMMA PollEndsOK ==
    ASSUME FeedInv, NEW p \in Pollers, NEW s \in {"off", "asleep", "waiting"},
           poller' = [poller EXCEPT ![p] = s],
           todo' \in Seq(Int), newest' \in {0, newest},
           Polling(p) \/ UNCHANGED <<todo, newest, calls>>,
           UNCHANGED <<published, lastEmitted, answered, seen, subscribed>>
    PROVE  FeedInv'
<1>1. /\ poller'[p] = s /\ \A q \in Pollers \ {p} : poller'[q] = poller[q]
    BY DEF FeedInv, FeedTypes
<1>2. FeedTypes' BY DEF FeedInv, FeedTypes
<1>3. OnePolls' /\ Owed' /\ NothingSkipped'
    BY <1>1 DEF FeedInv, OnePolls, Polling, Owed, NothingSkipped
<1>4. DeliveryOK'
    <2>1. CASE Polling(p)
        <3>1. \A q \in Pollers : poller'[q] # "deliver"
            BY <1>1, <2>1 DEF FeedInv, OnePolls, Polling
        <3> QED BY <3>1 DEF DeliveryOK
    <2>2. CASE UNCHANGED <<todo, newest, calls>>
        <3>1. (\E q \in Pollers : poller'[q] = "deliver") => \E q \in Pollers : poller[q] = "deliver"
            BY <1>1
        <3> QED BY <2>2, <3>1 DEF FeedInv, DeliveryOK
    <2> QED BY <2>1, <2>2
<1> QED BY <1>2, <1>3, <1>4 DEF FeedInv

\* A step that leaves the poll and its bars alone, and owes no more than before.
LEMMA OthersOK ==
    ASSUME FeedInv, UNCHANGED <<lastEmitted, newest, todo, calls, poller, seen>>,
           published' \in Nat, published' >= published,
           DOMAIN answered' = Handlers,
           \A h \in Handlers : answered'[h] \subseteq answered[h],
           \A h \in Handlers : answered'[h] # {} => h \in subscribed'
    PROVE  FeedInv'
<1>1. FeedTypes' BY DEF FeedInv, FeedTypes
<1>2. OnePolls' /\ Owed' /\ NothingSkipped'
    BY DEF FeedInv, OnePolls, Polling, Owed, NothingSkipped
<1>3. DeliveryOK' BY DEF FeedInv, DeliveryOK
<1> QED BY <1>1, <1>2, <1>3 DEF FeedInv

\* The bars of an answer: those of the window that were not emitted.
LEMMA AnswerStep ==
    ASSUME FeedInv, NEW p \in Pollers, Answer(p)
    PROVE  FeedInv'
<1> DEFINE bars == {t \in 1 .. published : t > published - BarsPerPoll /\ t > lastEmitted}
           from == published - BarsPerPoll
           first == IF from > lastEmitted THEN from ELSE lastEmitted
           n == published - first
<1>1. /\ poller[p] = "fetch" /\ UNCHANGED <<subscribed, seen, published, lastEmitted>>
    BY DEF Answer, Books
<1>2. published \in Nat /\ lastEmitted \in Nat /\ lastEmitted <= published /\ BarsPerPoll \in Nat
      /\ BarsPerPoll # 0
    BY FeedAssumption DEF FeedInv, FeedTypes
<1>3. CASE bars = {}
    <2>1. poller' = Over(p) /\ UNCHANGED <<todo, calls, newest, answered>> BY <1>3 DEF Answer
    <2>2. PICK s \in {"off", "asleep", "waiting"} : poller' = [poller EXCEPT ![p] = s]
        BY <2>1 DEF Over
    <2>3. todo' \in Seq(Int) /\ newest' \in {0, newest} BY <2>1 DEF FeedInv, FeedTypes
    <2> QED BY <1>1, <2>1, <2>2, <2>3, PollEndsOK
<1>4. CASE bars # {}
    <2>1. /\ poller' = [poller EXCEPT ![p] = "deliver"]
          /\ todo' = [i \in 1 .. n |-> first + i]
          /\ newest' = published /\ calls' = subscribed
          /\ answered' = [h \in Handlers |->
                 (answered[h] \cap seen[h]) \cup (IF h \in subscribed THEN bars ELSE {})]
        BY <1>4 DEF Answer
    <2>2. first \in Nat /\ first >= lastEmitted /\ first >= from
          /\ \A t \in bars : t \in Int /\ t > first /\ t <= published
        BY <1>2
    <2>3. n \in Nat /\ n >= 1 BY <1>2, <1>4, <2>2
    <2> HIDE DEF bars, first
    <2>4. todo' \in Seq(Int) /\ Len(todo') = n /\ \A i \in 1 .. n : todo'[i] = published - n + i
        BY <1>2, <2>1, <2>2, <2>3
    <2>5. /\ poller'[p] = "deliver" /\ \A q \in Pollers \ {p} : poller'[q] = poller[q]
        BY <2>1 DEF FeedInv, FeedTypes
    <2>6. FeedTypes'
        <3>1. \A h \in Handlers : answered'[h] \subseteq Int
            BY <2>1, <2>2 DEF FeedInv, FeedTypes
        <3> QED BY <1>1, <1>2, <2>1, <2>4, <3>1 DEF FeedInv, FeedTypes
    <2>7. OnePolls' BY <1>1, <2>5 DEF FeedInv, OnePolls, Polling
    <2>8. Owed' BY <1>1, <2>1 DEF FeedInv, Owed
    <2>9. ASSUME NEW h \in Handlers, NEW t \in answered'[h]
          PROVE  t \in seen[h] \/ (t \in Int /\ t > first /\ h \in subscribed)
        BY <2>1, <2>2
    <2>10. NothingSkipped' BY <1>1, <1>2, <2>2, <2>9 DEF NothingSkipped
    <2>11. DeliveryOK'
        <3>1. newest' - Len(todo') = first
            <4>1. newest' = published /\ Len(todo') = published - first BY <2>1, <2>4
            <4> QED BY <1>2, <2>2, <4>1
        <3>2. \A h \in Handlers : \A t \in answered'[h] :
                  /\ t <= first => t \in seen[h]
                  /\ t = first + 1 => t \in seen[h] \/ h \in calls'
            BY <2>1, <2>2, <2>9
        <3> QED BY <1>1, <2>1, <2>3, <2>4, <3>1, <3>2 DEF DeliveryOK
    <2> QED BY <2>6, <2>7, <2>8, <2>10, <2>11 DEF FeedInv
<1> QED BY <1>3, <1>4

LEMMA DeliverStep ==
    ASSUME FeedInv, NEW p \in Pollers, NEW h \in Handlers, Deliver(p, h)
    PROVE  FeedInv'
<1>1. /\ poller[p] = "deliver" /\ h \in calls /\ calls' = calls \ {h}
      /\ seen' = [seen EXCEPT ![h] = @ \cup {Head(todo)}]
      /\ UNCHANGED <<subscribed, poller, todo, newest, answered, published, lastEmitted>>
    BY DEF Deliver, Books
<1>2. \A g \in Handlers : seen[g] \subseteq seen'[g] BY <1>1 DEF FeedInv, FeedTypes
<1>3. /\ Len(todo) >= 1 /\ todo \in Seq(Int) /\ newest \in Nat
      /\ \A i \in 1 .. Len(todo) : todo[i] = newest - Len(todo) + i
    BY <1>1 DEF FeedInv, FeedTypes, DeliveryOK
<1>4. Head(todo) = newest - Len(todo) + 1
    <2>1. Head(todo) = todo[1] /\ 1 \in 1 .. Len(todo) BY <1>3
    <2> QED BY <1>3, <2>1
<1>5. Head(todo) \in seen'[h] BY <1>1 DEF FeedInv, FeedTypes
<1>6. FeedTypes' BY <1>1 DEF FeedInv, FeedTypes
<1>7. OnePolls' /\ Owed' /\ NothingSkipped'
    BY <1>1, <1>2 DEF FeedInv, OnePolls, Polling, Owed, NothingSkipped
<1>8. DeliveryOK' BY <1>1, <1>2, <1>4, <1>5 DEF FeedInv, DeliveryOK
<1> QED BY <1>6, <1>7, <1>8 DEF FeedInv

LEMMA NextBarStep ==
    ASSUME FeedInv, NEW p \in Pollers, NextBar(p)
    PROVE  FeedInv'
<1>1. /\ poller[p] = "deliver" /\ calls = {} /\ todo' = Tail(todo)
      /\ UNCHANGED <<published, subscribed, answered, seen>>
    BY DEF NextBar
<1>2. /\ Len(todo) >= 1 /\ todo \in Seq(Int) /\ newest \in Nat /\ lastEmitted <= published
      /\ \A i \in 1 .. Len(todo) : todo[i] = newest - Len(todo) + i
      /\ \A h \in Handlers : \A t \in answered[h] :
             t \in Int /\ (t <= newest - Len(todo) + 1 => t \in seen[h])
    BY <1>1 DEF FeedInv, FeedTypes, DeliveryOK
<1>3. /\ Len(todo) \in Nat /\ Tail(todo) \in Seq(Int) /\ Len(Tail(todo)) = Len(todo) - 1
      /\ \A i \in 1 .. (Len(todo) - 1) : Tail(todo)[i] = todo[i + 1]
    BY <1>2
<1>4. CASE Tail(todo) # <<>>
    <2>1. calls' = subscribed /\ UNCHANGED <<poller, newest, lastEmitted>> BY <1>4 DEF NextBar
    <2>2. Len(todo') >= 1 BY <1>1, <1>3, <1>4
    <2>3. \A i \in 1 .. Len(todo') : todo'[i] = newest - Len(todo') + i BY <1>1, <1>2, <1>3
    <2>4. DeliveryOK'
        <3>1. newest - Len(todo') = newest - Len(todo) + 1 BY <1>1, <1>2, <1>3
        <3>2. \A h \in Handlers : \A t \in answered[h] :
                  /\ t <= newest - Len(todo') => t \in seen[h]
                  /\ t = newest - Len(todo') + 1 => t \in seen[h] \/ h \in calls'
            BY <1>2, <2>1, <3>1 DEF FeedInv, Owed
        <3> QED BY <1>1, <2>1, <2>2, <2>3, <3>2 DEF DeliveryOK
    <2>5. FeedTypes' BY <1>1, <1>3, <2>1 DEF FeedInv, FeedTypes
    <2>6. OnePolls' /\ Owed' /\ NothingSkipped'
        BY <1>1, <2>1 DEF FeedInv, OnePolls, Polling, Owed, NothingSkipped
    <2> QED BY <2>4, <2>5, <2>6 DEF FeedInv
<1>5. CASE Tail(todo) = <<>>
    <2>1. newest' = 0 /\ poller' = Over(p) /\ lastEmitted' = newest BY <1>5 DEF NextBar
    <2>2. PICK s \in {"off", "asleep"} : poller' = [poller EXCEPT ![p] = s] BY <2>1 DEF Over
    <2>3. /\ poller'[p] = s /\ \A q \in Pollers \ {p} : poller'[q] = poller[q]
        BY <2>2 DEF FeedInv, FeedTypes
    <2>4. \A q \in Pollers : poller'[q] # "deliver"
        BY <1>1, <2>3 DEF FeedInv, OnePolls, Polling
    <2>5. DeliveryOK' BY <2>4 DEF DeliveryOK
    <2>6. NothingSkipped'
        <3>1. Len(todo) = 1
            <4>1. Len(Tail(todo)) = 0 BY <1>5
            <4>2. Len(todo) \in Nat /\ Len(todo) - 1 = 0 BY <1>3, <4>1
            <4>3. \A k \in Nat : k - 1 = 0 => k = 1 OBVIOUS
            <4> QED BY <4>2, <4>3
        <3>2. newest - Len(todo) + 1 = newest BY <1>2, <3>1
        <3>3. \A h \in Handlers : \A t \in answered[h] : t <= newest => t \in seen[h]
            BY <1>2, <3>2
        <3> QED BY <1>1, <2>1, <3>3 DEF NothingSkipped
    <2>7. newest <= published BY DEF FeedInv, FeedTypes
    <2>8. FeedTypes' BY <1>1, <1>3, <2>1, <2>2, <2>7, <1>2 DEF FeedInv, FeedTypes
    <2>9. OnePolls' /\ Owed' BY <1>1, <2>3 DEF FeedInv, OnePolls, Polling, Owed
    <2> QED BY <2>5, <2>6, <2>8, <2>9 DEF FeedInv
<1> QED BY <1>4, <1>5

LEMMA FeedInvNext ==
    ASSUME FeedInv, [FeedNext]_feedVars
    PROVE  FeedInv'
<1> USE DEF Books, Delivery
<1>0. published \in Nat /\ DOMAIN answered = Handlers BY DEF FeedInv, FeedTypes
<1>1. CASE Publish
    <2>1. /\ UNCHANGED <<lastEmitted, newest, todo, calls, poller, seen, answered, subscribed>>
          /\ published' \in Nat /\ published' >= published
        BY <1>0, <1>1 DEF Publish
    <2> QED BY <1>0, <2>1, OthersOK DEF FeedInv, Owed
<1>2. CASE ConnectFeed
    BY <1>0, <1>2, OthersOK DEF ConnectFeed, FeedInv, Owed
<1>3. ASSUME NEW h \in Handlers, Subscribe(h) PROVE FeedInv'
    BY <1>0, <1>3, OthersOK DEF Subscribe, FeedInv, Owed
<1>4. ASSUME NEW h \in Handlers, Unsubscribe(h) PROVE FeedInv'
    BY <1>0, <1>4, OthersOK DEF Unsubscribe, FeedInv, Owed
<1>5. CASE StartPolling
    BY <1>5, PollEndsOK DEF StartPolling, Pollers, FeedInv, FeedTypes
<1>6. CASE StopPolling
    <2>1. /\ "loop" \in Pollers /\ poller' = [poller EXCEPT !["loop"] = "off"]
          /\ UNCHANGED <<published, lastEmitted, answered, seen, subscribed>>
        BY <1>6 DEF StopPolling, Pollers
    <2>2. /\ todo' \in Seq(Int) /\ newest' \in {0, newest}
          /\ Polling("loop") \/ UNCHANGED <<todo, newest, calls>>
        <3>1. CASE Polling("loop")
            <4>1. todo' = <<>> /\ newest' = 0 BY <1>6, <3>1 DEF StopPolling, Forget
            <4> QED BY <3>1, <4>1
        <3>2. CASE ~ Polling("loop")
            <4>1. todo' = todo /\ newest' = newest /\ calls' = calls
                BY <1>6, <3>2 DEF StopPolling, Forget
            <4> QED BY <4>1 DEF FeedInv, FeedTypes
        <3> QED BY <3>1, <3>2
    <2> QED BY <2>1, <2>2, PollEndsOK
<1>7. ASSUME NEW p \in Pollers, CallPoll(p) PROVE FeedInv'
    BY <1>7, PollEndsOK DEF CallPoll, FeedInv, FeedTypes
<1>8. ASSUME NEW p \in Pollers, TakeLock(p) PROVE FeedInv'
    <2>1. CASE streamKnown
        <3>1. poller' = [poller EXCEPT ![p] = "fetch"] /\ \A q \in Pollers : ~ Polling(q)
            BY <1>8, <2>1 DEF TakeLock
        <3>2. /\ poller'[p] = "fetch" /\ \A q \in Pollers \ {p} : poller'[q] = poller[q]
              /\ UNCHANGED <<published, lastEmitted, newest, todo, answered, seen, subscribed>>
            BY <1>8, <3>1 DEF TakeLock, FeedInv, FeedTypes
        <3>3. FeedTypes' BY <3>1, <3>2 DEF FeedInv, FeedTypes
        <3>4. OnePolls' BY <3>1, <3>2 DEF OnePolls, Polling
        <3>5. Owed' /\ NothingSkipped' BY <3>2 DEF FeedInv, Owed, NothingSkipped
        <3>6. DeliveryOK'
            <4>1. \A q \in Pollers : poller'[q] # "deliver" BY <3>1, <3>2 DEF Polling
            <4> QED BY <4>1 DEF DeliveryOK
        <3> QED BY <3>3, <3>4, <3>5, <3>6 DEF FeedInv
    <2>2. CASE ~ streamKnown
        <3>1. PICK s \in {"off", "asleep"} : poller' = [poller EXCEPT ![p] = s]
            BY <1>8, <2>2 DEF TakeLock, Over
        <3> QED BY <1>8, <3>1, PollEndsOK DEF TakeLock, FeedInv, FeedTypes
    <2> QED BY <2>1, <2>2
<1>9. ASSUME NEW p \in Pollers, Answer(p) PROVE FeedInv' BY <1>9, AnswerStep
<1>10. ASSUME NEW p \in Pollers, PollRaises(p) PROVE FeedInv'
    <2>1. PICK s \in {"off", "asleep"} : poller' = [poller EXCEPT ![p] = s]
        BY <1>10 DEF PollRaises, Over
    <2>2. todo' \in Seq(Int) /\ newest' \in {0, newest} BY <1>10 DEF PollRaises
    <2> QED BY <1>10, <2>1, <2>2, PollEndsOK DEF PollRaises
<1>11. ASSUME NEW p \in Pollers, NextBar(p) PROVE FeedInv' BY <1>11, NextBarStep
<1>12. ASSUME NEW p \in Pollers, NEW h \in Handlers, Deliver(p, h) PROVE FeedInv'
    BY <1>12, DeliverStep
<1>13. CASE UNCHANGED feedVars
    BY <1>0, <1>13, OthersOK DEF feedVars, FeedInv, Owed
<1> QED BY <1>1, <1>2, <1>3, <1>4, <1>5, <1>6, <1>7, <1>8, <1>9, <1>10, <1>11, <1>12, <1>13
        DEF FeedNext

\* Handlers raise, polls are cancelled half way, subscribers come and go: a
\* poll passes over no bar of its answer that one of them has not handled
\* (BrokerPollingFeed._poll_stream).
THEOREM NoneSkipped == FeedSpec => []NothingSkipped
<1>1. FeedInv => NothingSkipped BY DEF FeedInv
<1> QED BY <1>1, FeedInvInit, FeedInvNext, PTL DEF FeedSpec

-----------------------------------------------------------------------------
(* live/candle.py: bars in order, made of exactly their ticks.             *)

Bars == [time : Int, open : Int, high : Int, low : Int, close : Int, volume : Int]
TicksTaken == [price : TickPrices, size : {1}]

CandleTypes ==
    /\ interval \in Intervals /\ lastEmittedAt \in Int
    /\ current \in Bars /\ (current = NoCandle \/ current.time \in Starts)
    /\ emitted \in Seq([bar : Bars, own : BOOLEAN])
    /\ ticks \in [Starts -> Seq(TicksTaken)]

InOrder ==
    /\ \A i \in 1 .. Len(emitted) :
        emitted[i].bar.time \in Starts /\ emitted[i].bar.time <= lastEmittedAt
    /\ \A i, j \in 1 .. Len(emitted) : i < j => emitted[i].bar.time < emitted[j].bar.time

OwnTrue ==
    \A i \in 1 .. Len(emitted) :
        emitted[i].own => IsCandleOf(emitted[i].bar, ticks[emitted[i].bar.time])

\* The bar being made is the sum of its ticks, until one like it is emitted.
CurrentTrue ==
    current # NoCandle /\ current.time > lastEmittedAt =>
        ticks[current.time] # <<>> /\ IsCandleOf(current, ticks[current.time])

\* Ticks are in the bar being made, or that bar or a later one has been emitted.
Answered(s) ==
    \E i \in 1 .. Len(emitted) :
        IF emitted[i].own THEN emitted[i].bar.time = s ELSE emitted[i].bar.time >= s
Placed ==
    \A s \in Starts : ticks[s] # <<>> =>
        (current.time = s /\ s > lastEmittedAt) \/ Answered(s)

CandleInv == CandleTypes /\ InOrder /\ OwnTrue /\ CurrentTrue /\ Placed

LEMMA StartFacts ==
    /\ NoCandle \in Bars /\ NoCandle.time = -1
    /\ \A s \in Starts : s \in Nat /\ s # -1
<1>1. \A t \in Nat, i \in Nat \ {0} : t % i \in Nat /\ t % i <= t
    <2> TAKE t \in Nat, i \in Nat \ {0}
    <2>1. t % i \in 0 .. (i - 1) OBVIOUS
    <2>2. CASE t < i BY <2>2, SMT
    <2>3. CASE t >= i BY <2>1, <2>3
    <2> QED BY <2>2, <2>3
<1>2. Starts \subseteq Nat
    <2> SUFFICES ASSUME NEW t \in TickTimes, NEW i \in Intervals PROVE t - (t % i) \in Nat
        BY DEF Starts
    <2>1. t \in Nat /\ i \in Nat \ {0} BY CandleAssumption
    <2>2. t % i \in Nat /\ t % i <= t BY <1>1, <2>1
    <2> HIDE DEF Starts
    <2>3. \A m \in Nat : m <= t => t - m \in Nat BY <2>1
    <2> QED BY <2>2, <2>3
<1>3. \A s \in Starts : s \in Nat /\ s # -1 BY <1>2
<1> QED BY <1>3 DEF NoCandle, Bars

LEMMA StartOf ==
    ASSUME NEW t \in TickTimes, NEW i \in Intervals
    PROVE  t - (t % i) \in Starts
BY DEF Starts

LEMMA CandleInvInit == CandleInit => CandleInv
<1> SUFFICES ASSUME CandleInit PROVE CandleInv OBVIOUS
<1> USE CandleAssumption, StartFacts DEF CandleInit
<1>1. CandleTypes BY DEF CandleTypes
<1>2. InOrder /\ OwnTrue /\ CurrentTrue /\ Placed
    BY DEF InOrder, OwnTrue, CurrentTrue, Placed
<1> QED BY <1>1, <1>2 DEF CandleInv

\* emit_bar keeps what was emitted, and the order.
LEMMA EmitKeeps ==
    ASSUME CandleTypes, InOrder, NEW bar \in Bars, NEW own \in BOOLEAN,
           bar.time \in Starts, Emit(bar, own)
    PROVE  /\ lastEmittedAt' \in Int /\ lastEmittedAt' >= lastEmittedAt
           /\ lastEmittedAt' >= bar.time
           /\ emitted' \in Seq([bar : Bars, own : BOOLEAN])
           /\ InOrder'
           /\ Len(emitted') >= Len(emitted)
           /\ \A i \in 1 .. Len(emitted) : emitted'[i] = emitted[i]
           /\ \/ /\ bar.time > lastEmittedAt /\ lastEmittedAt' = bar.time
                 /\ Len(emitted') = Len(emitted) + 1
                 /\ emitted'[Len(emitted) + 1].bar = bar
                 /\ emitted'[Len(emitted) + 1].own = own
              \/ /\ bar.time <= lastEmittedAt /\ lastEmittedAt' = lastEmittedAt
                 /\ emitted' = emitted
<1>1. bar.time \in Int /\ lastEmittedAt \in Int BY StartFacts DEF CandleTypes
<1>2. Len(emitted) \in Nat BY DEF CandleTypes
<1>3. CASE bar.time > lastEmittedAt
    <2> DEFINE new == [bar |-> bar, own |-> own]
    <2>1. /\ lastEmittedAt' = bar.time /\ emitted' = Append(emitted, new)
          /\ new \in [bar : Bars, own : BOOLEAN] /\ new.bar = bar /\ new.own = own
        BY <1>3 DEF Emit
    <2> HIDE DEF new
    <2>2. /\ emitted' \in Seq([bar : Bars, own : BOOLEAN])
          /\ Len(emitted') = Len(emitted) + 1
          /\ \A i \in 1 .. Len(emitted) : emitted'[i] = emitted[i]
          /\ emitted'[Len(emitted) + 1] = new
        BY <2>1, AppendProperties DEF CandleTypes
    <2>3. \A i \in 1 .. Len(emitted') :
              i \in 1 .. Len(emitted) \/ i = Len(emitted) + 1
        BY <1>2, <2>2
    <2>4. \A i \in 1 .. Len(emitted) :
              emitted[i].bar.time \in Int /\ emitted[i].bar.time < bar.time
        BY <1>1, <1>3, StartFacts DEF InOrder
    <2>5. InOrder'
        <3>1. \A i \in 1 .. Len(emitted') :
                  emitted'[i].bar.time \in Starts /\ emitted'[i].bar.time <= lastEmittedAt'
            BY <1>1, <2>1, <2>2, <2>3, <2>4 DEF InOrder
        <3>2. \A i, j \in 1 .. Len(emitted') :
                  i < j => emitted'[i].bar.time < emitted'[j].bar.time
            <4> TAKE i, j \in 1 .. Len(emitted')
            <4> HAVE i < j
            <4>1. i \in 1 .. Len(emitted) BY <1>2, <2>3, <2>2
            <4>2. CASE j \in 1 .. Len(emitted) BY <2>2, <4>1, <4>2 DEF InOrder
            <4>3. CASE j = Len(emitted) + 1 BY <2>1, <2>2, <2>4, <4>1, <4>3
            <4> QED BY <2>3, <4>2, <4>3
        <3> QED BY <3>1, <3>2 DEF InOrder
    <2> QED BY <1>1, <1>2, <1>3, <2>1, <2>2, <2>5
<1>4. CASE bar.time <= lastEmittedAt
    <2>1. UNCHANGED <<lastEmittedAt, emitted>> BY <1>1, <1>4 DEF Emit
    <2>2. InOrder' BY <2>1 DEF InOrder
    <2> QED BY <1>1, <1>2, <1>4, <2>1, <2>2 DEF CandleTypes
<1> QED BY <1>1, <1>3, <1>4

LEMMA EmitTrue ==
    ASSUME CandleInv, NEW bar \in Bars, NEW own \in BOOLEAN, bar.time \in Starts,
           Emit(bar, own), own => bar = current,
           \A s \in Starts : s <= lastEmittedAt' => ticks'[s] = ticks[s]
    PROVE  /\ lastEmittedAt' \in Int /\ emitted' \in Seq([bar : Bars, own : BOOLEAN])
           /\ InOrder' /\ OwnTrue'
           /\ \A s \in Starts : ticks[s] # <<>> =>
                (current.time = s /\ s > lastEmittedAt') \/ Answered(s)'
<1>1. CandleTypes /\ InOrder BY DEF CandleInv
<1>2. /\ lastEmittedAt' \in Int /\ lastEmittedAt' >= lastEmittedAt
      /\ lastEmittedAt' >= bar.time
      /\ emitted' \in Seq([bar : Bars, own : BOOLEAN])
      /\ InOrder'
      /\ Len(emitted') >= Len(emitted)
      /\ \A i \in 1 .. Len(emitted) : emitted'[i] = emitted[i]
      /\ \/ /\ bar.time > lastEmittedAt /\ lastEmittedAt' = bar.time
            /\ Len(emitted') = Len(emitted) + 1
            /\ emitted'[Len(emitted) + 1].bar = bar
            /\ emitted'[Len(emitted) + 1].own = own
         \/ /\ bar.time <= lastEmittedAt /\ lastEmittedAt' = lastEmittedAt
            /\ emitted' = emitted
    BY <1>1, EmitKeeps
<1>3. Len(emitted) \in Nat /\ lastEmittedAt \in Int /\ Len(emitted') \in Nat
    BY <1>1, <1>2 DEF CandleTypes
<1>4. \A i \in 1 .. Len(emitted') :
          i \in 1 .. Len(emitted) \/ (i = Len(emitted) + 1 /\ bar.time > lastEmittedAt)
    BY <1>2, <1>3
<1>5. bar.time \in Int /\ (own => bar # NoCandle) BY StartFacts
<1>6. OwnTrue'
    <2> SUFFICES ASSUME NEW i \in 1 .. Len(emitted'), emitted'[i].own
                 PROVE  IsCandleOf(emitted'[i].bar, ticks'[emitted'[i].bar.time])
        BY DEF OwnTrue
    <2> DEFINE s == emitted'[i].bar.time
    <2>1. s \in Starts /\ s <= lastEmittedAt' BY <1>2 DEF InOrder
    <2>2. ticks'[s] = ticks[s] BY <2>1
    <2>3. CASE i \in 1 .. Len(emitted) BY <1>2, <2>2, <2>3 DEF CandleInv, OwnTrue
    <2>4. CASE i = Len(emitted) + 1 /\ bar.time > lastEmittedAt
        <3>1. emitted'[i].bar = current /\ current # NoCandle
            BY <1>2, <1>3, <1>5, <2>4
        <3>2. current.time > lastEmittedAt BY <1>2, <1>3, <1>5, <2>4, <3>1
        <3>3. IsCandleOf(current, ticks[current.time])
            BY <3>1, <3>2 DEF CandleInv, CurrentTrue
        <3> QED BY <2>2, <3>1, <3>3
    <2> QED BY <1>4, <2>3, <2>4
<1>7. ASSUME NEW s \in Starts, ticks[s] # <<>>
      PROVE  (current.time = s /\ s > lastEmittedAt') \/ Answered(s)'
    <2>0. s \in Int BY StartFacts
    <2>1. CASE Answered(s)
        <3>1. PICK i \in 1 .. Len(emitted) :
                  IF emitted[i].own THEN emitted[i].bar.time = s ELSE emitted[i].bar.time >= s
            BY <2>1 DEF Answered
        <3>2. i \in 1 .. Len(emitted') /\ emitted'[i] = emitted[i] BY <1>2, <1>3
        <3> QED BY <3>1, <3>2 DEF Answered
    <2>2. CASE current.time = s /\ s > lastEmittedAt
        <3>1. CASE bar.time <= lastEmittedAt BY <1>2, <1>3, <1>5, <2>2, <3>1
        <3>2. CASE bar.time > lastEmittedAt
            <4>1. /\ Len(emitted) + 1 \in 1 .. Len(emitted') /\ lastEmittedAt' = bar.time
                  /\ emitted'[Len(emitted) + 1].bar = bar
                  /\ emitted'[Len(emitted) + 1].own = own
                BY <1>2, <1>3, <1>5, <3>2
            <4>2. CASE own
                <5>1. bar.time = s BY <2>2, <4>2
                <5> QED BY <4>1, <4>2, <5>1 DEF Answered
            <4>3. CASE ~own /\ bar.time >= s BY <4>1, <4>3 DEF Answered
            <4>4. CASE bar.time < s BY <1>5, <2>0, <2>2, <4>1, <4>4
            <4> QED BY <1>5, <2>0, <4>2, <4>3, <4>4
        <3>3. bar.time <= lastEmittedAt \/ bar.time > lastEmittedAt BY <1>3, <1>5
        <3> QED BY <3>1, <3>2, <3>3, Zenon
    <2>3. (current.time = s /\ s > lastEmittedAt) \/ Answered(s)
        <3>1. Placed BY DEF CandleInv
        <3> QED BY <1>7, <3>1 DEF Placed
    <2> QED BY <2>1, <2>2, <2>3, Zenon
<1> QED BY <1>2, <1>6, <1>7

\* Nothing was taken for a bar that is not begun.
LEMMA NotBegun ==
    ASSUME CandleInv, NEW s \in Starts, s > lastEmittedAt, s # current.time
    PROVE  ticks[s] = <<>>
<1> SUFFICES ASSUME ticks[s] # <<>> PROVE FALSE OBVIOUS
<1>1. PICK i \in 1 .. Len(emitted) :
          IF emitted[i].own THEN emitted[i].bar.time = s ELSE emitted[i].bar.time >= s
    BY DEF CandleInv, Placed, Answered
<1>2. emitted[i].bar.time \in Int /\ emitted[i].bar.time <= lastEmittedAt
    BY StartFacts DEF CandleInv, InOrder
<1>3. s \in Int /\ lastEmittedAt \in Int BY StartFacts DEF CandleInv, CandleTypes
<1> QED BY <1>1, <1>2, <1>3

LEMMA FirstTick ==
    ASSUME NEW s \in Starts, NEW p \in TickPrices
    PROVE  /\ NewCandle(s, p, 1) \in Bars /\ NewCandle(s, p, 1).time = s
           /\ NewCandle(s, p, 1) # NoCandle
           /\ Append(<<>>, [price |-> p, size |-> 1]) \in Seq(TicksTaken)
           /\ Append(<<>>, [price |-> p, size |-> 1]) # <<>>
           /\ IsCandleOf(NewCandle(s, p, 1), Append(<<>>, [price |-> p, size |-> 1]))
<1>1. s \in Int /\ s # -1 /\ p \in Int BY StartFacts, CandleAssumption
<1>2. /\ NewCandle(s, p, 1) \in Bars /\ NewCandle(s, p, 1).time = s
      /\ NewCandle(s, p, 1) # NoCandle
    BY <1>1, StartFacts DEF NewCandle, Bars
<1> DEFINE q == Append(<<>>, [price |-> p, size |-> 1])
<1>3. q \in Seq(TicksTaken) /\ q # <<>> /\ Len(q) = 1 /\ q[1].price = p
    BY DEF TicksTaken
<1>4. {q[i].price : i \in 1 .. Len(q)} = {p} BY <1>3
<1>5. IsCandleOf(NewCandle(s, p, 1), q)
    <2> HIDE DEF q
    <2> QED BY <1>1, <1>3, <1>4 DEF IsCandleOf, NewCandle
<1> QED BY <1>2, <1>3, <1>5

LEMMA TickBar ==
    ASSUME NEW c \in Bars, NEW p \in TickPrices
    PROVE  /\ WithTick(c, p, 1) \in Bars /\ WithTick(c, p, 1).time = c.time
           /\ WithTick(c, p, 1).open = c.open /\ WithTick(c, p, 1).close = p
           /\ WithTick(c, p, 1).high = (IF p > c.high THEN p ELSE c.high)
           /\ WithTick(c, p, 1).low = (IF p < c.low THEN p ELSE c.low)
           /\ WithTick(c, p, 1).volume = c.volume + 1
<1> DEFINE d == WithTick(c, p, 1)
           h == IF p > c.high THEN p ELSE c.high
           l == IF p < c.low THEN p ELSE c.low
           c1 == [c EXCEPT !.high = h]
           c2 == [c1 EXCEPT !.low = l]
           c3 == [c2 EXCEPT !.close = p]
<1>1. h \in Int /\ l \in Int /\ c.volume + 1 \in Int BY CandleAssumption DEF Bars
<1>2. d = [c3 EXCEPT !.volume = c.volume + 1] BY DEF WithTick, Bars
<1> HIDE DEF h, l
<1>3. c1 \in Bars /\ c1.time = c.time /\ c1.open = c.open /\ c1.high = h /\ c1.volume = c.volume
    BY <1>1 DEF Bars
<1> HIDE DEF c1
<1>4. c2 \in Bars /\ c2.time = c.time /\ c2.open = c.open /\ c2.high = h /\ c2.low = l
      /\ c2.volume = c.volume
    BY <1>1, <1>3 DEF Bars
<1> HIDE DEF c2
<1>5. c3 \in Bars /\ c3.time = c.time /\ c3.open = c.open /\ c3.high = h /\ c3.low = l
      /\ c3.volume = c.volume /\ c3.close = p
    BY CandleAssumption, <1>4 DEF Bars
<1> HIDE DEF c3, d
<1>6. d \in Bars /\ d.time = c.time /\ d.open = c.open /\ d.high = h /\ d.low = l
      /\ d.volume = c.volume + 1 /\ d.close = p
    BY <1>1, <1>2, <1>5 DEF Bars
<1> QED BY <1>6 DEF d, h, l

LEMMA NextTick ==
    ASSUME NEW c \in Bars, NEW s \in Seq(TicksTaken), NEW p \in TickPrices, s # <<>>,
           IsCandleOf(c, s)
    PROVE  /\ WithTick(c, p, 1) \in Bars /\ WithTick(c, p, 1).time = c.time
           /\ Append(s, [price |-> p, size |-> 1]) \in Seq(TicksTaken)
           /\ Append(s, [price |-> p, size |-> 1]) # <<>>
           /\ IsCandleOf(WithTick(c, p, 1), Append(s, [price |-> p, size |-> 1]))
<1> DEFINE d == WithTick(c, p, 1)
           x == [price |-> p, size |-> 1]
           q == Append(s, x)
           prices == {s[i].price : i \in 1 .. Len(s)}
<1>1. p \in Int BY CandleAssumption
<1>2. /\ d \in Bars /\ d.time = c.time /\ d.open = c.open /\ d.close = p
      /\ d.high = (IF p > c.high THEN p ELSE c.high)
      /\ d.low = (IF p < c.low THEN p ELSE c.low)
      /\ d.volume = c.volume + 1
    BY TickBar
<1>3. x \in TicksTaken /\ x.price = p BY DEF TicksTaken
<1>4. /\ q \in Seq(TicksTaken) /\ q # <<>> /\ Len(q) = Len(s) + 1 /\ Len(s) \in Nat \ {0}
      /\ q[Len(s) + 1] = x /\ \A i \in 1 .. Len(s) : q[i] = s[i]
    <2> HIDE DEF x
    <2> QED BY <1>3, AppendProperties, EmptySeq
<1> HIDE DEF q, d, x
<1>5. {q[i].price : i \in 1 .. Len(q)} = prices \cup {p}
    <2>1. \A i \in 1 .. Len(q) : i \in 1 .. Len(s) \/ i = Len(s) + 1 BY <1>4
    <2>2. \A i \in 1 .. Len(s) : i \in 1 .. Len(q) BY <1>4
    <2>3. Len(s) + 1 \in 1 .. Len(q) BY <1>4
    <2> QED BY <1>3, <1>4, <2>1, <2>2, <2>3
<1>6. /\ c.open = s[1].price /\ c.high \in prices /\ c.low \in prices
      /\ \A v \in prices : c.low <= v /\ v <= c.high
      /\ c.volume = Len(s) /\ c.close = s[Len(s)].price
    BY DEF IsCandleOf
<1>7. \A v \in prices : v \in Int
    <2>1. \A i \in 1 .. Len(s) : s[i] \in TicksTaken BY ElementOfSeq
    <2>2. \A t \in TicksTaken : t.price \in Int BY CandleAssumption DEF TicksTaken
    <2> QED BY <2>1, <2>2
<1> HIDE DEF prices
<1>8. /\ d.open = q[1].price /\ d.close = q[Len(q)].price /\ d.volume = Len(q)
    BY <1>2, <1>3, <1>4, <1>6
<1>9. d.high \in prices \cup {p} /\ d.low \in prices \cup {p} BY <1>2, <1>6
<1>10. \A v \in prices \cup {p} : d.low <= v /\ v <= d.high
    BY <1>1, <1>2, <1>6, <1>7
<1>11. IsCandleOf(d, q) BY <1>5, <1>8, <1>9, <1>10 DEF IsCandleOf
<1> QED BY <1>2, <1>4, <1>11 DEF q, d, x

\* A bar that is kept while it, or another, is emitted.
LEMMA HeldBar ==
    ASSUME CandleInv, UNCHANGED <<interval, current, ticks>>,
           /\ lastEmittedAt' \in Int /\ emitted' \in Seq([bar : Bars, own : BOOLEAN])
           /\ InOrder' /\ OwnTrue'
           /\ \A s \in Starts : ticks[s] # <<>> =>
                (current.time = s /\ s > lastEmittedAt') \/ Answered(s)',
           lastEmittedAt' >= lastEmittedAt
    PROVE  CandleInv'
<1>1. CandleTypes' BY DEF CandleInv, CandleTypes
<1>2. CurrentTrue'
    <2> SUFFICES ASSUME current # NoCandle, current.time > lastEmittedAt'
                 PROVE  ticks[current.time] # <<>> /\ IsCandleOf(current, ticks[current.time])
        BY DEF CurrentTrue
    <2>1. current.time \in Int /\ lastEmittedAt \in Int
        BY StartFacts DEF CandleInv, CandleTypes
    <2>2. current.time > lastEmittedAt BY <2>1
    <2> QED BY <2>2 DEF CandleInv, CurrentTrue
<1>3. Placed' BY Zenon DEF Placed
<1> QED BY <1>1, <1>2, <1>3 DEF CandleInv

\* A tick of the bar being made, of one after it, or of none there is.
LEMMA TickStep ==
    ASSUME CandleInv, NEW t \in TickTimes, NEW p \in TickPrices, ProcessTick(t, p, 1)
    PROVE  CandleInv'
<1> DEFINE start == t - (t % interval)
           one == [price |-> p, size |-> 1]
<1>1. start \in Starts /\ start \in Int /\ start # -1
    <2>1. interval \in Intervals BY DEF CandleInv, CandleTypes
    <2>2. start \in Starts BY <2>1, StartOf
    <2> QED BY <2>2, StartFacts
<1>2. /\ CandleTypes /\ InOrder /\ lastEmittedAt \in Int /\ ticks \in [Starts -> Seq(TicksTaken)]
      /\ current = NoCandle \/ current.time \in Starts
    BY DEF CandleInv, CandleTypes
<1>3. /\ interval' = interval
      /\ \/ /\ current = NoCandle
            /\ current' = NewCandle(start, p, 1)
            /\ Take(start, p, 1)
            /\ UNCHANGED <<lastEmittedAt, emitted>>
         \/ /\ current # NoCandle /\ start = current.time
            /\ current' = WithTick(current, p, 1)
            /\ Take(start, p, 1)
            /\ UNCHANGED <<lastEmittedAt, emitted>>
         \/ /\ current # NoCandle /\ start > current.time
            /\ Emit(current, TRUE)
            /\ \/ /\ current' = NewCandle(start, p, 1)
                  /\ Take(start, p, 1)
               \/ /\ current.time > lastEmittedAt
                  /\ UNCHANGED <<current, ticks>>
         \/ UNCHANGED <<current, lastEmittedAt, emitted, ticks>>
    BY DEF ProcessTick
<1> HIDE DEF start
<1>4. /\ Take(start, p, 1) => ticks' =
            IF start > lastEmittedAt THEN [ticks EXCEPT ![start] = Append(@, one)] ELSE ticks
    BY DEF Take
<1>5. \* A new bar is begun, after what was emitted or not.
      ASSUME current' = NewCandle(start, p, 1), Take(start, p, 1), start # current.time,
             /\ lastEmittedAt' \in Int /\ emitted' \in Seq([bar : Bars, own : BOOLEAN])
             /\ InOrder' /\ OwnTrue'
             /\ \A s \in Starts : ticks[s] # <<>> =>
                   (current.time = s /\ s > lastEmittedAt') \/ Answered(s)',
             \A s \in Starts : current.time = s => s <= lastEmittedAt',
             start > lastEmittedAt' <=> start > lastEmittedAt
      PROVE  CandleInv'
    <2>1. /\ NewCandle(start, p, 1) \in Bars /\ NewCandle(start, p, 1).time = start
          /\ NewCandle(start, p, 1) # NoCandle
          /\ Append(<<>>, one) \in Seq(TicksTaken) /\ Append(<<>>, one) # <<>>
          /\ IsCandleOf(NewCandle(start, p, 1), Append(<<>>, one))
        BY <1>1, FirstTick
    <2> HIDE DEF one
    <2>2. \A s \in Starts : ticks[s] # <<>> => Answered(s)'
        <3> SUFFICES ASSUME NEW s \in Starts, ticks[s] # <<>> PROVE Answered(s)' OBVIOUS
        <3>1. s \in Int BY StartFacts
        <3>2. (current.time = s /\ s > lastEmittedAt') => FALSE BY <1>5, <3>1
        <3> QED BY <1>5, <3>2, Zenon
    <2>3. CASE start > lastEmittedAt
        <3>1. ticks[start] = <<>> BY <1>1, <1>5, <2>3, NotBegun
        <3>2. ticks' = [ticks EXCEPT ![start] = Append(<<>>, one)]
            BY <1>4, <1>5, <2>3, <3>1
        <3>3. ticks' \in [Starts -> Seq(TicksTaken)] /\ ticks'[start] = Append(<<>>, one)
              /\ \A s \in Starts \ {start} : ticks'[s] = ticks[s]
            BY <1>1, <1>2, <2>1, <3>2
        <3>4. CandleTypes' BY <1>1, <1>2, <1>3, <1>5, <2>1, <3>3 DEF CandleTypes
        <3>5. CurrentTrue' BY <1>5, <2>1, <3>3 DEF CurrentTrue
        <3>6. Placed'
            <4> SUFFICES ASSUME NEW s \in Starts, ticks'[s] # <<>>
                         PROVE  (current'.time = s /\ s > lastEmittedAt') \/ Answered(s)'
                BY DEF Placed
            <4>1. CASE s = start BY <1>5, <2>1, <2>3, <4>1
            <4>2. CASE s # start BY <2>2, <3>3, <4>2, Zenon
            <4> QED BY <4>1, <4>2
        <3> QED BY <1>5, <3>4, <3>5, <3>6 DEF CandleInv
    <2>4. CASE ~(start > lastEmittedAt)
        <3>1. ticks' = ticks BY <1>4, <1>5, <2>4
        <3>2. CandleTypes' BY <1>1, <1>2, <1>3, <1>5, <2>1, <3>1 DEF CandleTypes
        <3>3. CurrentTrue' BY <1>5, <2>1, <2>4 DEF CurrentTrue
        <3>4. Placed'
            <4> SUFFICES ASSUME NEW s \in Starts, ticks'[s] # <<>>
                         PROVE  (current'.time = s /\ s > lastEmittedAt') \/ Answered(s)'
                BY DEF Placed
            <4> QED BY <2>2, <3>1, Zenon
        <3> QED BY <1>5, <3>2, <3>3, <3>4 DEF CandleInv
    <2> QED BY <2>3, <2>4
<1>6. CASE /\ current = NoCandle /\ current' = NewCandle(start, p, 1)
           /\ Take(start, p, 1) /\ UNCHANGED <<lastEmittedAt, emitted>>
    <2>1. start # current.time /\ \A s \in Starts : s # current.time BY <1>1, <1>6, StartFacts
    <2>2. OwnTrue'
        <3> SUFFICES ASSUME NEW i \in 1 .. Len(emitted), emitted[i].own
                     PROVE  IsCandleOf(emitted[i].bar, ticks'[emitted[i].bar.time])
            BY <1>6 DEF OwnTrue
        <3>1. /\ emitted[i].bar.time \in Starts /\ emitted[i].bar.time <= lastEmittedAt
              /\ emitted[i].bar.time \in Int
            BY <1>2, StartFacts DEF InOrder
        <3>2. ticks'[emitted[i].bar.time] = ticks[emitted[i].bar.time]
            BY <1>1, <1>2, <1>4, <1>6, <3>1
        <3> QED BY <3>2 DEF CandleInv, OwnTrue
    <2>3. \A s \in Starts : ticks[s] # <<>> => Answered(s)'
        <3>1. \A s \in Starts : ticks[s] # <<>> => Answered(s)
            BY <2>1, Zenon DEF CandleInv, Placed
        <3> QED BY <1>6, <3>1 DEF Answered
    <2>4. lastEmittedAt' \in Int /\ emitted' \in Seq([bar : Bars, own : BOOLEAN]) /\ InOrder'
        BY <1>2, <1>6 DEF CandleTypes, InOrder
    <2> QED BY <1>5, <1>6, <2>1, <2>2, <2>3, <2>4
<1>7. CASE /\ current # NoCandle /\ start = current.time /\ current' = WithTick(current, p, 1)
           /\ Take(start, p, 1) /\ UNCHANGED <<lastEmittedAt, emitted>>
    <2>1. current \in Bars BY <1>2 DEF CandleTypes
    <2>2. CASE start > lastEmittedAt
        <3>1. ticks[start] # <<>> /\ IsCandleOf(current, ticks[start])
              /\ ticks[start] \in Seq(TicksTaken)
            BY <1>1, <1>2, <1>7, <2>2 DEF CandleInv, CurrentTrue
        <3> DEFINE q == Append(ticks[start], one)
        <3>2. /\ WithTick(current, p, 1) \in Bars /\ WithTick(current, p, 1).time = start
              /\ q \in Seq(TicksTaken) /\ q # <<>> /\ IsCandleOf(WithTick(current, p, 1), q)
            BY <1>7, <2>1, <3>1, NextTick
        <3>3. ticks' = [ticks EXCEPT ![start] = q] BY <1>4, <1>7, <2>2
        <3> HIDE DEF q
        <3>4. ticks' \in [Starts -> Seq(TicksTaken)] /\ ticks'[start] = q
              /\ \A s \in Starts \ {start} : ticks'[s] = ticks[s]
            BY <1>1, <1>2, <3>2, <3>3
        <3>5. CandleTypes' /\ InOrder'
            BY <1>1, <1>2, <1>3, <1>7, <3>2, <3>4 DEF CandleTypes, InOrder
        <3>6. CurrentTrue' BY <1>7, <3>2, <3>4 DEF CurrentTrue
        <3>7. OwnTrue'
            <4> SUFFICES ASSUME NEW i \in 1 .. Len(emitted), emitted[i].own
                         PROVE  IsCandleOf(emitted[i].bar, ticks'[emitted[i].bar.time])
                BY <1>7 DEF OwnTrue
            <4>1. /\ emitted[i].bar.time \in Starts /\ emitted[i].bar.time <= lastEmittedAt
                  /\ emitted[i].bar.time \in Int
                BY <1>2, StartFacts DEF InOrder
            <4>2. emitted[i].bar.time # start BY <1>1, <1>2, <2>2, <4>1
            <4> QED BY <3>4, <4>1, <4>2 DEF CandleInv, OwnTrue
        <3>8. Placed'
            <4> SUFFICES ASSUME NEW s \in Starts, ticks'[s] # <<>>
                         PROVE  (current'.time = s /\ s > lastEmittedAt') \/ Answered(s)'
                BY DEF Placed
            <4>1. CASE s = start BY <1>7, <2>2, <3>2, <4>1
            <4>2. CASE s # start
                <5>1. ticks[s] # <<>> BY <3>4, <4>2
                <5>2. Answered(s) BY <1>7, <4>2, <5>1, Zenon DEF CandleInv, Placed
                <5> QED BY <1>7, <5>2 DEF Answered
            <4> QED BY <4>1, <4>2
        <3> QED BY <3>5, <3>6, <3>7, <3>8 DEF CandleInv
    <2>3. CASE ~(start > lastEmittedAt)
        <3>1. ticks' = ticks BY <1>4, <1>7, <2>3
        <3>2. WithTick(current, p, 1) \in Bars /\ WithTick(current, p, 1).time = start
            BY <1>7, <2>1, TickBar
        <3>3. CandleTypes' /\ InOrder'
            BY <1>1, <1>2, <1>3, <1>7, <3>1, <3>2 DEF CandleTypes, InOrder
        <3>4. CurrentTrue' BY <1>7, <2>3, <3>2 DEF CurrentTrue
        <3>5. OwnTrue' BY <1>7, <3>1 DEF CandleInv, OwnTrue
        <3>6. Placed'
            <4> SUFFICES ASSUME NEW s \in Starts, ticks'[s] # <<>> PROVE Answered(s)'
                BY DEF Placed
            <4>1. Answered(s)
                <5>1. (current.time = s /\ s > lastEmittedAt) \/ Answered(s)
                    BY <3>1, Zenon DEF CandleInv, Placed
                <5>2. (current.time = s /\ s > lastEmittedAt) => FALSE BY <1>7, <2>3
                <5> QED BY <5>1, <5>2, Zenon
            <4> QED BY <1>7, <4>1 DEF Answered
        <3> QED BY <3>3, <3>4, <3>5, <3>6 DEF CandleInv
    <2> QED BY <2>2, <2>3
<1>8. CASE current # NoCandle /\ start > current.time /\ Emit(current, TRUE)
    <2>1. current \in Bars /\ current.time \in Starts /\ current.time \in Int
        BY <1>2, <1>8, StartFacts DEF CandleTypes
    <2>2. /\ lastEmittedAt' \in Int /\ lastEmittedAt' >= lastEmittedAt
          /\ lastEmittedAt' >= current.time
          /\ lastEmittedAt' = lastEmittedAt \/ lastEmittedAt' = current.time
        BY <1>2, <1>8, <2>1, EmitKeeps
    <2>3. start > lastEmittedAt' <=> start > lastEmittedAt
        BY <1>1, <1>2, <1>8, <2>1, <2>2
    <2>4. \A s \in Starts : s <= lastEmittedAt' => ticks'[s] = ticks[s]
        <3>1. CASE Take(start, p, 1)
            <4> SUFFICES ASSUME NEW s \in Starts, s <= lastEmittedAt' PROVE ticks'[s] = ticks[s]
                OBVIOUS
            <4>1. s \in Int BY StartFacts
            <4>2. start > lastEmittedAt => s # start BY <1>1, <2>2, <2>3, <4>1
            <4> QED BY <1>1, <1>2, <1>4, <3>1, <4>2
        <3>2. CASE UNCHANGED ticks BY <3>2
        <3> QED BY <1>3, <1>8, <3>1, <3>2
    <2>5. /\ lastEmittedAt' \in Int /\ emitted' \in Seq([bar : Bars, own : BOOLEAN])
          /\ InOrder' /\ OwnTrue'
          /\ \A s \in Starts : ticks[s] # <<>> =>
                (current.time = s /\ s > lastEmittedAt') \/ Answered(s)'
        BY <1>8, <2>1, <2>4, EmitTrue
    <2>6. CASE current' = NewCandle(start, p, 1) /\ Take(start, p, 1)
        <3>1. start # current.time /\ \A s \in Starts : current.time = s => s <= lastEmittedAt'
            BY <1>1, <1>8, <2>1, <2>2
        <3> QED BY <1>5, <2>3, <2>5, <2>6, <3>1
    <2>7. CASE UNCHANGED <<current, ticks>>
        <3>1. UNCHANGED <<interval, current, ticks>> BY <1>3, <2>7
        <3>2. lastEmittedAt' >= lastEmittedAt BY <2>2
        <3> QED BY <2>5, <3>1, <3>2, HeldBar, Zenon
    <2>8. (current' = NewCandle(start, p, 1) /\ Take(start, p, 1)) \/ UNCHANGED <<current, ticks>>
        <3>1. start # current.time BY <1>1, <1>8, <2>1
        <3> QED BY <1>3, <1>8, <3>1, Zenon
    <2> QED BY <2>6, <2>7, <2>8, Zenon
<1>9. CASE UNCHANGED <<current, lastEmittedAt, emitted, ticks>>
    BY <1>3, <1>9 DEF CandleInv, CandleTypes, InOrder, OwnTrue, CurrentTrue, Placed, Answered
<1> QED BY <1>3, <1>6, <1>7, <1>8, <1>9

LEMMA ForeignStep ==
    ASSUME CandleInv, NEW t \in Starts, ProcessBar(t)
    PROVE  CandleInv'
<1> DEFINE bar == [NoCandle EXCEPT !.time = t]
<1>1. bar \in Bars /\ bar.time = t
    <2>1. t \in Int BY StartFacts
    <2> QED BY <2>1, StartFacts DEF Bars
<1>2. Emit(bar, FALSE) /\ UNCHANGED <<interval, current, ticks>> BY DEF ProcessBar
<1> HIDE DEF bar
<1>3. lastEmittedAt' >= lastEmittedAt BY <1>1, <1>2, EmitKeeps DEF CandleInv
<1>4. \A s \in Starts : s <= lastEmittedAt' => ticks'[s] = ticks[s] BY <1>2
<1>5. /\ lastEmittedAt' \in Int /\ emitted' \in Seq([bar : Bars, own : BOOLEAN])
      /\ InOrder' /\ OwnTrue'
      /\ \A s \in Starts : ticks[s] # <<>> =>
            (current.time = s /\ s > lastEmittedAt') \/ Answered(s)'
    BY <1>1, <1>2, <1>4, EmitTrue
<1> QED BY <1>2, <1>3, <1>5, HeldBar, Zenon

LEMMA CloseStep ==
    ASSUME CandleInv, NEW t \in TickTimes, NEW open \in BOOLEAN, ForceClose(t, open)
    PROVE  CandleInv'
<1>1. /\ current # NoCandle /\ Emit(current, TRUE) /\ UNCHANGED <<interval, ticks>>
      /\ current' = NoCandle \/ current' = current
    BY DEF ForceClose
<1>2. current \in Bars /\ current.time \in Starts /\ current.time \in Int
    BY <1>1, StartFacts DEF CandleInv, CandleTypes
<1>3. lastEmittedAt' >= lastEmittedAt /\ lastEmittedAt' >= current.time
    BY <1>1, <1>2, EmitKeeps DEF CandleInv
<1>4. \A s \in Starts : s <= lastEmittedAt' => ticks'[s] = ticks[s] BY <1>1
<1>5. /\ lastEmittedAt' \in Int /\ emitted' \in Seq([bar : Bars, own : BOOLEAN])
      /\ InOrder' /\ OwnTrue'
      /\ \A s \in Starts : ticks[s] # <<>> =>
            (current.time = s /\ s > lastEmittedAt') \/ Answered(s)'
    BY <1>1, <1>2, <1>4, EmitTrue
<1>6. CASE current' = current
    <2>1. UNCHANGED <<interval, current, ticks>> BY <1>1, <1>6
    <2> QED BY <1>3, <1>5, <2>1, HeldBar, Zenon
<1>7. CASE current' = NoCandle
    <2>1. CandleTypes' BY <1>1, <1>5, <1>7, StartFacts DEF CandleInv, CandleTypes
    <2>2. CurrentTrue' BY <1>7 DEF CurrentTrue
    <2>3. Placed'
        <3> SUFFICES ASSUME NEW s \in Starts, ticks[s] # <<>> PROVE Answered(s)'
            BY <1>1 DEF Placed
        <3>1. (current.time = s /\ s > lastEmittedAt') => FALSE BY <1>2, <1>3, <1>5
        <3> QED BY <1>5, <3>1, Zenon
    <2> QED BY <1>5, <2>1, <2>2, <2>3 DEF CandleInv
<1> QED BY <1>1, <1>6, <1>7

LEMMA CandleInvNext == CandleInv /\ [CandleNext]_candleVars => CandleInv'
<1> SUFFICES ASSUME CandleInv, [CandleNext]_candleVars PROVE CandleInv' OBVIOUS
<1>1. CASE \E t \in TickTimes, p \in TickPrices : ProcessTick(t, p, 1) BY <1>1, TickStep
<1>2. CASE \E t \in Starts : ProcessBar(t) BY <1>2, ForeignStep
<1>3. CASE \E t \in TickTimes, open \in BOOLEAN : ForceClose(t, open) BY <1>3, CloseStep
<1>4. CASE \E i \in Intervals : EstimateFromSeries(i)
    <2>1. PICK i \in Intervals : EstimateFromSeries(i) BY <1>4
    <2> QED BY <2>1 DEF EstimateFromSeries, CandleInv, CandleTypes, InOrder, OwnTrue,
                        CurrentTrue, Placed, Answered
<1>5. CASE UNCHANGED candleVars
    BY <1>5 DEF candleVars, CandleInv, CandleTypes, InOrder, OwnTrue, CurrentTrue, Placed,
                Answered
<1> QED BY <1>1, <1>2, <1>3, <1>4, <1>5 DEF CandleNext

LEMMA CandleInvTrue == CandleInv => BarsTrue
<1> SUFFICES ASSUME CandleInv PROVE BarsTrue OBVIOUS
<1>1. \A s \in Starts : ticks[s] # <<>> => current.time = s \/ Answered(s)
    BY Zenon DEF CandleInv, Placed
<1> QED BY <1>1 DEF CandleInv, InOrder, OwnTrue, Answered, BarsTrue

\* Whatever the ticks, the bars from elsewhere, the forced closings and the
\* estimates of the interval, bars are emitted in order of time and none
\* twice, a bar made from ticks is the sum of exactly those taken for it, and
\* every tick that was in time has its bar (candle.py:62-134).
THEOREM BarsAreTrue == CandleSpec => []BarsTrue
<1>1. CandleSpec => []CandleInv BY CandleInvInit, CandleInvNext, PTL DEF CandleSpec
<1> QED BY <1>1, CandleInvTrue, PTL

-----------------------------------------------------------------------------
(* live/dashboard.py: events in order, through bounded queues.             *)

Numbers == Seq(Nat)

StreamTypes ==
    /\ events \in Nat /\ closed \in BOOLEAN /\ recent \in Numbers
    /\ stream \in [Clients -> {"none", "replay", "live", "over"}]
    /\ replay \in [Clients -> Numbers] /\ got \in [Clients -> Numbers]
    /\ frames \in [Clients -> Numbers]

\* Numbers that follow one another, or only rise when some were lost.
Follow(s, lossy) ==
    \A i \in 1 .. (Len(s) - 1) : IF lossy THEN s[i] < s[i + 1] ELSE s[i + 1] = s[i] + 1

\* The recent events are the last ones, until the dashboard closes.
RecentOK ==
    /\ Follow(recent, FALSE)
    /\ ~closed /\ events > 0 => recent # <<>> /\ recent[Len(recent)] = events
    /\ ~closed /\ events = 0 => recent = <<>>

\* A queue is within its bound, and ends with End if it has it.
QueueOK(q, over) ==
    /\ Len(q) <= MaxBuffer
    /\ \A i \in 1 .. Len(q) : q[i] = End => i = Len(q) /\ over

ClientOK(c) ==
    /\ QueueOK(frames[c], closed)
    /\ stream[c] = "none" => got[c] = <<>> /\ frames[c] = <<>>
    /\ stream[c] = "live" => replay[c] = <<>>

\* What StreamsWhole says of one client, which has nothing before any event.
StreamOK(c) ==
    LET s == InLine(c) IN
    /\ Follow(s, c \in dropped)
    /\ ~closed /\ events > 0 /\ s # <<>> => s[Len(s)] = events
    /\ ~closed /\ events = 0 => s = <<>>
    /\ closed /\ c \notin late => \E i \in 1 .. Len(frames[c]) : frames[c][i] = End

StreamInv ==
    /\ StreamTypes /\ RecentOK
    /\ \A c \in Clients : ClientOK(c) /\ (c \in Registered => StreamOK(c))

-----------------------------------------------------------------------------
(* Sequences of numbers that follow one another.                            *)

LEMMA FollowAppend ==
    ASSUME NEW s \in Numbers, NEW e \in Nat, NEW lossy \in BOOLEAN, Follow(s, lossy),
           s # <<>> => s[Len(s)] + 1 = e
    PROVE  Follow(Append(s, e), lossy)
<1> DEFINE t == Append(s, e)
<1>1. /\ Len(s) \in Nat /\ Len(t) = Len(s) + 1 /\ t[Len(s) + 1] = e
      /\ \A i \in 1 .. Len(s) : t[i] = s[i] /\ s[i] \in Nat
    BY AppendProperties, ElementOfSeq, LenProperties DEF Numbers
<1> HIDE DEF t
<1>2. ASSUME NEW i \in 1 .. (Len(t) - 1)
      PROVE  IF lossy THEN t[i] < t[i + 1] ELSE t[i + 1] = t[i] + 1
    <2>1. i \in 1 .. Len(s) BY <1>1
    <2>2. CASE i = Len(s)
        <3>1. s # <<>> BY <2>1, <2>2
        <3> QED BY <1>1, <2>1, <2>2, <3>1
    <2>3. CASE i # Len(s)
        <3>1. i \in 1 .. (Len(s) - 1) /\ i + 1 \in 1 .. Len(s) BY <1>1, <2>1, <2>3
        <3> QED BY <1>1, <2>1, <3>1 DEF Follow
    <2> QED BY <2>2, <2>3
<1> QED BY <1>2 DEF Follow, t

\* Without its first event, a queue still rises after what was sent before.
LEMMA FollowWithout ==
    ASSUME NEW a \in Numbers, NEW x \in Numbers, NEW lossy \in BOOLEAN, x # <<>>,
           Follow(a \o x, lossy)
    PROVE  Follow(a \o Tail(x), TRUE)
<1> DEFINE s == a \o x
           t == a \o Tail(x)
<1>1. /\ Len(a) \in Nat /\ Len(x) \in Nat \ {0}
      /\ Tail(x) \in Seq(Nat) /\ Len(Tail(x)) = Len(x) - 1
      /\ \A i \in 1 .. Len(Tail(x)) : Tail(x)[i] = x[i + 1]
    BY HeadTailProperties, LenProperties, EmptySeq DEF Numbers
<1>2. /\ s \in Seq(Nat) /\ Len(s) = Len(a) + Len(x)
      /\ \A i \in 1 .. Len(a) : s[i] = a[i]
      /\ \A i \in 1 .. Len(x) : s[Len(a) + i] = x[i]
    <2>1. /\ s \in Seq(Nat) /\ Len(s) = Len(a) + Len(x)
          /\ \A i \in 1 .. Len(a) + Len(x) : s[i] = IF i <= Len(a) THEN a[i] ELSE x[i - Len(a)]
        BY ConcatProperties DEF Numbers
    <2> HIDE DEF s
    <2>2. \A i \in 1 .. Len(a) : s[i] = a[i] BY <1>1, <2>1
    <2>3. ASSUME NEW i \in 1 .. Len(x) PROVE s[Len(a) + i] = x[i]
        <3>1. /\ Len(a) + i \in 1 .. Len(a) + Len(x) /\ ~(Len(a) + i <= Len(a))
              /\ (Len(a) + i) - Len(a) = i
            BY <1>1
        <3> QED BY <2>1, <3>1
    <2> QED BY <2>1, <2>2, <2>3
<1>3. /\ t \in Seq(Nat) /\ Len(t) = Len(a) + Len(x) - 1
      /\ \A i \in 1 .. Len(a) : t[i] = a[i]
      /\ \A i \in 1 .. Len(x) - 1 : t[Len(a) + i] = x[i + 1]
    <2>1. /\ t \in Seq(Nat) /\ Len(t) = Len(a) + Len(Tail(x))
          /\ \A i \in 1 .. Len(a) + Len(Tail(x)) :
                t[i] = IF i <= Len(a) THEN a[i] ELSE Tail(x)[i - Len(a)]
        BY <1>1, ConcatProperties DEF Numbers
    <2> HIDE DEF t
    <2>2. \A i \in 1 .. Len(a) : t[i] = a[i]
        <3>1. Len(a) \in Nat /\ Len(Tail(x)) \in Nat BY <1>1
        <3> QED BY <2>1, <3>1
    <2>3. ASSUME NEW i \in 1 .. Len(x) - 1 PROVE t[Len(a) + i] = x[i + 1]
        <3>1. /\ Len(a) + i \in 1 .. Len(a) + Len(Tail(x)) /\ ~(Len(a) + i <= Len(a))
              /\ (Len(a) + i) - Len(a) = i /\ i \in 1 .. Len(Tail(x))
            BY <1>1
        <3> QED BY <1>1, <2>1, <3>1
    <2>4. Len(t) = Len(a) + Len(x) - 1 BY <1>1, <2>1
    <2> QED BY <2>1, <2>2, <2>3, <2>4
<1> HIDE DEF s, t
<1>4. \A i \in 1 .. Len(s) : s[i] \in Nat BY <1>2, ElementOfSeq
<1>5. \A i \in 1 .. (Len(s) - 1) : s[i] < s[i + 1] BY <1>1, <1>2, <1>4 DEF Follow, s
<1>6. /\ \A i \in 1 .. Len(a) : t[i] = s[i]
      /\ \A i \in Len(a) + 1 .. Len(t) : t[i] = s[i + 1]
    <2>1. ASSUME NEW i \in Len(a) + 1 .. Len(t) PROVE t[i] = s[i + 1]
        <3> DEFINE k == i - Len(a)
        <3>1. k \in 1 .. Len(x) - 1 /\ k + 1 \in 1 .. Len(x) /\ i = Len(a) + k
              /\ i + 1 = Len(a) + (k + 1)
            BY <1>1, <1>3
        <3> HIDE DEF k
        <3> QED BY <1>2, <1>3, <3>1
    <2> QED BY <1>2, <1>3, <2>1
<1>7. ASSUME NEW i \in 1 .. (Len(t) - 1) PROVE t[i] < t[i + 1]
    <2>1. Len(t) = Len(s) - 1 /\ Len(t) \in Nat BY <1>1, <1>2, <1>3
    <2>2. CASE i + 1 <= Len(a)
        <3>1. i \in 1 .. Len(a) /\ i + 1 \in 1 .. Len(a) /\ i \in 1 .. (Len(s) - 1)
            BY <1>1, <2>1, <2>2
        <3> QED BY <1>5, <1>6, <3>1
    <2>3. CASE i = Len(a)
        <3>1. /\ i \in 1 .. Len(a) /\ i + 1 \in Len(a) + 1 .. Len(t)
              /\ i \in 1 .. (Len(s) - 1) /\ i + 1 \in 1 .. (Len(s) - 1) /\ i + 2 \in 1 .. Len(s)
              /\ i + 1 \in 1 .. Len(s) /\ (i + 1) + 1 = i + 2 /\ i \in 1 .. Len(s)
            BY <1>1, <2>1, <2>3
        <3>2. t[i] = s[i] /\ t[i + 1] = s[i + 2] BY <1>6, <3>1
        <3>3. s[i] < s[i + 1] /\ s[i + 1] < s[i + 2] BY <1>5, <3>1
        <3> QED BY <1>4, <3>1, <3>2, <3>3
    <2>4. CASE i > Len(a)
        <3>1. /\ i \in Len(a) + 1 .. Len(t) /\ i + 1 \in Len(a) + 1 .. Len(t)
              /\ i + 1 \in 1 .. (Len(s) - 1)
            BY <1>1, <2>1, <2>4
        <3> QED BY <1>5, <1>6, <3>1
    <2> QED BY <1>1, <2>2, <2>3, <2>4
<1> QED BY <1>7 DEF Follow, t

LEMMA FollowWeaker ==
    ASSUME NEW s \in Numbers, NEW lossy \in BOOLEAN, Follow(s, lossy)
    PROVE  Follow(s, TRUE)
<1>1. \A i \in 1 .. Len(s) : s[i] \in Nat BY ElementOfSeq DEF Numbers
<1>2. Len(s) \in Nat BY DEF Numbers
<1>3. ASSUME NEW i \in 1 .. (Len(s) - 1) PROVE s[i] < s[i + 1]
    <2>1. i \in 1 .. Len(s) /\ i + 1 \in 1 .. Len(s) BY <1>2
    <2> QED BY <1>1, <2>1 DEF Follow
<1> QED BY <1>3 DEF Follow

\* What is taken from the front of one sequence to the end of the one before.
LEMMA HandedOn ==
    ASSUME NEW a \in Numbers, NEW x \in Numbers, x # <<>>
    PROVE  Append(a, Head(x)) \o Tail(x) = a \o x
<1>1. Head(x) \in Nat /\ Tail(x) \in Seq(Nat) BY HeadTailProperties DEF Numbers
<1>2. Append(a, Head(x)) = a \o <<Head(x)>> BY <1>1, AppendIsConcat DEF Numbers
<1>3. x = <<Head(x)>> \o Tail(x) BY DEF Numbers
<1>4. (a \o <<Head(x)>>) \o Tail(x) = a \o (<<Head(x)>> \o Tail(x))
    BY <1>1, ConcatAssociative DEF Numbers
<1> QED BY <1>2, <1>3, <1>4

LEMMA LineAppend ==
    ASSUME NEW a \in Numbers, NEW q \in Numbers, NEW e \in Nat
    PROVE  a \o Append(q, e) = Append(a \o q, e)
<1>1. a \o q \in Seq(Nat) /\ <<e>> \in Seq(Nat) BY ConcatProperties DEF Numbers
<1>2. Append(q, e) = q \o <<e>> /\ Append(a \o q, e) = (a \o q) \o <<e>>
    BY <1>1, AppendIsConcat DEF Numbers
<1>3. (a \o q) \o <<e>> = a \o (q \o <<e>>) BY <1>1, ConcatAssociative DEF Numbers
<1> QED BY <1>2, <1>3

LEMMA LastOfLine ==
    ASSUME NEW a \in Numbers, NEW q \in Numbers, q # <<>>
    PROVE  /\ a \o q \in Numbers /\ a \o q # <<>>
           /\ (a \o q)[Len(a \o q)] = q[Len(q)]
<1> DEFINE s == a \o q
<1>1. /\ s \in Seq(Nat) /\ Len(s) = Len(a) + Len(q)
      /\ \A i \in 1 .. Len(a) + Len(q) : s[i] = IF i <= Len(a) THEN a[i] ELSE q[i - Len(a)]
    BY ConcatProperties DEF Numbers
<1>2. Len(a) \in Nat /\ Len(q) \in Nat \ {0} BY EmptySeq, LenProperties DEF Numbers
<1> HIDE DEF s
<1>3. /\ Len(s) \in 1 .. Len(a) + Len(q) /\ ~(Len(s) <= Len(a))
      /\ Len(s) - Len(a) = Len(q) /\ Len(s) # 0
    BY <1>1, <1>2
<1>4. s[Len(s)] = q[Len(q)] BY <1>1, <1>3
<1>5. s # <<>> BY <1>3, EmptySeq
<1> QED BY <1>1, <1>4, <1>5 DEF s, Numbers

LEMMA OpenQueue ==
    ASSUME NEW q \in Numbers, QueueOK(q, FALSE)
    PROVE  Queue(q) = q
<1>1. q # <<>> => Len(q) \in 1 .. Len(q) BY EmptySeq DEF Numbers
<1> QED BY <1>1 DEF QueueOK, Queue

LEMMA ClosedQueue ==
    ASSUME NEW q \in Numbers
    PROVE  Queue(Append(q, End)) = q
<1> DEFINE x == Append(q, End)
<1>1. /\ x \in Seq(Nat) /\ x # <<>> /\ Len(x) = Len(q) + 1 /\ x[Len(x)] = End
      /\ \A i \in 1 .. Len(q) : x[i] = q[i]
    BY AppendProperties DEF Numbers, End
<1>2. Len(q) \in Nat BY DEF Numbers
<1> HIDE DEF x
<1>3. Queue(x) = SubSeq(x, 1, Len(q)) BY <1>1, <1>2 DEF Queue
<1> DEFINE y == SubSeq(x, 1, Len(q))
<1>4. \A i \in 1 .. Len(q) : x[i] \in Nat BY <1>1, <1>2, ElementOfSeq
<1>5. /\ y \in Seq(Nat) /\ Len(y) = (IF 1 <= Len(q) THEN Len(q) - 1 + 1 ELSE 0)
      /\ \A i \in 1 .. Len(q) - 1 + 1 : y[i] = x[1 + i - 1]
    BY <1>2, <1>4, SubSeqProperties
<1> HIDE DEF y
<1>6. Len(y) = Len(q) /\ \A i \in 1 .. Len(q) : y[i] = q[i] BY <1>1, <1>2, <1>5
<1>7. y = q BY <1>5, <1>6, SeqEqual DEF Numbers
<1> QED BY <1>3, <1>7 DEF x, y

\* The first of a queue, when it is an event.
LEMMA QueueServed ==
    ASSUME NEW q \in Numbers, NEW over \in BOOLEAN, q # <<>>, QueueOK(q, over)
    PROVE  /\ Tail(q) \in Numbers /\ Queue(q) \in Numbers
           /\ QueueOK(Tail(q), over)
           /\ Head(q) # End =>
                /\ Queue(q) # <<>> /\ Head(Queue(q)) = Head(q)
                /\ Tail(Queue(q)) = Queue(Tail(q))
           /\ Head(q) # End /\ (\E i \in 1 .. Len(q) : q[i] = End) =>
                \E i \in 1 .. Len(Tail(q)) : Tail(q)[i] = End
<1>1. /\ Tail(q) \in Seq(Nat) /\ Len(Tail(q)) = Len(q) - 1 /\ Len(q) \in Nat \ {0}
      /\ \A i \in 1 .. Len(q) - 1 : Tail(q)[i] = q[i + 1]
      /\ Head(q) = q[1] /\ MaxBuffer \in Nat
    BY HeadTailProperties, EmptySeq, StreamAssumption DEF Numbers
<1>2. QueueOK(Tail(q), over)
    <2>1. \A i \in 1 .. Len(Tail(q)) : i + 1 \in 1 .. Len(q) /\ Tail(q)[i] = q[i + 1]
        BY <1>1
    <2>2. ASSUME NEW i \in 1 .. Len(Tail(q)), Tail(q)[i] = End
          PROVE  i = Len(Tail(q)) /\ over
        <3>1. PICK j \in 1 .. Len(q) : j = i + 1 /\ q[j] = End BY <2>1, <2>2
        <3>2. over BY <3>1, Zenon DEF QueueOK
        <3>3. j = Len(q) BY <3>1, Zenon DEF QueueOK
        <3>4. i \in Int /\ Len(q) \in Int /\ Len(Tail(q)) = Len(q) - 1 /\ i + 1 = j
            BY <1>1, <3>1
        <3>5. i = Len(Tail(q)) BY <3>3, <3>4
        <3> QED BY <3>2, <3>5, Zenon
    <2>3. Len(q) <= MaxBuffer BY Zenon DEF QueueOK
    <2>4. Len(Tail(q)) <= MaxBuffer BY <1>1, <2>3
    <2> QED BY <2>2, <2>4, Zenon DEF QueueOK
<1>3. ASSUME Head(q) # End, NEW i \in 1 .. Len(q), q[i] = End
      PROVE  \E j \in 1 .. Len(Tail(q)) : Tail(q)[j] = End
    <2>1. i # 1 BY <1>1, <1>3
    <2>2. i - 1 \in 1 .. Len(Tail(q)) /\ (i - 1) + 1 = i /\ i - 1 \in 1 .. Len(q) - 1
        BY <1>1, <2>1
    <2> QED BY <1>1, <1>3, <2>2
<1>4. CASE q[Len(q)] = End
    <2> DEFINE n == Len(q) - 1
               y == SubSeq(q, 1, n)
    <2>0. n \in Nat /\ n <= Len(q) BY <1>1
    <2>1. Queue(q) = y BY <1>4 DEF Queue
    <2>2. \A i \in 1 .. n : q[i] \in Nat BY <1>1, ElementOfSeq DEF Numbers
    <2>3. /\ y \in Seq(Nat) /\ Len(y) = (IF 1 <= n THEN n - 1 + 1 ELSE 0)
          /\ \A i \in 1 .. n - 1 + 1 : y[i] = q[1 + i - 1]
        <3> HIDE DEF n
        <3> QED BY <2>0, <2>2, SubSeqProperties
    <2> HIDE DEF y
    <2>4. Len(y) = n /\ \A i \in 1 .. n : y[i] = q[i]
        <3> HIDE DEF n
        <3> QED BY <2>0, <2>3
    <2>5. ASSUME Head(q) # End
          PROVE  y # <<>> /\ Head(y) = Head(q) /\ Tail(y) = Queue(Tail(q))
        <3>0. Len(q) # 1 BY <1>1, <1>4, <2>5
        <3>1. n \in Nat \ {0} BY <1>1, <3>0
        <3>2. y # <<>> /\ Head(y) = Head(q)
            <4>1. 1 \in 1 .. n /\ Len(y) # 0 BY <2>4, <3>1
            <4>2. y[1] = q[1] BY <2>4, <4>1
            <4>3. y # <<>> BY <4>1, EmptySeq
            <4>4. Head(y) = y[1] BY <2>3, <4>3
            <4> QED BY <1>1, <4>2, <4>3, <4>4
        <3> DEFINE x == Tail(q)
                   m == n - 1
                   z == SubSeq(x, 1, m)
        <3>3. x \in Seq(Nat) /\ Len(x) = n /\ x # <<>> /\ x[Len(x)] = End
            <4>1. Len(x) = n /\ n \in 1 .. Len(q) - 1 /\ n + 1 = Len(q) BY <1>1, <3>1
            <4> QED BY <1>1, <1>4, <4>1, <3>1, EmptySeq
        <3>4. Queue(x) = z BY <3>3 DEF Queue
        <3>5. m \in Nat /\ m <= n
            <4> HIDE DEF n
            <4> QED BY <3>1
        <3> HIDE DEF x
        <3>6. \A i \in 1 .. m : x[i] \in Nat BY <3>3, <3>5, <3>1, ElementOfSeq
        <3>7. /\ z \in Seq(Nat) /\ Len(z) = (IF 1 <= m THEN m - 1 + 1 ELSE 0)
              /\ \A i \in 1 .. m - 1 + 1 : z[i] = x[1 + i - 1]
            <4> HIDE DEF m
            <4> QED BY <3>5, <3>6, SubSeqProperties
        <3> HIDE DEF z
        <3>8. Len(z) = m /\ \A i \in 1 .. m : z[i] = x[i]
            <4> HIDE DEF m
            <4> QED BY <3>5, <3>7
        <3>9. /\ Tail(y) \in Seq(Nat) /\ Len(Tail(y)) = m
              /\ \A i \in 1 .. m : Tail(y)[i] = y[i + 1]
            BY <2>3, <2>4, <3>2, HeadTailProperties
        <3>10. \A i \in 1 .. m : Tail(y)[i] = z[i]
            <4> SUFFICES ASSUME NEW i \in 1 .. m PROVE Tail(y)[i] = z[i] OBVIOUS
            <4>1. i + 1 \in 1 .. n /\ i \in 1 .. Len(q) - 1 BY <3>1, <1>1
            <4>2. y[i + 1] = q[i + 1] BY <2>4, <4>1
            <4>3. x[i] = q[i + 1] BY <1>1, <4>1 DEF x
            <4> QED BY <3>8, <3>9, <4>2, <4>3
        <3>11. Tail(y) = z BY <3>7, <3>8, <3>9, <3>10, SeqEqual
        <3> QED BY <3>2, <3>4, <3>11 DEF x
    <2> QED BY <1>1, <1>2, <1>3, <2>1, <2>3, <2>5 DEF Numbers
<1>5. CASE q[Len(q)] # End
    <2>1. Queue(q) = q BY <1>5 DEF Queue
    <2>2. Queue(Tail(q)) = Tail(q)
        <3>1. Tail(q) # <<>> => Len(Tail(q)) \in 1 .. Len(q) - 1 BY <1>1, EmptySeq
        <3>2. Len(Tail(q)) + 1 = Len(q) BY <1>1
        <3>3. Tail(q) # <<>> => Tail(q)[Len(Tail(q))] = q[Len(q)] BY <1>1, <3>1, <3>2
        <3> QED BY <1>5, <3>3 DEF Queue
    <2> QED BY <1>1, <1>2, <1>3, <2>1, <2>2 DEF Numbers
<1> QED BY <1>4, <1>5

LEMMA Appended ==
    ASSUME NEW q \in Numbers, NEW e \in Nat
    PROVE  /\ Append(q, e) \in Numbers /\ Append(q, e) # <<>> /\ Len(q) \in Nat
           /\ Len(Append(q, e)) = Len(q) + 1 /\ Append(q, e)[Len(q) + 1] = e
           /\ \A i \in 1 .. Len(q) : Append(q, e)[i] = q[i]
BY AppendProperties DEF Numbers

\* An event, or the End, comes to the queue q of a client that has a before.
LEMMA QueuedEvent ==
    ASSUME NEW a \in Numbers, NEW q \in Numbers, NEW e \in Nat, NEW lossy \in BOOLEAN,
           e # End, QueueOK(q, FALSE), Follow(a \o Queue(q), lossy),
           a \o Queue(q) # <<>> => (a \o Queue(q))[Len(a \o Queue(q))] + 1 = e
    PROVE  LET n == Bounded(Append(q, e))
               s == a \o Queue(n)
           IN  /\ n \in Numbers /\ QueueOK(n, FALSE)
               /\ Follow(s, lossy \/ Len(q) = MaxBuffer)
               /\ s # <<>> /\ s[Len(s)] = e
<1> DEFINE x == Append(q, e)
           n == Bounded(x)
<1>1. /\ x \in Numbers /\ x # <<>> /\ Len(x) = Len(q) + 1 /\ Len(q) \in Nat
      /\ x[Len(q) + 1] = e /\ \A i \in 1 .. Len(q) : x[i] = q[i]
    BY Appended
<1>2. Len(q) <= MaxBuffer /\ MaxBuffer \in Nat \ {0} BY StreamAssumption, Zenon DEF QueueOK
<1>3. \A i \in 1 .. Len(q) : q[i] # End BY Zenon DEF QueueOK
<1>4. Queue(q) = q BY OpenQueue
<1>5. a \o q \in Numbers BY ConcatProperties DEF Numbers
<1>6. Follow(a \o x, lossy)
    <2>1. Follow(Append(a \o q, e), lossy) BY <1>4, <1>5, FollowAppend
    <2> QED BY <2>1, LineAppend
<1> HIDE DEF x
<1>7. \A i \in 1 .. Len(x) : x[i] # End
    <2> SUFFICES ASSUME NEW i \in 1 .. Len(x) PROVE x[i] # End OBVIOUS
    <2>1. i \in 1 .. Len(q) \/ i = Len(q) + 1 BY <1>1
    <2> QED BY <1>1, <1>3, <2>1
<1>8. CASE Len(q) = MaxBuffer
    <2>1. n = Tail(x) BY <1>1, <1>2, <1>8 DEF Bounded
    <2>2. /\ Tail(x) \in Numbers /\ Len(Tail(x)) = Len(q) /\ Len(q) \in Nat \ {0}
          /\ \A i \in 1 .. Len(q) : Tail(x)[i] = x[i + 1]
        BY <1>1, <1>2, <1>8, HeadTailProperties DEF Numbers
    <2>3. \A i \in 1 .. Len(q) : i + 1 \in 1 .. Len(x) BY <1>1
    <2>4. QueueOK(Tail(x), FALSE) BY <1>2, <1>7, <2>2, <2>3 DEF QueueOK
    <2>5. Tail(x) # <<>> /\ Tail(x)[Len(Tail(x))] = e BY <1>1, <2>2, EmptySeq
    <2>6. Follow(a \o Tail(x), TRUE) BY <1>1, <1>6, FollowWithout
    <2>7. Queue(n) = n BY <2>1, <2>2, <2>4, OpenQueue
    <2>8. a \o Tail(x) # <<>> /\ (a \o Tail(x))[Len(a \o Tail(x))] = e
        BY <2>2, <2>5, LastOfLine
    <2>9. (lossy \/ Len(q) = MaxBuffer) = TRUE BY <1>8
    <2> QED BY <2>1, <2>2, <2>4, <2>6, <2>7, <2>8, <2>9, Zenon DEF x
<1>9. CASE Len(q) # MaxBuffer
    <2>1. n = x /\ Len(x) <= MaxBuffer BY <1>1, <1>2, <1>9 DEF Bounded
    <2>2. QueueOK(x, FALSE) BY <1>7, <2>1, Zenon DEF QueueOK
    <2>3. Queue(n) = n BY <1>1, <2>1, <2>2, OpenQueue
    <2>4. a \o x # <<>> /\ (a \o x)[Len(a \o x)] = e BY <1>1, LastOfLine
    <2>5. (lossy \/ Len(q) = MaxBuffer) = lossy BY <1>9
    <2> QED BY <1>1, <1>6, <2>1, <2>2, <2>3, <2>4, <2>5, Zenon DEF x
<1> QED BY <1>8, <1>9, Zenon

LEMMA QueuedEnd ==
    ASSUME NEW a \in Numbers, NEW q \in Numbers, NEW lossy \in BOOLEAN,
           QueueOK(q, FALSE), Follow(a \o Queue(q), lossy)
    PROVE  LET n == Bounded(Append(q, End))
           IN  /\ n \in Numbers /\ QueueOK(n, TRUE)
               /\ Follow(a \o Queue(n), lossy \/ Len(q) = MaxBuffer)
               /\ \E i \in 1 .. Len(n) : n[i] = End
<1> DEFINE x == Append(q, End)
           n == Bounded(x)
<1>1. /\ x \in Numbers /\ x # <<>> /\ Len(x) = Len(q) + 1 /\ Len(q) \in Nat
      /\ x[Len(q) + 1] = End /\ \A i \in 1 .. Len(q) : x[i] = q[i]
    BY AppendProperties DEF Numbers, End
<1>2. Len(q) <= MaxBuffer /\ MaxBuffer \in Nat \ {0} BY StreamAssumption, Zenon DEF QueueOK
<1>3. \A i \in 1 .. Len(q) : q[i] # End BY Zenon DEF QueueOK
<1>4. Queue(q) = q /\ Queue(x) = q BY OpenQueue, ClosedQueue
<1> HIDE DEF x
<1>5. \A i \in 1 .. Len(x) : x[i] = End => i = Len(x)
    <2> SUFFICES ASSUME NEW i \in 1 .. Len(x), i # Len(x) PROVE x[i] # End OBVIOUS
    <2>1. i \in 1 .. Len(q) BY <1>1
    <2> QED BY <1>1, <1>3, <2>1
<1>6. CASE Len(q) = MaxBuffer
    <2> DEFINE y == Tail(q)
    <2>1. n = Tail(x) BY <1>1, <1>2, <1>6 DEF Bounded
    <2>2. q # <<>> /\ Head(x) = q[1] /\ Head(q) = q[1] /\ q[1] # End
        <3>1. q # <<>> BY <1>2, <1>6, EmptySeq
        <3>2. 1 \in 1 .. Len(q) BY <1>2, <1>6
        <3>3. Head(x) = x[1] BY <1>1
        <3> QED BY <1>1, <1>3, <3>1, <3>2, <3>3
    <2>3. /\ Tail(x) \in Numbers /\ Len(Tail(x)) = Len(q) /\ Len(q) \in Nat \ {0}
          /\ \A i \in 1 .. Len(q) : Tail(x)[i] = x[i + 1]
        BY <1>1, <1>2, <1>6, HeadTailProperties DEF Numbers
    <2>4. QueueOK(Tail(x), TRUE)
        <3>1. \A i \in 1 .. Len(Tail(x)) : i + 1 \in 1 .. Len(x) /\ Tail(x)[i] = x[i + 1]
            BY <1>1, <2>3
        <3>2. \A i \in 1 .. Len(Tail(x)) : Tail(x)[i] = End => i = Len(Tail(x))
            BY <1>1, <1>5, <2>3, <3>1
        <3> QED BY <1>2, <2>3, <3>2 DEF QueueOK
    <2>5. Len(q) \in 1 .. Len(Tail(x)) /\ Tail(x)[Len(q)] = End BY <1>1, <2>3
    <2>6. Queue(Tail(x)) = Tail(q)
        <3>1. Tail(x) = Append(Tail(q), End)
            <4>1. /\ Tail(q) \in Seq(Nat) /\ Len(Tail(q)) = Len(q) - 1
                  /\ \A i \in 1 .. Len(q) - 1 : Tail(q)[i] = q[i + 1]
                BY <2>2, HeadTailProperties DEF Numbers
            <4> DEFINE z == Append(Tail(q), End)
            <4>2. /\ z \in Seq(Nat) /\ Len(z) = Len(Tail(q)) + 1 /\ z[Len(Tail(q)) + 1] = End
                  /\ \A i \in 1 .. Len(Tail(q)) : z[i] = Tail(q)[i]
                BY <4>1, AppendProperties DEF End
            <4> HIDE DEF z
            <4>3. Len(z) = Len(q) BY <2>3, <4>1, <4>2
            <4>4. \A i \in 1 .. Len(q) : Tail(x)[i] = z[i]
                <5> SUFFICES ASSUME NEW i \in 1 .. Len(q) PROVE Tail(x)[i] = z[i] OBVIOUS
                <5>1. CASE i = Len(q)
                    <6>1. i = Len(Tail(q)) + 1 BY <2>3, <4>1, <5>1
                    <6> QED BY <2>5, <4>2, <5>1, <6>1
                <5>2. CASE i # Len(q)
                    <6>1. i \in 1 .. Len(q) - 1 /\ i + 1 \in 1 .. Len(q) BY <2>3, <5>2
                    <6>2. i \in 1 .. Len(Tail(q)) BY <2>3, <4>1, <6>1
                    <6> QED BY <1>1, <2>3, <4>1, <4>2, <6>1, <6>2
                <5> QED BY <5>1, <5>2
            <4>5. Tail(x) = z BY <2>3, <4>2, <4>3, <4>4, SeqEqual DEF Numbers
            <4> QED BY <4>5 DEF z
        <3>2. Tail(q) \in Numbers BY <2>2, HeadTailProperties DEF Numbers
        <3> QED BY <3>1, <3>2, ClosedQueue
    <2>7. Follow(a \o Tail(q), TRUE) BY <1>4, <2>2, FollowWithout
    <2>8. (lossy \/ Len(q) = MaxBuffer) = TRUE BY <1>6
    <2> QED BY <2>1, <2>3, <2>4, <2>5, <2>6, <2>7, <2>8, Zenon DEF x
<1>7. CASE Len(q) # MaxBuffer
    <2>1. n = x /\ Len(x) <= MaxBuffer BY <1>1, <1>2, <1>7 DEF Bounded
    <2>2. QueueOK(x, TRUE) BY <1>5, <2>1, Zenon DEF QueueOK
    <2>3. Len(q) + 1 \in 1 .. Len(x) BY <1>1
    <2>4. (lossy \/ Len(q) = MaxBuffer) = lossy BY <1>7
    <2> QED BY <1>1, <1>4, <2>1, <2>2, <2>3, <2>4, Zenon DEF x
<1> QED BY <1>6, <1>7, Zenon

-----------------------------------------------------------------------------
(* The steps of the dashboard.                                              *)

LEMMA StreamInvInit == StreamInit => StreamInv
<1> SUFFICES ASSUME StreamInit PROVE StreamInv OBVIOUS
<1> USE StreamAssumption DEF StreamInit
<1>0. <<>> \in Numbers BY DEF Numbers
<1>1. StreamTypes
    <2>1. events \in Nat /\ closed \in BOOLEAN /\ recent \in Numbers BY <1>0
    <2>2. stream \in [Clients -> {"none", "replay", "live", "over"}] OBVIOUS
    <2>3. /\ replay \in [Clients -> Numbers] /\ got \in [Clients -> Numbers]
          /\ frames \in [Clients -> Numbers]
        BY <1>0
    <2> QED BY <2>1, <2>2, <2>3 DEF StreamTypes
<1>2. RecentOK BY DEF RecentOK, Follow
<1>3. \A c \in Clients : ClientOK(c) BY DEF ClientOK, QueueOK
<1>4. \A c \in Clients : c \notin Registered BY DEF Registered
<1> QED BY <1>1, <1>2, <1>3, <1>4 DEF StreamInv

LEMMA ClientFacts ==
    ASSUME StreamInv, NEW c \in Clients
    PROVE  /\ got[c] \in Numbers /\ replay[c] \in Numbers /\ frames[c] \in Numbers
           /\ got[c] \o replay[c] \in Numbers
           /\ Queue(frames[c]) \in Numbers /\ InLine(c) \in Numbers
           /\ InLine(c) = (got[c] \o replay[c]) \o Queue(frames[c])
           /\ ClientOK(c) /\ (c \in Registered => StreamOK(c))
           /\ c \in Registered <=> stream[c] \in {"replay", "live"}
<1>1. got[c] \in Numbers /\ replay[c] \in Numbers /\ frames[c] \in Numbers /\ closed \in BOOLEAN
    BY DEF StreamInv, StreamTypes
<1>2. ClientOK(c) /\ QueueOK(frames[c], closed) BY Zenon DEF StreamInv, ClientOK
<1>3. Queue(frames[c]) \in Numbers
    <2>1. CASE frames[c] = <<>> BY <1>1, <2>1 DEF Queue
    <2>2. CASE frames[c] # <<>> BY <1>1, <1>2, <2>2, QueueServed
    <2> QED BY <2>1, <2>2
<1>4. got[c] \o replay[c] \in Numbers BY <1>1, ConcatProperties DEF Numbers
<1>5. InLine(c) = (got[c] \o replay[c]) \o Queue(frames[c]) BY DEF InLine
<1>6. InLine(c) \in Numbers BY <1>3, <1>4, <1>5, ConcatProperties DEF Numbers
<1>7. c \in Registered => StreamOK(c) BY Zenon DEF StreamInv
<1> QED BY <1>1, <1>2, <1>3, <1>4, <1>5, <1>6, <1>7 DEF Registered

\* A step that serves the client c, or closes or opens its stream, alone.
LEMMA ServedStep ==
    ASSUME StreamInv, NEW c \in Clients, StreamTypes',
           UNCHANGED <<closed, recent, events, dropped>>,
           \A d \in Clients \ {c} :
               UNCHANGED <<stream[d], replay[d], got[d], frames[d]>> /\ (d \in late' <=> d \in late),
           ClientOK(c)',
           c \in Registered' => StreamOK(c)'
    PROVE  StreamInv'
<1>1. RecentOK' BY DEF StreamInv, RecentOK
<1>2. ASSUME NEW d \in Clients \ {c}
      PROVE  ClientOK(d)' /\ (d \in Registered' => StreamOK(d)')
    <2>1. ClientOK(d) /\ (d \in Registered => StreamOK(d)) BY ClientFacts
    <2>2. ClientOK(d)' BY <2>1 DEF ClientOK
    <2>3. InLine(d)' = InLine(d) BY DEF InLine
    <2>4. d \in Registered' <=> d \in Registered BY DEF Registered
    <2>5. StreamOK(d) => StreamOK(d)' BY <2>3 DEF StreamOK
    <2> QED BY <2>1, <2>2, <2>4, <2>5
<1> QED BY <1>1, <1>2, Zenon DEF StreamInv

\* A step of a registered client that leaves its line as it is.
LEMMA KeptLine ==
    ASSUME StreamInv, NEW c \in Registered, InLine(c)' = InLine(c),
           UNCHANGED <<closed, events, dropped, late>>,
           (\E i \in 1 .. Len(frames[c]) : frames[c][i] = End)
               => \E i \in 1 .. Len(frames'[c]) : frames'[c][i] = End
    PROVE  StreamOK(c)'
<1>1. c \in Clients BY DEF Registered
<1>2. StreamOK(c) BY <1>1, ClientFacts
<1> QED BY <1>2 DEF StreamOK

LEMMA OpenStreamStep ==
    ASSUME StreamInv, NEW c \in Clients, OpenStream(c)
    PROVE  StreamInv'
<1>1. /\ stream[c] = "none" /\ stream' = [stream EXCEPT ![c] = "replay"]
      /\ replay' = [replay EXCEPT ![c] = recent]
      /\ late' = IF closed THEN late \cup {c} ELSE late
      /\ UNCHANGED <<closed, recent, frames, events, got, dropped>>
    BY DEF OpenStream
<1>2. StreamTypes /\ RecentOK BY DEF StreamInv
<1>3. StreamTypes' BY <1>1, <1>2 DEF StreamTypes
<1>4. /\ stream'[c] = "replay" /\ replay'[c] = recent
      /\ \A d \in Clients \ {c} : UNCHANGED <<stream[d], replay[d], got[d], frames[d]>>
    BY <1>1, <1>2 DEF StreamTypes
<1>5. \A d \in Clients \ {c} : d \in late' <=> d \in late BY <1>1
<1>6. got'[c] = <<>> /\ frames'[c] = <<>> /\ QueueOK(frames[c], closed)
    BY <1>1, ClientFacts DEF ClientOK
<1>7. ClientOK(c)' BY <1>1, <1>4, <1>6 DEF ClientOK
<1>8. InLine(c)' = recent
    <2>1. Queue(<<>>) = <<>> BY DEF Queue
    <2>2. <<>> \o recent = recent /\ recent \o <<>> = recent
        BY <1>2, ConcatEmptySeq DEF StreamTypes, Numbers
    <2> QED BY <1>4, <1>6, <2>1, <2>2 DEF InLine
<1>9. StreamOK(c)'
    <2>1. Follow(recent, FALSE) /\ Follow(recent, TRUE)
        BY <1>2, FollowWeaker DEF RecentOK, StreamTypes
    <2>2. Follow(recent, c \in dropped)
        <3>1. CASE c \in dropped
            <4>1. (c \in dropped) = TRUE BY <3>1
            <4> QED BY <2>1, <4>1, Zenon
        <3>2. CASE c \notin dropped
            <4>1. (c \in dropped) = FALSE BY <3>2
            <4> QED BY <2>1, <4>1, Zenon
        <3> QED BY <3>1, <3>2
    <2>3. closed => c \in late' BY <1>1
    <2>4. /\ ~closed /\ events > 0 => recent # <<>> /\ recent[Len(recent)] = events
          /\ ~closed /\ events = 0 => recent = <<>>
        BY <1>2 DEF RecentOK
    <2>5. closed' = closed /\ events' = events /\ dropped' = dropped BY <1>1
    <2>6. Follow(InLine(c)', c \in dropped') BY <1>8, <2>2, <2>5
    <2>7. /\ ~closed' /\ events' > 0 => InLine(c)'[Len(InLine(c)')] = events'
          /\ ~closed' /\ events' = 0 => InLine(c)' = <<>>
        BY <1>8, <2>4, <2>5
    <2>8. ~(closed' /\ c \notin late') BY <2>3, <2>5
    <2> QED BY <2>6, <2>7, <2>8, Zenon DEF StreamOK
<1> QED BY <1>1, <1>3, <1>4, <1>5, <1>7, <1>9, ServedStep

LEMMA ReplayedStep ==
    ASSUME StreamInv, NEW c \in Clients, Replayed(c)
    PROVE  StreamInv'
<1>1. /\ stream[c] = "replay" /\ UNCHANGED <<closed, recent, frames, events, dropped, late>>
      /\ \/ /\ replay[c] = <<>> /\ stream' = [stream EXCEPT ![c] = "live"]
            /\ UNCHANGED <<replay, got>>
         \/ /\ replay[c] # <<>> /\ UNCHANGED stream
            /\ got' = [got EXCEPT ![c] = Append(@, Head(replay[c]))]
            /\ replay' = [replay EXCEPT ![c] = Tail(@)]
    BY DEF Replayed
<1>2. /\ StreamTypes /\ got[c] \in Numbers /\ replay[c] \in Numbers /\ ClientOK(c)
      /\ c \in Registered
    BY <1>1, ClientFacts DEF StreamInv
<1>3. \A d \in Clients \ {c} : d \in late' <=> d \in late BY <1>1
<1>4. CASE replay[c] = <<>>
    <2>1. /\ StreamTypes' /\ stream'[c] = "live" /\ UNCHANGED <<replay, got>>
          /\ \A d \in Clients \ {c} : UNCHANGED <<stream[d], replay[d], got[d], frames[d]>>
        BY <1>1, <1>2, <1>4 DEF StreamTypes
    <2>2. InLine(c)' = InLine(c) BY <1>1, <2>1 DEF InLine
    <2>3. StreamOK(c)' BY <1>1, <1>2, <2>2, KeptLine
    <2>4. ClientOK(c)' BY <1>1, <1>2, <1>4, <2>1 DEF ClientOK
    <2> QED BY <1>1, <1>3, <2>1, <2>3, <2>4, ServedStep
<1>5. CASE replay[c] # <<>>
    <2> DEFINE g == Append(got[c], Head(replay[c]))
               r == Tail(replay[c])
    <2>1. g \in Numbers /\ r \in Numbers
        <3>1. Head(replay[c]) \in Nat /\ r \in Seq(Nat)
            BY <1>2, <1>5, HeadTailProperties DEF Numbers
        <3> QED BY <1>2, <3>1, AppendProperties DEF Numbers
    <2>2. got' = [got EXCEPT ![c] = g] /\ replay' = [replay EXCEPT ![c] = r] /\ UNCHANGED stream
        BY <1>1, <1>2, <1>5 DEF StreamTypes
    <2>3. g \o r = got[c] \o replay[c] BY <1>2, <1>5, HandedOn
    <2> HIDE DEF g, r
    <2>4. /\ StreamTypes' /\ got'[c] = g /\ replay'[c] = r
          /\ \A d \in Clients \ {c} : UNCHANGED <<stream[d], replay[d], got[d], frames[d]>>
        BY <1>1, <1>2, <2>1, <2>2 DEF StreamTypes
    <2>5. InLine(c)' = InLine(c) BY <1>1, <2>3, <2>4 DEF InLine
    <2>6. StreamOK(c)' BY <1>1, <1>2, <2>5, KeptLine
    <2>7. ClientOK(c)' BY <1>1, <1>2, <2>2 DEF ClientOK
    <2> QED BY <1>1, <1>3, <2>4, <2>6, <2>7, ServedStep
<1> QED BY <1>4, <1>5

LEMMA NextFrameStep ==
    ASSUME StreamInv, NEW c \in Clients, NextFrame(c)
    PROVE  StreamInv'
<1> DEFINE q == frames[c]
<1>1. /\ stream[c] = "live" /\ q # <<>> /\ frames' = [frames EXCEPT ![c] = Tail(q)]
      /\ UNCHANGED <<closed, recent, replay, events, dropped, late>>
      /\ \/ Head(q) = End /\ stream' = [stream EXCEPT ![c] = "over"] /\ UNCHANGED got
         \/ /\ Head(q) # End /\ got' = [got EXCEPT ![c] = Append(got[c], Head(q))]
            /\ UNCHANGED stream
    <2>1. frames[c] = q /\ c \in DOMAIN frames /\ c \in DOMAIN got
        BY DEF StreamInv, StreamTypes
    <2> QED BY <2>1 DEF NextFrame
<1>2. /\ StreamTypes /\ got[c] \in Numbers /\ replay[c] = <<>> /\ q \in Numbers
      /\ QueueOK(q, closed) /\ c \in Registered /\ closed \in BOOLEAN
    BY <1>1, ClientFacts DEF StreamInv, StreamTypes, ClientOK
<1>3. \A d \in Clients \ {c} : d \in late' <=> d \in late BY <1>1
<1>4. /\ Tail(q) \in Numbers /\ Queue(q) \in Numbers /\ QueueOK(Tail(q), closed)
      /\ Head(q) # End =>
            /\ Queue(q) # <<>> /\ Head(Queue(q)) = Head(q) /\ Tail(Queue(q)) = Queue(Tail(q))
      /\ Head(q) # End /\ (\E i \in 1 .. Len(q) : q[i] = End) =>
            \E i \in 1 .. Len(Tail(q)) : Tail(q)[i] = End
    BY <1>1, <1>2, QueueServed
<1>5. /\ frames' \in [Clients -> Numbers] /\ frames'[c] = Tail(q)
      /\ \A d \in Clients \ {c} : frames'[d] = frames[d]
    BY <1>1, <1>2, <1>4 DEF StreamTypes
<1>6. CASE Head(q) = End
    <2>1. /\ StreamTypes' /\ stream'[c] = "over"
          /\ \A d \in Clients \ {c} : UNCHANGED <<stream[d], replay[d], got[d], frames[d]>>
        BY <1>1, <1>2, <1>5, <1>6 DEF StreamTypes
    <2>2. c \notin Registered' BY <2>1 DEF Registered
    <2>3. ClientOK(c)' BY <1>1, <1>4, <1>5, <2>1 DEF ClientOK
    <2> QED BY <1>1, <1>3, <2>1, <2>2, <2>3, ServedStep
<1>7. CASE Head(q) # End
    <2> DEFINE g == Append(got[c], Head(q))
    <2>1. g \in Numbers
        <3>1. Head(q) \in Nat BY <1>1, <1>2, HeadTailProperties DEF Numbers
        <3> QED BY <1>2, <3>1, AppendProperties DEF Numbers
    <2>2. got' = [got EXCEPT ![c] = g] /\ UNCHANGED stream BY <1>1, <1>7
    <2>3. InLine(c) = got[c] \o Queue(q)
        <3>1. got[c] \o <<>> = got[c] BY <1>2, ConcatEmptySeq DEF Numbers
        <3> QED BY <1>2, <3>1 DEF InLine
    <2>4. g \o Queue(Tail(q)) = got[c] \o Queue(q) BY <1>2, <1>4, <1>7, HandedOn
    <2> HIDE DEF g, q
    <2>5. /\ StreamTypes' /\ got'[c] = g /\ replay'[c] = <<>>
          /\ \A d \in Clients \ {c} : UNCHANGED <<stream[d], replay[d], got[d], frames[d]>>
        BY <1>1, <1>2, <1>5, <2>1, <2>2 DEF StreamTypes
    <2>6. InLine(c)' = g \o Queue(Tail(q))
        <3>1. g \o <<>> = g BY <2>1, ConcatEmptySeq DEF Numbers
        <3> QED BY <1>5, <2>5, <3>1 DEF InLine
    <2>7. (\E i \in 1 .. Len(frames[c]) : frames[c][i] = End)
              => \E i \in 1 .. Len(frames'[c]) : frames'[c][i] = End
        BY <1>4, <1>5, <1>7 DEF q
    <2>8. StreamOK(c)' BY <1>1, <1>2, <2>3, <2>4, <2>6, <2>7, KeptLine
    <2>9. ClientOK(c)' BY <1>1, <1>2, <1>4, <1>5, <2>2 DEF ClientOK
    <2> QED BY <1>1, <1>3, <2>5, <2>8, <2>9, ServedStep
<1> QED BY <1>6, <1>7

LEMMA LeaveStep ==
    ASSUME StreamInv, NEW c \in Clients, Leave(c)
    PROVE  StreamInv'
<1>1. /\ c \in Registered /\ stream' = [stream EXCEPT ![c] = "over"]
      /\ UNCHANGED <<closed, recent, replay, frames, events, got, dropped, late>>
    BY DEF Leave
<1>2. StreamTypes /\ ClientOK(c) BY ClientFacts DEF StreamInv
<1>3. /\ StreamTypes' /\ stream'[c] = "over"
      /\ \A d \in Clients \ {c} : UNCHANGED <<stream[d], replay[d], got[d], frames[d]>>
    BY <1>1, <1>2 DEF StreamTypes
<1>4. c \notin Registered' BY <1>3 DEF Registered
<1>5. ClientOK(c)' BY <1>1, <1>2, <1>3 DEF ClientOK
<1>6. \A d \in Clients \ {c} : d \in late' <=> d \in late BY <1>1
<1> QED BY <1>1, <1>3, <1>4, <1>5, <1>6, ServedStep

LEMMA FollowTail ==
    ASSUME NEW x \in Numbers, NEW lossy \in BOOLEAN, x # <<>>, Follow(x, lossy)
    PROVE  Follow(Tail(x), lossy)
<1>1. /\ Tail(x) \in Seq(Nat) /\ Len(Tail(x)) = Len(x) - 1 /\ Len(x) \in Nat \ {0}
      /\ \A i \in 1 .. Len(x) - 1 : Tail(x)[i] = x[i + 1]
    BY HeadTailProperties, EmptySeq DEF Numbers
<1>2. ASSUME NEW i \in 1 .. (Len(Tail(x)) - 1)
      PROVE  IF lossy THEN Tail(x)[i] < Tail(x)[i + 1] ELSE Tail(x)[i + 1] = Tail(x)[i] + 1
    <2>1. /\ i \in 1 .. Len(x) - 1 /\ i + 1 \in 1 .. Len(x) - 1 BY <1>1
    <2> QED BY <1>1, <2>1 DEF Follow
<1> QED BY <1>2 DEF Follow

LEMMA RecentStep ==
    ASSUME StreamInv, BusEvent, ~closed
    PROVE  RecentOK' /\ recent' \in Numbers
<1> DEFINE x == Append(recent, events')
<1>1. /\ recent' = Bounded(x) /\ events' = events + 1 /\ events' \in Nat /\ closed' = closed
      /\ recent \in Numbers /\ RecentOK /\ events \in Nat
    BY DEF StreamInv, StreamTypes, BusEvent
<1>2. /\ x \in Numbers /\ x # <<>> /\ Len(recent) \in Nat
      /\ Len(x) = Len(recent) + 1 /\ x[Len(x)] = events'
    <2>1. PICK e \in Nat : e = events' BY <1>1
    <2>2. x = Append(recent, e) BY <2>1
    <2>3. /\ Append(recent, e) \in Numbers /\ Append(recent, e) # <<>> /\ Len(recent) \in Nat
          /\ Len(Append(recent, e)) = Len(recent) + 1 /\ Append(recent, e)[Len(recent) + 1] = e
        BY <1>1, Appended
    <2> QED BY <2>1, <2>2, <2>3
<1>3. recent # <<>> => recent[Len(recent)] + 1 = events'
    <2>1. CASE events > 0 BY <1>1, <2>1 DEF RecentOK
    <2>2. CASE events = 0 BY <1>1, <2>2 DEF RecentOK
    <2> QED BY <1>1, <2>1, <2>2
<1>4. Follow(recent, FALSE) /\ FALSE \in BOOLEAN BY <1>1 DEF RecentOK
<1>5. Follow(x, FALSE) BY <1>1, <1>3, <1>4, FollowAppend
<1> HIDE DEF x
<1>6. recent' \in Numbers /\ Follow(recent', FALSE) /\ recent' # <<>>
      /\ recent'[Len(recent')] = events'
    <2>1. CASE Len(x) > MaxBuffer
        <3>1. recent' = Tail(x) BY <1>1, <2>1 DEF Bounded
        <3>2. Follow(Tail(x), FALSE) BY <1>2, <1>5, FollowTail
        <3>3. /\ Tail(x) \in Seq(Nat) /\ Len(Tail(x)) = Len(x) - 1 /\ Len(x) \in Nat
              /\ \A i \in 1 .. Len(x) - 1 : Tail(x)[i] = x[i + 1]
            BY <1>2, HeadTailProperties DEF Numbers
        <3>4. Len(Tail(x)) # 0 /\ Len(Tail(x)) \in 1 .. Len(x) - 1 /\ Len(Tail(x)) + 1 = Len(x)
            <4>1. MaxBuffer \in Nat /\ MaxBuffer > 0 BY StreamAssumption
            <4>2. Len(x) \in Nat BY <3>3
            <4>3. Len(x) > 1 BY <2>1, <4>1, <4>2
            <4>4. Len(x) - 1 \in 1 .. Len(x) - 1 /\ (Len(x) - 1) + 1 = Len(x) BY <4>2, <4>3
            <4> QED BY <3>3, <4>3, <4>4
        <3>5. Tail(x) # <<>> BY <3>4, EmptySeq
        <3>6. Tail(x)[Len(Tail(x))] = events' BY <1>2, <3>3, <3>4
        <3> QED BY <3>1, <3>2, <3>3, <3>5, <3>6 DEF Numbers
    <2>2. CASE ~(Len(x) > MaxBuffer)
        <3>1. recent' = x BY <1>1, <2>2 DEF Bounded
        <3> QED BY <1>2, <1>5, <3>1
    <2> QED BY <2>1, <2>2
<1>7. events' # 0 BY <1>1
<1> QED BY <1>6, <1>7, Zenon DEF RecentOK

\* A queue as a step of the dashboard leaves it.
LEMMA QueuedFor ==
    ASSUME StreamInv, NEW c \in Clients, NEW e
    PROVE  /\ c \notin Registered => Queued(c, e) = frames[c]
           /\ c \in Registered => Queued(c, e) = Bounded(Append(frames[c], e))
           /\ c \in Registered => (c \in dropped \cup Losing
                                   <=> c \in dropped \/ Len(frames[c]) = MaxBuffer)
BY DEF Queued, Losing, Full

LEMMA BusEventStep ==
    ASSUME StreamInv, BusEvent
    PROVE  StreamInv'
<1>1. /\ events' = events + 1 /\ UNCHANGED <<closed, stream, replay, got, late>>
      /\ StreamTypes /\ RecentOK /\ events \in Nat /\ closed \in BOOLEAN
      /\ Registered' = Registered
    BY DEF BusEvent, StreamInv, StreamTypes, Registered
<1>2. CASE closed
    <2>1. UNCHANGED <<recent, frames, dropped>> BY <1>2 DEF BusEvent
    <2>2. StreamTypes' BY <1>1, <2>1 DEF StreamTypes
    <2>3. RecentOK' BY <1>1, <1>2, <2>1 DEF RecentOK
    <2>4. ASSUME NEW c \in Clients
          PROVE  ClientOK(c)' /\ (c \in Registered' => StreamOK(c)')
        <3>1. ClientOK(c) /\ (c \in Registered => StreamOK(c)) BY ClientFacts
        <3>2. ClientOK(c)' BY <1>1, <2>1, <3>1 DEF ClientOK
        <3>3. InLine(c)' = InLine(c) BY <1>1, <2>1 DEF InLine
        <3>4. StreamOK(c) => StreamOK(c)' BY <1>1, <1>2, <2>1, <3>3 DEF StreamOK
        <3> QED BY <1>1, <3>1, <3>2, <3>4
    <2> QED BY <2>2, <2>3, <2>4 DEF StreamInv
<1>3. CASE ~closed
    <2> DEFINE e == events'
    <2>1. /\ frames' = [c \in Clients |-> Queued(c, e)] /\ dropped' = dropped \cup Losing
        BY <1>3 DEF BusEvent
    <2>2. e \in Nat /\ e # End /\ e = events + 1 BY <1>1 DEF End
    <2> HIDE DEF e
    <2>3. RecentOK' /\ recent' \in Numbers BY <1>3, RecentStep
    <2>4. ASSUME NEW c \in Clients
          PROVE  /\ frames'[c] \in Numbers
                 /\ ClientOK(c)' /\ (c \in Registered' => StreamOK(c)')
        <3>0. frames'[c] = Queued(c, e) BY <2>1
        <3>1. /\ got[c] \o replay[c] \in Numbers /\ frames[c] \in Numbers /\ ClientOK(c)
              /\ InLine(c) = (got[c] \o replay[c]) \o Queue(frames[c])
              /\ c \in Registered <=> stream[c] \in {"replay", "live"}
              /\ c \in Registered => StreamOK(c)
            BY ClientFacts
        <3>2. CASE c \notin Registered
            <4>1. frames'[c] = frames[c] BY <3>0, <3>2, QueuedFor
            <4>2. ClientOK(c)' BY <1>1, <3>1, <4>1 DEF ClientOK
            <4> QED BY <1>1, <3>1, <3>2, <4>1, <4>2
        <3>3. CASE c \in Registered
            <4> DEFINE a == got[c] \o replay[c]
                       q == frames[c]
                       n == Bounded(Append(q, e))
            <4>0. PICK lossy \in BOOLEAN : lossy <=> c \in dropped OBVIOUS
            <4>1. /\ frames'[c] = n
                  /\ c \in dropped' <=> (lossy \/ Len(q) = MaxBuffer)
                BY <2>1, <3>0, <3>3, <4>0, QueuedFor
            <4>2. QueueOK(q, FALSE)
                <5>1. closed = FALSE BY <1>1, <1>3
                <5> QED BY <3>1, <5>1 DEF ClientOK
            <4>3. StreamOK(c) BY <3>1, <3>3
            <4>4. InLine(c) = a \o Queue(q) BY <3>1
            <4>5. Follow(a \o Queue(q), lossy) BY <4>0, <4>3, <4>4 DEF StreamOK, Follow
            <4>6. a \o Queue(q) # <<>> => (a \o Queue(q))[Len(a \o Queue(q))] + 1 = e
                <5>1. CASE events > 0 BY <1>3, <2>2, <4>3, <4>4, <5>1 DEF StreamOK
                <5>2. CASE events = 0 BY <1>3, <4>3, <4>4, <5>2 DEF StreamOK
                <5>3. events > 0 \/ events = 0 BY <1>1
                <5> QED BY <5>1, <5>2, <5>3, Zenon
            <4>7. a \in Numbers /\ q \in Numbers BY <3>1
            <4> HIDE DEF a, q
            <4>8. /\ n \in Numbers /\ QueueOK(n, FALSE)
                  /\ Follow(a \o Queue(n), lossy \/ Len(q) = MaxBuffer)
                  /\ a \o Queue(n) # <<>> /\ (a \o Queue(n))[Len(a \o Queue(n))] = e
                <5>1. e \in Nat /\ e # End BY <2>2
                <5> QED BY <4>2, <4>5, <4>6, <4>7, <5>1, QueuedEvent, Zenon
            <4> HIDE DEF n
            <4>9. InLine(c)' = a \o Queue(n) BY <1>1, <4>1 DEF InLine, a
            <4>10. closed' = FALSE /\ events' = e /\ events' # 0 BY <1>1, <1>3, <2>2 DEF e, End
            <4>11. ClientOK(c)'
                <5>1. stream'[c] # "none" /\ (stream'[c] = "live" => replay'[c] = <<>>)
                    BY <1>1, <3>1, <3>3 DEF ClientOK
                <5>2. QueueOK(frames'[c], closed') BY <4>1, <4>8, <4>10
                <5> QED BY <5>1, <5>2 DEF ClientOK
            <4>12. StreamOK(c)'
                <5>2. Follow(InLine(c)', c \in dropped') BY <4>1, <4>8, <4>9 DEF Follow
                <5>3. InLine(c)'[Len(InLine(c)')] = events' BY <4>8, <4>9, <4>10
                <5> QED BY <4>10, <5>2, <5>3 DEF StreamOK
            <4> QED BY <4>1, <4>8, <4>11, <4>12
        <3> QED BY <3>2, <3>3
    <2>5. StreamTypes'
        <3>1. frames' \in [Clients -> Numbers] BY <2>1, <2>4
        <3>2. events' \in Nat BY <2>2 DEF e
        <3> QED BY <1>1, <2>3, <3>1, <3>2 DEF StreamTypes
    <2> QED BY <2>3, <2>4, <2>5 DEF StreamInv
<1> QED BY <1>2, <1>3

LEMMA CloseDashboardStep ==
    ASSUME StreamInv, CloseDashboard
    PROVE  StreamInv'
<1>1. /\ closed = FALSE /\ closed' = TRUE /\ UNCHANGED <<recent, stream, replay, events, got, late>>
      /\ frames' = [c \in Clients |-> Queued(c, End)] /\ dropped' = dropped \cup Losing
      /\ StreamTypes /\ RecentOK /\ Registered' = Registered
    BY DEF CloseDashboard, StreamInv, StreamTypes, Registered
<1>2. RecentOK' BY <1>1 DEF RecentOK
<1>3. ASSUME NEW c \in Clients
      PROVE  /\ frames'[c] \in Numbers
             /\ ClientOK(c)' /\ (c \in Registered' => StreamOK(c)')
    <2>0. frames'[c] = Queued(c, End) BY <1>1
    <2>1. /\ got[c] \o replay[c] \in Numbers /\ frames[c] \in Numbers /\ ClientOK(c)
          /\ InLine(c) = (got[c] \o replay[c]) \o Queue(frames[c])
          /\ c \in Registered <=> stream[c] \in {"replay", "live"}
          /\ c \in Registered => StreamOK(c)
        BY ClientFacts
    <2>2. QueueOK(frames[c], FALSE) BY <1>1, <2>1 DEF ClientOK
    <2>3. CASE c \notin Registered
        <3>1. frames'[c] = frames[c] BY <2>0, <2>3, QueuedFor
        <3>2. QueueOK(frames[c], TRUE) BY <2>2 DEF QueueOK
        <3>3. ClientOK(c)' BY <1>1, <2>1, <3>1, <3>2 DEF ClientOK
        <3> QED BY <1>1, <2>1, <2>3, <3>1, <3>3
    <2>4. CASE c \in Registered
        <3> DEFINE a == got[c] \o replay[c]
                   q == frames[c]
                   n == Bounded(Append(q, End))
        <3>0. PICK lossy \in BOOLEAN : lossy <=> c \in dropped OBVIOUS
        <3>1. /\ frames'[c] = n
              /\ c \in dropped' <=> (lossy \/ Len(q) = MaxBuffer)
            BY <1>1, <2>0, <2>4, <3>0, QueuedFor
        <3>2. Follow(a \o Queue(q), lossy)
            <4>1. StreamOK(c) BY <2>1, <2>4
            <4> QED BY <2>1, <3>0, <4>1 DEF StreamOK, Follow
        <3>3. a \in Numbers /\ q \in Numbers /\ QueueOK(q, FALSE)
            BY <2>1, <2>2
        <3> HIDE DEF a, q
        <3>4. /\ n \in Numbers /\ QueueOK(n, TRUE)
              /\ Follow(a \o Queue(n), lossy \/ Len(q) = MaxBuffer)
              /\ \E i \in 1 .. Len(n) : n[i] = End
            BY <3>2, <3>3, QueuedEnd, Zenon
        <3> HIDE DEF n
        <3>5. InLine(c)' = a \o Queue(n) BY <1>1, <3>1 DEF InLine, a
        <3>6. ClientOK(c)'
            <4>1. stream'[c] # "none" /\ (stream'[c] = "live" => replay'[c] = <<>>)
                BY <1>1, <2>1, <2>4 DEF ClientOK
            <4>2. QueueOK(frames'[c], closed') BY <1>1, <3>1, <3>4
            <4> QED BY <4>1, <4>2 DEF ClientOK
        <3>7. StreamOK(c)'
            <4>2. Follow(InLine(c)', c \in dropped') BY <3>1, <3>4, <3>5 DEF Follow
            <4> QED BY <1>1, <3>1, <3>4, <4>2 DEF StreamOK
        <3> QED BY <3>1, <3>4, <3>6, <3>7
    <2> QED BY <2>3, <2>4
<1>4. StreamTypes'
    <2>1. frames' \in [Clients -> Numbers] BY <1>1, <1>3
    <2> QED BY <1>1, <2>1 DEF StreamTypes
<1> QED BY <1>2, <1>3, <1>4 DEF StreamInv

LEMMA StreamInvNext == StreamInv /\ [StreamNext]_streamVars => StreamInv'
<1> SUFFICES ASSUME StreamInv, [StreamNext]_streamVars PROVE StreamInv' OBVIOUS
<1>1. CASE BusEvent BY <1>1, BusEventStep
<1>2. CASE CloseDashboard BY <1>2, CloseDashboardStep
<1>3. CASE \E c \in Clients : OpenStream(c) \/ Replayed(c) \/ NextFrame(c) \/ Leave(c)
    BY <1>3, OpenStreamStep, ReplayedStep, NextFrameStep, LeaveStep
<1>4. CASE StartServer \/ ServerStarts \/ ServerExits \/ UNCHANGED streamVars
    <2>1. UNCHANGED <<closed, recent, stream, replay, frames, events, got, dropped, late>>
        BY <1>4 DEF StartServer, ServerStarts, ServerExits, streamVars
    <2>2. StreamTypes' /\ RecentOK' BY <2>1 DEF StreamInv, StreamTypes, RecentOK
    <2>3. ASSUME NEW c \in Clients
          PROVE  ClientOK(c)' /\ (c \in Registered' => StreamOK(c)')
        <3>1. ClientOK(c) /\ (c \in Registered => StreamOK(c)) BY ClientFacts
        <3>2. ClientOK(c)' BY <2>1, <3>1 DEF ClientOK
        <3>3. InLine(c)' = InLine(c) /\ Registered' = Registered BY <2>1 DEF InLine, Registered
        <3>4. StreamOK(c) => StreamOK(c)' BY <2>1, <3>3 DEF StreamOK
        <3> QED BY <3>1, <3>2, <3>3, <3>4
    <2> QED BY <2>2, <2>3 DEF StreamInv
<1> QED BY <1>1, <1>2, <1>3, <1>4 DEF StreamNext

LEMMA StreamInvWhole == StreamInv => StreamsWhole
<1> SUFFICES ASSUME StreamInv, NEW c \in Registered
             PROVE  LET s == InLine(c) IN
                /\ \A i \in 1 .. (Len(s) - 1) :
                    IF c \in dropped THEN s[i] < s[i + 1] ELSE s[i + 1] = s[i] + 1
                /\ ~closed /\ events > 0 /\ s # <<>> => s[Len(s)] = events
                /\ closed /\ c \notin late => \E i \in 1 .. Len(frames[c]) : frames[c][i] = End
    BY DEF StreamsWhole
<1>1. StreamOK(c) BY ClientFacts DEF Registered
<1> QED BY <1>1, Zenon DEF StreamOK, Follow

\* However many clients come and go, and whenever the dashboard closes, each
\* gets the events in order and none twice, from its replay into its queue
\* without a gap, loses only the oldest and only to a full queue, and is told
\* to end if its stream was open at the close (dashboard.py:86-113, 225-239).
THEOREM StreamsAreWhole == StreamSpec => []StreamsWhole
<1>1. StreamSpec => []StreamInv BY StreamInvInit, StreamInvNext, PTL DEF StreamSpec
<1> QED BY <1>1, StreamInvWhole, PTL
=============================================================================
