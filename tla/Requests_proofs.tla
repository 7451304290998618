--------------------------- MODULE Requests_proofs ---------------------------
(***************************************************************************)
(* What is asked of others and answered later: the throttled candles of    *)
(* data/yahoo.py, the amendments of brokers/binance.py, the model that     *)
(* engine/async_signal.py asks for a decision, the pool of workers of      *)
(* engine/optimize.py; and the windows of engine/walk_forward.py, which    *)
(* hand their equity on: see the README for the arguments.                 *)
(***************************************************************************)
EXTENDS YahooFetch, BinanceOrders, ModelSignal, Optimizer, WalkForward,
        FiniteSetTheorems, SequenceTheorems, WellFoundedInduction, TLAPS

-----------------------------------------------------------------------------
(* data/yahoo.py: the slots of the process-wide throttle, the candles of   *)
(* a span.                                                                 *)

\* A fetch under way; chunks may end before time 0.
FetchRecords ==
    [phase : {"idle", "read", "guard", "sleep", "get", "backoff", "done", "failed"},
     asked : Nat, read : Nat, at : Nat, chunkEnd : Int, remaining : Int, attempt : Nat,
     rows : SUBSET Nat]

FetchTypes ==
    /\ time \in Nat /\ nextRequestAt \in Nat
    /\ fetch \in [Fetchers -> FetchRecords]
    /\ slots \in Seq([at : Nat, delay : Nat])

\* The next slot is after the delay of every slot given out.
Reserved == \A i \in 1 .. Len(slots) : slots[i].at + slots[i].delay <= nextRequestAt

SlotInv == FetchTypes /\ Reserved /\ SlotsSpaced

-----------------------------------------------------------------------------
(* What a step does to one fetch.                                           *)

\* A field that is given a value of its type.
LEMMA RecordFacts ==
    ASSUME NEW r \in FetchRecords
    PROVE  /\ \A v \in {"idle", "read", "guard", "sleep", "get", "backoff", "done", "failed"} :
                  [r EXCEPT !.phase = v] \in FetchRecords
           /\ \A v \in Nat : [r EXCEPT !.asked = v] \in FetchRecords
           /\ \A v \in Nat : [r EXCEPT !.read = v] \in FetchRecords
           /\ \A v \in Nat : [r EXCEPT !.at = v] \in FetchRecords
           /\ \A v \in Int : [r EXCEPT !.chunkEnd = v] \in FetchRecords
           /\ \A v \in Int : [r EXCEPT !.remaining = v] \in FetchRecords
           /\ \A v \in Nat : [r EXCEPT !.attempt = v] \in FetchRecords
           /\ \A v \in SUBSET Nat : [r EXCEPT !.rows = v] \in FetchRecords
<1> USE DEF FetchRecords
<1>1. \A v \in {"idle", "read", "guard", "sleep", "get", "backoff", "done", "failed"} :
          [r EXCEPT !.phase = v] \in FetchRecords
    OBVIOUS
<1>2. \A v \in Nat : [r EXCEPT !.read = v] \in FetchRecords OBVIOUS
<1>3. \A v \in Nat : [r EXCEPT !.at = v] \in FetchRecords OBVIOUS
<1>4. \A v \in Int : [r EXCEPT !.chunkEnd = v] \in FetchRecords OBVIOUS
<1>5. \A v \in Int : [r EXCEPT !.remaining = v] \in FetchRecords OBVIOUS
<1>6. \A v \in Nat : [r EXCEPT !.attempt = v] \in FetchRecords OBVIOUS
<1>7. \A v \in SUBSET Nat : [r EXCEPT !.rows = v] \in FetchRecords OBVIOUS
<1>8. \A v \in Nat : [r EXCEPT !.asked = v] \in FetchRecords OBVIOUS
<1> HIDE DEF FetchRecords
<1> QED BY <1>1, <1>2, <1>3, <1>4, <1>5, <1>6, <1>7, <1>8

LEMMA ElementTyped ==
    ASSUME NEW S, NEW s \in Seq(S), NEW i \in 1 .. Len(s)
    PROVE  s[i] \in S
OBVIOUS

\* A step that changes one fetch and no slot keeps the invariant.
LEMMA FetchMoves ==
    ASSUME SlotInv, NEW f \in Fetchers, NEW r \in FetchRecords,
           fetch' = [fetch EXCEPT ![f] = r], UNCHANGED <<time, nextRequestAt, slots>>
    PROVE  SlotInv'
<1>1. FetchTypes' BY DEF SlotInv, FetchTypes
<1> QED BY <1>1 DEF SlotInv, Reserved, SlotsSpaced

-----------------------------------------------------------------------------
LEMMA SlotInvInit == FetchInit => SlotInv
<1> SUFFICES ASSUME FetchInit PROVE SlotInv OBVIOUS
<1>1. NoFetch \in FetchRecords BY DEF NoFetch, FetchRecords
<1>2. slots \in Seq([at : Nat, delay : Nat]) /\ Len(slots) = 0 BY DEF FetchInit
<1>3. FetchTypes BY <1>1, <1>2, FetchAssumption DEF FetchInit, FetchTypes
<1> QED BY <1>2, <1>3 DEF SlotInv, Reserved, SlotsSpaced

\* _rate_limited_get: the slot is at or after the last reservation, which it renews.
LEMMA SlotTaken ==
    ASSUME SlotInv, NEW f \in Fetchers, TakeSlot(f)
    PROVE  SlotInv'
<1> DEFINE at == Most(fetch[f].read, nextRequestAt)
           slot == [at |-> at, delay |-> MinDelay[f]]
           a == [fetch[f] EXCEPT !.phase = "sleep"]
           b == [a EXCEPT !.at = at]
<1>1. /\ fetch[f] \in FetchRecords /\ fetch[f].read \in Nat /\ nextRequestAt \in Nat
      /\ MinDelay[f] \in Nat /\ slots \in Seq([at : Nat, delay : Nat])
    BY FetchAssumption DEF SlotInv, FetchTypes, FetchRecords
<1>2. at \in Nat /\ at >= nextRequestAt BY <1>1 DEF Most
<1>3. /\ nextRequestAt' = at + MinDelay[f] /\ slots' = Append(slots, slot)
      /\ fetch' = [fetch EXCEPT ![f] = b] /\ time' = time
    BY DEF TakeSlot
<1> HIDE DEF at
<1>4. a \in FetchRecords BY <1>1, RecordFacts
<1> HIDE DEF a
<1>5. b \in FetchRecords BY <1>2, <1>4, RecordFacts
<1> HIDE DEF b
<1>6. slot \in [at : Nat, delay : Nat] /\ slot.at = at /\ slot.delay = MinDelay[f]
    BY <1>1, <1>2
<1> HIDE DEF slot
<1>7. /\ Len(slots) \in Nat /\ Len(slots') = Len(slots) + 1 /\ slots'[Len(slots')] = slot
      /\ \A i \in 1 .. Len(slots) : slots'[i] = slots[i] /\ slots[i].at \in Nat /\ slots[i].delay \in Nat
    <2>1. /\ Len(slots) \in Nat /\ Len(slots') = Len(slots) + 1 /\ slots'[Len(slots')] = slot
          /\ \A i \in 1 .. Len(slots) : slots'[i] = slots[i]
        BY <1>1, <1>3, <1>6
    <2>2. \A i \in 1 .. Len(slots) : slots[i] \in [at : Nat, delay : Nat]
        BY <1>1, ElementTyped
    <2> QED BY <2>1, <2>2
<1>8. FetchTypes' BY <1>1, <1>2, <1>3, <1>5, <1>6 DEF SlotInv, FetchTypes
<1>9. Reserved'
    <2> SUFFICES ASSUME NEW i \in 1 .. Len(slots')
                 PROVE  slots'[i].at + slots'[i].delay <= nextRequestAt'
        BY DEF Reserved
    <2>1. CASE i = Len(slots') BY <1>1, <1>2, <1>3, <1>6, <1>7, <2>1
    <2>2. CASE i # Len(slots')
        <3>1. i \in 1 .. Len(slots) BY <1>7, <2>2
        <3>2. slots[i].at + slots[i].delay <= nextRequestAt BY <3>1 DEF SlotInv, Reserved
        <3>3. slots[i].at \in Nat /\ slots[i].delay \in Nat /\ slots'[i] = slots[i]
            BY <1>7, <3>1
        <3>4. nextRequestAt' \in Nat /\ nextRequestAt <= nextRequestAt' BY <1>1, <1>2, <1>3
        <3> QED BY <1>1, <3>2, <3>3, <3>4
    <2> QED BY <2>1, <2>2
<1>10. SlotsSpaced'
    <2> SUFFICES ASSUME NEW i \in 1 .. Len(slots'), NEW j \in 1 .. Len(slots'), i < j
                 PROVE  slots'[j].at >= slots'[i].at + slots'[i].delay
        BY DEF SlotsSpaced
    <2>1. i \in 1 .. Len(slots) BY <1>7
    <2>2. CASE j = Len(slots')
        <3>1. slots'[i].at + slots'[i].delay <= nextRequestAt BY <1>7, <2>1 DEF SlotInv, Reserved
        <3>2. slots'[j].at = at BY <1>6, <1>7, <2>2
        <3>3. /\ slots'[i].at \in Nat /\ slots'[i].delay \in Nat
              /\ nextRequestAt \in Nat /\ at \in Nat /\ nextRequestAt <= at
            BY <1>1, <1>2, <1>7, <2>1
        <3> QED BY <3>1, <3>2, <3>3
    <2>3. CASE j # Len(slots')
        <3>1. j \in 1 .. Len(slots) BY <1>7, <2>3
        <3> QED BY <1>7, <2>1, <3>1 DEF SlotInv, SlotsSpaced
    <2> QED BY <2>2, <2>3
<1> QED BY <1>8, <1>9, <1>10 DEF SlotInv

LEMMA SlotInvNext ==
    ASSUME SlotInv, [FetchNext]_fetchVars
    PROVE  SlotInv'
<1>1. \A f \in Fetchers : fetch[f] \in FetchRecords BY DEF SlotInv, FetchTypes
<1>2. time \in Nat /\ nextRequestAt \in Nat BY DEF SlotInv, FetchTypes
<1>3. ASSUME NEW f \in Fetchers, Fetch(f) PROVE SlotInv'
    <2> DEFINE a == [NoFetch EXCEPT !.phase = "read"]
               b == [a EXCEPT !.asked = time]
               c == [b EXCEPT !.chunkEnd = time]
               r == [c EXCEPT !.remaining = Span[f]]
    <2>1. Span[f] \in Int BY FetchAssumption
    <2>2. fetch' = [fetch EXCEPT ![f] = r] /\ UNCHANGED <<time, nextRequestAt, slots>>
        BY <1>3 DEF Fetch
    <2>3. NoFetch \in FetchRecords BY DEF NoFetch, FetchRecords
    <2>4. a \in FetchRecords BY <2>3, RecordFacts
    <2> HIDE DEF a
    <2>5. b \in FetchRecords BY <1>2, <2>4, RecordFacts
    <2> HIDE DEF b
    <2>6. c \in FetchRecords
        <3>1. time \in Int BY <1>2
        <3> QED BY <2>5, <3>1, RecordFacts
    <2> HIDE DEF c
    <2>7. r \in FetchRecords BY <2>1, <2>6, RecordFacts
    <2> HIDE DEF r
    <2> QED BY <2>2, <2>7, FetchMoves
<1>4. ASSUME NEW f \in Fetchers, ReadClock(f) PROVE SlotInv'
    <2> DEFINE a == [fetch[f] EXCEPT !.phase = "guard"]
               r == [a EXCEPT !.read = time]
    <2>1. a \in FetchRecords BY <1>1, RecordFacts
    <2>2. fetch' = [fetch EXCEPT ![f] = r] /\ UNCHANGED <<time, nextRequestAt, slots>>
        BY <1>4 DEF ReadClock
    <2> HIDE DEF a
    <2>3. r \in FetchRecords BY <1>2, <2>1, RecordFacts
    <2> HIDE DEF r
    <2> QED BY <2>2, <2>3, FetchMoves
<1>5. ASSUME NEW f \in Fetchers, TakeSlot(f) PROVE SlotInv' BY <1>5, SlotTaken
<1>6. ASSUME NEW f \in Fetchers, SendFetch(f) PROVE SlotInv'
    <2> DEFINE r == [fetch[f] EXCEPT !.phase = "get"]
    <2>1. fetch' = [fetch EXCEPT ![f] = r] /\ UNCHANGED <<time, nextRequestAt, slots>>
        BY <1>6 DEF SendFetch
    <2>2. r \in FetchRecords BY <1>1, RecordFacts
    <2> HIDE DEF r
    <2> QED BY <2>1, <2>2, FetchMoves
<1>7. ASSUME NEW f \in Fetchers, ChunkArrives(f) PROVE SlotInv'
    <2> DEFINE start == ChunkStart(f)
               left == fetch[f].remaining - Least(fetch[f].remaining, MaxSpan)
               rows == fetch[f].rows \cup (Most(0, start) .. fetch[f].chunkEnd)
               over == left <= 0 \/ start - 1 <= 0
               a == [fetch[f] EXCEPT !.rows = rows]
               b == [a EXCEPT !.remaining = left]
               c == [b EXCEPT !.chunkEnd = start - 1]
               d == [c EXCEPT !.attempt = 0]
               r == [d EXCEPT !.phase = IF over THEN "done" ELSE "read"]
    <2>1. /\ fetch[f].remaining \in Int /\ fetch[f].chunkEnd \in Int /\ fetch[f].rows \subseteq Nat
          /\ MaxSpan \in Nat /\ FetchEnd \in Nat
        BY <1>1, FetchAssumption DEF FetchRecords
    <2>2. start \in Int /\ left \in Int /\ rows \in SUBSET Nat
        BY <2>1 DEF ChunkStart, Least, Most
    <2>3. fetch' = [fetch EXCEPT ![f] = r] /\ UNCHANGED <<time, nextRequestAt, slots>>
        BY <1>7 DEF ChunkArrives
    <2> HIDE DEF start, left, rows, over
    <2>4. a \in FetchRecords BY <1>1, <2>2, RecordFacts
    <2> HIDE DEF a
    <2>5. b \in FetchRecords BY <2>2, <2>4, RecordFacts
    <2> HIDE DEF b
    <2>6. c \in FetchRecords
        <3>1. start - 1 \in Int BY <2>2
        <3> QED BY <2>5, <3>1, RecordFacts
    <2> HIDE DEF c
    <2>7. d \in FetchRecords BY <2>6, RecordFacts
    <2> HIDE DEF d
    <2>8. r \in FetchRecords BY <2>7, RecordFacts
    <2> HIDE DEF r
    <2> QED BY <2>3, <2>8, FetchMoves
<1>8. ASSUME NEW f \in Fetchers, NEW retryable \in BOOLEAN, RequestFails(f, retryable) PROVE SlotInv'
    <2> DEFINE again == retryable /\ fetch[f].attempt < Most(1, MaxRetries) - 1
               a == [fetch[f] EXCEPT !.phase = "backoff"]
               b == [a EXCEPT !.attempt = fetch[f].attempt + 1]
               r == [b EXCEPT !.at = time + Backoff]
               s == [fetch[f] EXCEPT !.phase = "failed"]
    <2>1. UNCHANGED <<time, nextRequestAt, slots>> BY <1>8 DEF RequestFails
    <2>2. CASE again
        <3>1. fetch' = [fetch EXCEPT ![f].phase = "backoff", ![f].attempt = @ + 1,
                                     ![f].at = time + Backoff]
            BY <1>8, <2>2 DEF RequestFails
        <3>2. fetch[f].attempt + 1 \in Nat /\ time + Backoff \in Nat
            BY <1>1, <1>2, FetchAssumption DEF FetchRecords
        <3>3. a.attempt = fetch[f].attempt /\ a \in FetchRecords
            <4>1. a \in FetchRecords BY <1>1, RecordFacts
            <4>2. a.attempt = fetch[f].attempt BY <1>1 DEF FetchRecords
            <4> QED BY <4>1, <4>2
        <3>4. fetch' = [fetch EXCEPT ![f] = r] BY <3>1, <3>3
        <3> HIDE DEF a
        <3>5. b \in FetchRecords BY <3>2, <3>3, RecordFacts
        <3> HIDE DEF b
        <3>6. r \in FetchRecords BY <3>2, <3>5, RecordFacts
        <3> HIDE DEF r
        <3> QED BY <2>1, <3>4, <3>6, FetchMoves
    <2>3. CASE ~ again
        <3>1. fetch' = [fetch EXCEPT ![f] = s] BY <1>8, <2>3 DEF RequestFails
        <3>2. s \in FetchRecords BY <1>1, RecordFacts
        <3> HIDE DEF s
        <3> QED BY <2>1, <3>1, <3>2, FetchMoves
    <2> QED BY <2>2, <2>3
<1>9. ASSUME NEW f \in Fetchers, Retry(f) PROVE SlotInv'
    <2> DEFINE r == [fetch[f] EXCEPT !.phase = "read"]
    <2>1. fetch' = [fetch EXCEPT ![f] = r] /\ UNCHANGED <<time, nextRequestAt, slots>>
        BY <1>9 DEF Retry
    <2>2. r \in FetchRecords BY <1>1, RecordFacts
    <2> HIDE DEF r
    <2> QED BY <2>1, <2>2, FetchMoves
<1>10. CASE Second BY <1>2, <1>10 DEF Second, SlotInv, FetchTypes, Reserved, SlotsSpaced
<1>11. CASE UNCHANGED fetchVars
    BY <1>11 DEF fetchVars, SlotInv, FetchTypes, Reserved, SlotsSpaced
<1> QED BY <1>3, <1>4, <1>5, <1>6, <1>7, <1>8, <1>9, <1>10, <1>11 DEF FetchNext

\* For any fetchers, delays and retries the throttle keeps its distance
\* (_rate_limited_get).
THEOREM SlotsAreSpaced == FetchSpec => []SlotsSpaced
<1>1. SlotInv => SlotsSpaced BY DEF SlotInv
<1> QED BY <1>1, SlotInvInit, SlotInvNext, PTL DEF FetchSpec

-----------------------------------------------------------------------------
(* The chunks of a fetch.                                                   *)

\* The chunks so far reach from the end of the next one to the time of the
\* call, and what remains reaches as far back as the span.
Covering(r, span) ==
    r.phase # "idle" =>
        /\ r.chunkEnd - r.remaining <= r.asked - span
        /\ \A t \in Nat : t > r.chunkEnd /\ t <= r.asked => t \in r.rows
        /\ r.phase = "done" => r.chunkEnd < r.asked - span \/ r.chunkEnd <= 0

SpanInv == \A f \in Fetchers : Covering(fetch[f], Span[f])

\* A step of one fetch.
LEMMA SpanMoves ==
    ASSUME SlotInv, SpanInv, NEW f \in Fetchers, NEW r,
           fetch' = [fetch EXCEPT ![f] = r], Covering(r, Span[f])
    PROVE  SpanInv'
<1>1. \A g \in Fetchers : fetch'[g] = IF g = f THEN r ELSE fetch[g]
    BY DEF SlotInv, FetchTypes
<1> QED BY <1>1 DEF SpanInv

\* Between two chunks nothing is lost: no retry goes back or ahead.
LEMMA SpanWaits ==
    ASSUME SlotInv, SpanInv, NEW f \in Fetchers, fetch[f].phase # "idle",
           NEW r \in FetchRecords, r.phase # "done",
           r.asked = fetch[f].asked, r.chunkEnd = fetch[f].chunkEnd,
           r.remaining = fetch[f].remaining, r.rows = fetch[f].rows
    PROVE  Covering(r, Span[f])
BY DEF SpanInv, Covering

LEMMA ChunkCovers ==
    ASSUME SlotInv, SpanInv, NEW f \in Fetchers, ChunkArrives(f)
    PROVE  SpanInv'
<1> DEFINE r == fetch'[f]
           start == ChunkStart(f)
           take == Least(fetch[f].remaining, MaxSpan)
<1>1. /\ fetch[f] \in FetchRecords /\ fetch[f].asked \in Nat /\ fetch[f].chunkEnd \in Int
      /\ fetch[f].remaining \in Int /\ MaxSpan \in Nat /\ Span[f] \in Nat
    BY FetchAssumption DEF SlotInv, FetchTypes, FetchRecords
<1>2. take \in Int /\ take <= fetch[f].remaining /\ start = fetch[f].chunkEnd - take
    BY <1>1 DEF ChunkStart, Least
<1> HIDE DEF take
<1>3. fetch[f].phase = "get" BY DEF ChunkArrives
<1>4. /\ fetch' = [fetch EXCEPT ![f] = r]
      /\ r.asked = fetch[f].asked /\ r.remaining = fetch[f].remaining - take
      /\ r.chunkEnd = start - 1
      /\ r.rows = fetch[f].rows \cup (Most(0, start) .. fetch[f].chunkEnd)
      /\ r.phase = "done" => r.remaining <= 0 \/ r.chunkEnd <= 0
    <2>1. r = [fetch[f] EXCEPT
                  !.rows = fetch[f].rows \cup (Most(0, start) .. fetch[f].chunkEnd),
                  !.remaining = fetch[f].remaining - take,
                  !.chunkEnd = start - 1, !.attempt = 0,
                  !.phase = IF fetch[f].remaining - take <= 0 \/ start - 1 <= 0
                            THEN "done" ELSE "read"]
        BY DEF ChunkArrives, SlotInv, FetchTypes, take
    <2>2. fetch' = [fetch EXCEPT ![f] = r] BY DEF ChunkArrives, SlotInv, FetchTypes
    <2> HIDE DEF r, start
    <2> QED BY <1>1, <2>1, <2>2 DEF FetchRecords
<1> HIDE DEF r, start
<1>5. \A t \in Nat : t > r.chunkEnd /\ t <= r.asked => t \in r.rows
    <2> SUFFICES ASSUME NEW t \in Nat, t > r.chunkEnd, t <= r.asked PROVE t \in r.rows
        OBVIOUS
    <2>1. t >= start BY <1>1, <1>2, <1>4
    <2>2. CASE t > fetch[f].chunkEnd BY <1>3, <1>4, <2>2 DEF SpanInv, Covering
    <2>3. CASE ~(t > fetch[f].chunkEnd)
        <3>1. t \in Most(0, start) .. fetch[f].chunkEnd BY <1>1, <1>2, <2>1, <2>3 DEF Most
        <3> QED BY <1>4, <3>1
    <2> QED BY <2>2, <2>3
<1>6. fetch[f].chunkEnd - fetch[f].remaining <= fetch[f].asked - Span[f]
    BY <1>3 DEF SpanInv, Covering
<1>7. r.chunkEnd - r.remaining < r.asked - Span[f] BY <1>1, <1>2, <1>4, <1>6
<1>8. r.phase = "done" => r.chunkEnd < r.asked - Span[f] \/ r.chunkEnd <= 0
    BY <1>1, <1>2, <1>4, <1>7
<1>9. r.chunkEnd - r.remaining <= r.asked - Span[f] BY <1>1, <1>2, <1>4, <1>7
<1>10. Covering(r, Span[f]) BY <1>5, <1>8, <1>9 DEF Covering
<1> QED BY <1>4, <1>10, SpanMoves

LEMMA SpanInvInit == FetchInit => SpanInv
BY DEF FetchInit, SpanInv, Covering, NoFetch

LEMMA SpanInvNext ==
    ASSUME SlotInv, SpanInv, SlotInv', [FetchNext]_fetchVars
    PROVE  SpanInv'
<1>1. \A f \in Fetchers : fetch[f] \in FetchRecords /\ fetch'[f] \in FetchRecords
    BY DEF SlotInv, FetchTypes
<1>2. ASSUME NEW f \in Fetchers, Fetch(f) PROVE SpanInv'
    <2> DEFINE r == fetch'[f]
    <2>1. /\ fetch' = [fetch EXCEPT ![f] = r] /\ r.asked = time /\ r.chunkEnd = time
          /\ r.remaining = Span[f] /\ r.phase = "read"
        BY <1>2 DEF Fetch, NoFetch, SlotInv, FetchTypes
    <2>2. time \in Nat /\ Span[f] \in Nat BY FetchAssumption DEF SlotInv, FetchTypes
    <2> HIDE DEF r
    <2>3. Covering(r, Span[f]) BY <2>1, <2>2 DEF Covering
    <2> QED BY <2>1, <2>3, SpanMoves
<1>3. ASSUME NEW f \in Fetchers, fetch' = [fetch EXCEPT ![f] = fetch'[f]],
             fetch[f].phase # "idle", fetch'[f].phase # "done",
             fetch'[f].asked = fetch[f].asked, fetch'[f].chunkEnd = fetch[f].chunkEnd,
             fetch'[f].remaining = fetch[f].remaining, fetch'[f].rows = fetch[f].rows
      PROVE  SpanInv'
    <2>1. PICK r \in FetchRecords : r = fetch'[f] BY <1>1
    <2>2. Covering(r, Span[f]) BY <1>3, <2>1, SpanWaits
    <2> QED BY <1>3, <2>1, <2>2, SpanMoves
<1>4. ASSUME NEW f \in Fetchers, ReadClock(f) PROVE SpanInv'
    <2>1. /\ fetch[f].phase = "read"
          /\ fetch'[f] = [fetch[f] EXCEPT !.phase = "guard", !.read = time]
          /\ fetch' = [fetch EXCEPT ![f] = fetch'[f]]
        BY <1>4 DEF ReadClock, SlotInv, FetchTypes
    <2> QED BY <1>1, <1>3, <2>1 DEF FetchRecords
<1>5. ASSUME NEW f \in Fetchers, TakeSlot(f) PROVE SpanInv'
    <2> DEFINE at == Most(fetch[f].read, nextRequestAt)
    <2>1. /\ fetch[f].phase = "guard"
          /\ fetch'[f] = [fetch[f] EXCEPT !.phase = "sleep", !.at = at]
          /\ fetch' = [fetch EXCEPT ![f] = fetch'[f]]
        BY <1>5 DEF TakeSlot, SlotInv, FetchTypes
    <2> HIDE DEF at
    <2> QED BY <1>1, <1>3, <2>1 DEF FetchRecords
<1>6. ASSUME NEW f \in Fetchers, SendFetch(f) PROVE SpanInv'
    BY <1>1, <1>3, <1>6 DEF SendFetch, FetchRecords, SlotInv, FetchTypes
<1>7. ASSUME NEW f \in Fetchers, ChunkArrives(f) PROVE SpanInv' BY <1>7, ChunkCovers
<1>8. ASSUME NEW f \in Fetchers, NEW retryable \in BOOLEAN, RequestFails(f, retryable)
      PROVE SpanInv'
    <2>1. /\ fetch[f].phase = "get"
          /\ \/ fetch' = [fetch EXCEPT ![f].phase = "backoff", ![f].attempt = @ + 1,
                                       ![f].at = time + Backoff]
             \/ fetch' = [fetch EXCEPT ![f].phase = "failed"]
        BY <1>8 DEF RequestFails
    <2>2. CASE fetch' = [fetch EXCEPT ![f].phase = "backoff", ![f].attempt = @ + 1,
                                      ![f].at = time + Backoff]
        <3> DEFINE again == fetch[f].attempt + 1
                   at == time + Backoff
                   a == [fetch[f] EXCEPT !.phase = "backoff"]
        <3>1. a.attempt = fetch[f].attempt BY <1>1 DEF FetchRecords
        <3>2. /\ fetch'[f] = [fetch[f] EXCEPT !.phase = "backoff", !.attempt = again, !.at = at]
              /\ fetch' = [fetch EXCEPT ![f] = fetch'[f]]
            BY <2>2, <3>1 DEF SlotInv, FetchTypes
        <3> HIDE DEF again, at
        <3> QED BY <1>1, <1>3, <2>1, <3>2 DEF FetchRecords
    <2>3. CASE fetch' = [fetch EXCEPT ![f].phase = "failed"]
        <3>1. /\ fetch'[f] = [fetch[f] EXCEPT !.phase = "failed"]
              /\ fetch' = [fetch EXCEPT ![f] = fetch'[f]]
            BY <2>3 DEF SlotInv, FetchTypes
        <3> QED BY <1>1, <1>3, <2>1, <3>1 DEF FetchRecords
    <2> QED BY <2>1, <2>2, <2>3
<1>9. ASSUME NEW f \in Fetchers, Retry(f) PROVE SpanInv'
    BY <1>1, <1>3, <1>9 DEF Retry, FetchRecords, SlotInv, FetchTypes
<1>10. CASE Second \/ UNCHANGED fetchVars
    BY <1>10 DEF Second, fetchVars, SpanInv
<1> QED BY <1>2, <1>4, <1>5, <1>6, <1>7, <1>8, <1>9, <1>10 DEF FetchNext

\* However many chunks a span is cut into, and whatever is retried between
\* them, a fetch that ends well has every candle of it (fetch_historical).
THEOREM SpansAreCovered == FetchSpec => []SpanCovered
<1>1. SlotInv /\ SpanInv => SpanCovered
    <2> SUFFICES ASSUME SlotInv, SpanInv, NEW f \in Fetchers, fetch[f].phase = "done",
                        NEW t \in Most(1, fetch[f].asked - Span[f]) .. fetch[f].asked
                 PROVE  t \in fetch[f].rows
        BY DEF SpanCovered
    <2>1. /\ fetch[f].asked \in Nat /\ fetch[f].chunkEnd \in Int /\ Span[f] \in Nat
        BY FetchAssumption DEF SlotInv, FetchTypes, FetchRecords
    <2>2. fetch[f].chunkEnd < fetch[f].asked - Span[f] \/ fetch[f].chunkEnd <= 0
        BY DEF SpanInv, Covering
    <2>3. t \in Nat /\ t > fetch[f].chunkEnd /\ t <= fetch[f].asked
        BY <2>1, <2>2 DEF Most
    <2> QED BY <2>3 DEF SpanInv, Covering
<1>2. SlotInv /\ SpanInv /\ [FetchNext]_fetchVars => SlotInv' /\ SpanInv'
    BY SlotInvNext, SpanInvNext
<1> QED BY <1>1, <1>2, SlotInvInit, SpanInvInit, PTL DEF FetchSpec

-----------------------------------------------------------------------------
(* brokers/binance.py: amendments, completed from the receipts.            *)

\* One task uses the adapter, and looks an order up after a failed amendment.
Careful == LooksUp /\ \A c, d \in Requesters : c = d

Receipts ==
    [type : {"", "market", "limit", "stop", "stop_limit"}, qty : Nat, price : Nat,
     status : {"", "new", "canceled", "filled"}]
Requests ==
    [op : {"", "submit", "cancel", "open", "status", "modify"}, id : Nat,
     sent : Receipts, asked : Receipts, phase : {"idle", "sent", "answered"},
     rows : [VenueIds -> Receipts]]

BinanceTypes ==
    /\ venue \in [VenueIds -> Receipts] /\ receipts \in [VenueIds -> Receipts]
    /\ wanted \in [VenueIds -> Receipts] /\ requested \in [Requesters -> Requests]

Same(r, s) == r.qty = s.qty /\ r.price = s.price

\* What is sent leaves a field that is not asked for as the venue has it.
Completed(sent, asked, order) == sent = asked \/ (asked = 0 /\ sent \in {0, order})

\* A call under way, while the venue has the orders v.
CallOK(r, v) ==
    /\ r.op = "submit" => r.sent = r.asked /\ r.sent.status = "new"
    /\ r.op \in {"cancel", "status"} => r.id \in VenueIds
    /\ r.op = "modify" => r.id \in VenueIds /\ v[r.id] # NoReceipt
    /\ r.op = "modify" /\ r.phase = "sent" =>
          /\ Completed(r.sent.qty, r.asked.qty, v[r.id].qty)
          /\ Completed(r.sent.price, r.asked.price, v[r.id].price)
    /\ r.op = "modify" /\ r.phase = "answered" => r.rows[r.id] # NoReceipt
    /\ \A i \in VenueIds : r.rows[i] # NoReceipt => v[i] # NoReceipt /\ Same(r.rows[i], v[i])

\* The answer to an amendment of i is on its way.
Amending(i) ==
    \E c \in Requesters : requested[c].op = "modify" /\ requested[c].phase = "answered"
                       /\ requested[c].id = i

\* A receipt is what the venue has, unless an amendment failed or is under way.
Fresh ==
    \A i \in VenueIds :
        /\ receipts[i] # NoReceipt \/ i \in doubtful => venue[i] # NoReceipt
        /\ i \in doubtful \/ Amending(i) \/ receipts[i] = NoReceipt \/ Same(receipts[i], venue[i])

CallsOK == \A c \in Requesters : CallOK(requested[c], venue)

BinanceInv == BinanceTypes /\ CallsOK /\ Fresh /\ AsAsked

\* The venue has every order it had, with its quantity and price.
Kept(v, w) == \A i \in VenueIds : v[i] # NoReceipt => w[i] # NoReceipt /\ Same(v[i], w[i])

LEMMA NothingIsReceipt ==
    /\ NoReceipt \in Receipts /\ NothingSaid \in [VenueIds -> Receipts]
    /\ NoReceipt.qty = 0 /\ NoReceipt.price = 0 /\ NoReceipt.status = ""
BY DEF NoReceipt, Receipts, NothingSaid

LEMMA CallKept ==
    ASSUME NEW r, NEW v, NEW w, CallOK(r, v), Kept(v, w)
    PROVE  CallOK(r, w)
BY DEF CallOK, Kept, Same

LEMMA RestOK == ASSUME NEW v PROVE NoRequest \in Requests /\ CallOK(NoRequest, v)
<1>1. NoRequest \in Requests BY NothingIsReceipt DEF NoRequest, Requests
<1>2. CallOK(NoRequest, v) BY DEF NoRequest, CallOK, NothingSaid
<1> QED BY <1>1, <1>2

LEMMA BinanceInvInit == BinanceInit => BinanceInv
<1> SUFFICES ASSUME BinanceInit PROVE BinanceInv OBVIOUS
<1>1. BinanceTypes BY NothingIsReceipt, RestOK DEF BinanceInit, BinanceTypes
<1>2. CallsOK BY RestOK DEF BinanceInit, CallsOK
<1>3. Fresh /\ AsAsked BY DEF BinanceInit, Fresh, AsAsked, NothingSaid
<1> QED BY <1>1, <1>2, <1>3 DEF BinanceInv

\* A caller sends a request that its receipts complete.
LEMMA Sends ==
    ASSUME BinanceInv, NEW c \in Requesters, NEW op \in {"submit", "cancel", "open", "status", "modify"},
           NEW id \in Nat, NEW sent \in Receipts, NEW asked \in Receipts,
           SendRequest(c, op, id, sent, asked),
           op = "submit" => sent = asked /\ sent.status = "new",
           op \in {"cancel", "status"} => id \in VenueIds,
           op = "modify" => /\ id \in VenueIds /\ venue[id] # NoReceipt
                            /\ Completed(sent.qty, asked.qty, venue[id].qty)
                            /\ Completed(sent.price, asked.price, venue[id].price)
    PROVE  BinanceInv'
<1> DEFINE r == [op |-> op, id |-> id, sent |-> sent, asked |-> asked, phase |-> "sent",
                 rows |-> NothingSaid]
<1>1. /\ requested' = [requested EXCEPT ![c] = r] /\ requested[c].phase = "idle"
      /\ UNCHANGED <<venue, receipts, doubtful, wanted>>
    BY DEF SendRequest
<1>2. r \in Requests BY NothingIsReceipt DEF Requests
<1>3. /\ r.op = op /\ r.id = id /\ r.sent = sent /\ r.asked = asked /\ r.phase = "sent"
      /\ r.rows = NothingSaid
    OBVIOUS
<1> HIDE DEF r
<1>4. CallOK(r, venue) BY <1>3 DEF CallOK, NothingSaid
<1>5. BinanceTypes' BY <1>1, <1>2 DEF BinanceInv, BinanceTypes
<1>6. CallsOK' BY <1>1, <1>4 DEF BinanceInv, BinanceTypes, CallsOK
<1>7. \A i : Amending(i) => Amending(i)'
    BY <1>1 DEF BinanceInv, BinanceTypes, Amending
<1>8. Fresh' /\ AsAsked' BY <1>1, <1>7 DEF BinanceInv, Fresh, AsAsked
<1> QED BY <1>5, <1>6, <1>8 DEF BinanceInv

\* The venue changes orders, but no quantity or price.
LEMMA VenueKeeps ==
    ASSUME BinanceInv, venue' \in [VenueIds -> Receipts], Kept(venue, venue'),
           \A i \in VenueIds : Same(venue[i], venue'[i]),
           UNCHANGED <<receipts, requested, doubtful, wanted>>
    PROVE  BinanceInv'
<1>1. BinanceTypes' BY DEF BinanceInv, BinanceTypes
<1>2. CallsOK' BY CallKept DEF BinanceInv, CallsOK
<1>3. \A i : Amending(i)' <=> Amending(i) BY DEF Amending
<1>4. Fresh' BY <1>3 DEF BinanceInv, Fresh, Kept, Same
<1>5. AsAsked' BY DEF BinanceInv, AsAsked, Same
<1> QED BY <1>1, <1>2, <1>4, <1>5 DEF BinanceInv

\* A status is not a quantity, nor a price.
LEMMA StatusSet ==
    ASSUME BinanceTypes, NEW i \in VenueIds, venue[i].status = "new",
           NEW s \in {"canceled", "filled"}, venue' = [venue EXCEPT ![i].status = s]
    PROVE  /\ venue' \in [VenueIds -> Receipts] /\ Kept(venue, venue')
           /\ \A j \in VenueIds : Same(venue[j], venue'[j])
<1>1. venue[i] \in Receipts BY DEF BinanceTypes
<1>2. PICK r : r = [venue[i] EXCEPT !.status = s] OBVIOUS
<1>3. r \in Receipts /\ r.status = s /\ Same(venue[i], r)
    <2>1. s \in {"", "new", "canceled", "filled"} OBVIOUS
    <2>2. \A q \in Receipts : \A t \in {"", "new", "canceled", "filled"} :
              LET z == [q EXCEPT !.status = t]
              IN  z \in Receipts /\ z.status = t /\ z.qty = q.qty /\ z.price = q.price
        BY DEF Receipts
    <2> QED BY <1>1, <1>2, <2>1, <2>2 DEF Same
<1>4. r # NoReceipt BY <1>3, NothingIsReceipt
<1>5. venue' = [venue EXCEPT ![i] = r] BY <1>2
<1>6. venue'[i] = r /\ \A j \in VenueIds : j # i => venue'[j] = venue[j]
    BY <1>5 DEF BinanceTypes
<1> QED BY <1>3, <1>4, <1>5, <1>6 DEF BinanceTypes, Kept, Same

\* The answer of a call has the rows it is given.
LEMMA ReplyOK ==
    ASSUME BinanceTypes, NEW c \in Requesters, NEW rows \in [VenueIds -> Receipts], Reply(c, rows),
           requested[c].phase = "sent", CallOK(requested[c], venue), Kept(venue, venue'),
           \A i \in VenueIds : rows[i] # NoReceipt => venue'[i] # NoReceipt /\ Same(rows[i], venue'[i]),
           requested[c].op = "modify" => rows[requested[c].id] # NoReceipt
    PROVE  /\ requested' \in [Requesters -> Requests] /\ CallOK(requested'[c], venue')
           /\ requested'[c].op = requested[c].op /\ requested'[c].id = requested[c].id
           /\ requested'[c].phase = "answered"
<1>1. requested[c] \in Requests BY DEF BinanceTypes
<1>2. PICK r : r = [requested[c] EXCEPT !.phase = "answered", !.rows = rows] OBVIOUS
<1>3. requested' = [requested EXCEPT ![c] = r] BY <1>2 DEF Reply, BinanceTypes
<1>4. /\ r \in Requests /\ r.phase = "answered" /\ r.rows = rows /\ r.op = requested[c].op
      /\ r.id = requested[c].id /\ r.sent = requested[c].sent /\ r.asked = requested[c].asked
    BY <1>1, <1>2 DEF Requests
<1>5. requested'[c] = r BY <1>3 DEF BinanceTypes
<1>6. CallOK(r, venue') BY <1>4 DEF CallOK, Kept
<1> QED BY <1>3, <1>4, <1>5, <1>6 DEF BinanceTypes

\* One order of the venue, and of what is wanted, is another after the step.
LEMMA VenueSets ==
    ASSUME BinanceInv, Careful, NEW c \in Requesters, NEW id \in VenueIds,
           requested[c].phase = "sent", NEW r \in Receipts, NEW w \in Receipts,
           Same(r, w), r # NoReceipt,
           venue' = [venue EXCEPT ![id] = r], wanted' = [wanted EXCEPT ![id] = w],
           Reply(c, RowNow(id)), UNCHANGED <<receipts, doubtful>>,
           \/ requested[c].op = "submit" /\ venue[id] = NoReceipt
           \/ requested[c].op = "modify" /\ requested[c].id = id
    PROVE  BinanceInv'
<1>1. /\ venue' \in [VenueIds -> Receipts] /\ wanted' \in [VenueIds -> Receipts]
      /\ venue'[id] = r /\ wanted'[id] = w
      /\ \A i \in VenueIds \ {id} : venue'[i] = venue[i] /\ wanted'[i] = wanted[i]
    BY DEF BinanceInv, BinanceTypes
<1>2. PICK rows : rows = RowNow(id) OBVIOUS
<1>3. /\ rows \in [VenueIds -> Receipts] /\ rows[id] = r
      /\ \A i \in VenueIds \ {id} : rows[i] = NoReceipt
    BY <1>1, <1>2, NothingIsReceipt DEF RowNow, NothingSaid
<1>4. CallOK(requested[c], venue) BY DEF BinanceInv, CallsOK
<1>5. PICK q : q = [requested[c] EXCEPT !.phase = "answered", !.rows = rows] OBVIOUS
<1>6. requested' = [requested EXCEPT ![c] = q]
    BY <1>2, <1>5 DEF Reply, BinanceInv, BinanceTypes
<1>7. requested[c] \in Requests BY DEF BinanceInv, BinanceTypes
<1>8. /\ q \in Requests /\ q.phase = "answered" /\ q.rows = rows /\ q.op = requested[c].op
      /\ q.id = requested[c].id /\ q.sent = requested[c].sent /\ q.asked = requested[c].asked
    BY <1>3, <1>5, <1>7 DEF Requests
<1>9. requested'[c] = q /\ \A d \in Requesters : d = c
    BY <1>6 DEF BinanceInv, BinanceTypes, Careful
<1>10. CallOK(q, venue') BY <1>1, <1>3, <1>4, <1>8 DEF CallOK, Same
<1>11. CallsOK' BY <1>9, <1>10 DEF CallsOK
<1>12. BinanceTypes' BY <1>1, <1>6, <1>8 DEF BinanceInv, BinanceTypes
<1>13. AsAsked' BY <1>1 DEF BinanceInv, AsAsked, Same
<1>14. Fresh'
    <2>1. \A i \in VenueIds : ~ Amending(i) BY <1>9 DEF Amending
    <2>2. requested[c].op = "submit" => receipts[id] = NoReceipt /\ id \notin doubtful
        BY DEF BinanceInv, Fresh
    <2>3. requested[c].op = "modify" => Amending(id)' BY <1>8, <1>9 DEF Amending
    <2>4. \A i \in VenueIds \ {id} :
              /\ receipts[i] # NoReceipt \/ i \in doubtful => venue'[i] # NoReceipt
              /\ i \in doubtful \/ receipts[i] = NoReceipt \/ Same(receipts[i], venue'[i])
        BY <1>1, <2>1 DEF BinanceInv, Fresh
    <2> QED BY <1>1, <2>2, <2>3, <2>4 DEF Fresh
<1> QED BY <1>11, <1>12, <1>13, <1>14 DEF BinanceInv

\* An answer to a call that changes no order's quantity or price.
LEMMA Answered ==
    ASSUME BinanceInv, Careful, NEW c \in Requesters, requested[c].phase = "sent",
           requested[c].op # "modify", NEW rows \in [VenueIds -> Receipts], Reply(c, rows),
           \A i \in VenueIds : rows[i] # NoReceipt => venue'[i] # NoReceipt /\ Same(rows[i], venue'[i]),
           venue' \in [VenueIds -> Receipts], Kept(venue, venue'),
           \A i \in VenueIds : Same(venue[i], venue'[i]),
           UNCHANGED <<receipts, doubtful, wanted>>
    PROVE  BinanceInv'
<1>1. BinanceTypes /\ Fresh /\ CallOK(requested[c], venue) BY DEF BinanceInv, CallsOK
<1>2. /\ requested' \in [Requesters -> Requests] /\ CallOK(requested'[c], venue')
      /\ requested'[c].op # "modify"
    BY <1>1, ReplyOK
<1>3. \A d \in Requesters : d = c BY DEF Careful
<1>4. BinanceTypes' BY <1>1, <1>2 DEF BinanceTypes
<1>5. CallsOK' BY <1>2, <1>3 DEF CallsOK
<1>6. \A i : ~ Amending(i) BY <1>3 DEF Amending
<1>7. Fresh' BY <1>1, <1>6 DEF Fresh, Kept, Same
<1>8. AsAsked' BY DEF BinanceInv, AsAsked, Same
<1> QED BY <1>4, <1>5, <1>7, <1>8 DEF BinanceInv

\* An amendment sets the fields it names.
LEMMA AmendedFacts ==
    ASSUME NEW r \in Receipts, NEW fields \in Receipts
    PROVE  LET a == Amended(r, fields)
           IN  /\ a \in Receipts /\ a.qty = Or(fields.qty, r.qty)
               /\ a.price = Or(fields.price, r.price) /\ a.status = r.status
<1>1. Or(fields.qty, r.qty) \in Nat /\ Or(fields.price, r.price) \in Nat BY DEF Receipts, Or
<1> QED BY <1>1 DEF Receipts, Amended

LEMMA BinanceInvNext ==
    ASSUME Careful, BinanceInv, [BinanceNext]_binanceVars
    PROVE  BinanceInv'
<1> USE BinanceAssumption
<1>1. BinanceTypes /\ CallsOK /\ Fresh BY DEF BinanceInv
<1>2. \A c \in Requesters : requested[c] \in Requests /\ CallOK(requested[c], venue)
    BY <1>1 DEF BinanceTypes, CallsOK
<1>3. ASSUME UNCHANGED <<venue, receipts, requested, doubtful, wanted>> PROVE BinanceInv'
    BY <1>3 DEF BinanceInv, BinanceTypes, CallsOK, Fresh, Amending, AsAsked
<1>4. ASSUME NEW c \in Requesters, SubmitOrder(c) PROVE BinanceInv'
    <2>1. PICK t \in VenueTickets :
              LET order == NewOrder(t.type, t.qty, t.price)
              IN  SendRequest(c, "submit", 0, order, order)
        BY <1>4 DEF SubmitOrder
    <2>2. PICK order : order = NewOrder(t.type, t.qty, t.price) OBVIOUS
    <2>3. order \in Receipts /\ order.status = "new" BY <2>2 DEF NewOrder, Receipts
    <2>4. PICK op : op = "submit" OBVIOUS
    <2>5. SendRequest(c, op, 0, order, order) BY <2>1, <2>2, <2>4
    <2> QED BY <2>3, <2>4, <2>5, Sends
<1>5. ASSUME NEW c \in Requesters, NEW op \in {"cancel", "open", "status"}, NEW id \in Nat,
             SendRequest(c, op, id, NoReceipt, NoReceipt), op # "open" => id \in VenueIds
      PROVE  BinanceInv'
    <2>1. PICK none \in Receipts : none = NoReceipt BY NothingIsReceipt
    <2>2. /\ op \in {"submit", "cancel", "open", "status", "modify"}
          /\ op # "submit" /\ op # "modify"
          /\ op \in {"cancel", "status"} => id \in VenueIds
          /\ SendRequest(c, op, id, none, none)
        BY <1>5, <2>1
    <2> QED BY <2>2, Sends
<1>6. ASSUME NEW c \in Requesters, GetOpenOrders(c) PROVE BinanceInv'
    BY <1>5, <1>6 DEF GetOpenOrders
<1>7. ASSUME NEW c \in Requesters, NEW id \in VenueIds, CancelVenueOrder(c, id) PROVE BinanceInv'
    BY <1>5, <1>7 DEF CancelVenueOrder, VenueIds
<1>8. ASSUME NEW c \in Requesters, NEW id \in VenueIds, GetOrderStatus(c, id) PROVE BinanceInv'
    BY <1>5, <1>8 DEF GetOrderStatus, VenueIds
<1>9. ASSUME NEW c \in Requesters, NEW id \in VenueIds, venue[id] # NoReceipt, ModifyOrder(c, id)
      PROVE  BinanceInv'
    <2>1. PICK qty \in Quantities \cup {0}, price \in LimitPrices \cup {0} :
              LET changes == [NoReceipt EXCEPT !.qty = qty, !.price = price]
                  sent == Amendment(id, changes)
              IN  /\ Amendable(id, sent) /\ ~(LooksUp /\ id \in doubtful)
                  /\ SendRequest(c, "modify", id, sent, changes)
        BY <1>9 DEF ModifyOrder
    <2>2. PICK changes : changes = [NoReceipt EXCEPT !.qty = qty, !.price = price] OBVIOUS
    <2>3. PICK sent : sent = Amendment(id, changes) OBVIOUS
    <2>4. changes \in Receipts
        <3>1. qty \in Nat /\ price \in Nat OBVIOUS
        <3> QED BY <2>2, <3>1 DEF NoReceipt, Receipts
    <2>5. id \notin doubtful BY <2>1 DEF Careful
    <2>6. ~ Amending(id)
        <3>1. requested[c].phase = "idle" BY <2>1 DEF SendRequest
        <3> QED BY <3>1 DEF Careful, Amending
    <2>7. /\ receipts[id] \in Receipts
          /\ receipts[id] = NoReceipt \/ Same(receipts[id], venue[id])
        BY <1>1, <2>5, <2>6 DEF Fresh, BinanceTypes
    <2>8. /\ receipts[id].qty \in {0, venue[id].qty} /\ receipts[id].price \in {0, venue[id].price}
        BY <2>7, NothingIsReceipt DEF Same
    <2>9. /\ sent \in Receipts
          /\ Completed(sent.qty, changes.qty, venue[id].qty)
          /\ Completed(sent.price, changes.price, venue[id].price)
        <3>1. CASE venueKind = "spot" BY <2>3, <2>4, <3>1 DEF Amendment, Completed
        <3>2. CASE venueKind # "spot"
            <4> DEFINE q == IF changes.qty # 0 THEN changes.qty ELSE receipts[id].qty
                       p == IF changes.price # 0 THEN changes.price ELSE receipts[id].price
                       a == [changes EXCEPT !.qty = q]
            <4>1. q \in Nat /\ p \in Nat BY <2>4, <2>7 DEF Receipts
            <4>2. a \in Receipts /\ a.price = changes.price /\ a.qty = q
                <5> HIDE DEF q
                <5> QED BY <2>4, <4>1 DEF Receipts
            <4>3. sent = [a EXCEPT !.price = p] BY <2>3, <2>4, <3>2, <4>2 DEF Amendment, Receipts
            <4>4. sent \in Receipts /\ sent.qty = q /\ sent.price = p
                <5> HIDE DEF p, a
                <5> QED BY <4>1, <4>2, <4>3 DEF Receipts
            <4> QED BY <2>8, <4>4 DEF Completed
        <3> QED BY <3>1, <3>2
    <2>10. PICK op : op = "modify" OBVIOUS
    <2>11. SendRequest(c, op, id, sent, changes) /\ id \in Nat
        BY <2>1, <2>2, <2>3, <2>10 DEF VenueIds
    <2> QED BY <1>9, <2>4, <2>9, <2>10, <2>11, Sends
<1>10. ASSUME NEW c \in Requesters, VenueSubmits(c) PROVE BinanceInv'
    <2>1. PICK id \in VenueIds :
              /\ venue[id] = NoReceipt
              /\ venue' = [venue EXCEPT ![id] = requested[c].sent]
              /\ wanted' = [wanted EXCEPT ![id] = requested[c].asked]
              /\ Reply(c, RowNow(id))
        BY <1>10 DEF VenueSubmits
    <2>2. /\ requested[c].phase = "sent" /\ requested[c].op = "submit"
          /\ UNCHANGED <<receipts, doubtful>>
        BY <1>10 DEF VenueSubmits, At
    <2>3. /\ requested[c].sent = requested[c].asked /\ requested[c].sent.status = "new"
          /\ requested[c].sent \in Receipts
        BY <1>2, <2>2 DEF CallOK, Requests
    <2>4. PICK r \in Receipts : r = requested[c].sent BY <2>3
    <2>5. Same(r, r) /\ r # NoReceipt BY <2>3, <2>4, NothingIsReceipt DEF Same
    <2> QED BY <2>1, <2>2, <2>3, <2>4, <2>5, VenueSets
<1>11. ASSUME NEW c \in Requesters, VenueCancels(c) PROVE BinanceInv'
    <2> DEFINE id == requested[c].id
    <2>1. /\ requested[c].phase = "sent" /\ requested[c].op = "cancel" /\ venue[id].status = "new"
          /\ venue' = [venue EXCEPT ![id].status = "canceled"] /\ Reply(c, NothingSaid)
          /\ UNCHANGED <<receipts, doubtful, wanted>>
        BY <1>11 DEF VenueCancels, At
    <2>2. id \in VenueIds BY <1>2, <2>1 DEF CallOK
    <2> HIDE DEF id
    <2>3. PICK s \in {"canceled", "filled"} : s = "canceled" OBVIOUS
    <2>4. venue' = [venue EXCEPT ![id].status = s] BY <2>1, <2>3
    <2>5. /\ venue' \in [VenueIds -> Receipts] /\ Kept(venue, venue')
          /\ \A j \in VenueIds : Same(venue[j], venue'[j])
        BY <1>1, <2>1, <2>2, <2>4, StatusSet
    <2>6. PICK rows : rows = NothingSaid OBVIOUS
    <2>7. rows \in [VenueIds -> Receipts] /\ \A i \in VenueIds : rows[i] = NoReceipt
        BY <2>6, NothingIsReceipt DEF NothingSaid
    <2> QED BY <2>1, <2>5, <2>6, <2>7, Answered
<1>12. ASSUME NEW c \in Requesters, VenueAmends(c) PROVE BinanceInv'
    <2> DEFINE id == requested[c].id
               sent == requested[c].sent
               asked == requested[c].asked
    <2>1. /\ requested[c].phase = "sent" /\ requested[c].op = "modify"
          /\ venue[id].status = "new"
          /\ venue' = [venue EXCEPT ![id] = Amended(@, sent)]
          /\ wanted' = [wanted EXCEPT ![id] = Amended(@, asked)]
          /\ Reply(c, RowNow(id)) /\ UNCHANGED <<receipts, doubtful>>
        BY <1>12 DEF VenueAmends, At
    <2>2. /\ id \in VenueIds /\ sent \in Receipts /\ asked \in Receipts
          /\ Completed(sent.qty, asked.qty, venue[id].qty)
          /\ Completed(sent.price, asked.price, venue[id].price)
        BY <1>2, <2>1 DEF CallOK, Requests
    <2>3. venue[id] \in Receipts /\ wanted[id] \in Receipts /\ Same(venue[id], wanted[id])
        BY <1>1, <2>2 DEF BinanceInv, BinanceTypes, AsAsked, Same
    <2> HIDE DEF id, sent, asked
    <2>4. PICK r, w : r = Amended(venue[id], sent) /\ w = Amended(wanted[id], asked) OBVIOUS
    <2>5. /\ r \in Receipts /\ r.qty = Or(sent.qty, venue[id].qty)
          /\ r.price = Or(sent.price, venue[id].price) /\ r.status = venue[id].status
        BY <2>2, <2>3, <2>4, AmendedFacts
    <2>6. /\ w \in Receipts /\ w.qty = Or(asked.qty, wanted[id].qty)
          /\ w.price = Or(asked.price, wanted[id].price)
        BY <2>2, <2>3, <2>4, AmendedFacts
    <2>7. Same(r, w) BY <2>2, <2>3, <2>5, <2>6 DEF Same, Completed, Or
    <2>8. r # NoReceipt BY <2>1, <2>5, NothingIsReceipt
    <2>9. venue' = [venue EXCEPT ![id] = r] /\ wanted' = [wanted EXCEPT ![id] = w]
        BY <2>1, <2>4
    <2> QED BY <2>1, <2>2, <2>5, <2>6, <2>7, <2>8, <2>9, VenueSets DEF id
<1>13. ASSUME NEW c \in Requesters, VenueReads(c) PROVE BinanceInv'
    <2> DEFINE id == requested[c].id
    <2>1. /\ requested[c].phase = "sent" /\ requested[c].op \in {"status", "open"}
          /\ UNCHANGED <<venue, receipts, doubtful, wanted>>
        BY <1>13 DEF VenueReads, At
    <2>2. PICK rows : /\ Reply(c, rows)
                      /\ \/ /\ requested[c].op = "status"
                            /\ rows = [NothingSaid EXCEPT ![id] = venue[id]]
                         \/ rows = [i \in VenueIds |-> IF venue[i].status = "new" THEN venue[i]
                                                     ELSE NoReceipt]
        BY <1>13 DEF VenueReads, At
    <2>3. requested[c].op = "status" => id \in VenueIds BY <1>2 DEF CallOK
    <2> HIDE DEF id
    <2>4. /\ rows \in [VenueIds -> Receipts]
          /\ \A i \in VenueIds : rows[i] # NoReceipt => rows[i] = venue[i]
        BY <1>1, <2>2, <2>3, NothingIsReceipt DEF BinanceTypes, NothingSaid
    <2>5. \A i \in VenueIds : rows[i] # NoReceipt => venue'[i] # NoReceipt /\ Same(rows[i], venue'[i])
        BY <2>1, <2>4 DEF Same
    <2>6. venue' \in [VenueIds -> Receipts] /\ Kept(venue, venue')
          /\ \A i \in VenueIds : Same(venue[i], venue'[i])
        BY <1>1, <2>1 DEF BinanceTypes, Kept, Same
    <2> QED BY <2>1, <2>2, <2>4, <2>5, <2>6, Answered
<1>14. ASSUME NEW id \in VenueIds, VenueCloses(id) PROVE BinanceInv'
    <2>1. PICK s \in {"canceled", "filled"} : s = "filled" OBVIOUS
    <2>2. /\ venue' = [venue EXCEPT ![id].status = s] /\ venue[id].status = "new"
          /\ UNCHANGED <<receipts, requested, doubtful, wanted>>
        BY <1>14, <2>1 DEF VenueCloses
    <2>3. /\ venue' \in [VenueIds -> Receipts] /\ Kept(venue, venue')
          /\ \A j \in VenueIds : Same(venue[j], venue'[j])
        BY <1>1, <2>2, StatusSet
    <2> QED BY <2>2, <2>3, VenueKeeps
<1>15. ASSUME NEW c \in Requesters, ReturnCall(c) PROVE BinanceInv'
    <2> DEFINE rows == requested[c].rows
    <2>1. /\ requested[c].phase = "answered"
          /\ receipts' = [i \in VenueIds |-> IF i \in Told(c) THEN rows[i] ELSE receipts[i]]
          /\ doubtful' = doubtful \ Told(c)
          /\ requested' = [requested EXCEPT ![c] = NoRequest]
          /\ UNCHANGED <<venue, wanted>>
        BY <1>15 DEF ReturnCall
    <2>2. /\ rows \in [VenueIds -> Receipts]
          /\ \A i \in Told(c) : venue[i] # NoReceipt /\ Same(rows[i], venue[i])
        BY <1>2 DEF Requests, CallOK, Told
    <2>3. \A i \in VenueIds : Amending(i) => i \in Told(c)
        BY <1>2 DEF Amending, Careful, CallOK, Told
    <2> HIDE DEF rows
    <2>4. BinanceTypes' BY <1>1, <2>1, <2>2, RestOK DEF BinanceTypes
    <2>5. CallsOK' BY <1>1, <2>1, RestOK DEF BinanceTypes, CallsOK
    <2>6. \A i \in VenueIds :
              /\ i \in Told(c) => receipts'[i] = rows[i] /\ i \notin doubtful'
              /\ i \notin Told(c) => receipts'[i] = receipts[i] /\ (i \in doubtful' <=> i \in doubtful)
        BY <2>1
    <2>7. Fresh' BY <1>1, <2>1, <2>2, <2>3, <2>6 DEF Fresh
    <2> QED BY <2>1, <2>4, <2>5, <2>7 DEF BinanceInv, AsAsked
<1>16. ASSUME NEW c \in Requesters, UNCHANGED <<venue, receipts, wanted>>,
              \/ UNCHANGED <<requested, doubtful>>
              \/ /\ requested' \in [Requesters -> {NoRequest}]
                 /\ doubtful' = doubtful \cup Raised(c)
       PROVE  BinanceInv'
    <2>1. CASE UNCHANGED <<requested, doubtful>> BY <1>3, <1>16, <2>1
    <2>2. CASE requested' \in [Requesters -> {NoRequest}] /\ doubtful' = doubtful \cup Raised(c)
        <3>1. BinanceTypes' BY <1>1, <1>16, <2>2, RestOK DEF BinanceTypes
        <3>2. CallsOK' BY <2>2, RestOK DEF CallsOK
        <3>3. \A i \in VenueIds : Amending(i) => i \in Raised(c)
            BY DEF Amending, Careful, Raised
        <3>4. \A i \in Raised(c) : venue[i] # NoReceipt BY <1>2 DEF Raised, CallOK
        <3>5. Fresh' BY <1>1, <1>16, <2>2, <3>3, <3>4 DEF Fresh
        <3> QED BY <1>16, <3>1, <3>2, <3>5 DEF BinanceInv, AsAsked
    <2> QED BY <1>16, <2>1, <2>2
<1>17. ASSUME NEW c \in Requesters, CallFails(c) PROVE BinanceInv'
    <2>1. requested' \in [Requesters -> {NoRequest}]
        BY <1>1, <1>17 DEF CallFails, BinanceTypes, Careful
    <2> QED BY <1>16, <1>17, <2>1 DEF CallFails
<1>18. CASE DisconnectBinance
    <2>1. CASE UNCHANGED <<doubtful, requested>> BY <1>3, <1>18, <2>1 DEF DisconnectBinance
    <2>2. CASE /\ doubtful' = doubtful \cup UNION {Raised(c) : c \in Requesters}
               /\ requested' = [c \in Requesters |-> NoRequest]
        <3>1. CASE Requesters = {}
            <4>1. UNCHANGED <<requested, doubtful>> BY <1>1, <2>2, <3>1 DEF BinanceTypes
            <4> QED BY <1>3, <1>18, <4>1 DEF DisconnectBinance
        <3>2. CASE Requesters # {}
            <4>1. PICK c \in Requesters : TRUE BY <3>2
            <4>2. doubtful' = doubtful \cup Raised(c) BY <2>2, <4>1 DEF Careful
            <4>3. requested' \in [Requesters -> {NoRequest}] BY <2>2
            <4> QED BY <1>16, <1>18, <4>2, <4>3 DEF DisconnectBinance
        <3> QED BY <3>1, <3>2
    <2> QED BY <1>18, <2>1, <2>2 DEF DisconnectBinance
<1>19. CASE ConnectBinance BY <1>3, <1>19 DEF ConnectBinance
<1>20. CASE UNCHANGED binanceVars BY <1>3, <1>20 DEF binanceVars
<1> QED BY <1>4, <1>6, <1>7, <1>8, <1>9, <1>10, <1>11, <1>12, <1>13, <1>14, <1>15, <1>17, <1>18,
           <1>19, <1>20 DEF BinanceNext

\* For any orders and amendments of one task that looks an order up after an
\* amendment failed, the venue has every order as it was last asked for
\* (BinanceBroker.modify_order).
THEOREM AmendedAsAsked == Careful => (BinanceSpec => []AsAsked)
<1> SUFFICES ASSUME Careful PROVE BinanceSpec => []AsAsked OBVIOUS
<1>1. BinanceInv => AsAsked BY DEF BinanceInv
<1>2. BinanceInv /\ [BinanceNext]_binanceVars => BinanceInv' BY BinanceInvNext
<1> QED BY <1>1, <1>2, BinanceInvInit, PTL DEF BinanceSpec

-----------------------------------------------------------------------------
(* engine/async_signal.py: the signal of one backtest after the other.     *)

RunStates == {"new", "running", "over", "raised"}

SignalTypes ==
    /\ barIndex \in [Backtests -> Nat] /\ waits \in [Backtests -> BOOLEAN]
    /\ runState \in [Backtests -> RunStates]
    /\ DOMAIN decided = Backtests
    /\ log \in Seq([time : Nat, result : Decisions \union {Skip}])

\* One backtest runs, and only that one awaits an answer.
InTurn ==
    /\ \A b, c \in Backtests : runState[b] = "running" /\ runState[c] = "running" => b = c
    /\ \A b \in Backtests : waits[b] => runState[b] = "running" /\ barIndex[b] <= SignalBars

\* The bar asked about has no answer yet.
Unanswered == \A b \in Backtests : waits[b] => barIndex[b] \notin DOMAIN cache

\* What was decided is what is kept.
DecidedKept ==
    \A b \in Backtests : \A i \in DOMAIN decided[b] :
        i \in DOMAIN cache /\ decided[b][i] = cache[i]

LogKept ==
    /\ \A m, n \in 1 .. Len(log) : log[m].time = log[n].time => m = n
    /\ \A m \in 1 .. Len(log) : log[m].time \in DOMAIN cache /\ cache[log[m].time] = log[m].result

SignalInv == SignalTypes /\ InTurn /\ Unanswered /\ DecidedKept /\ LogKept

LEMMA SignalInvInit == SignalInit => SignalInv
<1> SUFFICES ASSUME SignalInit PROVE SignalInv OBVIOUS
<1> USE DEF SignalInit
<1>1. Len(log) = 0 /\ \A b \in Backtests : DOMAIN decided[b] = {} OBVIOUS
<1>2. SignalTypes BY DEF SignalTypes, RunStates
<1> QED BY <1>1, <1>2 DEF SignalInv, InTurn, Unanswered, DecidedKept, LogKept

\* A step that decides nothing keeps the invariant, if one backtest runs and waits.
LEMMA NothingDecided ==
    ASSUME SignalInv, SignalTypes', InTurn', Unanswered', UNCHANGED <<decided, cache, log>>
    PROVE  SignalInv'
BY DEF SignalInv, DecidedKept, LogKept

\* The answer to the bar asked about, which had none, is kept and logged once.
LEMMA AnswerKept ==
    ASSUME SignalInv, NEW b \in Backtests, waits[b], NEW d \in Decisions \union {Skip},
           Keep(barIndex[b], d), waits' = [waits EXCEPT ![b] = FALSE],
           UNCHANGED decided \/ Decide(b, d), SignalTypes', InTurn'
    PROVE  SignalInv'
<1> DEFINE i == barIndex[b]
<1>1. i \notin DOMAIN cache BY DEF SignalInv, Unanswered
<1>2. /\ DOMAIN cache' = DOMAIN cache \union {i} /\ cache'[i] = d
      /\ \A j \in DOMAIN cache : cache'[j] = cache[j]
    BY <1>1 DEF Keep, Put
<1>3. log' = Append(log, [time |-> i, result |-> d]) BY DEF Keep
<1>4. /\ log \in Seq([time : Nat, result : Decisions \union {Skip}]) /\ Len(log) \in Nat
      /\ i \in Nat
    BY DEF SignalInv, SignalTypes
<1>5. /\ Len(log') = Len(log) + 1 /\ log'[Len(log')] = [time |-> i, result |-> d]
      /\ \A m \in 1 .. Len(log) : log'[m] = log[m]
    BY <1>3, <1>4
<1>6. Unanswered'
    <2>1. \A c \in Backtests : ~ waits'[c] BY DEF SignalInv, SignalTypes, InTurn
    <2> QED BY <2>1 DEF Unanswered
<1>7. DecidedKept'
    <2>1. \A c \in Backtests \ {b} : decided'[c] = decided[c]
        BY DEF Decide, SignalInv, SignalTypes
    <2>2. decided'[b] = decided[b] \/ decided'[b] = Put(decided[b], i, d)
        BY DEF Decide, SignalInv, SignalTypes
    <2>3. \A c \in Backtests : \A j \in DOMAIN decided[c] : j # i
        BY <1>1 DEF SignalInv, DecidedKept
    <2>4. \A j \in DOMAIN decided'[b] :
              \/ j = i /\ decided'[b][j] = d
              \/ j \in DOMAIN decided[b] /\ decided'[b][j] = decided[b][j]
        BY <2>2 DEF Put
    <2> QED BY <1>2, <2>1, <2>4 DEF SignalInv, DecidedKept
<1>8. LogKept'
    <2>1. \A m \in 1 .. Len(log) : log[m].time # i /\ log[m].time \in DOMAIN cache
                                   /\ cache[log[m].time] = log[m].result
        BY <1>1 DEF SignalInv, LogKept
    <2>2. \A m, n \in 1 .. Len(log) : log[m].time = log[n].time => m = n
        BY DEF SignalInv, LogKept
    <2>3. \A m \in 1 .. Len(log') : m = Len(log') \/ m \in 1 .. Len(log) BY <1>4, <1>5
    <2>4. log'[Len(log')].time = i /\ log'[Len(log')].result = d BY <1>5
    <2>5. \A m, n \in 1 .. Len(log') : log'[m].time = log'[n].time => m = n
        BY <1>5, <2>1, <2>2, <2>3, <2>4
    <2>6. \A m \in 1 .. Len(log') :
              log'[m].time \in DOMAIN cache' /\ cache'[log'[m].time] = log'[m].result
        BY <1>2, <1>5, <2>1, <2>3, <2>4
    <2> QED BY <2>5, <2>6 DEF LogKept
<1> QED BY <1>6, <1>7, <1>8 DEF SignalInv

LEMMA SignalInvNext ==
    ASSUME ~ Overlap, SignalInv, [SignalNext]_signalVars
    PROVE  SignalInv'
<1> USE ModelSignalAssumption
<1>1. ASSUME NEW b \in Backtests, StartBacktest(b) PROVE SignalInv'
    <2>1. SignalTypes' BY <1>1 DEF StartBacktest, SignalInv, SignalTypes, RunStates
    <2>2. InTurn' BY <1>1 DEF StartBacktest, SignalInv, SignalTypes, InTurn
    <2>3. Unanswered' BY <1>1 DEF StartBacktest, SignalInv, Unanswered
    <2> QED BY <1>1, <2>1, <2>2, <2>3, NothingDecided DEF StartBacktest
<1>2. ASSUME NEW b \in Backtests, PassBar(b) PROVE SignalInv'
    <2>1. SignalTypes' BY <1>2 DEF PassBar, SignalInv, SignalTypes, RunStates
    <2>2. InTurn' BY <1>2 DEF PassBar, AtBar, SignalInv, SignalTypes, InTurn
    <2>3. Unanswered' BY <1>2 DEF PassBar, AtBar, SignalInv, SignalTypes, Unanswered
    <2> QED BY <1>2, <2>1, <2>2, <2>3, NothingDecided DEF PassBar
<1>3. ASSUME NEW b \in Backtests, Cached(b) PROVE SignalInv'
    <2> DEFINE i == barIndex[b]
    <2>1. /\ i \in DOMAIN cache /\ ~ waits[b] /\ UNCHANGED <<waits, runState, cache, log>>
          /\ decided' = [decided EXCEPT ![b] = Put(@, i, cache[i])]
          /\ barIndex' = [barIndex EXCEPT ![b] = i + 1]
        BY <1>3 DEF Cached, AtBar, Decide
    <2>2. SignalTypes' BY <2>1 DEF SignalInv, SignalTypes
    <2>3. InTurn' BY <2>1 DEF SignalInv, SignalTypes, InTurn
    <2>4. Unanswered' BY <2>1 DEF SignalInv, SignalTypes, Unanswered
    <2>5. DecidedKept'
        <3>1. \A c \in Backtests \ {b} : decided'[c] = decided[c]
            BY <2>1 DEF SignalInv, SignalTypes
        <3>2. decided'[b] = Put(decided[b], i, cache[i]) BY <2>1 DEF SignalInv, SignalTypes
        <3>3. \A j \in DOMAIN decided'[b] :
                  \/ j = i /\ decided'[b][j] = cache[i]
                  \/ j \in DOMAIN decided[b] /\ decided'[b][j] = decided[b][j]
            BY <3>2 DEF Put
        <3> QED BY <2>1, <3>1, <3>3 DEF SignalInv, DecidedKept
    <2>6. LogKept' BY <2>1 DEF SignalInv, LogKept
    <2> QED BY <2>2, <2>3, <2>4, <2>5, <2>6 DEF SignalInv
<1>4. ASSUME NEW b \in Backtests, AskResolver(b) PROVE SignalInv'
    <2>1. SignalTypes' BY <1>4 DEF AskResolver, SignalInv, SignalTypes
    <2>2. InTurn' BY <1>4 DEF AskResolver, AtBar, SignalInv, SignalTypes, InTurn
    <2>3. Unanswered' BY <1>4 DEF AskResolver, SignalInv, SignalTypes, Unanswered
    <2> QED BY <1>4, <2>1, <2>2, <2>3, NothingDecided DEF AskResolver
<1>5. ASSUME NEW b \in Backtests, NEW d \in Decisions \union {Skip}, waits[b],
             Keep(barIndex[b], d), waits' = [waits EXCEPT ![b] = FALSE],
             \/ Decide(b, d) /\ UNCHANGED runState
             \/ /\ runState' = [runState EXCEPT ![b] = "raised"]
                /\ UNCHANGED <<barIndex, decided>>
      PROVE  SignalInv'
    <2>1. SignalTypes'
        <3>1. log' \in Seq([time : Nat, result : Decisions \union {Skip}])
            BY <1>5 DEF Keep, SignalInv, SignalTypes
        <3>2. barIndex' \in [Backtests -> Nat] /\ DOMAIN decided' = Backtests
            BY <1>5 DEF Decide, SignalInv, SignalTypes
        <3>3. runState' \in [Backtests -> RunStates]
            BY <1>5 DEF SignalInv, SignalTypes, RunStates
        <3>4. waits' \in [Backtests -> BOOLEAN] BY <1>5 DEF SignalInv, SignalTypes
        <3> QED BY <3>1, <3>2, <3>3, <3>4 DEF SignalTypes
    <2>2. InTurn'
        <3>1. \A c \in Backtests : ~ waits'[c] BY <1>5 DEF SignalInv, SignalTypes, InTurn
        <3>2. \A c \in Backtests : runState'[c] = "running" => runState[c] = "running"
            BY <1>5 DEF SignalInv, SignalTypes
        <3> QED BY <3>1, <3>2 DEF SignalInv, InTurn
    <2>3. UNCHANGED decided \/ Decide(b, d) BY <1>5
    <2> QED BY <1>5, <2>1, <2>2, <2>3, AnswerKept
<1>6. ASSUME NEW b \in Backtests, NEW d \in Decisions \union {Skip}, Resolved(b, d) PROVE SignalInv'
    BY <1>5, <1>6 DEF Resolved
<1>7. ASSUME NEW b \in Backtests, NotResolved(b) PROVE SignalInv'
    BY <1>5, <1>7 DEF NotResolved
<1>8. ASSUME NEW b \in Backtests, OverBudget(b) PROVE SignalInv'
    <2>1. SignalTypes' BY <1>8 DEF OverBudget, SignalInv, SignalTypes, RunStates
    <2>2. InTurn' BY <1>8 DEF OverBudget, SignalInv, SignalTypes, InTurn
    <2>3. Unanswered' BY <1>8 DEF OverBudget, SignalInv, SignalTypes, Unanswered
    <2> QED BY <1>8, <2>1, <2>2, <2>3, NothingDecided DEF OverBudget
<1>9. ASSUME NEW b \in Backtests, FinishBacktest(b) PROVE SignalInv'
    <2>1. SignalTypes' BY <1>9 DEF FinishBacktest, SignalInv, SignalTypes, RunStates
    <2>2. ~ waits[b]
        BY <1>9 DEF FinishBacktest, SignalInv, SignalTypes, InTurn
    <2>3. InTurn' BY <1>9, <2>2 DEF FinishBacktest, SignalInv, SignalTypes, InTurn
    <2>4. Unanswered' BY <1>9 DEF FinishBacktest, SignalInv, Unanswered
    <2> QED BY <1>9, <2>1, <2>3, <2>4, NothingDecided DEF FinishBacktest
<1>10. CASE UNCHANGED signalVars
    <2>1. SignalTypes' /\ InTurn' /\ Unanswered'
        BY <1>10 DEF signalVars, SignalInv, SignalTypes, InTurn, Unanswered
    <2> QED BY <1>10, <2>1, NothingDecided DEF signalVars
<1> QED BY <1>1, <1>2, <1>3, <1>4, <1>6, <1>7, <1>8, <1>9, <1>10 DEF SignalNext

\* However many backtests use a signal in turn, and whatever raised or was late,
\* they decide alike, and the log has each bar once (LlmSignal.signal).
THEOREM DecidedOnce == ~ Overlap => (SignalSpec => []OneDecision)
<1> SUFFICES ASSUME ~ Overlap PROVE SignalSpec => []OneDecision OBVIOUS
<1>1. SignalInv => OneDecision
    <2> SUFFICES ASSUME SignalInv PROVE OneDecision OBVIOUS
    <2>1. DOMAIN log = 1 .. Len(log) BY DEF SignalInv, SignalTypes
    <2>2. \A b, c \in Backtests : \A i \in DOMAIN decided[b] \intersect DOMAIN decided[c] :
              decided[b][i] = decided[c][i]
        BY DEF SignalInv, DecidedKept
    <2> QED BY <2>1, <2>2 DEF SignalInv, LogKept, OneDecision
<1>2. SignalInv /\ [SignalNext]_signalVars => SignalInv' BY SignalInvNext
<1> QED BY <1>1, <1>2, SignalInvInit, PTL DEF SignalSpec

-----------------------------------------------------------------------------
(* optimize: a row for every parameter set and a leaderboard in order.  The *)
(* grid is a sequence because the expansions of its keys are, one after     *)
(* the other; a leaderboard exists because every place is taken.            *)

\* A set of natural numbers that has a member has a least one.
LEMMA LeastOne ==
    ASSUME NEW S, S \subseteq Nat, S # {}
    PROVE  \E x \in S : \A y \in S : x <= y
<1>1. PICK R : R = OpToRel(<, Nat)
  OBVIOUS
<1>2. IsWellFoundedOn(R, Nat)
  BY <1>1, NatLessThanWellFounded
<1>3. PICK x \in S : \A y \in S : ~(<<y, x>> \in R)
  BY <1>2, WFMin
<1>4. ASSUME NEW y \in S PROVE x <= y
  <2>1. y < x => <<y, x>> \in R
    BY <1>1 DEF OpToRel
  <2>2. QED
    BY <1>3, <2>1
<1>5. QED
  BY <1>4

\* First picks a member.
LEMMA FirstIn ==
    ASSUME NEW S, S \subseteq Nat, S # {}
    PROVE  First(S) \in S
BY LeastOne DEF First

\* R puts the members of a finite S in a strict order, Under are those before a,
\* and RankIn is the place of a among them.
Orders(R, S) ==
    /\ IsFiniteSet(S)
    /\ \A a \in S : <<a, a>> \notin R
    /\ \A a, b \in S : a # b => <<a, b>> \in R \/ <<b, a>> \in R
    /\ \A a, b, c \in S : <<a, b>> \in R /\ <<b, c>> \in R => <<a, c>> \in R
Under(R, S, a) == {b \in S : <<b, a>> \in R}
RankIn(R, S, a) == 1 + Cardinality(Under(R, S, a))

LEMMA RankCounts ==
    ASSUME NEW R, NEW S, Orders(R, S), NEW a \in S
    PROVE  /\ IsFiniteSet(Under(R, S, a)) /\ Cardinality(Under(R, S, a)) \in Nat /\ Cardinality(S) \in Nat
           /\ RankIn(R, S, a) \in 1 .. Cardinality(S)
<1>1. Under(R, S, a) \subseteq S \ {a}
  BY DEF Under, Orders
<1>2. IsFiniteSet(S)
  BY DEF Orders
<1>3. IsFiniteSet(S \ {a}) /\ Cardinality(S \ {a}) = Cardinality(S) - 1
  BY <1>2, FS_RemoveElement
<1>4. IsFiniteSet(Under(R, S, a)) /\ Cardinality(Under(R, S, a)) <= Cardinality(S \ {a})
  BY <1>1, <1>3, FS_Subset
<1>5. Cardinality(Under(R, S, a)) \in Nat /\ Cardinality(S) \in Nat
  BY <1>2, <1>4, FS_CardinalityType
<1>6. QED
  BY <1>3, <1>4, <1>5 DEF RankIn

LEMMA RankBefore ==
    ASSUME NEW R, NEW S, Orders(R, S), NEW a \in S, NEW b \in S, <<a, b>> \in R
    PROVE  RankIn(R, S, a) < RankIn(R, S, b)
<1>1. PICK x, y : x = Under(R, S, a) /\ y = Under(R, S, b)
  OBVIOUS
<1>2. x \subseteq y /\ a \in y /\ a \notin x
  BY <1>1 DEF Under, Orders
<1>3. IsFiniteSet(x) /\ IsFiniteSet(y) /\ Cardinality(x) \in Nat /\ Cardinality(y) \in Nat
  BY <1>1, RankCounts
<1>4. Cardinality(x) <= Cardinality(y) /\ (Cardinality(y) = Cardinality(x) => y = x)
  BY <1>2, <1>3, FS_Subset
<1>5. Cardinality(x) # Cardinality(y)
  BY <1>2, <1>4
<1>6. QED
  BY <1>1, <1>3, <1>4, <1>5 DEF RankIn

LEMMA RanksTaken ==
    ASSUME NEW R, NEW S, Orders(R, S), NEW k \in 1 .. Cardinality(S)
    PROVE  \E a \in S : RankIn(R, S, a) = k
<1>1. PICK n, f : n = Cardinality(S) /\ f = [a \in S |-> RankIn(R, S, a)]
  OBVIOUS
<1>2. IsFiniteSet(S) /\ n \in Nat
  BY <1>1, FS_CardinalityType DEF Orders
<1>3. f \in [S -> 1 .. n]
  BY <1>1, RankCounts
<1>4. ASSUME NEW a \in S, NEW b \in S, f[a] = f[b] PROVE a = b
  <2>1. SUFFICES ASSUME a # b PROVE FALSE
    OBVIOUS
  <2>2. <<a, b>> \in R \/ <<b, a>> \in R
    BY <2>1 DEF Orders
  <2>3. RankIn(R, S, a) < RankIn(R, S, b) \/ RankIn(R, S, b) < RankIn(R, S, a)
    BY <2>2, RankBefore
  <2>4. RankIn(R, S, a) \in Int /\ RankIn(R, S, b) \in Int /\ RankIn(R, S, a) = RankIn(R, S, b)
    BY <1>1, <1>3, <1>4
  <2>5. QED
    BY <2>3, <2>4
<1>5. f \in Injection(S, 1 .. n)
  BY <1>3, <1>4 DEF Injection, IsInjective
<1>6. IsFiniteSet(1 .. n) /\ Cardinality(1 .. n) = n
  BY <1>2, FS_Interval
<1>7. f \in Surjection(S, 1 .. n)
  BY <1>1, <1>2, <1>5, <1>6, FS_Injection
<1>8. k \in 1 .. n
  BY <1>1
<1>9. \E a \in S : f[a] = k
  BY <1>7, <1>8 DEF Surjection
<1>10. QED
  BY <1>1, <1>9

\* f is a sequence, of whatever.
Listed(f) == Len(f) \in Nat /\ DOMAIN f = 1 .. Len(f) /\ f = [k \in 1 .. Len(f) |-> f[k]]

LEMMA Lists ==
    ASSUME NEW n \in Nat, NEW f, f = [k \in 1 .. n |-> f[k]]
    PROVE  Listed(f) /\ Len(f) = n
<1>1. PICK S : S = {f[k] : k \in 1 .. n}
  OBVIOUS
<1>2. f \in [1 .. n -> S]
  BY <1>1
<1>3. f \in Seq(S) /\ Len(f) = n
  BY <1>2
<1>4. QED
  BY <1>3 DEF Listed

LEMMA ExpandLists ==
    ASSUME NEW s, NEW v, Len(s) \in Nat, Len(v) \in Nat
    PROVE  Listed(Expand(s, v))
<1>1. PICK n, f : n = Len(s) * Len(v) /\ f = Expand(s, v)
  OBVIOUS
<1>2. n \in Nat
  BY <1>1
<1>3. f = [k \in 1 .. n |-> f[k]]
  BY <1>1 DEF Expand
<1>4. QED
  BY <1>1, <1>2, <1>3, Lists

\* f expands the first n keys of s one after the other.
Grows(f, s, n) == f = [k \in 0 .. n |-> IF k = 0 THEN << <<>> >> ELSE Expand(f[k - 1], s[k])]

LEMMA GrowsExists ==
    ASSUME NEW s, NEW n \in Nat
    PROVE  \E f : Grows(f, s, n)
<1> DEFINE Has(k) == \E f : Grows(f, s, k)
           Bad == {k \in 0 .. n : ~Has(k)}
<1>1. SUFFICES ASSUME Bad # {} PROVE FALSE
  <2>1. n \in 0 .. n
    OBVIOUS
  <2>2. QED
    BY <2>1
<1>2. Bad \subseteq Nat
  OBVIOUS
<1>3. PICK k \in Bad : \A y \in Bad : k <= y
  BY <1>1, <1>2, LeastOne
<1>4. k \in 0 .. n /\ ~Has(k)
  OBVIOUS
<1>5. k # 0
  <2>1. PICK f : f = [j \in 0 .. 0 |-> << <<>> >>]
    OBVIOUS
  <2>2. Grows(f, s, 0)
    BY <2>1 DEF Grows
  <2>3. QED
    BY <1>4, <2>2
<1>6. k \in 1 .. n /\ k - 1 \in 0 .. n /\ ~(k <= k - 1)
  BY <1>4, <1>5
<1>7. Has(k - 1)
  BY <1>3, <1>6
<1>8. PICK f : Grows(f, s, k - 1)
  BY <1>7
<1>9. PICK g : g = [j \in 0 .. k |-> IF j = k THEN Expand(f[k - 1], s[k]) ELSE f[j]]
  OBVIOUS
<1>10. f = [j \in 0 .. (k - 1) |-> IF j = 0 THEN << <<>> >> ELSE Expand(f[j - 1], s[j])]
  BY <1>8 DEF Grows
<1>11. ASSUME NEW j \in 0 .. k
       PROVE  g[j] = IF j = 0 THEN << <<>> >> ELSE Expand(g[j - 1], s[j])
  <2>1. CASE j = k
    BY <1>6, <1>9, <2>1
  <2>2. CASE j # k
    BY <1>6, <1>9, <1>10, <2>2
  <2>3. QED
    BY <2>1, <2>2
<1>12. Grows(g, s, k)
  BY <1>9, <1>11 DEF Grows
<1>13. QED
  BY <1>4, <1>12

LEMMA GrowsLists ==
    ASSUME NEW s, NEW n \in Nat, NEW f, Grows(f, s, n), \A k \in 1 .. n : Len(s[k]) \in Nat
    PROVE  Listed(f[n])
<1> DEFINE Bad == {k \in 0 .. n : ~Listed(f[k])}
<1>1. SUFFICES ASSUME Bad # {} PROVE FALSE
  <2>1. n \in 0 .. n
    OBVIOUS
  <2>2. QED
    BY <2>1
<1>2. Bad \subseteq Nat
  OBVIOUS
<1>3. PICK k \in Bad : \A y \in Bad : k <= y
  BY <1>1, <1>2, LeastOne
<1>4. k \in 0 .. n /\ ~Listed(f[k])
  OBVIOUS
<1>5. f = [j \in 0 .. n |-> IF j = 0 THEN << <<>> >> ELSE Expand(f[j - 1], s[j])]
  BY DEF Grows
<1>6. k # 0
  <2>1. f[0] = << <<>> >>
    BY <1>5
  <2>2. Listed(<< <<>> >>)
    BY DEF Listed
  <2>3. QED
    BY <1>4, <2>1, <2>2
<1>7. k \in 1 .. n /\ k - 1 \in 0 .. n /\ ~(k <= k - 1)
  BY <1>4, <1>6
<1>8. PICK a, b : a = f[k - 1] /\ b = s[k]
  OBVIOUS
<1>9. Len(a) \in Nat /\ Len(b) \in Nat
  BY <1>3, <1>7, <1>8 DEF Listed
<1>10. Listed(Expand(a, b))
  BY <1>9, ExpandLists
<1>11. f[k] = Expand(a, b)
  BY <1>5, <1>7, <1>8
<1>12. QED
  BY <1>4, <1>10, <1>11

LEMMA GridLists ==
    ASSUME NEW s \in Specs
    PROVE  Listed(Grid(s))
<1>1. PICK n : n = Len(s)
  OBVIOUS
<1>2. n \in Nat /\ \A k \in 1 .. n : Len(s[k]) \in Nat
  BY <1>1, OptimizerAssumption
<1>3. PICK f : Grows(f, s, n)
  BY <1>2, GrowsExists
<1>4. PICK g : g = CHOOSE h : h = [k \in 0 .. Len(s) |-> IF k = 0 THEN << <<>> >> ELSE Expand(h[k - 1], s[k])]
  OBVIOUS
<1>5. Grows(g, s, n)
  BY <1>1, <1>3, <1>4 DEF Grows
<1>6. Grid(s) = g[n]
  BY <1>1, <1>4 DEF Grid
<1>7. Listed(g[n])
  BY <1>2, <1>5, GrowsLists
<1>8. QED
  BY <1>6, <1>7

\* The rows with metrics can be ranked.
Rankable == IsFiniteSet(Ranked) /\ Ranked \subseteq Nat /\ \A i \in Ranked : Score(i) \in Int

LEMMA AboveOrders ==
    ASSUME Rankable, NEW i \in Ranked, NEW j \in Ranked, NEW k \in Ranked
    PROVE  /\ ~Above(i, i) /\ (i # j => Above(i, j) \/ Above(j, i))
           /\ (Above(i, j) /\ Above(j, k) => Above(i, k))
<1>1. PICK a, b, c : a = Score(i) /\ b = Score(j) /\ c = Score(k)
  OBVIOUS
<1>2. a \in Int /\ b \in Int /\ c \in Int /\ i \in Nat /\ j \in Nat /\ k \in Nat
  BY <1>1 DEF Rankable
<1>3. /\ Above(i, i) <=> a > a \/ (a = a /\ i < i)
      /\ Above(i, j) <=> a > b \/ (a = b /\ i < j)
      /\ Above(j, i) <=> b > a \/ (b = a /\ j < i)
      /\ Above(j, k) <=> b > c \/ (b = c /\ j < k)
      /\ Above(i, k) <=> a > c \/ (a = c /\ i < k)
  BY <1>1 DEF Above
<1>4. QED
  BY <1>2, <1>3

\* The places of the rows are their ranks in an order.
LEMMA AboveRanks ==
    ASSUME Rankable
    PROVE  \E R : /\ Orders(R, Ranked)
                  /\ \A i \in Ranked : Place(i) = RankIn(R, Ranked, i)
                  /\ \A i, j \in Ranked : Above(i, j) <=> <<i, j>> \in R
<1>1. PICK R : R = {x \in Ranked \X Ranked : Above(x[1], x[2])}
  OBVIOUS
<1>2. \A i, j \in Ranked : Above(i, j) <=> <<i, j>> \in R
  BY <1>1
<1>3. Orders(R, Ranked)
  BY <1>2, AboveOrders DEF Orders, Rankable
<1>4. \A i \in Ranked : Place(i) = RankIn(R, Ranked, i)
  BY <1>2 DEF Place, RankIn, Under
<1>5. QED
  BY <1>2, <1>3, <1>4

LEMMA AboveBefore ==
    ASSUME Rankable, NEW i \in Ranked, NEW j \in Ranked, Above(i, j)
    PROVE  Place(i) < Place(j)
<1>1. PICK R : /\ Orders(R, Ranked)
               /\ \A k \in Ranked : Place(k) = RankIn(R, Ranked, k)
               /\ \A k, l \in Ranked : Above(k, l) <=> <<k, l>> \in R
  BY AboveRanks
<1>2. RankIn(R, Ranked, i) < RankIn(R, Ranked, j)
  BY <1>1, RankBefore
<1>3. QED
  BY <1>1, <1>2

\* Every place is taken.
LEMMA PlacesTaken ==
    ASSUME Rankable, NEW k \in 1 .. Cardinality(Ranked)
    PROVE  \E i \in Ranked : Place(i) = k
<1>1. PICK R : Orders(R, Ranked) /\ \A i \in Ranked : Place(i) = RankIn(R, Ranked, i)
  BY AboveRanks
<1>2. \E i \in Ranked : RankIn(R, Ranked, i) = k
  BY <1>1, RanksTaken
<1>3. QED
  BY <1>1, <1>2

\* A row of the leaderboard is that of the set whose place it is, and the rows
\* are in order.
LEMMA LeaderboardSorted ==
    ASSUME Rankable, NEW k \in 1 .. Cardinality(Ranked), NEW l \in 1 .. Cardinality(Ranked)
    PROVE  \E i \in Ranked, j \in Ranked :
              /\ Leaderboard[k] = optResults[i] /\ Leaderboard[l] = optResults[j]
              /\ k < l => Above(i, j)
<1>1. PICK i, j : /\ i = (CHOOSE x \in Ranked : Place(x) = k)
                  /\ j = (CHOOSE x \in Ranked : Place(x) = l)
  OBVIOUS
<1>2. i \in Ranked /\ Place(i) = k
  BY <1>1, PlacesTaken
<1>3. j \in Ranked /\ Place(j) = l
  BY <1>1, PlacesTaken
<1>4. Leaderboard[k] = optResults[i] /\ Leaderboard[l] = optResults[j]
  BY <1>1 DEF Leaderboard
<1>5. ASSUME k < l PROVE Above(i, j)
  <2>1. Cardinality(Ranked) \in Nat
    BY FS_CardinalityType DEF Rankable
  <2>2. i # j /\ ~(l < k)
    BY <1>2, <1>3, <1>5, <2>1
  <2>3. Above(j, i) => l < k
    BY <1>2, <1>3, AboveBefore
  <2>4. QED
    BY <1>2, <1>3, <2>2, <2>3, AboveOrders
<1>6. QED
  BY <1>2, <1>3, <1>4, <1>5

Sets == 1 .. Len(optSets)

OptTypes ==
    /\ Listed(optSets) /\ optOutcome \in [Sets -> Outcomes]
    /\ DOMAIN optResults = Sets /\ optResults = [i \in Sets |-> optResults[i]]
    /\ optFutures \in Seq({"queued", "running", "finished", "broken", "taken"})
    /\ Len(optFutures) <= Len(optSets)

\* A row is the one of its own set; only a pool that broke or what cannot be
\* sent to a worker leaves an error in its place.
RowsOwn ==
    \A i \in Sets : \/ optResults[i] = NoRow \/ optResults[i] = ResultRow(i)
                    \/ (optBroken \/ optMode = "unpicklable") /\ optResults[i] = ErrorRow(i)

FuturesBroken == \A i \in DOMAIN optFutures : optFutures[i] = "broken" => optBroken

\* What is missing in each phase.
PhaseOK ==
    /\ optPhase = "run" => Missing # {}
    /\ optPhase = "submit" => Len(optFutures) < Len(optSets)
    /\ optPhase = "done" => Missing = {}

OptInv == OptTypes /\ RowsOwn /\ FuturesBroken /\ PhaseOK

\* A row is not what stands for none.
LEMMA RowsAreRows ==
    ASSUME NEW i PROVE ResultRow(i) # NoRow /\ ErrorRow(i) # NoRow
<1>1. DOMAIN ResultRow(i) = {"params", "index", "outcome"} /\ DOMAIN ErrorRow(i) = {"params", "index", "outcome"}
  BY DEF ResultRow, ErrorRow
<1>2. DOMAIN NoRow = {"params"}
  BY DEF NoRow
<1>3. "index" # "params"
  OBVIOUS
<1>4. QED
  BY <1>1, <1>2, <1>3

LEMMA OptStarts == OptInit => OptInv
<1> SUFFICES ASSUME OptInit PROVE OptInv
  OBVIOUS
<1>1. Listed(optSets)
  BY GridLists DEF OptInit
<1>2. PICK n : n = Len(optSets)
  OBVIOUS
<1>3. n \in Nat /\ DOMAIN optSets = 1 .. n
  BY <1>1, <1>2 DEF Listed
<1>4. optResults = [i \in 1 .. n |-> NoRow] /\ optFutures = <<>> /\ optOutcome \in [1 .. n -> Outcomes]
  BY <1>3 DEF OptInit
<1>5. OptTypes
  BY <1>1, <1>2, <1>3, <1>4 DEF OptTypes, Sets
<1>6. RowsOwn /\ FuturesBroken
  BY <1>2, <1>4 DEF RowsOwn, FuturesBroken, Sets
<1>7. Missing = 1 .. n
  BY <1>3, <1>4 DEF Missing
<1>8. optSets = <<>> <=> n = 0
  <2>1. optSets = [k \in 1 .. n |-> optSets[k]]
    BY <1>1, <1>2 DEF Listed
  <2>2. n = 0 => optSets = <<>>
    BY <2>1
  <2>3. optSets = <<>> => n = 0
    BY <1>2
  <2>4. QED
    BY <2>2, <2>3
<1>9. PhaseOK
  <2>1. CASE n = 0
    <3>1. optPhase = "done"
      BY <1>8, <2>1 DEF OptInit
    <3>2. QED
      BY <1>7, <2>1, <3>1 DEF PhaseOK
  <2>2. CASE n # 0
    <3>1. optPhase \in {"run", "submit"}
      BY <1>8, <2>2 DEF OptInit
    <3>2. 1 \in Missing
      BY <1>3, <1>7, <2>2
    <3>3. Len(optFutures) < n
      BY <1>3, <1>4, <2>2
    <3>4. QED
      BY <1>2, <3>1, <3>2, <3>3 DEF PhaseOK
  <2>3. QED
    BY <2>1, <2>2
<1>10. QED
  BY <1>5, <1>6, <1>9 DEF OptInv

\* One row is put, the others stay.
LEMMA RowPut ==
    ASSUME OptInv, NEW i \in Sets, NEW row,
           optResults' = [optResults EXCEPT ![i] = row], row # NoRow,
           row = ResultRow(i) \/ (optBroken /\ row = ErrorRow(i)),
           UNCHANGED <<optSets, optOutcome, optMode, optBroken>>
    PROVE  /\ DOMAIN optResults' = Sets' /\ optResults' = [k \in Sets' |-> optResults'[k]]
           /\ RowsOwn' /\ Missing' = Missing \ {i}
<1>1. /\ Sets' = Sets /\ DOMAIN optResults = Sets /\ optResults = [k \in Sets |-> optResults[k]]
      /\ DOMAIN optSets = Sets
  BY DEF OptInv, OptTypes, Sets, Listed
<1>2. /\ DOMAIN optResults' = Sets' /\ optResults' = [k \in Sets' |-> optResults'[k]]
      /\ optResults'[i] = row /\ \A k \in Sets : k # i => optResults'[k] = optResults[k]
  BY <1>1
<1>3. \A k : ResultRow(k)' = ResultRow(k) /\ ErrorRow(k)' = ErrorRow(k)
  BY DEF ResultRow, ErrorRow
<1>4. RowsOwn'
  <2>1. SUFFICES ASSUME NEW k \in Sets
                 PROVE  \/ optResults'[k] = NoRow \/ optResults'[k] = ResultRow(k)
                        \/ (optBroken \/ optMode = "unpicklable") /\ optResults'[k] = ErrorRow(k)
    BY <1>1, <1>3 DEF RowsOwn
  <2>2. CASE k = i
    BY <1>2, <2>2
  <2>3. CASE k # i
    BY <1>2, <2>3 DEF OptInv, RowsOwn
  <2>4. QED
    BY <2>2, <2>3
<1>5. Missing' = Missing \ {i}
  BY <1>1, <1>2 DEF Missing
<1>6. QED
  BY <1>2, <1>4, <1>5

\* Steps that leave the rows alone.
LEMMA RowsStay ==
    ASSUME OptInv, UNCHANGED <<optSets, optOutcome, optMode, optResults>>, optBroken => optBroken'
    PROVE  RowsOwn' /\ Missing' = Missing /\ Sets' = Sets
<1>1. Sets' = Sets /\ Missing' = Missing
  BY DEF Sets, Missing
<1>2. \A k : ResultRow(k)' = ResultRow(k) /\ ErrorRow(k)' = ErrorRow(k)
  BY DEF ResultRow, ErrorRow
<1>3. RowsOwn'
  <2>1. SUFFICES ASSUME NEW k \in Sets
                 PROVE  \/ optResults'[k] = NoRow \/ optResults'[k] = ResultRow(k)
                        \/ (optBroken' \/ optMode' = "unpicklable") /\ optResults'[k] = ErrorRow(k)
    BY <1>1, <1>2 DEF RowsOwn
  <2>2. QED
    BY DEF OptInv, RowsOwn
<1>4. QED
  BY <1>1, <1>3

\* All rows are put at once.
LEMMA RowsFill ==
    ASSUME OptInv, NEW old, old \in BOOLEAN,
           optResults' = [i \in DOMAIN optSets |->
                             IF old /\ optResults[i] # NoRow THEN optResults[i] ELSE ErrorRow(i)],
           optBroken \/ optMode = "unpicklable",
           UNCHANGED <<optSets, optOutcome, optMode, optBroken>>
    PROVE  /\ DOMAIN optResults' = Sets' /\ optResults' = [k \in Sets' |-> optResults'[k]]
           /\ RowsOwn' /\ Missing' = {}
<1>1. Sets' = Sets /\ DOMAIN optSets = Sets
  BY DEF OptInv, OptTypes, Sets, Listed
<1>2. \A k : ResultRow(k)' = ResultRow(k) /\ ErrorRow(k)' = ErrorRow(k)
  BY DEF ResultRow, ErrorRow
<1>3. DOMAIN optResults' = Sets' /\ optResults' = [k \in Sets' |-> optResults'[k]]
  BY <1>1
<1>4. ASSUME NEW k \in Sets
      PROVE  /\ optResults'[k] = ResultRow(k) \/ optResults'[k] = ErrorRow(k)
             /\ optResults'[k] # NoRow
  <2>1. optResults'[k] = IF old /\ optResults[k] # NoRow THEN optResults[k] ELSE ErrorRow(k)
    BY <1>1
  <2>2. QED
    BY <2>1, RowsAreRows DEF OptInv, RowsOwn
<1>5. RowsOwn'
  BY <1>1, <1>2, <1>4 DEF RowsOwn
<1>6. Missing' = {}
  BY <1>1, <1>4 DEF Missing
<1>7. QED
  BY <1>3, <1>5, <1>6

\* The first missing row is one of the sets'.
LEMMA FirstMissing ==
    ASSUME OptInv, Missing # {}
    PROVE  First(Missing) \in Missing /\ First(Missing) \in Sets
<1>1. Missing \subseteq Sets /\ Sets \subseteq Nat
  BY DEF OptInv, OptTypes, Sets, Listed, Missing
<1>2. First(Missing) \in Missing
  BY <1>1, FirstIn
<1>3. QED
  BY <1>1, <1>2

LEMMA OptSerial == ASSUME OptInv, RunSerially PROVE OptInv'
<1>1. Missing # {}
  BY DEF OptInv, PhaseOK, RunSerially
<1>2. PICK i : i = First(Missing)
  OBVIOUS
<1>3. i \in Missing /\ i \in Sets
  BY <1>1, <1>2, FirstMissing
<1>4. PICK row : row = ResultRow(i)
  OBVIOUS
<1>5. /\ optResults' = [optResults EXCEPT ![i] = row]
      /\ UNCHANGED <<optSets, optOutcome, optMode, optBroken>>
  BY <1>2, <1>4 DEF RunSerially
<1>6. /\ DOMAIN optResults' = Sets' /\ optResults' = [k \in Sets' |-> optResults'[k]]
      /\ RowsOwn' /\ Missing' = Missing \ {i}
  BY <1>3, <1>4, <1>5, RowsAreRows, RowPut
<1>7. OptTypes'
  BY <1>5, <1>6 DEF OptInv, OptTypes, Listed, Sets, RunSerially
<1>8. FuturesBroken'
  BY DEF OptInv, FuturesBroken, RunSerially
<1>9. PhaseOK'
  BY <1>2, <1>3, <1>6 DEF PhaseOK, RunSerially
<1>10. QED
  BY <1>6, <1>7, <1>8, <1>9 DEF OptInv

LEMMA OptFails == ASSUME OptInv, FailAll \/ SubmitFails PROVE OptInv'
<1>1. /\ optPhase' = "done" /\ UNCHANGED <<optSets, optOutcome, optMode, optFutures, optBroken>>
      /\ optBroken \/ optMode = "unpicklable"
  BY DEF FailAll, SubmitFails
<1>2. PICK old : /\ old \in BOOLEAN
                 /\ optResults' = [i \in DOMAIN optSets |->
                        IF old /\ optResults[i] # NoRow THEN optResults[i] ELSE ErrorRow(i)]
  <2>1. CASE FailAll
    <3>1. optResults' = [i \in DOMAIN optSets |->
                        IF FALSE /\ optResults[i] # NoRow THEN optResults[i] ELSE ErrorRow(i)]
      BY <2>1 DEF FailAll
    <3>2. QED
      BY <3>1
  <2>2. CASE SubmitFails
    <3>1. optResults' = [i \in DOMAIN optSets |->
                        IF TRUE /\ optResults[i] # NoRow THEN optResults[i] ELSE ErrorRow(i)]
      BY <2>2 DEF SubmitFails
    <3>2. QED
      BY <3>1
  <2>3. QED
    BY <2>1, <2>2
<1>3. /\ DOMAIN optResults' = Sets' /\ optResults' = [k \in Sets' |-> optResults'[k]]
      /\ RowsOwn' /\ Missing' = {}
  BY <1>1, <1>2, RowsFill
<1>4. OptTypes'
  BY <1>1, <1>3 DEF OptInv, OptTypes, Listed, Sets
<1>5. FuturesBroken' /\ PhaseOK'
  BY <1>1, <1>3 DEF OptInv, FuturesBroken, PhaseOK
<1>6. QED
  BY <1>3, <1>4, <1>5 DEF OptInv

FutureStates == {"queued", "running", "finished", "broken", "taken"}

\* Steps of the pool that leave the rows alone.
LEMMA PoolStep ==
    ASSUME OptInv, UNCHANGED <<optSets, optOutcome, optMode, optResults>>, optBroken => optBroken',
           optFutures' \in Seq(FutureStates), Len(optFutures') <= Len(optSets), FuturesBroken',
           \/ UNCHANGED optPhase /\ Len(optFutures') = Len(optFutures)
           \/ optPhase' = "collect"
           \/ optPhase' = "submit" /\ Len(optFutures') < Len(optSets)
    PROVE  OptInv'
<1>1. RowsOwn' /\ Missing' = Missing /\ Sets' = Sets
  BY RowsStay
<1>2. OptTypes'
  BY <1>1 DEF OptInv, OptTypes, Listed, FutureStates
<1>3. PhaseOK'
  BY <1>1 DEF OptInv, PhaseOK
<1>4. QED
  BY <1>1, <1>2, <1>3 DEF OptInv

LEMMA OptSubmit == ASSUME OptInv, SubmitSet PROVE OptInv'
<1>1. /\ optFutures \in Seq(FutureStates) /\ Len(optFutures) < Len(optSets) /\ Len(optSets) \in Nat
      /\ optFutures' = Append(optFutures, "queued") /\ "queued" \in FutureStates
  BY DEF OptInv, OptTypes, Listed, PhaseOK, SubmitSet, FutureStates
<1>2. /\ optFutures' \in Seq(FutureStates) /\ Len(optFutures') = Len(optFutures) + 1
      /\ Len(optFutures') <= Len(optSets)
      /\ \A k \in DOMAIN optFutures' :
            optFutures'[k] = "queued" \/ (k \in DOMAIN optFutures /\ optFutures'[k] = optFutures[k])
  BY <1>1
<1>3. UNCHANGED <<optSets, optOutcome, optMode, optBroken, optResults>>
  BY DEF SubmitSet
<1>4. FuturesBroken'
  BY <1>2, <1>3 DEF OptInv, FuturesBroken
<1>5. optPhase' = "collect" \/ (optPhase' = "submit" /\ Len(optFutures') < Len(optSets))
  <2>1. PICK n, m : n = Len(optFutures') /\ m = Len(optSets)
    OBVIOUS
  <2>2. n \in Nat /\ m \in Nat /\ n <= m
    BY <1>1, <1>2, <2>1
  <2>3. optPhase' = (IF n = m THEN "collect" ELSE "submit")
    BY <2>1 DEF SubmitSet
  <2>4. QED
    BY <2>1, <2>2, <2>3
<1>6. QED
  BY <1>2, <1>3, <1>4, <1>5, PoolStep

\* A future takes another state.
LEMMA FutureMoves ==
    ASSUME OptInv, NEW i \in DOMAIN optFutures, NEW x \in FutureStates,
           optFutures' = [optFutures EXCEPT ![i] = x]
    PROVE  /\ optFutures' \in Seq(FutureStates) /\ Len(optFutures') = Len(optFutures)
           /\ Len(optFutures) <= Len(optSets)
           /\ x # "broken" /\ UNCHANGED optBroken => FuturesBroken'
<1>1. optFutures \in Seq(FutureStates) /\ Len(optFutures) <= Len(optSets)
  BY DEF OptInv, OptTypes, FutureStates
<1>2. /\ optFutures' \in Seq(FutureStates) /\ Len(optFutures') = Len(optFutures)
      /\ DOMAIN optFutures' = DOMAIN optFutures
      /\ \A k \in DOMAIN optFutures : optFutures'[k] = IF k = i THEN x ELSE optFutures[k]
  BY <1>1
<1>3. x # "broken" /\ UNCHANGED optBroken => FuturesBroken'
  BY <1>2 DEF OptInv, FuturesBroken
<1>4. QED
  BY <1>1, <1>2, <1>3

LEMMA OptWorker ==
    ASSUME OptInv, WorkerTakes \/ (\E i \in DOMAIN optFutures : WorkerAnswers(i))
    PROVE  OptInv'
<1>1. PICK i, x : /\ i \in DOMAIN optFutures /\ x \in {"running", "finished"}
                  /\ optFutures' = [optFutures EXCEPT ![i] = x]
  <2>1. CASE WorkerTakes
    <3>1. In("queued") \subseteq DOMAIN optFutures /\ In("queued") # {}
      BY <2>1 DEF WorkerTakes, In
    <3>2. optFutures \in Seq(FutureStates)
      BY DEF OptInv, OptTypes, FutureStates
    <3>3. In("queued") \subseteq Nat
      BY <3>1, <3>2
    <3>4. First(In("queued")) \in In("queued")
      BY <3>1, <3>3, FirstIn
    <3>5. QED
      BY <2>1, <3>1, <3>4 DEF WorkerTakes
  <2>2. CASE \E i \in DOMAIN optFutures : WorkerAnswers(i)
    BY <2>2 DEF WorkerAnswers
  <2>3. QED
    BY <2>1, <2>2
<1>2. UNCHANGED <<optSets, optOutcome, optMode, optPhase, optBroken, optResults>>
  BY DEF WorkerTakes, WorkerAnswers
<1>3. x \in FutureStates /\ x # "broken"
  BY <1>1 DEF FutureStates
<1>4. /\ optFutures' \in Seq(FutureStates) /\ Len(optFutures') = Len(optFutures)
      /\ Len(optFutures) <= Len(optSets) /\ FuturesBroken'
  BY <1>1, <1>2, <1>3, FutureMoves
<1>5. QED
  BY <1>2, <1>4, PoolStep

LEMMA OptDies == ASSUME OptInv, WorkerDies PROVE OptInv'
<1>1. /\ UNCHANGED <<optSets, optOutcome, optMode, optPhase, optResults>> /\ optBroken'
  BY DEF WorkerDies
<1>2. PICK n : n = Len(optFutures)
  OBVIOUS
<1>3. /\ n \in Nat /\ optFutures \in [1 .. n -> FutureStates] /\ DOMAIN optFutures = 1 .. n
      /\ n <= Len(optSets)
  BY <1>2 DEF OptInv, OptTypes, FutureStates
<1>4. optFutures' \in [1 .. n -> FutureStates]
  <2>1. optFutures' = [i \in 1 .. n |->
                         IF optFutures[i] \in {"queued", "running"} THEN "broken" ELSE optFutures[i]]
    BY <1>3 DEF WorkerDies
  <2>2. "broken" \in FutureStates
    BY DEF FutureStates
  <2>3. QED
    BY <1>3, <2>1, <2>2
<1>5. optFutures' \in Seq(FutureStates) /\ Len(optFutures') = n
  BY <1>3, <1>4
<1>6. FuturesBroken'
  BY <1>1 DEF FuturesBroken
<1>7. QED
  BY <1>1, <1>2, <1>3, <1>5, <1>6, PoolStep

LEMMA OptCollect == ASSUME OptInv, NEW i \in DOMAIN optFutures, Collect(i) PROVE OptInv'
<1>1. PICK row : row = RowOf(i)
  OBVIOUS
<1>2. /\ optResults' = [optResults EXCEPT ![i] = row]
      /\ optFutures' = [optFutures EXCEPT ![i] = "taken"]
      /\ optPhase' = (IF Missing = {i} THEN "done" ELSE "collect")
      /\ optFutures[i] \in {"finished", "broken"}
      /\ UNCHANGED <<optSets, optOutcome, optMode, optBroken>>
  BY <1>1 DEF Collect
<1>3. "taken" \in FutureStates /\ "taken" # "broken"
  BY DEF FutureStates
<1>4. /\ optFutures' \in Seq(FutureStates) /\ Len(optFutures') = Len(optFutures)
      /\ Len(optFutures) <= Len(optSets) /\ FuturesBroken'
  <2>1. PICK x : x = "taken"
    OBVIOUS
  <2>2. QED
    BY <1>2, <1>3, <2>1, FutureMoves
<1>5. row = ResultRow(i) \/ (optBroken /\ row = ErrorRow(i))
  BY <1>1, <1>2 DEF RowOf, OptInv, FuturesBroken
<1>6. i \in Sets
  <2>1. optFutures \in Seq(FutureStates) /\ Len(optSets) \in Nat
    BY DEF OptInv, OptTypes, Listed, FutureStates
  <2>2. QED
    BY <1>4, <2>1 DEF Sets
<1>7. /\ DOMAIN optResults' = Sets' /\ optResults' = [k \in Sets' |-> optResults'[k]]
      /\ RowsOwn' /\ Missing' = Missing \ {i}
  BY <1>2, <1>5, <1>6, RowsAreRows, RowPut
<1>8. OptTypes'
  BY <1>2, <1>4, <1>7 DEF OptInv, OptTypes, Listed, Sets, FutureStates
<1>9. PhaseOK'
  BY <1>2, <1>7 DEF PhaseOK
<1>10. QED
  BY <1>4, <1>7, <1>8, <1>9 DEF OptInv

LEMMA OptInvHolds == OptInv /\ [OptNext]_optVars => OptInv'
<1> SUFFICES ASSUME OptInv, [OptNext]_optVars PROVE OptInv'
  OBVIOUS
<1>1. CASE UNCHANGED optVars
  <2>1. UNCHANGED <<optSets, optOutcome, optMode, optPhase, optFutures, optBroken, optResults>>
    BY <1>1 DEF optVars
  <2>2. RowsOwn' /\ Missing' = Missing /\ Sets' = Sets
    BY <2>1, RowsStay
  <2>3. QED
    BY <2>1, <2>2 DEF OptInv, OptTypes, Listed, FuturesBroken, PhaseOK
<1>2. CASE OptNext
  BY <1>2, OptSerial, OptFails, OptSubmit, OptWorker, OptDies, OptCollect DEF OptNext
<1>3. QED
  BY <1>1, <1>2

\* What a row with metrics is ranked by.
Scored(i) ==
    \/ optOutcome[i] = NoMetric /\ Score(i) = -1
    \/ optOutcome[i] # NoMetric /\ Score(i) = optOutcome[i] /\ Score(i) \in Nat

\* When the call is done, the rows with metrics are those of their own sets.
LEMMA DoneRanks ==
    ASSUME OptInv, optPhase = "done"
    PROVE  /\ Rankable
           /\ \A i \in Ranked : optResults[i].index = i /\ Scored(i)
           /\ \A i \in Sets : \/ optResults[i] = ResultRow(i)
                              \/ (optBroken \/ optMode = "unpicklable") /\ optResults[i] = ErrorRow(i)
<1>1. /\ Sets \subseteq Nat /\ IsFiniteSet(Sets) /\ DOMAIN optResults = Sets /\ DOMAIN optSets = Sets
      /\ optOutcome \in [Sets -> Outcomes] /\ Missing = {}
  <2>1. Len(optSets) \in Nat
    BY DEF OptInv, OptTypes, Listed
  <2>2. IsFiniteSet(1 .. Len(optSets))
    BY <2>1, FS_Interval
  <2>3. QED
    BY <2>1, <2>2 DEF OptInv, OptTypes, Listed, Sets, PhaseOK
<1>2. \A i \in Sets : \/ optResults[i] = ResultRow(i)
                      \/ (optBroken \/ optMode = "unpicklable") /\ optResults[i] = ErrorRow(i)
  BY <1>1 DEF OptInv, RowsOwn, Missing
<1>3. Ranked \subseteq Sets
  BY <1>1 DEF Ranked
<1>4. IsFiniteSet(Ranked)
  BY <1>1, <1>3, FS_Subset
<1>5. ASSUME NEW i \in Ranked
      PROVE  optResults[i].index = i /\ Scored(i) /\ Score(i) \in Int
  <2>1. i \in Sets /\ optResults[i].outcome # Failure
    BY <1>3 DEF Ranked
  <2>2. ErrorRow(i).outcome = Failure /\ ResultRow(i).index = i /\ ResultRow(i).outcome = optOutcome[i]
    BY DEF ErrorRow, ResultRow
  <2>3. optResults[i] = ResultRow(i)
    BY <1>2, <2>1, <2>2
  <2>4. optOutcome[i] \in Outcomes /\ optOutcome[i] # Failure
    BY <1>1, <2>1, <2>2, <2>3
  <2>5. optOutcome[i] \in Nat \/ optOutcome[i] = NoMetric
    BY <2>4, OptimizerAssumption
  <2>6. Score(i) = IF optOutcome[i] = NoMetric THEN -1 ELSE optOutcome[i]
    BY <2>2, <2>3 DEF Score
  <2>7. QED
    <3>1. optResults[i].index = i
      BY <2>2, <2>3
    <3>2. Scored(i) /\ Score(i) \in Int
      BY <2>5, <2>6 DEF Scored
    <3>3. QED
      BY <3>1, <3>2
<1>6. Rankable
  <2>1. Ranked \subseteq Nat
    BY <1>1, <1>3
  <2>2. QED
    BY <1>4, <1>5, <2>1 DEF Rankable
<1>7. \A i \in Ranked : optResults[i].index = i /\ Scored(i)
  BY <1>5
<1>8. QED
  BY <1>2, <1>6, <1>7

LEMMA DoneAlike == ASSUME OptInv PROVE RankedAlike
<1> SUFFICES ASSUME optPhase = "done"
             PROVE  /\ \A i \in DOMAIN optSets :
                          \/ optResults[i] = ResultRow(i)
                          \/ (optBroken \/ optMode = "unpicklable") /\ optResults[i] = ErrorRow(i)
                    /\ \A k \in DOMAIN Leaderboard, l \in DOMAIN Leaderboard :
                          LET a == Leaderboard[k].index
                              b == Leaderboard[l].index
                          IN  k < l => \/ optOutcome[b] = NoMetric /\ optOutcome[a] # NoMetric
                                       \/ optOutcome[a] = optOutcome[b] /\ a < b
                                       \/ /\ NoMetric \notin {optOutcome[a], optOutcome[b]}
                                          /\ optOutcome[a] > optOutcome[b]
  BY DEF RankedAlike
<1>1. DOMAIN optSets = Sets
  BY DEF OptInv, OptTypes, Listed, Sets
<1>2. \A i \in DOMAIN optSets :
          \/ optResults[i] = ResultRow(i)
          \/ (optBroken \/ optMode = "unpicklable") /\ optResults[i] = ErrorRow(i)
  BY <1>1, DoneRanks
<1>3. ASSUME NEW k \in DOMAIN Leaderboard, NEW l \in DOMAIN Leaderboard, NEW a, NEW b,
             a = Leaderboard[k].index, b = Leaderboard[l].index, k < l
      PROVE  \/ optOutcome[b] = NoMetric /\ optOutcome[a] # NoMetric
             \/ optOutcome[a] = optOutcome[b] /\ a < b
             \/ NoMetric \notin {optOutcome[a], optOutcome[b]} /\ optOutcome[a] > optOutcome[b]
  <2>1. k \in 1 .. Cardinality(Ranked) /\ l \in 1 .. Cardinality(Ranked)
    BY DEF Leaderboard
  <2>2. Rankable
    BY DoneRanks
  <2>3. PICK i \in Ranked, j \in Ranked :
            Leaderboard[k] = optResults[i] /\ Leaderboard[l] = optResults[j] /\ Above(i, j)
    BY <1>3, <2>1, <2>2, LeaderboardSorted
  <2>4. a = i /\ b = j
    <3>1. optResults[i].index = i /\ optResults[j].index = j
      BY DoneRanks
    <3>2. QED
      BY <1>3, <2>3, <3>1
  <2>5. PICK x, y, u, v : x = Score(i) /\ y = Score(j) /\ u = optOutcome[i] /\ v = optOutcome[j]
    OBVIOUS
  <2>6. /\ (u = NoMetric /\ x = -1) \/ (u # NoMetric /\ x = u /\ x \in Nat)
        /\ (v = NoMetric /\ y = -1) \/ (v # NoMetric /\ y = v /\ y \in Nat)
    <3>1. Scored(i) /\ Scored(j)
      BY DoneRanks
    <3>2. QED
      BY <2>5, <3>1 DEF Scored
  <2>7. x > y \/ (x = y /\ i < j)
    BY <2>3, <2>5 DEF Above
  <2>8. \/ v = NoMetric /\ u # NoMetric
        \/ u = v /\ i < j
        \/ u # NoMetric /\ v # NoMetric /\ u > v
    BY <2>6, <2>7
  <2>9. QED
    BY <2>4, <2>5, <2>8
<1>4. QED
  BY <1>2, <1>3

\* However a pool's workers are scheduled, answer and die, every set gets its
\* own row, an error only when the pool broke or nothing could be sent to it, and
\* the leaderboard is the one of a serial run: by score, in the order of the sets
\* where scores agree (optimize.py:68-104,149-217; grid.py:32-44).
THEOREM AlwaysRankedAlike == OptSpec => []RankedAlike
<1>1. OptInit => OptInv
  BY OptStarts
<1>2. OptInv /\ [OptNext]_optVars => OptInv'
  BY OptInvHolds
<1>3. OptInv => RankedAlike
  BY DoneAlike
<1>4. QED
  BY <1>1, <1>2, <1>3, PTL DEF OptSpec

-----------------------------------------------------------------------------
(* walk_forward_optimize: its curve, its trades and its winners agree.     *)

\* Counting up to n, for a set in the place of a predicate.
LEMMA CountsUp ==
    ASSUME NEW S, NEW n \in Nat, 0 \in S, \A k \in 0 .. (n - 1) : k \in S => k + 1 \in S
    PROVE  n \in S
<1> DEFINE Bad == {k \in 0 .. n : k \notin S}
<1>1. SUFFICES ASSUME n \notin S PROVE FALSE
  OBVIOUS
<1>2. n \in Bad /\ Bad \subseteq Nat
  BY <1>1
<1>3. PICK k \in Bad : \A l \in Bad : k <= l
  BY <1>2, LeastOne
<1>4. k \in 0 .. n /\ k \notin S /\ k # 0
  OBVIOUS
<1>5. k - 1 \in 0 .. (n - 1) /\ k - 1 \in 0 .. n /\ ~(k <= k - 1) /\ (k - 1) + 1 = k
  BY <1>4
<1>6. k - 1 \in S
  BY <1>3, <1>5
<1>7. QED
  BY <1>4, <1>5, <1>6

\* f holds the sums of the first numbers of w, up to n of them.
Adds(f, w, n) == f = [k \in 0 .. n |-> IF k = 0 THEN 0 ELSE f[k - 1] + w[k]]

LEMMA AddsUnfold ==
    ASSUME NEW f, NEW w, NEW n \in Nat, Adds(f, w, n)
    PROVE  f[0] = 0 /\ \A k \in 0 .. (n - 1) : f[k + 1] = f[k] + w[k + 1]
<1>1. f = [k \in 0 .. n |-> IF k = 0 THEN 0 ELSE f[k - 1] + w[k]]
  BY DEF Adds
<1>2. f[0] = 0
  BY <1>1
<1>3. ASSUME NEW k \in 0 .. (n - 1) PROVE f[k + 1] = f[k] + w[k + 1]
  <2>1. k + 1 \in 0 .. n /\ k + 1 # 0 /\ (k + 1) - 1 = k
    OBVIOUS
  <2>2. QED
    BY <1>1, <2>1
<1>4. QED
  BY <1>2, <1>3

LEMMA AddsExist ==
    ASSUME NEW w, NEW n \in Nat
    PROVE  \E f : Adds(f, w, n)
<1> DEFINE S == {k \in 0 .. n : \E f : Adds(f, w, k)}
<1>1. 0 \in S
  <2>1. PICK f : f = [k \in 0 .. 0 |-> 0]
    OBVIOUS
  <2>2. Adds(f, w, 0)
    BY <2>1 DEF Adds
  <2>3. QED
    BY <2>2
<1>2. ASSUME NEW k \in 0 .. (n - 1), k \in S PROVE k + 1 \in S
  <2>1. PICK f : Adds(f, w, k)
    BY <1>2
  <2>2. f = [j \in 0 .. k |-> IF j = 0 THEN 0 ELSE f[j - 1] + w[j]]
    BY <2>1 DEF Adds
  <2>3. PICK g : g = [j \in 0 .. (k + 1) |-> IF j = k + 1 THEN f[k] + w[k + 1] ELSE f[j]]
    OBVIOUS
  <2>4. ASSUME NEW j \in 0 .. (k + 1) PROVE g[j] = IF j = 0 THEN 0 ELSE g[j - 1] + w[j]
    <3>1. CASE j = k + 1
      <4>1. j - 1 = k /\ k \in 0 .. (k + 1) /\ k # k + 1 /\ j # 0
        BY <3>1
      <4>2. QED
        BY <2>3, <3>1, <4>1
    <3>2. CASE j # k + 1
      <4>1. j \in 0 .. k /\ (j # 0 => j - 1 \in 0 .. k /\ j - 1 # k + 1)
        BY <3>2
      <4>2. QED
        BY <2>2, <2>3, <3>2, <4>1
    <3>3. QED
      BY <3>1, <3>2
  <2>5. Adds(g, w, k + 1)
    BY <2>3, <2>4 DEF Adds
  <2>6. QED
    BY <2>5
<1>3. n \in S
  <2> HIDE DEF S
  <2>1. QED
    BY <1>1, <1>2, CountsUp
<1>4. QED
  BY <1>3

LEMMA SumAdds ==
    ASSUME NEW w, NEW n \in Nat
    PROVE  \E f : Adds(f, w, n) /\ SumOf(w, n) = f[n]
<1>1. \E f : Adds(f, w, n)
  BY AddsExist
<1>2. PICK f : f = CHOOSE h : h = [k \in 0 .. n |-> IF k = 0 THEN 0 ELSE h[k - 1] + w[k]]
  OBVIOUS
<1>3. Adds(f, w, n)
  BY <1>1, <1>2 DEF Adds
<1>4. SumOf(w, n) = f[n]
  BY <1>2 DEF SumOf
<1>5. QED
  BY <1>3, <1>4

\* What SumOf computes.
LEMMA SumLaws ==
    ASSUME NEW w
    PROVE  SumOf(w, 0) = 0 /\ \A n \in Nat : SumOf(w, n + 1) = SumOf(w, n) + w[n + 1]
<1>1. SumOf(w, 0) = 0
  <2>1. PICK f : Adds(f, w, 0) /\ SumOf(w, 0) = f[0]
    BY SumAdds
  <2>2. QED
    BY <2>1, AddsUnfold
<1>2. ASSUME NEW n \in Nat PROVE SumOf(w, n + 1) = SumOf(w, n) + w[n + 1]
  <2>1. PICK m : m = n + 1
    OBVIOUS
  <2>2. m \in Nat /\ m - 1 = n
    BY <2>1
  <2>3. PICK f : Adds(f, w, n) /\ SumOf(w, n) = f[n]
    BY SumAdds
  <2>4. PICK g : Adds(g, w, m) /\ SumOf(w, m) = g[m]
    BY <2>2, SumAdds
  <2>5. f[0] = 0 /\ \A k \in 0 .. (n - 1) : f[k + 1] = f[k] + w[k + 1]
    BY <2>3, AddsUnfold
  <2>6. g[0] = 0 /\ \A k \in 0 .. n : g[k + 1] = g[k] + w[k + 1]
    BY <2>2, <2>4, AddsUnfold
  <2>7. f[n] = g[n]
    <3> DEFINE S == {k \in 0 .. n : f[k] = g[k]}
    <3>1. 0 \in S
      BY <2>5, <2>6
    <3>2. \A k \in 0 .. (n - 1) : k \in S => k + 1 \in S
      BY <2>5, <2>6
    <3>3. n \in S
      <4> HIDE DEF S
      <4>1. QED
        BY <3>1, <3>2, CountsUp
    <3>4. QED
      BY <3>3
  <2>8. g[n + 1] = g[n] + w[n + 1]
    BY <2>6
  <2>9. QED
    BY <2>1, <2>3, <2>4, <2>7, <2>8
<1>3. QED
  BY <1>1, <1>2

LEMMA SumType ==
    ASSUME NEW n \in Nat, NEW w, \A k \in 1 .. n : w[k] \in Int
    PROVE  SumOf(w, n) \in Int
<1> DEFINE S == {k \in 0 .. n : SumOf(w, k) \in Int}
<1>1. 0 \in S
  BY SumLaws
<1>2. ASSUME NEW k \in 0 .. (n - 1), k \in S PROVE k + 1 \in S
  <2>1. k \in Nat /\ k + 1 \in 1 .. n /\ k + 1 \in 0 .. n
    OBVIOUS
  <2>2. SumOf(w, k + 1) = SumOf(w, k) + w[k + 1]
    BY <2>1, SumLaws
  <2>3. SumOf(w, k) \in Int /\ w[k + 1] \in Int
    BY <1>2, <2>1
  <2>4. QED
    BY <2>1, <2>2, <2>3
<1>3. n \in S
  <2> HIDE DEF S
  <2>1. QED
    BY <1>1, <1>2, CountsUp
<1>4. QED
  BY <1>3

\* Numbers that agree have the same sum.
LEMMA SumSame ==
    ASSUME NEW n \in Nat, NEW w, NEW v, \A k \in 1 .. n : v[k] = w[k]
    PROVE  SumOf(v, n) = SumOf(w, n)
<1> DEFINE S == {k \in 0 .. n : SumOf(v, k) = SumOf(w, k)}
<1>1. 0 \in S
  BY SumLaws
<1>2. ASSUME NEW k \in 0 .. (n - 1), k \in S PROVE k + 1 \in S
  <2>1. k \in Nat /\ k + 1 \in 1 .. n /\ k + 1 \in 0 .. n
    OBVIOUS
  <2>2. SumOf(w, k + 1) = SumOf(w, k) + w[k + 1]
    BY <2>1, SumLaws
  <2>3. SumOf(v, k + 1) = SumOf(v, k) + v[k + 1]
    BY <2>1, SumLaws
  <2>4. QED
    BY <1>2, <2>1, <2>2, <2>3
<1>3. n \in S
  <2> HIDE DEF S
  <2>1. QED
    BY <1>1, <1>2, CountsUp
<1>4. QED
  BY <1>3

\* u is the sum of w and v, number by number.
Parts(u, w, v, n) ==
    \A k \in 1 .. n : w[k] \in Int /\ v[k] \in Int /\ u[k] = w[k] + v[k]

LEMMA SumParts ==
    ASSUME NEW n \in Nat, NEW u, NEW w, NEW v, Parts(u, w, v, n)
    PROVE  SumOf(u, n) = SumOf(w, n) + SumOf(v, n)
<1> DEFINE S == {k \in 0 .. n : /\ SumOf(w, k) \in Int /\ SumOf(v, k) \in Int
                                /\ SumOf(u, k) = SumOf(w, k) + SumOf(v, k)}
<1>1. 0 \in S
  BY SumLaws
<1>2. ASSUME NEW k \in 0 .. (n - 1), k \in S PROVE k + 1 \in S
  <2>1. k \in Nat /\ k + 1 \in 1 .. n /\ k + 1 \in 0 .. n
    OBVIOUS
  <2>2. PICK a, b, c, d, e : /\ a = SumOf(w, k) /\ b = SumOf(v, k) /\ c = w[k + 1] /\ d = v[k + 1]
                             /\ e = SumOf(u, k)
    OBVIOUS
  <2>3. SumOf(w, k + 1) = a + c
    BY <2>1, <2>2, SumLaws
  <2>4. SumOf(v, k + 1) = b + d
    BY <2>1, <2>2, SumLaws
  <2>5. SumOf(u, k + 1) = e + u[k + 1]
    BY <2>1, <2>2, SumLaws
  <2>6. c \in Int /\ d \in Int /\ u[k + 1] = c + d
    BY <2>1, <2>2 DEF Parts
  <2>7. a \in Int /\ b \in Int /\ e = a + b
    BY <1>2, <2>2
  <2>8. QED
    BY <2>1, <2>3, <2>4, <2>5, <2>6, <2>7
<1>3. n \in S
  <2> HIDE DEF S
  <2>1. QED
    BY <1>1, <1>2, CountsUp
<1>4. QED
  BY <1>3

LEMMA SumNothing ==
    ASSUME NEW n \in Nat, NEW w, \A k \in 1 .. n : w[k] = 0
    PROVE  SumOf(w, n) = 0
<1> DEFINE S == {k \in 0 .. n : SumOf(w, k) = 0}
<1>1. 0 \in S
  BY SumLaws
<1>2. ASSUME NEW k \in 0 .. (n - 1), k \in S PROVE k + 1 \in S
  <2>1. k \in Nat /\ k + 1 \in 1 .. n /\ k + 1 \in 0 .. n
    OBVIOUS
  <2>2. SumOf(w, k + 1) = SumOf(w, k) + w[k + 1]
    BY <2>1, SumLaws
  <2>3. QED
    BY <1>2, <2>1, <2>2
<1>3. n \in S
  <2> HIDE DEF S
  <2>1. QED
    BY <1>1, <1>2, CountsUp
<1>4. QED
  BY <1>3

\* A sequence with one member more.
LEMMA ListGrows ==
    ASSUME NEW f, Listed(f), NEW e
    PROVE  LET g == Append(f, e)
           IN  /\ Listed(g) /\ Len(g) = Len(f) + 1 /\ g[Len(f) + 1] = e
               /\ \A k \in 1 .. Len(f) : g[k] = f[k]
<1>1. PICK n, S : n = Len(f) /\ S = {f[k] : k \in 1 .. n} \union {e}
  OBVIOUS
<1>2. n \in Nat /\ f = [k \in 1 .. n |-> f[k]]
  BY <1>1 DEF Listed
<1>3. f \in [1 .. n -> S]
  BY <1>1, <1>2
<1>4. f \in Seq(S) /\ e \in S
  BY <1>1, <1>2, <1>3
<1>5. PICK g : g = Append(f, e)
  OBVIOUS
<1>6. g \in Seq(S) /\ Len(g) = n + 1 /\ g[n + 1] = e /\ \A k \in 1 .. n : g[k] = f[k]
  BY <1>1, <1>4, <1>5
<1>7. Listed(g)
  BY <1>6 DEF Listed
<1>8. QED
  BY <1>1, <1>5, <1>6, <1>7

\* The windows of a call, and who won them.
LEMMA WinnersFacts ==
    ASSUME NEW w, Listed(w)
    PROVE  /\ Len(w) \in Nat /\ DOMAIN w = 1 .. Len(w)
           /\ IsFiniteSet(Winners(w)) /\ Cardinality(Winners(w)) \in Nat
           /\ \A p \in Winners(w) : Wins(w, p) # {}
           /\ \A p : Wins(w, p) \subseteq 1 .. Len(w) /\ IsFiniteSet(Wins(w, p)) /\ Cardinality(Wins(w, p)) \in Nat
           /\ \A p : Cardinality({k \in Wins(w, p) : w[k].profitable}) \in Nat
<1>1. PICK n : n = Len(w)
  OBVIOUS
<1>2. n \in Nat /\ DOMAIN w = 1 .. n
  BY <1>1 DEF Listed
<1>3. IsFiniteSet(1 .. n)
  BY <1>2, FS_Interval
<1>4. IsFiniteSet(Winners(w))
  <2>1. PICK f : f = [k \in 1 .. n |-> w[k].best]
    OBVIOUS
  <2>2. Winners(w) = {f[k] : k \in 1 .. n}
    BY <1>2, <2>1 DEF Winners
  <2>3. f \in Surjection(1 .. n, Winners(w))
    BY <2>1, <2>2 DEF Surjection
  <2>4. QED
    BY <1>3, <2>3, FS_Surjection
<1>5. ASSUME NEW p
      PROVE  /\ Wins(w, p) \subseteq 1 .. n /\ IsFiniteSet(Wins(w, p)) /\ Cardinality(Wins(w, p)) \in Nat
             /\ Cardinality({k \in Wins(w, p) : w[k].profitable}) \in Nat
  <2>1. Wins(w, p) \subseteq 1 .. n
    BY <1>2 DEF Wins
  <2>2. IsFiniteSet(Wins(w, p))
    BY <1>3, <2>1, FS_Subset
  <2>3. {k \in Wins(w, p) : w[k].profitable} \subseteq Wins(w, p)
    OBVIOUS
  <2>4. IsFiniteSet({k \in Wins(w, p) : w[k].profitable})
    BY <2>2, <2>3, FS_Subset
  <2>5. QED
    BY <2>1, <2>2, <2>4, FS_CardinalityType
<1>6. \A p \in Winners(w) : Wins(w, p) # {}
  BY <1>2 DEF Winners, Wins
<1>7. Cardinality(Winners(w)) \in Nat
  BY <1>4, FS_CardinalityType
<1>8. QED
  BY <1>1, <1>2, <1>4, <1>5, <1>6, <1>7

\* p won a window before any that q won.
Sooner(w, p, q) == \E k \in Wins(w, p) : \A l \in Wins(w, q) : k < l

LEMMA SoonerOrders ==
    ASSUME NEW w, Listed(w), NEW p \in Winners(w), NEW q \in Winners(w), NEW r \in Winners(w)
    PROVE  /\ ~Sooner(w, p, p) /\ (p # q => Sooner(w, p, q) \/ Sooner(w, q, p))
           /\ ~(Sooner(w, p, q) /\ Sooner(w, q, p))
           /\ (Sooner(w, p, q) /\ Sooner(w, q, r) => Sooner(w, p, r))
<1>1. PICK P, Q, R : P = Wins(w, p) /\ Q = Wins(w, q) /\ R = Wins(w, r)
  OBVIOUS
<1>2. P \subseteq Nat /\ Q \subseteq Nat /\ R \subseteq Nat /\ P # {} /\ Q # {}
  BY <1>1, WinnersFacts
<1>3. PICK k \in P : \A j \in P : k <= j
  BY <1>2, LeastOne
<1>4. PICK l \in Q : \A j \in Q : l <= j
  BY <1>2, LeastOne
<1>5. k \in Nat /\ l \in Nat
  BY <1>2
<1>6. ~Sooner(w, p, p)
  BY <1>1, <1>2 DEF Sooner
<1>7. ASSUME p # q PROVE Sooner(w, p, q) \/ Sooner(w, q, p)
  <2>1. k # l
    BY <1>1, <1>3, <1>4, <1>7 DEF Wins
  <2>2. CASE k < l
    <3>1. \A j \in Q : k < j
      BY <1>2, <1>4, <1>5, <2>2
    <3>2. QED
      BY <1>1, <3>1 DEF Sooner
  <2>3. CASE l < k
    <3>1. \A j \in P : l < j
      BY <1>2, <1>3, <1>5, <2>3
    <3>2. QED
      BY <1>1, <3>1 DEF Sooner
  <2>4. QED
    BY <1>5, <2>1, <2>2, <2>3
<1>8. ASSUME Sooner(w, p, q), Sooner(w, q, p) PROVE FALSE
  <2>1. PICK a \in P : \A j \in Q : a < j
    BY <1>1, <1>8 DEF Sooner
  <2>2. PICK b \in Q : \A j \in P : b < j
    BY <1>1, <1>8 DEF Sooner
  <2>3. a < b /\ b < a /\ a \in Nat /\ b \in Nat
    BY <1>2, <2>1, <2>2
  <2>4. QED
    BY <2>3
<1>9. ASSUME Sooner(w, p, q), Sooner(w, q, r) PROVE Sooner(w, p, r)
  <2>1. PICK a \in P : \A j \in Q : a < j
    BY <1>1, <1>9 DEF Sooner
  <2>2. PICK b \in Q : \A j \in R : b < j
    BY <1>1, <1>9 DEF Sooner
  <2>3. ASSUME NEW j \in R PROVE a < j
    <3>1. a < b /\ b < j /\ a \in Nat /\ b \in Nat /\ j \in Nat
      BY <1>2, <2>1, <2>2
    <3>2. QED
      BY <3>1
  <2>4. QED
    BY <1>1, <2>3 DEF Sooner
<1>10. QED
  BY <1>6, <1>7, <1>8, <1>9

\* The order of the leaderboard.
LEMMA AheadOrders ==
    ASSUME NEW w, Listed(w), NEW p \in Winners(w), NEW q \in Winners(w), NEW r \in Winners(w)
    PROVE  /\ ~Ahead(w, p, p) /\ (p # q => Ahead(w, p, q) \/ Ahead(w, q, p))
           /\ (Ahead(w, p, q) /\ Ahead(w, q, r) => Ahead(w, p, r))
           /\ (Ahead(w, p, q) => Entry(w, p).wins >= Entry(w, q).wins)
<1>1. PICK a, b, c, d, e, f : /\ a = Entry(w, p).wins /\ b = Entry(w, p).profitable
                              /\ c = Entry(w, q).wins /\ d = Entry(w, q).profitable
                              /\ e = Entry(w, r).wins /\ f = Entry(w, r).profitable
  OBVIOUS
<1>2. a \in Nat /\ b \in Nat /\ c \in Nat /\ d \in Nat /\ e \in Nat /\ f \in Nat
  BY <1>1, WinnersFacts DEF Entry
<1>3. /\ Ahead(w, p, p) <=> a > a \/ (a = a /\ b > b) \/ (a = a /\ b = b /\ Sooner(w, p, p))
      /\ Ahead(w, p, q) <=> a > c \/ (a = c /\ b > d) \/ (a = c /\ b = d /\ Sooner(w, p, q))
      /\ Ahead(w, q, p) <=> c > a \/ (c = a /\ d > b) \/ (c = a /\ d = b /\ Sooner(w, q, p))
      /\ Ahead(w, q, r) <=> c > e \/ (c = e /\ d > f) \/ (c = e /\ d = f /\ Sooner(w, q, r))
      /\ Ahead(w, p, r) <=> a > e \/ (a = e /\ b > f) \/ (a = e /\ b = f /\ Sooner(w, p, r))
  BY <1>1 DEF Ahead, Sooner
<1>4. /\ ~Sooner(w, p, p) /\ (p # q => Sooner(w, p, q) \/ Sooner(w, q, p))
      /\ (Sooner(w, p, q) /\ Sooner(w, q, r) => Sooner(w, p, r))
  BY SoonerOrders
<1>5. QED
  BY <1>1, <1>2, <1>3, <1>4

\* The winners in the order of the leaderboard: f is who has each seat.
Seated(w, f) ==
    LET n == Cardinality(Winners(w))
    IN  /\ f \in [1 .. n -> Winners(w)]
        /\ \A k \in 1 .. n : Summary(w).leaderboard[k] = Entry(w, f[k])
        /\ \A p \in Winners(w) : \E k \in 1 .. n : f[k] = p
        /\ \A k, l \in 1 .. n : k # l => f[k] # f[l]
        /\ \A k, l \in 1 .. n : k < l => Entry(w, f[k]).wins >= Entry(w, f[l]).wins

LEMMA WinnersSeated ==
    ASSUME NEW w, Listed(w)
    PROVE  \E f : Seated(w, f)
<1>1. PICK R : R = {x \in Winners(w) \X Winners(w) : Ahead(w, x[1], x[2])}
  OBVIOUS
<1>2. PICK n, f : n = Cardinality(Winners(w)) /\ f = [k \in 1 .. n |-> CHOOSE p \in Winners(w) : Seat(w, p) = k]
  OBVIOUS
<1>3. \A p, q \in Winners(w) : <<p, q>> \in R <=> Ahead(w, p, q)
  BY <1>1
<1>4. Orders(R, Winners(w))
  BY <1>3, AheadOrders, WinnersFacts DEF Orders
<1>5. \A p \in Winners(w) : Seat(w, p) = RankIn(R, Winners(w), p)
  BY <1>3 DEF Seat, RankIn, Under
<1>6. ASSUME NEW k \in 1 .. n PROVE f[k] \in Winners(w) /\ Seat(w, f[k]) = k
  <2>1. \E p \in Winners(w) : RankIn(R, Winners(w), p) = k
    BY <1>2, <1>4, RanksTaken
  <2>2. QED
    BY <1>2, <1>5, <2>1
<1>7. ASSUME NEW p \in Winners(w) PROVE Seat(w, p) \in 1 .. n
  BY <1>2, <1>4, <1>5, RankCounts
<1>8. ASSUME NEW p \in Winners(w), NEW q \in Winners(w), Ahead(w, p, q) PROVE Seat(w, p) < Seat(w, q)
  BY <1>3, <1>4, <1>5, <1>8, RankBefore
<1>9. \A p, q \in Winners(w) : p # q => Seat(w, p) # Seat(w, q)
  <2>1. SUFFICES ASSUME NEW p \in Winners(w), NEW q \in Winners(w), p # q PROVE Seat(w, p) # Seat(w, q)
    OBVIOUS
  <2>2. Ahead(w, p, q) \/ Ahead(w, q, p)
    BY <2>1, AheadOrders
  <2>3. Seat(w, p) < Seat(w, q) \/ Seat(w, q) < Seat(w, p)
    BY <1>8, <2>2
  <2>4. Seat(w, p) \in Int /\ Seat(w, q) \in Int
    BY <1>7
  <2>5. QED
    BY <2>3, <2>4
<1>10. \A p \in Winners(w) : \E k \in 1 .. n : f[k] = p
  BY <1>6, <1>7, <1>9
<1>11. \A k, l \in 1 .. n : k # l => f[k] # f[l]
  BY <1>6
<1>12. ASSUME NEW k \in 1 .. n, NEW l \in 1 .. n, k < l
       PROVE  Entry(w, f[k]).wins >= Entry(w, f[l]).wins
  <2>1. PICK p, q : p = f[k] /\ q = f[l]
    OBVIOUS
  <2>2. p \in Winners(w) /\ q \in Winners(w) /\ Seat(w, p) = k /\ Seat(w, q) = l /\ p # q
    BY <1>6, <1>11, <1>12, <2>1
  <2>3. ~Ahead(w, q, p)
    BY <1>8, <1>12, <2>2
  <2>4. Ahead(w, p, q)
    BY <2>2, <2>3, AheadOrders
  <2>5. QED
    BY <2>1, <2>2, <2>4, AheadOrders
<1>13. \A k \in 1 .. n : Summary(w).leaderboard[k] = Entry(w, f[k])
  BY <1>2 DEF Summary
<1>14. f \in [1 .. n -> Winners(w)]
  BY <1>2, <1>6
<1>15. Seated(w, f)
  <2>1. Cardinality(Winners(w)) = n
    BY <1>2
  <2>2. \A k, l \in 1 .. n : k < l => Entry(w, f[k]).wins >= Entry(w, f[l]).wins
    BY <1>12
  <2>3. QED
    BY ZenonT(30), <1>10, <1>11, <1>13, <1>14, <2>1, <2>2 DEF Seated
<1>16. QED
  BY <1>15

\* The leaderboard has a row for each winner.
LEMMA BoardRows ==
    ASSUME NEW w, Listed(w)
    PROVE  /\ Len(Summary(w).leaderboard) = Cardinality(Winners(w))
           /\ DOMAIN Summary(w).leaderboard = 1 .. Cardinality(Winners(w))
<1>1. PICK n : n = Cardinality(Winners(w))
  OBVIOUS
<1>2. n \in Nat
  BY <1>1, WinnersFacts
<1>3. PICK b : b = Summary(w).leaderboard
  OBVIOUS
<1>4. PICK f : f = [k \in 1 .. n |-> Entry(w, CHOOSE p \in Winners(w) : Seat(w, p) = k)]
  OBVIOUS
<1>5. b = f
  BY <1>1, <1>3, <1>4 DEF Summary
<1>6. f = [k \in 1 .. n |-> f[k]]
  BY <1>4
<1>7. Len(f) = n
  BY <1>2, <1>6, Lists
<1>8. DOMAIN f = 1 .. n
  BY <1>4
<1>9. QED
  BY <1>1, <1>3, <1>5, <1>7, <1>8

\* The windows of the first k seats.
Held(w, f, k) == {j \in 1 .. Len(w) : \E i \in 1 .. k : w[j].best = f[i]}

LEMMA HeldFacts ==
    ASSUME NEW w, Listed(w), NEW f, Seated(w, f), NEW k \in Nat
    PROVE  /\ Held(w, f, 0) = {}
           /\ k = Cardinality(Winners(w)) => Held(w, f, k) = 1 .. Len(w)
           /\ k < Cardinality(Winners(w)) =>
                /\ Held(w, f, k + 1) = Held(w, f, k) \cup Wins(w, f[k + 1])
                /\ Held(w, f, k) \cap Wins(w, f[k + 1]) = {}
<1>1. PICK n, N : n = Cardinality(Winners(w)) /\ N = Len(w)
  OBVIOUS
<1>2. n \in Nat /\ N \in Nat /\ DOMAIN w = 1 .. N
  BY <1>1, WinnersFacts
<1>3. /\ f \in [1 .. n -> Winners(w)]
      /\ \A p \in Winners(w) : \E i \in 1 .. n : f[i] = p
      /\ \A i, l \in 1 .. n : i # l => f[i] # f[l]
  BY <1>1 DEF Seated
<1>4. Held(w, f, 0) = {}
  BY DEF Held
<1>5. ASSUME k = n PROVE Held(w, f, k) = 1 .. N
  <2>1. SUFFICES ASSUME NEW j \in 1 .. N PROVE \E i \in 1 .. k : w[j].best = f[i]
    BY <1>1 DEF Held
  <2>2. w[j].best \in Winners(w)
    BY <1>2 DEF Winners
  <2>3. QED
    BY <1>3, <1>5, <2>2
<1>6. ASSUME k < n
      PROVE  /\ Held(w, f, k + 1) = Held(w, f, k) \cup Wins(w, f[k + 1])
             /\ Held(w, f, k) \cap Wins(w, f[k + 1]) = {}
  <2>1. PICK m : m = k + 1
    OBVIOUS
  <2>2. m \in 1 .. n /\ 1 .. m = (1 .. k) \cup {m} /\ \A i \in 1 .. k : i \in 1 .. n /\ i # m
    BY <1>2, <1>6, <2>1
  <2>3. Wins(w, f[m]) = {j \in 1 .. N : w[j].best = f[m]}
    BY <1>2 DEF Wins
  <2>4. Held(w, f, m) = Held(w, f, k) \cup Wins(w, f[m])
    BY <1>1, <2>2, <2>3 DEF Held
  <2>5. \A i \in 1 .. k : f[i] # f[m]
    BY <1>3, <2>2
  <2>6. Held(w, f, k) \cap Wins(w, f[m]) = {}
    BY <2>3, <2>5 DEF Held
  <2>7. QED
    BY <2>1, <2>4, <2>6
<1>7. QED
  BY <1>1, <1>4, <1>5, <1>6

\* What the leaderboard claims in a column.
Column(w, c) == [e \in DOMAIN Summary(w).leaderboard |-> Summary(w).leaderboard[e][c]]

LEMMA WinsShared ==
    ASSUME NEW w, Listed(w)
    PROVE  SumOf(Column(w, "wins"), Len(Summary(w).leaderboard)) = Len(w)
<1>1. PICK f : Seated(w, f)
  BY WinnersSeated
<1>2. PICK n, N, g : n = Cardinality(Winners(w)) /\ N = Len(w) /\ g = Column(w, "wins")
  OBVIOUS
<1>3. n \in Nat /\ N \in Nat
  BY <1>2, WinnersFacts
<1>4. Len(Summary(w).leaderboard) = n /\ DOMAIN Summary(w).leaderboard = 1 .. n
  BY <1>2, BoardRows
<1>5. ASSUME NEW k \in 1 .. n PROVE g[k] = Cardinality(Wins(w, f[k]))
  <2>1. g[k] = Summary(w).leaderboard[k].wins
    BY <1>2, <1>4 DEF Column
  <2>2. Summary(w).leaderboard[k] = Entry(w, f[k])
    BY <1>1, <1>2 DEF Seated
  <2>3. Entry(w, f[k]).wins = Cardinality(Wins(w, f[k]))
    BY DEF Entry
  <2>4. QED
    BY <2>1, <2>2, <2>3
<1> DEFINE S == {k \in 0 .. n : IsFiniteSet(Held(w, f, k)) /\ SumOf(g, k) = Cardinality(Held(w, f, k))}
<1>6. 0 \in S
  <2>1. Held(w, f, 0) = {}
    BY <1>1, HeldFacts
  <2>2. SumOf(g, 0) = 0
    BY SumLaws
  <2>3. QED
    BY <1>3, <2>1, <2>2, FS_EmptySet
<1>7. ASSUME NEW k \in 0 .. (n - 1), k \in S PROVE k + 1 \in S
  <2>1. k \in Nat /\ k < n /\ k + 1 \in 1 .. n /\ k + 1 \in 0 .. n
    BY <1>3
  <2>2. PICK H, W, U : H = Held(w, f, k) /\ W = Wins(w, f[k + 1]) /\ U = Held(w, f, k + 1)
    OBVIOUS
  <2>3. U = H \cup W /\ H \cap W = {}
    BY <1>1, <1>2, <2>1, <2>2, HeldFacts
  <2>4. IsFiniteSet(H) /\ SumOf(g, k) = Cardinality(H)
    BY <1>7, <2>2
  <2>5. IsFiniteSet(W)
    BY <2>2, WinnersFacts
  <2>6. IsFiniteSet(U) /\ Cardinality(U) = Cardinality(H) + Cardinality(W) - Cardinality(H \cap W)
    BY <2>3, <2>4, <2>5, FS_Union
  <2>7. Cardinality(H \cap W) = 0
    BY <2>3, FS_EmptySet
  <2>8. Cardinality(H) \in Nat /\ Cardinality(W) \in Nat
    BY <2>4, <2>5, FS_CardinalityType
  <2>9. Cardinality(U) = Cardinality(H) + Cardinality(W)
    BY <2>6, <2>7, <2>8
  <2>10. SumOf(g, k + 1) = SumOf(g, k) + g[k + 1]
    BY <2>1, SumLaws
  <2>11. g[k + 1] = Cardinality(W)
    BY <1>5, <2>1, <2>2
  <2>12. SumOf(g, k + 1) = Cardinality(U)
    BY <2>4, <2>9, <2>10, <2>11
  <2>13. QED
    BY <2>1, <2>2, <2>6, <2>12
<1>8. n \in S
  <2> HIDE DEF S
  <2>1. QED
    BY <1>3, <1>6, <1>7, CountsUp
<1>9. Held(w, f, n) = 1 .. N
  BY <1>1, <1>2, <1>3, HeldFacts
<1>10. Cardinality(1 .. N) = N
  BY <1>3, FS_Interval
<1>11. QED
  BY <1>2, <1>4, <1>8, <1>9, <1>10

\* The trades of the windows in S.
TradesOf(w, S) == [j \in 1 .. Len(w) |-> IF j \in S THEN w[j].trades ELSE 0]

LEMMA TradesShared ==
    ASSUME NEW w, Listed(w), \A j \in 1 .. Len(w) : w[j].trades \in Int
    PROVE  SumOf(Column(w, "trades"), Len(Summary(w).leaderboard)) = SumOf([j \in 1 .. Len(w) |-> w[j].trades], Len(w))
<1>1. PICK f : Seated(w, f)
  BY WinnersSeated
<1>2. PICK n, N, g : n = Cardinality(Winners(w)) /\ N = Len(w) /\ g = Column(w, "trades")
  OBVIOUS
<1>3. n \in Nat /\ N \in Nat /\ DOMAIN w = 1 .. N
  BY <1>2, WinnersFacts
<1>4. Len(Summary(w).leaderboard) = n /\ DOMAIN Summary(w).leaderboard = 1 .. n
  BY <1>2, BoardRows
<1>5. ASSUME NEW k \in 1 .. n PROVE g[k] = SumOf(TradesOf(w, Wins(w, f[k])), N)
  <2>1. g[k] = Summary(w).leaderboard[k].trades
    BY <1>2, <1>4 DEF Column
  <2>2. Summary(w).leaderboard[k] = Entry(w, f[k])
    BY <1>1, <1>2 DEF Seated
  <2>3. PICK p : p = f[k]
    OBVIOUS
  <2>4. PICK u, v : u = TradesOf(w, Wins(w, p)) /\ v = [j \in DOMAIN w |-> IF w[j].best = p THEN w[j].trades ELSE 0]
    OBVIOUS
  <2>5. Entry(w, p).trades = SumOf(v, N)
    BY <1>2, <2>4 DEF Entry
  <2>6. \A j \in 1 .. N : u[j] = v[j]
    BY <1>2, <1>3, <2>4 DEF TradesOf, Wins
  <2>7. SumOf(u, N) = SumOf(v, N)
    BY <1>3, <2>6, SumSame
  <2>8. QED
    BY <2>1, <2>2, <2>3, <2>4, <2>5, <2>7
<1> DEFINE S == {k \in 0 .. n : SumOf(g, k) = SumOf(TradesOf(w, Held(w, f, k)), N)}
<1>6. 0 \in S
  <2>1. PICK u : u = TradesOf(w, Held(w, f, 0))
    OBVIOUS
  <2>2. \A j \in 1 .. N : u[j] = 0
    <3>1. Held(w, f, 0) = {}
      BY <1>1, HeldFacts
    <3>2. QED
      BY <1>2, <2>1, <3>1 DEF TradesOf
  <2>3. SumOf(u, N) = 0
    BY <1>3, <2>2, SumNothing
  <2>4. SumOf(g, 0) = 0
    BY SumLaws
  <2>5. QED
    BY <1>3, <2>1, <2>3, <2>4
<1>7. ASSUME NEW k \in 0 .. (n - 1), k \in S PROVE k + 1 \in S
  <2>1. k \in Nat /\ k < n /\ k + 1 \in 1 .. n /\ k + 1 \in 0 .. n
    BY <1>3
  <2>2. PICK H, W, U : H = Held(w, f, k) /\ W = Wins(w, f[k + 1]) /\ U = Held(w, f, k + 1)
    OBVIOUS
  <2>3. U = H \cup W /\ H \cap W = {}
    BY <1>1, <1>2, <2>1, <2>2, HeldFacts
  <2>4. PICK a, b, c : a = TradesOf(w, H) /\ b = TradesOf(w, W) /\ c = TradesOf(w, U)
    OBVIOUS
  <2>5. ASSUME NEW j \in 1 .. N PROVE a[j] \in Int /\ b[j] \in Int /\ c[j] = a[j] + b[j]
    <3>1. PICK t : t = w[j].trades
      OBVIOUS
    <3>2. t \in Int
      BY <1>2, <3>1
    <3>3. /\ a[j] = (IF j \in H THEN t ELSE 0) /\ b[j] = (IF j \in W THEN t ELSE 0)
          /\ c[j] = (IF j \in U THEN t ELSE 0)
      BY <1>2, <2>4, <3>1 DEF TradesOf
    <3>4. (j \in U <=> j \in H \/ j \in W) /\ ~(j \in H /\ j \in W)
      BY <2>3
    <3>5. QED
      BY <3>2, <3>3, <3>4
  <2>6. Parts(c, a, b, N)
    BY <2>5 DEF Parts
  <2>7. SumOf(c, N) = SumOf(a, N) + SumOf(b, N)
    BY <1>3, <2>6, SumParts
  <2>8. SumOf(g, k + 1) = SumOf(g, k) + g[k + 1]
    BY <2>1, SumLaws
  <2>9. g[k + 1] = SumOf(b, N)
    BY <1>5, <2>1, <2>2, <2>4
  <2>10. SumOf(g, k) = SumOf(a, N)
    BY <1>7, <2>2, <2>4
  <2>11. SumOf(g, k + 1) = SumOf(c, N)
    BY <2>7, <2>8, <2>9, <2>10
  <2>12. QED
    BY <2>1, <2>2, <2>4, <2>11
<1>8. n \in S
  <2> HIDE DEF S
  <2>1. QED
    BY <1>3, <1>6, <1>7, CountsUp
<1>9. Held(w, f, n) = 1 .. N
  BY <1>1, <1>2, <1>3, HeldFacts
<1>10. PICK u, v : u = TradesOf(w, 1 .. N) /\ v = [j \in 1 .. N |-> w[j].trades]
  OBVIOUS
<1>11. \A j \in 1 .. N : u[j] = v[j]
  BY <1>2, <1>10 DEF TradesOf
<1>12. SumOf(u, N) = SumOf(v, N)
  BY <1>3, <1>11, SumSame
<1>13. QED
  BY <1>2, <1>4, <1>8, <1>9, <1>10, <1>12

\* The seats are by wins.
LEMMA WinsOrdered ==
    ASSUME NEW w, Listed(w), NEW e \in DOMAIN Summary(w).leaderboard, NEW d \in DOMAIN Summary(w).leaderboard, e < d
    PROVE  Summary(w).leaderboard[e].wins >= Summary(w).leaderboard[d].wins
<1>1. PICK f : Seated(w, f)
  BY WinnersSeated
<1>2. e \in 1 .. Cardinality(Winners(w)) /\ d \in 1 .. Cardinality(Winners(w))
  BY BoardRows
<1>3. Summary(w).leaderboard[e] = Entry(w, f[e]) /\ Summary(w).leaderboard[d] = Entry(w, f[d])
  BY <1>1, <1>2 DEF Seated
<1>4. Entry(w, f[e]).wins >= Entry(w, f[d]).wins
  BY <1>1, <1>2 DEF Seated
<1>5. QED
  BY <1>3, <1>4

\* Each window has the winner of the one before.
Alike(w) == \A k \in 2 .. Len(w) : w[k].best = w[k - 1].best

LEMMA AlikeAlone ==
    ASSUME NEW w, Listed(w), Len(w) >= 1
    PROVE  Len(Summary(w).leaderboard) = 1 <=> Alike(w)
<1>1. PICK N : N = Len(w)
  OBVIOUS
<1>2. N \in Nat /\ N >= 1 /\ DOMAIN w = 1 .. N /\ IsFiniteSet(Winners(w))
  BY <1>1, WinnersFacts
<1>3. Len(Summary(w).leaderboard) = Cardinality(Winners(w))
  BY BoardRows
<1>4. Cardinality(Winners(w)) = 1 <=> \E x : Winners(w) = {x}
  BY <1>2, FS_Singleton
<1>5. ASSUME NEW x, Winners(w) = {x} PROVE Alike(w)
  <2>1. \A k \in 1 .. N : w[k].best = x
    BY <1>2, <1>5 DEF Winners
  <2>2. \A k \in 2 .. N : k \in 1 .. N /\ k - 1 \in 1 .. N
    BY <1>2
  <2>3. QED
    BY <1>1, <2>1, <2>2 DEF Alike
<1>6. ASSUME Alike(w) PROVE Winners(w) = {w[1].best}
  <2>1. ASSUME NEW k \in 1 .. N PROVE w[k].best = w[1].best
    <3> DEFINE S == {j \in 0 .. k : j = 0 \/ w[j].best = w[1].best}
    <3>1. 0 \in S
      OBVIOUS
    <3>2. ASSUME NEW j \in 0 .. (k - 1), j \in S PROVE j + 1 \in S
      <4>1. CASE j = 0
        BY <4>1
      <4>2. CASE j # 0
        <5>1. j + 1 \in 2 .. N /\ (j + 1) - 1 = j /\ j + 1 \in 0 .. k
          BY <1>2, <4>2
        <5>2. w[j + 1].best = w[j].best
          BY <1>1, <1>6, <5>1 DEF Alike
        <5>3. QED
          BY <3>2, <4>2, <5>1, <5>2
      <4>3. QED
        BY <4>1, <4>2
    <3>3. k \in S
      <4> HIDE DEF S
      <4>1. k \in Nat
        OBVIOUS
      <4>2. QED
        BY <3>1, <3>2, <4>1, CountsUp
    <3>4. QED
      BY <3>3
  <2>2. 1 \in 1 .. N
    BY <1>2
  <2>3. QED
    BY <1>2, <2>1, <2>2 DEF Winners
<1>7. QED
  BY <1>3, <1>4, <1>5, <1>6

LEMMA AlikeRepeats ==
    ASSUME NEW w, Listed(w), Len(w) >= 1
    PROVE  Summary(w).repeats = Len(w) - 1 <=> Alike(w)
<1>1. PICK N, R : N = Len(w) /\ R = {k \in 2 .. N : w[k].best = w[k - 1].best}
  OBVIOUS
<1>2. N \in Nat /\ N >= 1
  BY <1>1, WinnersFacts
<1>3. Summary(w).repeats = Cardinality(R)
  BY <1>1 DEF Summary
<1>4. R \in SUBSET (2 .. N)
  BY <1>1
<1>5. IsFiniteSet(2 .. N) /\ Cardinality(2 .. N) = N - 1
  <2>1. IsFiniteSet(2 .. N) /\ Cardinality(2 .. N) = IF 2 > N THEN 0 ELSE N - 2 + 1
    BY <1>2, FS_Interval
  <2>2. QED
    BY <1>2, <2>1
<1>6. Cardinality(2 .. N) = Cardinality(R) => 2 .. N = R
  BY <1>4, <1>5, FS_Subset
<1>7. Alike(w) <=> 2 .. N = R
  BY <1>1 DEF Alike
<1>8. QED
  BY <1>1, <1>3, <1>5, <1>6, <1>7

LEMMA AlikeStable ==
    ASSUME NEW w, Listed(w)
    PROVE  Alike(w) <=> \A k \in DOMAIN w : Summary(w).stability[k][1] = Summary(w).stability[k][2]
<1>1. PICK N : N = Len(w)
  OBVIOUS
<1>2. N \in Nat /\ DOMAIN w = 1 .. N
  BY <1>1, WinnersFacts
<1>3. ASSUME NEW k \in 1 .. N
      PROVE  Summary(w).stability[k][1] = Summary(w).stability[k][2]
                <=> \A m \in Neighbours(w, k) : w[m].best = w[k].best
  <2>1. Summary(w).stability[k] = Stability(w, k)
    BY <1>2 DEF Summary
  <2>2. PICK H, A : H = Neighbours(w, k) /\ A = {m \in H : w[m].best = w[k].best}
    OBVIOUS
  <2>3. CASE H = {}
    <3>1. Stability(w, k) = <<1, 1>>
      BY <2>2, <2>3 DEF Stability
    <3>2. QED
      BY <2>1, <2>2, <2>3, <3>1
  <2>4. CASE H # {}
    <3>1. Stability(w, k) = <<Cardinality(A), Cardinality(H)>>
      BY <2>2, <2>4 DEF Stability
    <3>2. H \in SUBSET (1 .. N)
      BY <1>2, <2>2 DEF Neighbours
    <3>3. IsFiniteSet(1 .. N)
      BY <1>2, FS_Interval
    <3>4. IsFiniteSet(H)
      BY <3>2, <3>3, FS_Subset
    <3>5. A \in SUBSET H
      BY <2>2
    <3>6. Cardinality(H) = Cardinality(A) => H = A
      BY <3>4, <3>5, FS_Subset
    <3>7. H = A <=> \A m \in H : w[m].best = w[k].best
      BY <2>2
    <3>8. PICK a, h : a = Cardinality(A) /\ h = Cardinality(H)
      OBVIOUS
    <3>9. Summary(w).stability[k][1] = a /\ Summary(w).stability[k][2] = h
      BY <2>1, <3>1, <3>8
    <3>10. a = h <=> H = A
      BY <3>6, <3>8
    <3>11. QED
      BY <2>2, <3>7, <3>9, <3>10
  <2>5. QED
    BY <2>3, <2>4
<1>4. ASSUME Alike(w), NEW k \in 1 .. N, NEW m \in Neighbours(w, k) PROVE w[m].best = w[k].best
  <2>1. m \in 1 .. N /\ (m = k - 1 \/ m = k + 1)
    BY <1>2 DEF Neighbours
  <2>2. CASE m = k - 1
    <3>1. k \in 2 .. N
      BY <1>2, <2>1, <2>2
    <3>2. QED
      BY <1>1, <1>4, <2>2, <3>1 DEF Alike
  <2>3. CASE m = k + 1
    <3>1. m \in 2 .. N /\ m - 1 = k
      BY <1>2, <2>1, <2>3
    <3>2. QED
      BY <1>1, <1>4, <3>1 DEF Alike
  <2>4. QED
    BY <2>1, <2>2, <2>3
<1>5. ASSUME \A k \in 1 .. N : \A m \in Neighbours(w, k) : w[m].best = w[k].best PROVE Alike(w)
  <2>1. SUFFICES ASSUME NEW k \in 2 .. N PROVE w[k].best = w[k - 1].best
    BY <1>1 DEF Alike
  <2>2. k \in 1 .. N /\ k - 1 \in 1 .. N
    BY <1>2
  <2>3. k - 1 \in Neighbours(w, k)
    BY <1>2, <2>2 DEF Neighbours
  <2>4. QED
    BY <1>5, <2>2, <2>3
<1>6. QED
  BY <1>2, <1>3, <1>4, <1>5

\* k steps of a size that fits q times into x.
LEMMA StepsFit ==
    ASSUME NEW x \in Nat, NEW s \in Nat \ {0}, NEW k \in Nat, k <= x \div s
    PROVE  k * s <= x
<1>1. PICK q : q = x \div s
  OBVIOUS
<1>2. q \in Nat /\ q * s <= x
  BY <1>1, SMTT(30)
<1>3. PICK d : d = q - k
  OBVIOUS
<1>4. d \in Nat /\ q = k + d
  BY <1>1, <1>2, <1>3
<1>5. d * s \in Nat /\ k * s \in Nat
  BY <1>4
<1>6. q * s = k * s + d * s
  BY <1>4
<1>7. QED
  BY <1>2, <1>5, <1>6

\* The bars of the k-th window.
Window(c, k, r) ==
    /\ r.testStart \in Nat /\ r.testEnd \in Nat /\ r.testStart < r.testEnd /\ r.testEnd <= Candles
    /\ r.testStart = (k - 1) * c.step + c.train /\ r.testEnd = r.testStart + c.test

LEMMA WindowFacts ==
    ASSUME NEW c \in WindowCalls, NEW k \in 1 .. WindowCount(c)
    PROVE  Window(c, k, WindowRanges(c)[k])
<1>1. PICK r, a, b, s, n : /\ r = WindowRanges(c)[k] /\ a = c.train /\ b = c.test /\ s = c.step
                           /\ n = WindowCount(c)
  OBVIOUS
<1>2. a \in Nat \ {0} /\ b \in Nat \ {0} /\ s \in Nat \ {0} /\ Candles \in Nat
  BY <1>1, WalkForwardAssumption
<1>3. r.testStart = (k - 1) * s + a /\ r.testEnd = (k - 1) * s + a + b
  BY <1>1 DEF WindowRanges
<1>4. n = IF Candles < a + b THEN 0 ELSE ((Candles - a - b) \div s) + 1
  BY <1>1 DEF WindowCount
<1>5. k \in 1 .. n
  BY <1>1
<1>6. ~(Candles < a + b)
  BY <1>4, <1>5
<1>7. PICK x, q, j : x = Candles - a - b /\ q = x \div s /\ j = k - 1
  OBVIOUS
<1>8. x \in Nat
  BY <1>2, <1>6, <1>7
<1>9. n = q + 1 /\ q \in Int
  BY <1>2, <1>4, <1>6, <1>7, <1>8
<1>10. j \in Nat /\ j <= q
  BY <1>5, <1>7, <1>9
<1>11. j * s <= x
  BY <1>2, <1>7, <1>8, <1>10, StepsFit
<1>12. PICK e : e = j * s
  OBVIOUS
<1>13. e \in Nat
  BY <1>2, <1>10, <1>12
<1>14. r.testStart = e + a /\ r.testEnd = e + a + b /\ e <= x
  BY <1>3, <1>7, <1>11, <1>12
<1>15. QED
  BY <1>1, <1>2, <1>3, <1>7, <1>13, <1>14 DEF Window

\* A list joined to another.
LEMMA ListsJoin ==
    ASSUME NEW f, Listed(f), NEW q, Listed(q)
    PROVE  LET h == f \o q
           IN  /\ Listed(h) /\ Len(h) = Len(f) + Len(q)
               /\ \A k \in 1 .. Len(f) : h[k] = f[k]
               /\ \A k \in 1 .. Len(q) : h[Len(f) + k] = q[k]
<1>1. PICK h, n, l, S : /\ h = f \o q /\ n = Len(f) /\ l = Len(q)
                        /\ S = {f[k] : k \in 1 .. n} \union {q[k] : k \in 1 .. l}
  OBVIOUS
<1>2. n \in Nat /\ f = [k \in 1 .. n |-> f[k]] /\ l \in Nat /\ q = [k \in 1 .. l |-> q[k]]
  BY <1>1 DEF Listed
<1>3. f \in [1 .. n -> S] /\ q \in [1 .. l -> S]
  BY <1>1, <1>2
<1>4. f \in Seq(S) /\ q \in Seq(S)
  <2>1. f \in Seq(S)
    BY <1>2, <1>3
  <2>2. q \in Seq(S)
    BY <1>2, <1>3
  <2>3. QED
    BY <2>1, <2>2
<1>5. h \in Seq(S) /\ Len(h) = n + l
  BY <1>1, <1>4
<1>6. /\ \A k \in 1 .. n : h[k] = f[k]
      /\ \A k \in 1 .. l : h[n + k] = q[k]
  BY <1>1, <1>2, <1>4
<1>7. DOMAIN h = 1 .. (n + l) /\ h = [k \in 1 .. (n + l) |-> h[k]]
  BY <1>5
<1>8. Listed(h)
  BY <1>2, <1>5, <1>7 DEF Listed
<1>9. QED
  BY <1>1, <1>5, <1>6, <1>8

\* A field of the members of a list, and its total.
Field(f, c) == [k \in 1 .. Len(f) |-> f[k][c]]

LEMMA TotalIs ==
    ASSUME NEW f, Listed(f), NEW c
    PROVE  Total(f, c) = SumOf(Field(f, c), Len(f))
BY DEF Total, Field, Listed

LEMMA TotalGrows ==
    ASSUME NEW f, Listed(f), NEW e, NEW c
    PROVE  Total(Append(f, e), c) = Total(f, c) + e[c]
<1>1. PICK n, g, u, v : n = Len(f) /\ g = Append(f, e) /\ u = Field(f, c) /\ v = Field(g, c)
  OBVIOUS
<1>2. n \in Nat
  BY <1>1 DEF Listed
<1>3. Listed(g) /\ Len(g) = n + 1 /\ g[n + 1] = e /\ \A k \in 1 .. n : g[k] = f[k]
  BY <1>1, ListGrows
<1>4. \A k \in 1 .. n : v[k] = u[k]
  <2>1. SUFFICES ASSUME NEW k \in 1 .. n PROVE v[k] = u[k]
    OBVIOUS
  <2>2. k \in 1 .. (n + 1) /\ g[k] = f[k]
    BY <1>2, <1>3
  <2>3. QED
    BY <1>1, <1>3, <2>2 DEF Field
<1>5. v[n + 1] = e[c]
  <2>1. n + 1 \in 1 .. (n + 1)
    BY <1>2
  <2>2. QED
    BY <1>1, <1>3, <2>1 DEF Field
<1>6. SumOf(v, n) = SumOf(u, n)
  BY <1>2, <1>4, SumSame
<1>7. SumOf(v, n + 1) = SumOf(v, n) + v[n + 1]
  BY <1>2, SumLaws
<1>8. Total(f, c) = SumOf(u, n) /\ Total(g, c) = SumOf(v, n + 1)
  BY <1>1, <1>3, TotalIs
<1>9. QED
  BY <1>1, <1>5, <1>6, <1>7, <1>8

LEMMA TotalJoins ==
    ASSUME NEW f, Listed(f), NEW q, Listed(q), NEW c, Total(f, c) \in Int,
           \A k \in 1 .. Len(q) : q[k][c] \in Int
    PROVE  Total(q, c) \in Int /\ Total(f \o q, c) = Total(f, c) + Total(q, c)
<1>1. PICK h, n, l, u, v, w : /\ h = f \o q /\ n = Len(f) /\ l = Len(q)
                              /\ u = Field(f, c) /\ v = Field(q, c) /\ w = Field(h, c)
  OBVIOUS
<1>2. n \in Nat /\ l \in Nat
  BY <1>1 DEF Listed
<1>3. /\ Listed(h) /\ Len(h) = n + l
      /\ \A k \in 1 .. n : h[k] = f[k]
      /\ \A k \in 1 .. l : h[n + k] = q[k]
  BY <1>1, ListsJoin
<1>4. ASSUME NEW k \in 1 .. n PROVE w[k] = u[k]
  <2>1. k \in 1 .. (n + l) /\ h[k] = f[k]
    BY <1>2, <1>3
  <2>2. QED
    BY <1>1, <1>3, <2>1 DEF Field
<1>5. ASSUME NEW k \in 1 .. l PROVE w[n + k] = v[k] /\ v[k] \in Int
  <2>1. n + k \in 1 .. (n + l) /\ h[n + k] = q[k]
    BY <1>2, <1>3
  <2>2. QED
    BY <1>1, <1>3, <2>1 DEF Field
<1>6. PICK A : A = SumOf(u, n)
  OBVIOUS
<1>7. A = Total(f, c) /\ A \in Int /\ Total(q, c) = SumOf(v, l) /\ Total(h, c) = SumOf(w, n + l)
  BY <1>1, <1>3, <1>6, TotalIs
<1> DEFINE S == {k \in 0 .. l : SumOf(v, k) \in Int /\ SumOf(w, n + k) = A + SumOf(v, k)}
<1>8. 0 \in S
  <2>1. SumOf(v, 0) = 0 /\ n + 0 = n
    BY <1>2, SumLaws
  <2>2. SumOf(w, n) = A
    BY <1>2, <1>4, <1>6, SumSame
  <2>3. QED
    BY <1>2, <1>7, <2>1, <2>2
<1>9. ASSUME NEW k \in 0 .. (l - 1), k \in S PROVE k + 1 \in S
  <2>1. k \in Nat /\ k + 1 \in 1 .. l /\ k + 1 \in 0 .. l /\ n + k \in Nat /\ n + (k + 1) = (n + k) + 1
    BY <1>2
  <2>2. PICK B, x : B = SumOf(v, k) /\ x = v[k + 1]
    OBVIOUS
  <2>3. B \in Int /\ SumOf(w, n + k) = A + B /\ x \in Int /\ w[n + (k + 1)] = x
    BY <1>5, <1>9, <2>1, <2>2
  <2>4. SumOf(v, k + 1) = B + x
    BY <2>1, <2>2, SumLaws
  <2>5. SumOf(w, (n + k) + 1) = SumOf(w, n + k) + w[(n + k) + 1]
    BY <2>1, SumLaws
  <2>6. SumOf(w, n + (k + 1)) = A + (B + x)
    BY <1>7, <2>1, <2>3, <2>5
  <2>7. QED
    BY <2>1, <2>3, <2>4, <2>6
<1>10. l \in S
  <2> HIDE DEF S
  <2>1. QED
    BY <1>2, <1>8, <1>9, CountsUp
<1>11. QED
  BY <1>1, <1>7, <1>10

\* A curve that does not go back in time.
Climbs(s) ==
    /\ Listed(s)
    /\ \A i \in 1 .. Len(s) : s[i].time \in Int
    /\ \A i \in 2 .. Len(s) : s[i - 1].time <= s[i].time

\* A later point goes at the end.
LEMMA ClimbsOn ==
    ASSUME NEW s, Climbs(s), NEW p, p.time \in Int, Len(s) > 0 => s[Len(s)].time <= p.time
    PROVE  LET g == Append(s, p) IN Climbs(g) /\ Len(g) = Len(s) + 1 /\ g[Len(g)] = p
<1>1. PICK g, n : g = Append(s, p) /\ n = Len(s)
  OBVIOUS
<1>2. Listed(s) /\ n \in Nat
  BY <1>1 DEF Climbs, Listed
<1>3. Listed(g) /\ Len(g) = n + 1 /\ g[n + 1] = p /\ \A k \in 1 .. n : g[k] = s[k]
  BY <1>1, <1>2, ListGrows
<1>4. (\A i \in 1 .. n : s[i].time \in Int) /\ \A i \in 2 .. n : s[i - 1].time <= s[i].time
  BY <1>1 DEF Climbs
<1>5. ASSUME NEW i \in 1 .. (n + 1) PROVE g[i].time \in Int
  <2>1. i = n + 1 \/ i \in 1 .. n
    BY <1>2
  <2>2. QED
    BY <1>3, <1>4, <2>1
<1>6. ASSUME NEW i \in 2 .. (n + 1) PROVE g[i - 1].time <= g[i].time
  <2>1. i - 1 \in 1 .. n
    BY <1>2
  <2>2. g[i - 1] = s[i - 1]
    BY <1>3, <2>1
  <2>3. CASE i = n + 1
    <3>1. i - 1 = n /\ n > 0
      BY <1>2, <2>3
    <3>2. s[n].time <= p.time
      BY <1>1, <3>1
    <3>3. g[i] = p
      BY <1>3, <2>3
    <3>4. QED
      BY <2>2, <3>1, <3>2, <3>3
  <2>4. CASE i # n + 1
    <3>1. i \in 1 .. n /\ i \in 2 .. n
      BY <1>2, <2>4
    <3>2. QED
      BY <1>3, <1>4, <2>2, <3>1
  <2>5. QED
    BY <2>3, <2>4
<1>7. Climbs(g)
  BY <1>3, <1>5, <1>6 DEF Climbs
<1>8. QED
  BY <1>1, <1>3, <1>7

\* Points of one time go at the end.
LEMMA ClimbsLevel ==
    ASSUME NEW s, Climbs(s), Len(s) >= 1, NEW q, Listed(q), NEW t \in Int, s[Len(s)].time <= t,
           \A k \in 1 .. Len(q) : q[k].time = t
    PROVE  LET h == s \o q IN Climbs(h) /\ Len(h) >= Len(s) /\ h[Len(h)].time <= t
<1>1. PICK h, n, l : h = s \o q /\ n = Len(s) /\ l = Len(q)
  OBVIOUS
<1>2. Listed(s) /\ n \in Nat /\ l \in Nat /\ n >= 1
  BY <1>1 DEF Climbs, Listed
<1>3. /\ Listed(h) /\ Len(h) = n + l /\ \A k \in 1 .. n : h[k] = s[k]
      /\ \A k \in 1 .. l : h[n + k] = q[k]
  BY <1>1, <1>2, ListsJoin
<1>4. (\A i \in 1 .. n : s[i].time \in Int) /\ \A i \in 2 .. n : s[i - 1].time <= s[i].time
  BY <1>1 DEF Climbs
<1>5. ASSUME NEW i \in 1 .. (n + l) PROVE h[i].time = IF i <= n THEN s[i].time ELSE t
  <2>1. CASE i <= n
    <3>1. i \in 1 .. n
      BY <1>2, <2>1
    <3>2. QED
      BY <1>3, <2>1, <3>1
  <2>2. CASE ~(i <= n)
    <3>1. PICK k : k = i - n
      OBVIOUS
    <3>2. k \in 1 .. l /\ i = n + k
      BY <1>2, <2>2, <3>1
    <3>3. h[i] = q[k] /\ q[k].time = t
      BY <1>1, <1>3, <3>2
    <3>4. QED
      BY <2>2, <3>3
  <2>3. QED
    BY <2>1, <2>2
<1>6. n \in 1 .. n /\ s[n].time <= t /\ s[n].time \in Int
  BY <1>1, <1>2, <1>4
<1>7. ASSUME NEW i \in 1 .. (n + l) PROVE h[i].time \in Int
  <2>1. i <= n => i \in 1 .. n
    BY <1>2
  <2>2. QED
    BY <1>4, <1>5, <2>1
<1>8. ASSUME NEW i \in 2 .. (n + l) PROVE h[i - 1].time <= h[i].time
  <2>1. PICK j : j = i - 1
    OBVIOUS
  <2>2. i \in 1 .. (n + l) /\ j \in 1 .. (n + l) /\ i = j + 1
    BY <1>2, <2>1
  <2>3. CASE i <= n
    <3>1. i \in 2 .. n /\ j <= n
      BY <1>2, <2>2, <2>3
    <3>2. QED
      BY <1>4, <1>5, <2>1, <2>2, <2>3, <3>1
  <2>4. CASE i = n + 1
    <3>1. j = n /\ j <= n /\ ~(i <= n)
      BY <1>2, <2>2, <2>4
    <3>2. QED
      BY <1>5, <1>6, <2>1, <2>2, <3>1
  <2>5. CASE i > n + 1
    <3>1. ~(j <= n) /\ ~(i <= n)
      BY <1>2, <2>2, <2>5
    <3>2. h[i].time = t /\ h[j].time = t /\ t <= t
      BY <1>5, <2>2, <3>1
    <3>3. QED
      BY <2>1, <3>2
  <2>6. QED
    BY <1>2, <2>2, <2>3, <2>4, <2>5
<1>9. h[n + l].time <= t
  <2>1. n + l \in 1 .. (n + l) /\ (n + l <= n => n + l = n) /\ t <= t
    BY <1>2
  <2>2. QED
    BY <1>5, <1>6, <2>1
<1>10. Climbs(h) /\ Len(h) >= n
  BY <1>2, <1>3, <1>7, <1>8 DEF Climbs
<1>11. QED
  BY <1>1, <1>3, <1>9, <1>10

\* The parts of Curve.
Past(r) == LET test == r.testEnd - r.testStart IN IF Warmup < test THEN test - Warmup ELSE 0
BarOf(r, i) == r.testEnd - Past(r) + i - 1
ClosedBy(legs, t) == Cardinality({k \in DOMAIN legs : legs[k].bar <= t})
PointAt(equity, legs, t, n) ==
    [time |-> t, equity |-> equity + SumOf([k \in DOMAIN legs |-> legs[k].gain], n)]
PointsOn(equity, legs, t) ==
    [m \in 1 .. (ClosedBy(legs, t) - ClosedBy(legs, t - 1)) |->
        PointAt(equity, legs, t, ClosedBy(legs, t - 1) + m)]
BarAdds(s, r, equity, legs, i) ==
    Append(s \o PointsOn(equity, legs, BarOf(r, i)),
           PointAt(equity, legs, BarOf(r, i), ClosedBy(legs, BarOf(r, i))))
Curves(u, r, equity, legs, n) ==
    u = [i \in 0 .. n |-> IF i = 0 THEN << [time |-> r.testStart, equity |-> equity] >>
                          ELSE BarAdds(u[i - 1], r, equity, legs, i)]

BarByBar(u, r, equity, legs, n) ==
    \A k \in 0 .. (n - 1) : u[k + 1] = BarAdds(u[k], r, equity, legs, k + 1)

LEMMA CurvesUnfold ==
    ASSUME NEW r, NEW equity, NEW legs, NEW n \in Nat, NEW u, Curves(u, r, equity, legs, n)
    PROVE  /\ u[0] = << [time |-> r.testStart, equity |-> equity] >>
           /\ BarByBar(u, r, equity, legs, n)
<1>1. u = [i \in 0 .. n |-> IF i = 0 THEN << [time |-> r.testStart, equity |-> equity] >>
                            ELSE BarAdds(u[i - 1], r, equity, legs, i)]
  BY DEF Curves
<1>2. u[0] = << [time |-> r.testStart, equity |-> equity] >>
  BY <1>1
<1>3. ASSUME NEW k \in 0 .. (n - 1) PROVE u[k + 1] = BarAdds(u[k], r, equity, legs, k + 1)
  <2>1. k + 1 \in 0 .. n /\ k + 1 # 0 /\ (k + 1) - 1 = k
    OBVIOUS
  <2>2. QED
    BY <1>1, <2>1
<1>4. QED
  BY <1>2, <1>3 DEF BarByBar

LEMMA CurvesExist ==
    ASSUME NEW r, NEW equity, NEW legs, NEW n \in Nat
    PROVE  \E u : Curves(u, r, equity, legs, n)
<1>1. PICK a : a = << [time |-> r.testStart, equity |-> equity] >>
  OBVIOUS
<1> DEFINE S == {k \in 0 .. n : \E u : Curves(u, r, equity, legs, k)}
<1>2. 0 \in S
  <2>1. PICK u : u = [k \in 0 .. 0 |-> a]
    OBVIOUS
  <2>2. Curves(u, r, equity, legs, 0)
    BY <1>1, <2>1 DEF Curves
  <2>3. QED
    BY <2>2
<1>3. ASSUME NEW k \in 0 .. (n - 1), k \in S PROVE k + 1 \in S
  <2>1. PICK u : Curves(u, r, equity, legs, k)
    BY <1>3
  <2>2. u = [j \in 0 .. k |-> IF j = 0 THEN a ELSE BarAdds(u[j - 1], r, equity, legs, j)]
    BY <1>1, <2>1 DEF Curves
  <2>3. PICK e : e = BarAdds(u[k], r, equity, legs, k + 1)
    OBVIOUS
  <2>4. PICK g : g = [j \in 0 .. (k + 1) |-> IF j = k + 1 THEN e ELSE u[j]]
    OBVIOUS
  <2>5. ASSUME NEW j \in 0 .. (k + 1)
        PROVE  g[j] = IF j = 0 THEN a ELSE BarAdds(g[j - 1], r, equity, legs, j)
    <3>1. CASE j = k + 1
      <4>1. j - 1 = k /\ k \in 0 .. (k + 1) /\ k # k + 1 /\ j # 0
        BY <3>1
      <4>2. g[j] = e /\ g[j - 1] = u[k]
        BY <2>4, <3>1, <4>1
      <4>3. QED
        BY <2>3, <3>1, <4>1, <4>2
    <3>2. CASE j # k + 1
      <4>1. j \in 0 .. k /\ (j # 0 => j - 1 \in 0 .. k /\ j - 1 \in 0 .. (k + 1) /\ j - 1 # k + 1)
        BY <3>2
      <4>2. g[j] = u[j] /\ (j # 0 => g[j - 1] = u[j - 1])
        BY <2>4, <3>2, <4>1
      <4>3. QED
        BY <2>2, <4>1, <4>2
    <3>3. QED
      BY <3>1, <3>2
  <2>6. Curves(g, r, equity, legs, k + 1)
    BY <1>1, <2>4, <2>5 DEF Curves
  <2>7. QED
    BY <2>6
<1>4. n \in S
  <2> HIDE DEF S
  <2>1. QED
    BY <1>2, <1>3, CountsUp
<1>5. QED
  BY <1>4

LEMMA CurveLast ==
    ASSUME NEW r, NEW equity, NEW legs, Past(r) \in Nat
    PROVE  \E u : Curves(u, r, equity, legs, Past(r)) /\ Curve(r, equity, legs) = u[Past(r)]
<1>1. \E u : Curves(u, r, equity, legs, Past(r))
  BY CurvesExist
<1>2. PICK u : u = CHOOSE h : h = [i \in 0 .. Past(r) |->
                       IF i = 0 THEN << [time |-> r.testStart, equity |-> equity] >>
                       ELSE BarAdds(h[i - 1], r, equity, legs, i)]
  OBVIOUS
<1>3. Curves(u, r, equity, legs, Past(r))
  BY <1>1, <1>2 DEF Curves
<1>4. Curve(r, equity, legs) = u[Past(r)]
  BY <1>2 DEF Curve, BarAdds, PointsOn, PointAt, ClosedBy, BarOf, Past
<1>5. QED
  BY <1>3, <1>4

LEMMA ClosedType ==
    ASSUME NEW legs, Listed(legs), NEW t
    PROVE  /\ ClosedBy(legs, t) \in Nat
           /\ (\A k \in 1 .. Len(legs) : legs[k].bar <= t) => ClosedBy(legs, t) = Len(legs)
<1>1. PICK n, K : n = Len(legs) /\ K = {k \in DOMAIN legs : legs[k].bar <= t}
  OBVIOUS
<1>2. n \in Nat /\ DOMAIN legs = 1 .. n
  BY <1>1 DEF Listed
<1>3. K \in SUBSET (1 .. n) /\ ((\A k \in 1 .. n : legs[k].bar <= t) => K = 1 .. n)
  BY <1>1, <1>2
<1>4. IsFiniteSet(1 .. n) /\ Cardinality(1 .. n) = n
  BY <1>2, FS_Interval
<1>5. IsFiniteSet(K)
  BY <1>3, <1>4, FS_Subset
<1>6. Cardinality(K) \in Nat
  BY <1>5, FS_CardinalityType
<1>7. ClosedBy(legs, t) = Cardinality(K)
  BY <1>1 DEF ClosedBy
<1>8. QED
  BY <1>1, <1>3, <1>4, <1>6, <1>7

\* Where the curve is after so many bars.
Along(s, r, k) ==
    /\ Climbs(s) /\ Len(s) >= k + 1
    /\ s[Len(s)].time = IF k = 0 THEN r.testStart ELSE BarOf(r, k)

LEMMA CurveStep ==
    ASSUME NEW r, r.testStart \in Int, r.testEnd \in Int, NEW equity, NEW legs, Listed(legs),
           NEW k \in Nat, k < Past(r), Past(r) \in Nat, NEW s, Along(s, r, k)
    PROVE  LET v == BarAdds(s, r, equity, legs, k + 1)
               t == BarOf(r, k + 1)
           IN  Along(v, r, k + 1) /\ v[Len(v)] = PointAt(equity, legs, t, ClosedBy(legs, t))
<1>1. PICK t, p, q, v : /\ t = BarOf(r, k + 1) /\ p = PointAt(equity, legs, t, ClosedBy(legs, t))
                        /\ q = PointsOn(equity, legs, t) /\ v = Append(s \o q, p)
  OBVIOUS
<1>2. v = BarAdds(s, r, equity, legs, k + 1)
  BY <1>1 DEF BarAdds
<1>3. PICK a, e, past : a = r.testStart /\ e = r.testEnd /\ past = Past(r)
  OBVIOUS
<1>4. a \in Int /\ e \in Int /\ past \in Nat /\ Warmup \in Nat
  BY <1>3, WalkForwardAssumption
<1>5. t = e - past + (k + 1) - 1 /\ BarOf(r, k) = e - past + k - 1
  BY <1>1, <1>3 DEF BarOf
<1>6. past = IF Warmup < e - a THEN (e - a) - Warmup ELSE 0
  BY <1>3 DEF Past
<1>7. past = (e - a) - Warmup
  BY <1>3, <1>4, <1>6
<1>8. t \in Int /\ a <= t /\ BarOf(r, k) <= t
  BY <1>4, <1>5, <1>7
<1>9. Climbs(s) /\ Len(s) \in Nat /\ Len(s) >= k + 1 /\ s[Len(s)].time <= t
  BY <1>3, <1>8 DEF Along, Climbs, Listed
<1>10. Listed(q) /\ \A m \in 1 .. Len(q) : q[m].time = t
  <2>1. PICK x, y : x = ClosedBy(legs, t) /\ y = ClosedBy(legs, t - 1)
    OBVIOUS
  <2>2. x \in Nat /\ y \in Nat
    BY <2>1, ClosedType
  <2>3. PICK l \in Nat : 1 .. l = 1 .. (x - y)
    <3>1. PICK z : z = x - y
      OBVIOUS
    <3>2. z \in Int
      BY <2>2, <3>1
    <3>3. CASE z \in Nat
      BY <3>1, <3>3
    <3>4. CASE z \notin Nat
      <4>1. 1 .. 0 = 1 .. z
        BY <3>2, <3>4
      <4>2. QED
        BY <3>1, <4>1
    <3>5. QED
      BY <3>3, <3>4
  <2>4. q = [m \in 1 .. l |-> PointAt(equity, legs, t, y + m)]
    BY <1>1, <2>1, <2>3 DEF PointsOn
  <2>5. q = [m \in 1 .. l |-> q[m]]
    BY <2>4
  <2>6. Listed(q) /\ Len(q) = l
    BY <2>5, Lists
  <2>7. QED
    BY <2>4, <2>6 DEF PointAt
<1>11. PICK h : h = s \o q
  OBVIOUS
<1>12. Climbs(h) /\ Len(h) >= Len(s) /\ h[Len(h)].time <= t
  BY <1>8, <1>9, <1>10, <1>11, ClimbsLevel
<1>13. p.time = t
  BY <1>1 DEF PointAt
<1>14. Climbs(v) /\ Len(v) = Len(h) + 1 /\ v[Len(v)] = p
  BY <1>1, <1>8, <1>11, <1>12, <1>13, ClimbsOn
<1>15. Len(h) \in Nat
  BY <1>12 DEF Climbs, Listed
<1>16. Len(v) >= (k + 1) + 1 /\ k + 1 # 0
  BY <1>9, <1>12, <1>14, <1>15
<1>17. Along(v, r, k + 1)
  BY <1>1, <1>13, <1>14, <1>16 DEF Along
<1>18. QED
  BY <1>1, <1>2, <1>14, <1>17

LEMMA CurveFacts ==
    ASSUME NEW c, NEW k, NEW r, Window(c, k, r), NEW equity \in Int, NEW legs, Listed(legs),
           Tradable(r, legs), \A j \in 1 .. Len(legs) : legs[j].gain \in Int
    PROVE  LET v == Curve(r, equity, legs)
           IN  /\ Climbs(v) /\ Len(v) >= 1 /\ v[Len(v)].time < r.testEnd
               /\ v[Len(v)].equity = equity + Total(legs, "gain")
               /\ Len(v) = 1 => Total(legs, "gain") = 0
               /\ Len(v) > 1 => v[Len(v)].time = r.testEnd - 1
<1>1. PICK a, e, past, v : /\ a = r.testStart /\ e = r.testEnd /\ past = Past(r)
                           /\ v = Curve(r, equity, legs)
  OBVIOUS
<1>2. a \in Nat /\ e \in Nat /\ a < e /\ Warmup \in Nat
  BY <1>1, WalkForwardAssumption DEF Window
<1>3. past = IF Warmup < e - a THEN (e - a) - Warmup ELSE 0
  BY <1>1 DEF Past
<1>4. past \in Nat
  BY <1>2, <1>3
<1>5. PICK u : Curves(u, r, equity, legs, past) /\ v = u[past]
  BY <1>1, <1>4, CurveLast
<1>6. PICK p, b : p = [time |-> a, equity |-> equity] /\ b = <<p>>
  OBVIOUS
<1>7. u[0] = b /\ \A i \in 0 .. (past - 1) : u[i + 1] = BarAdds(u[i], r, equity, legs, i + 1)
  <2>1. Curves(u, r, equity, legs, past)
    BY <1>5
  <2>2. u[0] = << [time |-> r.testStart, equity |-> equity] >>
    BY <1>4, <2>1, CurvesUnfold
  <2>3. BarByBar(u, r, equity, legs, past)
    BY <1>4, <2>1, CurvesUnfold
  <2>4. << [time |-> r.testStart, equity |-> equity] >> = b
    BY <1>1, <1>6
  <2>5. QED
    BY <2>2, <2>3, <2>4 DEF BarByBar
<1>8. Along(u[0], r, 0) /\ Len(b) = 1 /\ b[1] = p
  <2>1. b = [i \in 1 .. 1 |-> b[i]]
    BY <1>6
  <2>2. Listed(b) /\ Len(b) = 1 /\ b[1] = p
    BY <1>6, <2>1, Lists
  <2>3. p.time = a
    BY <1>6
  <2>4. Climbs(b)
    BY <1>2, <2>2, <2>3 DEF Climbs
  <2>5. QED
    BY <1>1, <1>7, <2>2, <2>3, <2>4 DEF Along
<1> DEFINE S == {i \in 0 .. past : Along(u[i], r, i)}
<1>9. 0 \in S
  BY <1>4, <1>8
<1>10. ASSUME NEW i \in 0 .. (past - 1), Along(u[i], r, i)
       PROVE  LET t == BarOf(r, i + 1)
              IN  /\ Along(u[i + 1], r, i + 1)
                  /\ u[i + 1][Len(u[i + 1])] = PointAt(equity, legs, t, ClosedBy(legs, t))
  <2>1. i \in Nat /\ i < Past(r) /\ Past(r) \in Nat /\ r.testStart \in Int /\ r.testEnd \in Int
    BY <1>1, <1>2, <1>4
  <2>2. u[i + 1] = BarAdds(u[i], r, equity, legs, i + 1)
    BY <1>7, <1>10
  <2>3. QED
    BY <1>10, <2>1, <2>2, CurveStep
<1>11. ASSUME NEW i \in 0 .. (past - 1), i \in S PROVE i + 1 \in S
  <2>1. i + 1 \in 0 .. past
    BY <1>4
  <2>2. QED
    BY <1>10, <1>11, <2>1
<1>12. ASSUME NEW n \in 0 .. past PROVE Along(u[n], r, n)
  <2> DEFINE T == {i \in 0 .. n : i \in S}
  <2>1. 0 \in T
    BY <1>9, <1>12
  <2>2. ASSUME NEW i \in 0 .. (n - 1), i \in T PROVE i + 1 \in T
    <3>1. i \in 0 .. (past - 1) /\ i + 1 \in 0 .. n
      BY <1>4, <1>12
    <3>2. QED
      BY <1>11, <2>2, <3>1
  <2>3. n \in T
    <3> HIDE DEF T
    <3>1. n \in Nat
      BY <1>12
    <3>2. QED
      BY <2>1, <2>2, <3>1, CountsUp
  <2>4. QED
    BY <2>3
<1>13. Along(v, r, past)
  BY <1>4, <1>5, <1>12
<1>14. PICK l, g : l = Len(legs) /\ g = Total(legs, "gain")
  OBVIOUS
<1>15. l \in Nat /\ DOMAIN legs = 1 .. l
  BY <1>14 DEF Listed
<1>16. ASSUME NEW j \in 1 .. l PROVE legs[j].bar \in (a + Warmup + 1) .. (e - 1)
  BY <1>1, <1>15 DEF Tradable
<1>17. g = SumOf([j \in DOMAIN legs |-> legs[j].gain], l)
  BY <1>14 DEF Total
<1>18. CASE past = 0
  <2>1. ~(Warmup < e - a)
    BY <1>2, <1>3, <1>18
  <2>2. l = 0
    <3>1. SUFFICES ASSUME l # 0 PROVE FALSE
      OBVIOUS
    <3>2. 1 \in 1 .. l
      BY <1>15, <3>1
    <3>3. legs[1].bar \in (a + Warmup + 1) .. (e - 1)
      BY <1>16, <3>2
    <3>4. QED
      BY <1>2, <2>1, <3>3
  <2>3. g = 0
    BY <1>17, <2>2, SumLaws
  <2>4. v = b /\ v[Len(v)] = p /\ Len(v) = 1
    BY <1>5, <1>7, <1>8, <1>18
  <2>5. p.time = a /\ p.equity = equity
    BY <1>6
  <2>6. QED
    BY <1>1, <1>2, <1>13, <1>14, <2>3, <2>4, <2>5 DEF Along
<1>19. CASE past # 0
  <2>1. PICK i, t : i = past - 1 /\ t = BarOf(r, i + 1)
    OBVIOUS
  <2>2. i \in 0 .. (past - 1) /\ i \in 0 .. past /\ i + 1 = past
    BY <1>4, <1>19, <2>1
  <2>3. Along(u[i], r, i)
    BY <1>12, <2>2
  <2>4. v[Len(v)] = PointAt(equity, legs, t, ClosedBy(legs, t))
    BY <1>5, <1>10, <2>1, <2>2, <2>3
  <2>5. t = e - 1
    <3>1. t = e - past + past - 1
      BY <1>1, <2>1, <2>2 DEF BarOf
    <3>2. QED
      BY <1>2, <1>4, <3>1
  <2>6. \A j \in 1 .. l : legs[j].bar <= t
    BY <1>2, <1>16, <2>5
  <2>7. ClosedBy(legs, t) = l
    BY <1>14, <2>6, ClosedType
  <2>8. v[Len(v)].time = e - 1 /\ v[Len(v)].equity = equity + g
    BY <1>17, <2>4, <2>5, <2>7 DEF PointAt
  <2>9. Climbs(v) /\ Len(v) \in Nat /\ Len(v) >= past + 1
    BY <1>13 DEF Along, Climbs, Listed
  <2>10. Len(v) >= 1 /\ Len(v) # 1
    <3>1. PICK n : n = Len(v)
      OBVIOUS
    <3>2. past >= 1
      BY <1>4, <1>19
    <3>3. n \in Nat /\ n >= past + 1
      BY <2>9, <3>1
    <3>4. n >= 1 /\ n # 1
      BY <1>4, <3>2, <3>3
    <3>5. QED
      BY <3>1, <3>4
  <2>11. QED
    BY <1>1, <1>2, <1>14, <2>8, <2>9, <2>10
<1>20. QED
  BY <1>18, <1>19

\* What _stitch_equity appends, point by point of the source.
LaterThan(target, p) == target = <<>> \/ p.time > target[Len(target)].time
Stitches(u, target, source, n) ==
    u = [i \in 0 .. n |->
            IF i = 0 THEN target
            ELSE IF LaterThan(target, source[i]) THEN Append(u[i - 1], source[i]) ELSE u[i - 1]]

LEMMA StitchUnfold ==
    ASSUME NEW target, NEW source, NEW n \in Nat, NEW u, Stitches(u, target, source, n)
    PROVE  /\ u[0] = target
           /\ \A k \in 0 .. (n - 1) :
                u[k + 1] = IF LaterThan(target, source[k + 1]) THEN Append(u[k], source[k + 1]) ELSE u[k]
<1>1. u = [i \in 0 .. n |->
              IF i = 0 THEN target
              ELSE IF LaterThan(target, source[i]) THEN Append(u[i - 1], source[i]) ELSE u[i - 1]]
  BY DEF Stitches
<1>2. u[0] = target
  BY <1>1
<1>3. ASSUME NEW k \in 0 .. (n - 1)
      PROVE  u[k + 1] = IF LaterThan(target, source[k + 1]) THEN Append(u[k], source[k + 1]) ELSE u[k]
  <2>1. k + 1 \in 0 .. n /\ k + 1 # 0 /\ (k + 1) - 1 = k
    OBVIOUS
  <2>2. QED
    BY <1>1, <2>1
<1>4. QED
  BY <1>2, <1>3

LEMMA StitchesExist ==
    ASSUME NEW target, NEW source, NEW n \in Nat
    PROVE  \E u : Stitches(u, target, source, n)
<1> DEFINE S == {k \in 0 .. n : \E u : Stitches(u, target, source, k)}
<1>1. 0 \in S
  <2>1. PICK u : u = [k \in 0 .. 0 |-> target]
    OBVIOUS
  <2>2. Stitches(u, target, source, 0)
    BY <2>1 DEF Stitches
  <2>3. QED
    BY <2>2
<1>2. ASSUME NEW k \in 0 .. (n - 1), k \in S PROVE k + 1 \in S
  <2>1. PICK u : Stitches(u, target, source, k)
    BY <1>2
  <2>2. u = [j \in 0 .. k |->
              IF j = 0 THEN target
              ELSE IF LaterThan(target, source[j]) THEN Append(u[j - 1], source[j]) ELSE u[j - 1]]
    BY <2>1 DEF Stitches
  <2>3. PICK e : e = IF LaterThan(target, source[k + 1]) THEN Append(u[k], source[k + 1]) ELSE u[k]
    OBVIOUS
  <2>4. PICK g : g = [j \in 0 .. (k + 1) |-> IF j = k + 1 THEN e ELSE u[j]]
    OBVIOUS
  <2>5. ASSUME NEW j \in 0 .. (k + 1)
        PROVE  g[j] = IF j = 0 THEN target
                      ELSE IF LaterThan(target, source[j]) THEN Append(g[j - 1], source[j]) ELSE g[j - 1]
    <3>1. CASE j = k + 1
      <4>1. j - 1 = k /\ k \in 0 .. (k + 1) /\ k # k + 1 /\ j # 0
        BY <3>1
      <4>2. g[j] = e /\ g[j - 1] = u[k]
        BY <2>4, <3>1, <4>1
      <4>3. QED
        BY <2>3, <3>1, <4>1, <4>2
    <3>2. CASE j # k + 1
      <4>1. j \in 0 .. k /\ (j # 0 => j - 1 \in 0 .. k /\ j - 1 \in 0 .. (k + 1) /\ j - 1 # k + 1)
        BY <3>2
      <4>2. g[j] = u[j] /\ (j # 0 => g[j - 1] = u[j - 1])
        BY <2>4, <3>2, <4>1
      <4>3. QED
        BY <2>2, <4>1, <4>2
    <3>3. QED
      BY <3>1, <3>2
  <2>6. Stitches(g, target, source, k + 1)
    BY <2>4, <2>5 DEF Stitches
  <2>7. QED
    BY <2>6
<1>3. n \in S
  <2> HIDE DEF S
  <2>1. QED
    BY <1>1, <1>2, CountsUp
<1>4. QED
  BY <1>3

LEMMA StitchLast ==
    ASSUME NEW target, NEW source, Len(source) \in Nat
    PROVE  \E u : Stitches(u, target, source, Len(source)) /\ Stitch(target, source) = u[Len(source)]
<1>1. PICK n : n = Len(source)
  OBVIOUS
<1>2. \E u : Stitches(u, target, source, n)
  BY <1>1, StitchesExist
<1>3. PICK u : u = CHOOSE h : h = [i \in 0 .. n |->
                       IF i = 0 THEN target
                       ELSE IF LaterThan(target, source[i]) THEN Append(h[i - 1], source[i]) ELSE h[i - 1]]
  OBVIOUS
<1>4. Stitches(u, target, source, n)
  BY <1>2, <1>3 DEF Stitches
<1>5. Stitch(target, source) = u[n]
  BY <1>1, <1>3 DEF Stitch, LaterThan
<1>6. QED
  BY <1>1, <1>4, <1>5

LEMMA NoneListed ==
    ASSUME NEW f, Listed(f)
    PROVE  Len(f) = 0 <=> f = <<>>
<1>1. PICK n, S : n = Len(f) /\ S = {f[k] : k \in 1 .. n}
  OBVIOUS
<1>2. n \in Nat /\ f = [k \in 1 .. n |-> f[k]]
  BY <1>1 DEF Listed
<1>3. f \in [1 .. n -> S]
  BY <1>1, <1>2
<1>4. f \in Seq(S)
  BY <1>1, <1>2, <1>3
<1>5. QED
  BY <1>4

\* Where _stitch_equity is after so many points.
StitchedTo(u, target, source, k) ==
    /\ Climbs(u[k])
    /\ u[k] = target \/ (k \in 1 .. Len(source) /\ Len(u[k]) > 0 /\ u[k][Len(u[k])].time <= source[k].time)

LEMMA StitchStep ==
    ASSUME NEW target, NEW source, Climbs(target), Climbs(source), NEW u,
           Stitches(u, target, source, Len(source)),
           NEW k \in 0 .. (Len(source) - 1), StitchedTo(u, target, source, k)
    PROVE  StitchedTo(u, target, source, k + 1)
<1>1. PICK n, m, p : n = Len(source) /\ m = k + 1 /\ p = source[k + 1]
  OBVIOUS
<1>2. n \in Nat /\ m \in 1 .. n /\ k \in Nat
  BY <1>1 DEF Climbs, Listed
<1>3. p.time \in Int
  BY <1>1, <1>2 DEF Climbs
<1>4. k \in 1 .. n => source[k].time <= p.time /\ source[k].time \in Int
  <2>1. SUFFICES ASSUME k \in 1 .. n PROVE source[k].time <= p.time /\ source[k].time \in Int
    OBVIOUS
  <2>2. m \in 2 .. n /\ m - 1 = k
    BY <1>1, <1>2, <2>1
  <2>3. QED
    BY <1>1, <2>1, <2>2 DEF Climbs
<1>5. u[m] = IF LaterThan(target, p) THEN Append(u[k], p) ELSE u[k]
  <2>1. Stitches(u, target, source, n) /\ k \in 0 .. (n - 1)
    BY <1>1
  <2>2. u[k + 1] = IF LaterThan(target, source[k + 1]) THEN Append(u[k], source[k + 1]) ELSE u[k]
    BY <1>2, <2>1, StitchUnfold
  <2>3. QED
    BY <1>1, <2>2
<1>6. PICK s : s = u[k]
  OBVIOUS
<1>7. Climbs(s) /\ (s = target \/ (k \in 1 .. n /\ Len(s) > 0 /\ s[Len(s)].time <= source[k].time))
  BY <1>1, <1>6 DEF StitchedTo
<1>8. Len(s) \in Nat /\ (Len(s) > 0 => s[Len(s)].time \in Int)
  BY <1>7 DEF Climbs, Listed
<1>9. CASE ~LaterThan(target, p)
  <2>1. u[m] = s
    BY <1>5, <1>6, <1>9
  <2>2. s = target \/ (Len(s) > 0 /\ s[Len(s)].time <= p.time)
    BY <1>3, <1>4, <1>7, <1>8
  <2>3. QED
    BY <1>1, <1>2, <1>7, <2>1, <2>2 DEF StitchedTo
<1>10. CASE LaterThan(target, p)
  <2>1. u[m] = Append(s, p)
    BY <1>5, <1>6, <1>10
  <2>2. Len(s) > 0 => s[Len(s)].time <= p.time
    <3>1. SUFFICES ASSUME Len(s) > 0 PROVE s[Len(s)].time <= p.time
      OBVIOUS
    <3>2. CASE s = target
      <4>1. target # <<>>
        BY <3>1, <3>2
      <4>2. p.time > s[Len(s)].time
        BY <1>10, <3>2, <4>1 DEF LaterThan
      <4>3. QED
        BY <1>3, <1>8, <3>1, <4>2
    <3>3. CASE s # target
      BY <1>3, <1>4, <1>7, <1>8, <3>1, <3>3
    <3>4. QED
      BY <3>2, <3>3
  <2>3. Climbs(u[m]) /\ Len(u[m]) = Len(s) + 1 /\ u[m][Len(u[m])] = p
    BY <1>3, <1>7, <2>1, <2>2, ClimbsOn
  <2>4. Len(u[m]) > 0
    BY <1>8, <2>3
  <2>5. p.time <= p.time
    BY <1>3
  <2>6. QED
    BY <1>1, <1>2, <2>3, <2>4, <2>5 DEF StitchedTo
<1>11. QED
  BY <1>9, <1>10

LEMMA StitchFacts ==
    ASSUME NEW target, NEW source, Climbs(target), Climbs(source), Len(source) >= 1
    PROVE  LET r == Stitch(target, source)
               p == source[Len(source)]
           IN  /\ Climbs(r)
               /\ LaterThan(target, p) => Len(r) >= 1 /\ r[Len(r)] = p
               /\ ~LaterThan(target, p) /\ Len(source) = 1 => r = target
<1>1. PICK n, p, r : n = Len(source) /\ p = source[n] /\ r = Stitch(target, source)
  OBVIOUS
<1>2. n \in Nat /\ n >= 1
  BY <1>1 DEF Climbs, Listed
<1>3. PICK u : Stitches(u, target, source, n) /\ r = u[n]
  BY <1>1, <1>2, StitchLast
<1>4. u[0] = target
  BY <1>2, <1>3, StitchUnfold
<1> DEFINE S == {k \in 0 .. n : StitchedTo(u, target, source, k)}
<1>5. 0 \in S
  BY <1>2, <1>4 DEF StitchedTo
<1>6. ASSUME NEW k \in 0 .. (n - 1), k \in S PROVE k + 1 \in S
  <2>1. StitchedTo(u, target, source, k + 1)
    BY <1>1, <1>3, <1>6, StitchStep
  <2>2. k + 1 \in 0 .. n
    BY <1>2
  <2>3. QED
    BY <2>1, <2>2
<1>7. n \in S
  <2> HIDE DEF S
  <2>1. QED
    BY <1>2, <1>5, <1>6, CountsUp
<1>8. PICK m : m = n - 1
  OBVIOUS
<1>9. m \in 0 .. (n - 1) /\ m + 1 = n /\ m \in 0 .. n
  BY <1>2, <1>8
<1>10. r = IF LaterThan(target, p) THEN Append(u[m], p) ELSE u[m]
  <2>1. u[m + 1] = IF LaterThan(target, source[m + 1]) THEN Append(u[m], source[m + 1]) ELSE u[m]
    BY <1>2, <1>3, <1>9, StitchUnfold
  <2>2. QED
    BY <1>1, <1>3, <1>9, <2>1
<1>11. m \in S
  <2> HIDE DEF S
  <2> DEFINE T == {k \in 0 .. m : k \in S}
  <2>1. 0 \in T
    BY <1>5, <1>9
  <2>2. ASSUME NEW k \in 0 .. (m - 1), k \in T PROVE k + 1 \in T
    <3>1. k \in 0 .. (n - 1) /\ k + 1 \in 0 .. m
      BY <1>2, <1>9
    <3>2. QED
      BY <1>6, <2>2, <3>1
  <2>3. m \in Nat
    BY <1>9
  <2>4. m \in T
    <3> HIDE DEF T
    <3>1. QED
      BY <2>1, <2>2, <2>3, CountsUp
  <2>5. QED
    BY <2>4
<1>12. Climbs(u[m]) /\ Listed(u[m])
  BY <1>11 DEF StitchedTo, Climbs
<1>13. LaterThan(target, p) => Len(r) >= 1 /\ r[Len(r)] = p
  <2>1. SUFFICES ASSUME LaterThan(target, p) PROVE Len(r) >= 1 /\ r[Len(r)] = p
    OBVIOUS
  <2>2. PICK s : s = u[m]
    OBVIOUS
  <2>3. r = Append(s, p)
    BY <1>10, <2>1, <2>2
  <2>4. Len(r) = Len(s) + 1 /\ r[Len(s) + 1] = p /\ Len(s) \in Nat
    BY <1>12, <2>2, <2>3, ListGrows DEF Listed
  <2>5. QED
    BY <2>4
<1>14. ~LaterThan(target, p) /\ n = 1 => r = target
  BY <1>4, <1>8, <1>10
<1>15. QED
  BY <1>1, <1>7, <1>3, <1>13, <1>14 DEF StitchedTo

LEMMA CountType ==
    ASSUME NEW c \in WindowCalls
    PROVE  WindowCount(c) \in Nat
<1>1. PICK a, b, s, x, q : a = c.train /\ b = c.test /\ s = c.step /\ x = Candles - a - b /\ q = x \div s
  OBVIOUS
<1>2. a \in Nat \ {0} /\ b \in Nat \ {0} /\ s \in Nat \ {0} /\ Candles \in Nat
  BY <1>1, WalkForwardAssumption
<1>3. WindowCount(c) = IF Candles < a + b THEN 0 ELSE q + 1
  BY <1>1 DEF WindowCount
<1>4. ~(Candles < a + b) => x \in Nat
  BY <1>1, <1>2
<1>5. x \in Nat => q \in Nat
  BY <1>1, <1>2, SMTT(30)
<1>6. QED
  BY <1>3, <1>4, <1>5

\* The first bar after the k-th window.
WindowEnd(k) == (k - 1) * wfCall.step + wfCall.train + wfCall.test

WfShape ==
    /\ wfCall \in WindowCalls
    /\ Listed(windows) /\ \A k \in 1 .. Len(windows) : windows[k].trades \in Int
    /\ Listed(allTrades)
    /\ wfPhase \in {"train", "test"} => Len(windows) < WindowCount(wfCall)
    /\ wfPhase \in {"summary", "done"} => Len(windows) >= 1

WfEquities ==
    /\ Total(allTrades, "gain") \in Int /\ Total(allTrades, "closes") \in Int
    /\ rollingEquity = WfEquity + Total(allTrades, "gain")
    /\ Total(windows, "trades") = Total(allTrades, "closes")

WfCurve ==
    /\ Climbs(eqSeries)
    /\ Len(windows) = 0 => eqSeries = <<>>
    /\ Len(windows) > 0 =>
          /\ Len(eqSeries) >= 1 /\ eqSeries[Len(eqSeries)].equity = rollingEquity
          /\ eqSeries[Len(eqSeries)].time < WindowEnd(Len(windows))

WfInv ==
    /\ WfShape /\ WfEquities /\ WfCurve
    /\ wfPhase = "done" => summary = Summary(windows)

LEMMA NoneFacts == Listed(<<>>) /\ Len(<<>>) = 0 /\ Climbs(<<>>)
<1>1. Listed(<<>>) /\ Len(<<>>) = 0
  BY DEF Listed
<1>2. QED
  BY <1>1 DEF Climbs

LEMMA WfInvInit == WfInit => WfInv
<1>1. SUFFICES ASSUME WfInit PROVE WfInv
  OBVIOUS
<1>2. PICK z : z = <<>>
  OBVIOUS
<1>3. Listed(z) /\ Len(z) = 0 /\ Climbs(z)
  BY <1>2, NoneFacts
<1>4. /\ wfCall \in WindowCalls /\ windows = z /\ allTrades = z /\ eqSeries = z /\ rollingEquity = WfEquity
      /\ wfPhase = IF WindowCount(wfCall) = 0 THEN "raised" ELSE "train"
  BY <1>1, <1>2 DEF WfInit
<1>5. WindowCount(wfCall) \in Nat
  BY <1>4, CountType
<1>6. WfShape
  BY <1>3, <1>4, <1>5 DEF WfShape
<1>7. WfEquities
  <2>1. Total(z, "gain") = 0 /\ Total(z, "closes") = 0 /\ Total(z, "trades") = 0
    BY <1>3, TotalIs, SumLaws
  <2>2. WfEquity \in Int
    BY WalkForwardAssumption
  <2>3. QED
    BY <1>4, <2>1, <2>2 DEF WfEquities
<1>8. WfCurve
  BY <1>2, <1>3, <1>4 DEF WfCurve
<1>9. QED
  BY <1>4, <1>6, <1>7, <1>8 DEF WfInv

\* A step that leaves the windows, the trades and the curve alone.
LEMMA WfPasses ==
    ASSUME WfInv, UNCHANGED <<wfCall, windows, rollingEquity, allTrades, eqSeries>>,
           wfPhase' \in {"train", "test"} => wfPhase \in {"train", "test"},
           wfPhase' \in {"summary", "done"} => wfPhase \in {"summary", "done"},
           wfPhase' = "done" => summary' = Summary(windows)
    PROVE  WfInv'
<1>1. WfShape'
  BY DEF WfInv, WfShape
<1>2. WfEquities'
  BY DEF WfInv, WfEquities
<1>3. WfCurve'
  BY DEF WfInv, WfCurve, WindowEnd
<1>4. QED
  BY <1>1, <1>2, <1>3 DEF WfInv

LEMMA LegFacts ==
    ASSUME NEW legs \in LegLists
    PROVE  /\ Listed(legs)
           /\ \A j \in 1 .. Len(legs) : legs[j].gain \in Int /\ legs[j].closes \in Int
<1>1. PICK n \in 0 .. MaxLegs : legs \in [1 .. n -> ExitLegs]
  BY DEF LegLists
<1>2. n \in Nat /\ legs = [k \in 1 .. n |-> legs[k]]
  BY <1>1, WalkForwardAssumption
<1>3. Listed(legs) /\ Len(legs) = n
  BY <1>2, Lists
<1>4. ASSUME NEW j \in 1 .. n PROVE legs[j].gain \in Int /\ legs[j].closes \in Int
  <2>1. legs[j] \in ExitLegs
    BY <1>1
  <2>2. legs[j].gain \in Gains /\ legs[j].closes \in {0, 1}
    BY <2>1 DEF ExitLegs
  <2>3. legs[j].gain \in Int
    BY <2>2, WalkForwardAssumption
  <2>4. legs[j].closes \in Int
    BY <2>2
  <2>5. QED
    BY <2>3, <2>4
<1>5. QED
  BY <1>3, <1>4

LEMMA WfTest ==
    ASSUME WfInv, NEW legs \in LegLists, Test(legs)
    PROVE  WfInv'
<1>1. PICK n, k, r : n = Len(windows) /\ k = n + 1 /\ r = WindowRanges(wfCall)[k]
  OBVIOUS
<1>2. PICK g, m : g = Total(legs, "gain") /\ m = Total(legs, "closes")
  OBVIOUS
<1>3. /\ Listed(legs)
      /\ \A j \in 1 .. Len(legs) : legs[j].gain \in Int /\ legs[j].closes \in Int
  BY LegFacts
<1>4. PICK e : e = [best |-> ParameterSets[Best(wfScores)], trades |-> m, profitable |-> g > 0]
  OBVIOUS
<1>5. /\ wfPhase = "test" /\ wfCall' = wfCall
      /\ rollingEquity' = rollingEquity + g
      /\ allTrades' = allTrades \o legs
      /\ eqSeries' = Stitch(eqSeries, Curve(r, rollingEquity, legs))
      /\ windows' = Append(windows, e)
      /\ wfPhase' = IF Len(windows') = WindowCount(wfCall) THEN "summary" ELSE "train"
  BY <1>1, <1>2, <1>4 DEF Test
<1>6. /\ wfCall \in WindowCalls /\ Listed(windows) /\ Listed(allTrades) /\ n \in Nat
      /\ \A j \in 1 .. n : windows[j].trades \in Int
      /\ n < WindowCount(wfCall) /\ WindowCount(wfCall) \in Nat
  <2>1. wfCall \in WindowCalls /\ Listed(windows) /\ Listed(allTrades) /\ n < WindowCount(wfCall)
    BY <1>1, <1>5 DEF WfInv, WfShape
  <2>2. WindowCount(wfCall) \in Nat
    BY <2>1, CountType
  <2>3. n \in Nat
    BY <1>1, <2>1 DEF Listed
  <2>4. \A j \in 1 .. n : windows[j].trades \in Int
    BY <1>1 DEF WfInv, WfShape
  <2>5. QED
    BY <2>1, <2>2, <2>3, <2>4
<1>7. /\ Listed(windows') /\ Len(windows') = n + 1 /\ windows'[n + 1] = e
      /\ \A j \in 1 .. n : windows'[j] = windows[j]
  BY <1>1, <1>5, <1>6, ListGrows
<1>8. k \in 1 .. WindowCount(wfCall)
  BY <1>1, <1>6
<1>9. Window(wfCall, k, r)
  BY <1>1, <1>6, <1>8, WindowFacts
<1>10. Tradable(r, legs)
  BY <1>1 DEF Test
<1>11. /\ g \in Int /\ Total(allTrades', "gain") = Total(allTrades, "gain") + g
       /\ m \in Int /\ Total(allTrades', "closes") = Total(allTrades, "closes") + m
  <2>1. Total(allTrades, "gain") \in Int /\ Total(allTrades, "closes") \in Int
    BY DEF WfInv, WfEquities
  <2>2. \A j \in 1 .. Len(legs) : legs[j]["gain"] \in Int
    BY <1>3
  <2>3. \A j \in 1 .. Len(legs) : legs[j]["closes"] \in Int
    BY <1>3
  <2>4. Total(legs, "gain") \in Int
        /\ Total(allTrades \o legs, "gain") = Total(allTrades, "gain") + Total(legs, "gain")
    BY <1>3, <1>6, <2>1, <2>2, TotalJoins
  <2>5. Total(legs, "closes") \in Int
        /\ Total(allTrades \o legs, "closes") = Total(allTrades, "closes") + Total(legs, "closes")
    BY <1>3, <1>6, <2>1, <2>3, TotalJoins
  <2>6. QED
    BY <1>2, <1>5, <2>4, <2>5
<1>12. WfShape'
  <2>1. Listed(allTrades')
    BY <1>3, <1>5, <1>6, ListsJoin
  <2>2. \A j \in 1 .. (n + 1) : windows'[j].trades \in Int
    <3>1. SUFFICES ASSUME NEW j \in 1 .. (n + 1) PROVE windows'[j].trades \in Int
      OBVIOUS
    <3>2. CASE j = n + 1
      BY <1>4, <1>7, <1>11, <3>2
    <3>3. CASE j # n + 1
      <4>1. j \in 1 .. n
        BY <1>6, <3>3
      <4>2. QED
        BY <1>6, <1>7, <4>1
    <3>4. QED
      BY <3>2, <3>3
  <2>3. wfPhase' \in {"train", "test"} => Len(windows') < WindowCount(wfCall')
    BY <1>5, <1>6, <1>7
  <2>4. Len(windows') >= 1
    BY <1>6, <1>7
  <2>5. QED
    BY <1>5, <1>6, <1>7, <2>1, <2>2, <2>3, <2>4 DEF WfShape
<1>13. WfEquities'
  <2>1. PICK a, b : a = Total(allTrades, "gain") /\ b = Total(allTrades, "closes")
    OBVIOUS
  <2>2. /\ a \in Int /\ b \in Int /\ rollingEquity = WfEquity + a /\ WfEquity \in Int
        /\ Total(windows, "trades") = b
    BY <2>1, WalkForwardAssumption DEF WfInv, WfEquities
  <2>3. Total(windows', "trades") = b + m
    <3>1. Total(Append(windows, e), "trades") = Total(windows, "trades") + e["trades"]
      BY <1>6, TotalGrows
    <3>2. e["trades"] = m
      BY <1>4
    <3>3. QED
      BY <1>5, <2>2, <3>1, <3>2
  <2>4. Total(allTrades', "gain") = a + g /\ Total(allTrades', "closes") = b + m
    BY <1>11, <2>1
  <2>5. rollingEquity' = WfEquity + (a + g) /\ a + g \in Int /\ b + m \in Int
    BY <1>5, <1>11, <2>2
  <2>6. QED
    BY <2>3, <2>4, <2>5 DEF WfEquities
<1>14. WfCurve'
  <2>1. PICK s, v, p, y : /\ s = eqSeries /\ v = Curve(r, rollingEquity, legs) /\ p = v[Len(v)]
                          /\ y = Stitch(s, v)
    OBVIOUS
  <2>2. rollingEquity \in Int
    <3>1. WfEquity \in Int
      BY WalkForwardAssumption
    <3>2. QED
      BY <3>1 DEF WfInv, WfEquities
  <2>3. /\ Climbs(v) /\ Len(v) >= 1 /\ p.time < r.testEnd /\ p.equity = rollingEquity + g
        /\ Len(v) = 1 => g = 0
        /\ Len(v) > 1 => p.time = r.testEnd - 1
    BY <1>2, <1>3, <1>9, <1>10, <2>1, <2>2, CurveFacts
  <2>4. /\ Climbs(s) /\ (n = 0 => s = <<>>)
        /\ n > 0 => /\ Len(s) >= 1 /\ s[Len(s)].equity = rollingEquity
                    /\ s[Len(s)].time < WindowEnd(n)
    BY <1>1, <2>1 DEF WfInv, WfCurve
  <2>5. /\ Climbs(y) /\ (LaterThan(s, p) => Len(y) >= 1 /\ y[Len(y)] = p)
        /\ ~LaterThan(s, p) /\ Len(v) = 1 => y = s
    BY <2>1, <2>3, <2>4, StitchFacts
  <2>6. WindowEnd(k) = r.testEnd /\ r.testEnd \in Nat /\ (n > 0 => WindowEnd(n) \in Int /\ WindowEnd(n) < r.testEnd)
    <3>1. PICK a, b, d : a = wfCall.train /\ b = wfCall.test /\ d = wfCall.step
      OBVIOUS
    <3>2. a \in Nat \ {0} /\ b \in Nat \ {0} /\ d \in Nat \ {0}
      BY <1>6, <3>1, WalkForwardAssumption
    <3>3. r.testEnd = ((k - 1) * d + a) + b /\ r.testEnd \in Nat
      BY <1>9, <3>1 DEF Window
    <3>4. WindowEnd(k) = (k - 1) * d + a + b /\ WindowEnd(n) = (n - 1) * d + a + b
      BY <3>1 DEF WindowEnd
    <3>5. k - 1 = n /\ n \in Nat
      BY <1>1, <1>6
    <3>6. PICK q, z : q = n * d /\ z = (n - 1) * d
      OBVIOUS
    <3>7. q \in Int /\ z \in Int /\ q = z + d
      BY <1>6, <3>2, <3>6
    <3>8. r.testEnd = q + a + b /\ WindowEnd(k) = q + a + b /\ WindowEnd(n) = z + a + b
      BY <3>2, <3>3, <3>4, <3>5, <3>6, <3>7
    <3>9. QED
      BY <3>2, <3>3, <3>7, <3>8
  <2>7. Len(v) \in Nat /\ Len(s) \in Nat
    BY <2>3, <2>4 DEF Climbs, Listed
  <2>8. Len(s) \in 1 .. Len(s) => s[Len(s)].time \in Int
    BY <2>4 DEF Climbs
  <2>9. /\ eqSeries' = y /\ rollingEquity' = rollingEquity + g /\ Len(windows') = k
        /\ WindowEnd(k)' = WindowEnd(k)
    BY <1>1, <1>5, <1>7, <2>1 DEF WindowEnd
  <2>10. k > 0 /\ k # 0
    BY <1>1, <1>6
  <2>11. Len(y) >= 1 /\ y[Len(y)].equity = rollingEquity + g /\ y[Len(y)].time < r.testEnd
    <3>1. CASE LaterThan(s, p)
      BY <2>3, <2>5, <3>1
    <3>2. CASE ~LaterThan(s, p)
      <4>1. s # <<>> /\ ~(p.time > s[Len(s)].time)
        BY <3>2 DEF LaterThan
      <4>2. n > 0
        BY <1>6, <2>4, <4>1
      <4>3. Len(s) >= 1 /\ s[Len(s)].time \in Int /\ s[Len(s)].time < WindowEnd(n)
        BY <2>4, <2>7, <2>8, <4>2
      <4>4. Len(v) = 1
        <5>1. SUFFICES ASSUME Len(v) # 1 PROVE FALSE
          OBVIOUS
        <5>2. Len(v) > 1
          <6>1. PICK l : l = Len(v)
            OBVIOUS
          <6>2. l >= 1 /\ l \in Nat /\ l # 1
            BY <2>3, <2>7, <5>1, <6>1
          <6>3. l > 1
            BY <6>2
          <6>4. QED
            BY <6>1, <6>3
        <5>3. PICK x, b, z : x = s[Len(s)].time /\ b = r.testEnd /\ z = WindowEnd(n)
          OBVIOUS
        <5>4. x \in Int /\ z \in Int /\ b \in Int /\ x < z /\ z < b
          BY <2>6, <4>2, <4>3, <5>3
        <5>5. ~(b - 1 > x)
          BY <2>3, <4>1, <5>2, <5>3
        <5>6. QED
          BY <5>4, <5>5
      <4>5. y = s /\ g = 0
        BY <2>3, <2>5, <3>2, <4>4
      <4>6. s[Len(s)].equity = rollingEquity + g
        BY <2>2, <2>4, <4>2, <4>5
      <4>7. s[Len(s)].time < r.testEnd
        BY <2>6, <4>2, <4>3
      <4>8. QED
        BY <4>3, <4>5, <4>6, <4>7
    <3>3. QED
      BY <3>1, <3>2
  <2>12. Climbs(eqSeries')
    BY <2>5, <2>9
  <2>13. /\ Len(eqSeries') >= 1 /\ eqSeries'[Len(eqSeries')].equity = rollingEquity'
         /\ eqSeries'[Len(eqSeries')].time < WindowEnd(Len(windows))'
    <3>1. WindowEnd(Len(windows))' = WindowEnd(k)
      BY <1>5, <2>9 DEF WindowEnd
    <3>2. QED
      BY <2>6, <2>9, <2>11, <3>1
  <2>14. QED
    BY <2>9, <2>10, <2>12, <2>13 DEF WfCurve
<1>15. wfPhase' # "done"
  BY <1>5
<1>16. QED
  BY <1>12, <1>13, <1>14, <1>15 DEF WfInv

LEMMA WfInvNext ==
    ASSUME WfInv, [WfNext]_wfVars
    PROVE  WfInv'
<1>1. CASE Report
  BY <1>1, WfPasses DEF Report
<1>2. ASSUME NEW score, Train(score) PROVE WfInv'
  <2>1. /\ wfPhase = "train" /\ wfPhase' \in {"train", "test"}
        /\ UNCHANGED <<wfCall, windows, rollingEquity, allTrades, eqSeries>>
    BY <1>2 DEF Train
  <2>2. QED
    BY <2>1, WfPasses
<1>3. CASE BacktestRaises
  BY <1>3, WfPasses DEF BacktestRaises
<1>4. ASSUME NEW legs \in LegLists, Test(legs) PROVE WfInv'
  BY <1>4, WfTest
<1>5. CASE UNCHANGED wfVars
  <2>1. UNCHANGED <<wfCall, wfPhase, windows, rollingEquity, allTrades, eqSeries, summary>>
    BY <1>5 DEF wfVars
  <2>2. wfPhase = "done" => summary = Summary(windows)
    BY DEF WfInv
  <2>3. QED
    BY <2>1, <2>2, WfPasses
<1>6. QED
  BY <1>1, <1>2, <1>3, <1>4, <1>5 DEF WfNext

LEMMA WfInvReports == WfInv => ReportTrue
<1>1. SUFFICES ASSUME WfInv, wfPhase = "done" PROVE ReportTrue
  BY DEF ReportTrue
<1>2. summary = Summary(windows) /\ Listed(windows) /\ Len(windows) >= 1 /\ Listed(allTrades)
  BY <1>1 DEF WfInv, WfShape
<1>3. \A j \in 1 .. Len(windows) : windows[j].trades \in Int
  BY <1>1 DEF WfInv, WfShape
<1>4. DOMAIN windows = 1 .. Len(windows) /\ DOMAIN allTrades = 1 .. Len(allTrades) /\ Len(windows) \in Nat
  BY <1>2 DEF Listed
<1>5. \A i \in 2 .. Len(eqSeries) : eqSeries[i - 1].time <= eqSeries[i].time
  BY <1>1 DEF WfInv, WfCurve, Climbs
<1>6. eqSeries[Len(eqSeries)].equity = rollingEquity
  <2>1. Len(windows) > 0
    BY <1>2, <1>4
  <2>2. QED
    BY <1>1, <2>1 DEF WfInv, WfCurve
<1>7. /\ rollingEquity = WfEquity + Total(allTrades, "gain")
      /\ Total(windows, "trades") = Total(allTrades, "closes")
  BY <1>1 DEF WfInv, WfEquities
<1>8. Total(summary.leaderboard, "wins") = Len(windows)
  <2>1. SumOf(Column(windows, "wins"), Len(Summary(windows).leaderboard)) = Len(windows)
    BY <1>2, WinsShared
  <2>2. QED
    BY <1>2, <2>1 DEF Total, Column
<1>9. Total(summary.leaderboard, "trades") = Total(allTrades, "closes")
  <2>1. SumOf(Column(windows, "trades"), Len(Summary(windows).leaderboard))
           = SumOf([j \in 1 .. Len(windows) |-> windows[j].trades], Len(windows))
    BY <1>2, <1>3, TradesShared
  <2>2. Total(windows, "trades") = SumOf([j \in 1 .. Len(windows) |-> windows[j].trades], Len(windows))
    BY <1>4 DEF Total
  <2>3. Total(summary.leaderboard, "trades") = SumOf(Column(windows, "trades"), Len(Summary(windows).leaderboard))
    BY <1>2 DEF Total, Column
  <2>4. QED
    BY <1>7, <2>1, <2>2, <2>3
<1>10. \A e, f \in DOMAIN summary.leaderboard :
           e < f => summary.leaderboard[e].wins >= summary.leaderboard[f].wins
  BY <1>2, WinsOrdered
<1>11. (Len(summary.leaderboard) = 1) <=> Alike(windows)
  BY <1>2, AlikeAlone
<1>12. Alike(windows) <=> \A k \in DOMAIN windows : summary.stability[k][1] = summary.stability[k][2]
  BY <1>2, AlikeStable
<1>13. (summary.repeats = Len(windows) - 1) <=> Alike(windows)
  BY <1>2, AlikeRepeats
<1>14. QED
  BY <1>5, <1>6, <1>7, <1>8, <1>9, <1>10, <1>11, <1>12, <1>13 DEF ReportTrue

\* What a walk-forward reports is true whenever it ends: the curve does not go
\* back in time and ends with the equity reported, which the trades explain, and
\* the leaderboard, the stability scores and the repeats say the same of the
\* winners (walk_forward.py:105-159,281-347).
THEOREM ReportsAreTrue == WfSpec => []ReportTrue
<1>1. WfInit => WfInv
  BY WfInvInit
<1>2. WfInv /\ [WfNext]_wfVars => WfInv'
  BY WfInvNext
<1>3. WfInv => ReportTrue
  BY WfInvReports
<1>4. QED
  BY <1>1, <1>2, <1>3, PTL DEF WfSpec

=============================================================================
