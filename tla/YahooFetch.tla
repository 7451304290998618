----------------------------- MODULE YahooFetch -----------------------------
(***************************************************************************)
(* data/yahoo.py: concurrent fetches of a long history, chunk by chunk,    *)
(* each request in a slot of the process-wide throttle, with retries.      *)
(*                                                                         *)
(* Time is in units of one second, the gap left between two chunks.  The   *)
(* chart has one candle a second; a candle is its time.                    *)
(***************************************************************************)
EXTENDS Integers, Sequences

CONSTANTS
    Fetchers,
    Begin,         \* the time at which the run begins
    Span,          \* [fetcher -> span_ms]
    MaxSpan,       \* max_span_ms
    MinDelay,      \* [fetcher -> min_delay_seconds]
    MaxRetries,
    Backoff,       \* the sleep before a retry
    FetchEnd       \* bound: time

ASSUME FetchAssumption ==
    /\ Begin \in Nat /\ FetchEnd \in Nat /\ Backoff \in Nat /\ MaxSpan \in Nat \ {0}
    /\ MinDelay \in [Fetchers -> Nat] /\ Span \in [Fetchers -> Nat] /\ MaxRetries \in Nat

VARIABLES
    time,          \* now_ms
    nextRequestAt, \* _next_request_at_ms
    fetch,         \* [fetcher -> its progress]
    slots          \* history: [at, delay] of the slots given out, in order

fetchVars == <<time, nextRequestAt, fetch, slots>>

NoFetch == [phase |-> "idle", asked |-> 0, read |-> 0, at |-> 0, chunkEnd |-> 0,
            remaining |-> 0, attempt |-> 0, rows |-> {}]

FetchInit ==
    /\ time = Begin /\ nextRequestAt = 0 /\ slots = <<>>
    /\ fetch = [f \in Fetchers |-> NoFetch]

Least(a, b) == IF a < b THEN a ELSE b
Most(a, b) == IF a < b THEN b ELSE a

\* fetch_historical
Fetch(f) ==
    /\ fetch[f].phase = "idle"
    /\ fetch' = [fetch EXCEPT ![f] = [NoFetch EXCEPT !.phase = "read", !.asked = time,
                     !.chunkEnd = time, !.remaining = Span[f]]]
    /\ UNCHANGED <<time, nextRequestAt, slots>>

ChunkStart(f) == fetch[f].chunkEnd - Least(fetch[f].remaining, MaxSpan)

\* _rate_limited_get reads the clock ...
ReadClock(f) ==
    /\ fetch[f].phase = "read"
    /\ fetch' = [fetch EXCEPT ![f].phase = "guard", ![f].read = time]
    /\ UNCHANGED <<time, nextRequestAt, slots>>

\* Mutant: the next slot follows the clock, not the slot that was given.
TakeSlot_Clock(f) ==
    /\ fetch[f].phase = "guard"
    /\ LET at == Most(fetch[f].read, nextRequestAt)
       IN  /\ nextRequestAt' = fetch[f].read + MinDelay[f]
           /\ slots' = Append(slots, [at |-> at, delay |-> MinDelay[f]])
           /\ fetch' = [fetch EXCEPT ![f].phase = "sleep", ![f].at = at]
    /\ UNCHANGED time

\* ... and takes a slot under the guard, another thread perhaps in between.
TakeSlot(f) ==
    /\ fetch[f].phase = "guard"
    /\ LET at == Most(fetch[f].read, nextRequestAt)
       IN  /\ nextRequestAt' = at + MinDelay[f]
           /\ slots' = Append(slots, [at |-> at, delay |-> MinDelay[f]])
           /\ fetch' = [fetch EXCEPT ![f].phase = "sleep", ![f].at = at]
    /\ UNCHANGED time

SendFetch(f) ==
    /\ fetch[f].phase = "sleep" /\ time >= fetch[f].at
    /\ fetch' = [fetch EXCEPT ![f].phase = "get"]
    /\ UNCHANGED <<time, nextRequestAt, slots>>

\* Mutant: the chunks are counted from the end of the one before.
ChunkArrives_Overlong(f) ==
    /\ fetch[f].phase = "get"
    /\ LET start == ChunkStart(f)
           left == fetch[f].remaining - Least(fetch[f].remaining, MaxSpan) - 1
           rows == fetch[f].rows \cup (Most(0, start) .. fetch[f].chunkEnd)
       IN  fetch' = [fetch EXCEPT ![f].rows = rows, ![f].remaining = left,
                        ![f].chunkEnd = start - 1, ![f].attempt = 0,
                        ![f].phase = IF left <= 0 \/ start - 1 <= 0 THEN "done" ELSE "read"]
    /\ UNCHANGED <<time, nextRequestAt, slots>>

\* The chart of a chunk; a repeated candle replaces the one before.
ChunkArrives(f) ==
    /\ fetch[f].phase = "get"
    /\ LET start == ChunkStart(f)
           left == fetch[f].remaining - Least(fetch[f].remaining, MaxSpan)
           rows == fetch[f].rows \cup (Most(0, start) .. fetch[f].chunkEnd)
       IN  fetch' = [fetch EXCEPT ![f].rows = rows, ![f].remaining = left,
                        ![f].chunkEnd = start - 1, ![f].attempt = 0,
                        ![f].phase = IF left <= 0 \/ start - 1 <= 0 THEN "done" ELSE "read"]
    /\ UNCHANGED <<time, nextRequestAt, slots>>

\* The request fails, for good or until it is tried again.
RequestFails(f, retryable) ==
    /\ fetch[f].phase = "get"
    /\ IF retryable /\ fetch[f].attempt < Most(1, MaxRetries) - 1
       THEN fetch' = [fetch EXCEPT ![f].phase = "backoff", ![f].attempt = @ + 1,
                                   ![f].at = time + Backoff]
       ELSE fetch' = [fetch EXCEPT ![f].phase = "failed"]
    /\ UNCHANGED <<time, nextRequestAt, slots>>

Retry(f) ==
    /\ fetch[f].phase = "backoff" /\ time >= fetch[f].at
    /\ fetch' = [fetch EXCEPT ![f].phase = "read"]
    /\ UNCHANGED <<time, nextRequestAt, slots>>

Second ==
    /\ time < FetchEnd
    /\ time' = time + 1
    /\ UNCHANGED <<nextRequestAt, fetch, slots>>

FetchNext ==
    \/ \E f \in Fetchers :
        \/ Fetch(f) \/ ReadClock(f) \/ TakeSlot(f) \/ SendFetch(f) \/ ChunkArrives(f) \/ Retry(f)
        \/ \E retryable \in BOOLEAN : RequestFails(f, retryable)
    \/ Second

FetchSpec == FetchInit /\ [][FetchNext]_fetchVars

-----------------------------------------------------------------------------
\* However fetches interleave and retry, each slot of the throttle keeps the
\* delay its predecessor asked for (yahoo.py:127-151).
SlotsSpaced ==
    \A i, j \in 1 .. Len(slots) : i < j => slots[j].at >= slots[i].at + slots[i].delay

\* A fetch that ends well has every candle of the span it was asked for: no
\* seam between two chunks and no retry loses one (yahoo.py:331-357).  The
\* candle at time 0 itself is not asked for when a chunk begins right after it.
SpanCovered ==
    \A f \in Fetchers : fetch[f].phase = "done" =>
        \A t \in Most(1, fetch[f].asked - Span[f]) .. fetch[f].asked : t \in fetch[f].rows
=============================================================================
