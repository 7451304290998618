----------------------------- MODULE EventStream -----------------------------
(***************************************************************************)
(* live/dashboard.py and live/events.py: the dashboard listens to a bus    *)
(* and streams its events to clients, each through a queue of its own.     *)
(* An event is its number; a client first gets the recent events.          *)
(***************************************************************************)
EXTENDS Integers, Sequences

CONSTANTS
    Clients,
    MaxBuffer,     \* max_buffer
    MaxEvents      \* bound: events

ASSUME StreamAssumption == MaxBuffer \in Nat \ {0} /\ MaxEvents \in Nat

VARIABLES
    server,        \* "off", "starting", "up", "over"
    closed,        \* _closed; the dashboard listens to the bus until then
    recent,        \* _recent
    stream,        \* [client -> "none", "replay", "live", "over"]
    replay,        \* [client -> recent events still to be sent]
    frames,        \* [client -> its queue], End being None
    events,        \* history: events so far
    got,           \* history: [client -> events sent to it]
    dropped,       \* history: clients that lost an event to a full queue
    late           \* history: clients whose stream was opened after close

streamVars == <<server, closed, recent, stream, replay, frames, events, got, dropped, late>>

End == 0

StreamInit ==
    /\ server = "off" /\ closed = FALSE /\ recent = <<>>
    /\ stream = [c \in Clients |-> "none"]
    /\ replay = [c \in Clients |-> <<>>] /\ frames = [c \in Clients |-> <<>>]
    /\ events = 0 /\ got = [c \in Clients |-> <<>>] /\ dropped = {} /\ late = {}

\* _clients: those whose generator runs.
Registered == {c \in Clients : stream[c] \in {"replay", "live"}}

Bounded(s) == IF Len(s) > MaxBuffer THEN Tail(s) ELSE s
Full(c) == Len(frames[c]) = MaxBuffer

\* Mutant: a full queue turns the new frame away.
Queued_Newest(c, frame) ==
    IF c \notin Registered \/ Full(c) THEN frames[c] ELSE Append(frames[c], frame)

\* Into a full queue a frame goes in the place of the oldest.
Queued(c, frame) ==
    IF c \notin Registered THEN frames[c] ELSE Bounded(Append(frames[c], frame))

Losing == {c \in Registered : Full(c)}

\* emit_event of the bus calls _on_event.
BusEvent ==
    /\ events < MaxEvents /\ events' = events + 1
    /\ IF closed
       THEN UNCHANGED <<recent, frames, dropped>>
       ELSE /\ recent' = Bounded(Append(recent, events'))
            /\ frames' = [c \in Clients |-> Queued(c, events')]
            /\ dropped' = dropped \cup Losing
    /\ UNCHANGED <<server, closed, stream, replay, got, late>>

\* event_stream begins: the queue and the recent events in one step.
OpenStream(c) ==
    /\ server = "up" /\ stream[c] = "none"
    /\ stream' = [stream EXCEPT ![c] = "replay"]
    /\ replay' = [replay EXCEPT ![c] = recent]
    /\ late' = IF closed THEN late \cup {c} ELSE late
    /\ UNCHANGED <<server, closed, recent, frames, events, got, dropped>>

Replayed(c) ==
    /\ stream[c] = "replay"
    /\ IF replay[c] = <<>>
       THEN /\ stream' = [stream EXCEPT ![c] = "live"]
            /\ UNCHANGED <<replay, got>>
       ELSE /\ got' = [got EXCEPT ![c] = Append(@, Head(replay[c]))]
            /\ replay' = [replay EXCEPT ![c] = Tail(@)]
            /\ UNCHANGED stream
    /\ UNCHANGED <<server, closed, recent, frames, events, dropped, late>>

NextFrame(c) ==
    /\ stream[c] = "live" /\ frames[c] # <<>>
    /\ frames' = [frames EXCEPT ![c] = Tail(@)]
    /\ IF Head(frames[c]) = End
       THEN stream' = [stream EXCEPT ![c] = "over"] /\ UNCHANGED got
       ELSE got' = [got EXCEPT ![c] = Append(@, Head(frames[c]))] /\ UNCHANGED stream
    /\ UNCHANGED <<server, closed, recent, replay, events, dropped, late>>

\* The client goes away.
Leave(c) ==
    /\ c \in Registered
    /\ stream' = [stream EXCEPT ![c] = "over"]
    /\ UNCHANGED <<server, closed, recent, replay, frames, events, got, dropped, late>>

StartServer ==
    /\ ~closed /\ server = "off"
    /\ server' = "starting"
    /\ UNCHANGED <<closed, recent, stream, replay, frames, events, got, dropped, late>>

ServerStarts ==
    /\ server = "starting"
    /\ server' \in {"up", "over"}
    /\ UNCHANGED <<closed, recent, stream, replay, frames, events, got, dropped, late>>

\* close: no more events, every stream is told to end, the server to exit.
CloseDashboard ==
    /\ ~closed
    /\ closed' = TRUE
    /\ frames' = [c \in Clients |-> Queued(c, End)]
    /\ dropped' = dropped \cup Losing
    /\ UNCHANGED <<server, recent, stream, replay, events, got, late>>

\* The server has let its last stream go, and close returns.
ServerExits ==
    /\ closed /\ server = "up" /\ Registered = {}
    /\ server' = "over"
    /\ UNCHANGED <<closed, recent, stream, replay, frames, events, got, dropped, late>>

StreamNext ==
    \/ BusEvent \/ StartServer \/ ServerStarts \/ CloseDashboard \/ ServerExits
    \/ \E c \in Clients : OpenStream(c) \/ Replayed(c) \/ NextFrame(c) \/ Leave(c)

StreamSpec == StreamInit /\ [][StreamNext]_streamVars

-----------------------------------------------------------------------------
\* The events of a queue: all but the End that closes it.
Queue(q) == IF q # <<>> /\ q[Len(q)] = End THEN SubSeq(q, 1, Len(q) - 1) ELSE q

\* What a client has been sent and is yet to be sent, in order.
InLine(c) == got[c] \o replay[c] \o Queue(frames[c])

\* A client gets the events in order, none twice, from its replay into its
\* queue without a gap; only a full queue loses one, the oldest; and a stream
\* that was open when the dashboard closed is told to end
\* (dashboard.py:86-113, 225-239).
StreamsWhole ==
    \A c \in Registered :
        LET s == InLine(c) IN
        /\ \A i \in 1 .. (Len(s) - 1) :
            IF c \in dropped THEN s[i] < s[i + 1] ELSE s[i + 1] = s[i] + 1
        /\ ~closed /\ events > 0 /\ s # <<>> => s[Len(s)] = events
        /\ closed /\ c \notin late => \E i \in 1 .. Len(frames[c]) : frames[c][i] = End
=============================================================================
