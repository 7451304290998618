--------------------------- MODULE SessionManager ---------------------------
(***************************************************************************)
(* live/session.py: SessionManager creates, removes and halts sessions     *)
(* under one lock; users may also stop a session themselves.               *)
(*                                                                         *)
(* A session is a number, given in order; its name is chosen at creation.  *)
(***************************************************************************)
EXTENDS Integers, FiniteSets

CONSTANTS
    Names,
    MaxSessions    \* bound: sessions

ASSUME ManagerAssumption == MaxSessions \in Nat

VARIABLES
    name,          \* [session -> its id]
    runs,          \* sessions that run
    linked,        \* sessions whose broker is connected
    held,          \* the sessions of the manager's dictionary
    job,           \* who has the lock, and the sessions it still waits for
    created,       \* bound: sessions created so far
    stuck,         \* history: sessions whose broker's disconnect raised
    unclosed       \* history: sessions whose flatten raised

managerVars == <<name, runs, linked, held, job, created, stuck, unclosed>>

Sessions == 1 .. MaxSessions
NoJob == [op |-> "none", wait |-> {}]

ManagerInit ==
    /\ name \in [Sessions -> {CHOOSE n \in Names : TRUE}]
    /\ runs = {} /\ linked = {} /\ held = {} /\ job = NoJob /\ created = 0
    /\ stuck = {} /\ unclosed = {}

\* create, for a name that is not held; its broker may be connected already.
Create(n) ==
    /\ job = NoJob /\ created < MaxSessions
    /\ n \notin {name[s] : s \in held}
    /\ created' = created + 1
    /\ name' = [name EXCEPT ![created'] = n]
    /\ linked' \in {linked, linked \cup {created'}}
    /\ job' = [op |-> "create", wait |-> {created'}]
    /\ UNCHANGED <<runs, held, stuck, unclosed>>

Started(s) ==
    /\ job.op = "create" /\ s \in job.wait
    /\ runs' = runs \cup {s} /\ linked' = linked \cup {s}
    /\ held' = held \cup {s}
    /\ job' = NoJob
    /\ UNCHANGED <<name, created, stuck, unclosed>>

\* Mutant: a session that did not start is held all the same.
NotStarted_Held(s) ==
    /\ job.op = "create" /\ s \in job.wait
    /\ held' = held \cup {s}
    /\ linked' \in {linked \cup {s}, linked}
    /\ stuck' = stuck
    /\ job' = NoJob
    /\ UNCHANGED <<name, runs, created, unclosed>>

\* start raises; the session, and for a broker it made the manager again,
\* disconnects, which may raise.
NotStarted(s) ==
    /\ job.op = "create" /\ s \in job.wait
    /\ \/ linked' = linked \ {s} /\ UNCHANGED stuck
       \/ linked' = linked \cup {s} /\ stuck' = stuck \cup {s}
    /\ job' = NoJob
    /\ UNCHANGED <<name, runs, held, created, unclosed>>

Remove(s) ==
    /\ job = NoJob /\ s \in held
    /\ job' = [op |-> "remove", wait |-> {s}]
    /\ UNCHANGED <<name, runs, linked, held, created, stuck, unclosed>>

HaltAll ==
    /\ job = NoJob /\ held # {}
    /\ job' = [op |-> "halt", wait |-> held]
    /\ UNCHANGED <<name, runs, linked, held, created, stuck, unclosed>>

\* stop(): in order, or its flatten raises, or the broker's disconnect.  In
\* any case the session no longer runs.
StopOutcome(s, raised) ==
    /\ runs' = runs \ {s}
    /\ \/ /\ ~raised
          /\ linked' = linked \ {s}
          /\ UNCHANGED <<stuck, unclosed>>
       \/ /\ raised /\ s \in runs
          /\ linked' = linked \ {s} /\ unclosed' = unclosed \cup {s}
          /\ UNCHANGED stuck
       \/ /\ raised /\ s \in linked
          /\ stuck' = stuck \cup {s}
          /\ UNCHANGED <<linked, unclosed>>

\* A stop that the manager waits for: remove keeps the session when it
\* raised, halt_all forgets all sessions after the last one.
Stopped(s, raised) ==
    /\ job.op \in {"remove", "halt"} /\ s \in job.wait
    /\ StopOutcome(s, raised)
    /\ job' = IF job.wait = {s} THEN NoJob ELSE [job EXCEPT !.wait = @ \ {s}]
    /\ held' = CASE job.op = "remove" /\ ~raised -> held \ {s}
                 [] job.op = "halt" /\ job.wait = {s} -> {}
                 [] OTHER -> held
    /\ UNCHANGED <<name, created>>

\* A user stops a session of the manager.
UserStops(s, raised) ==
    /\ s \in runs
    /\ StopOutcome(s, raised)
    /\ UNCHANGED <<name, held, job, created>>

ManagerNext ==
    \/ \E n \in Names : Create(n)
    \/ \E s \in Sessions : Started(s) \/ NotStarted(s) \/ Remove(s)
    \/ HaltAll
    \/ \E s \in Sessions, raised \in BOOLEAN : Stopped(s, raised) \/ UserStops(s, raised)

ManagerSpec == ManagerInit /\ [][ManagerNext]_managerVars

-----------------------------------------------------------------------------
\* While no call is on its way, a session that runs or whose broker is
\* connected is one the manager holds under a name of its own, unless that
\* broker's disconnect raised (session.py:891-975).
NoOrphan ==
    job = NoJob =>
        /\ \A s \in Sessions : s \in runs \cup linked => s \in held \cup stuck
        /\ \A s \in held : s \in linked => s \in runs \cup stuck
        /\ \A s, t \in held : name[s] = name[t] => s = t
=============================================================================
