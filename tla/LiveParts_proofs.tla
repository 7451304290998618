-------------------------- MODULE LiveParts_proofs --------------------------
(***************************************************************************)
(* What holds of the parts around the live engine for every value of the   *)
(* constants: live/session.py's SessionManager, live/orchestrator.py,      *)
(* live/storage.py and live/paper.py: see the README for the arguments.    *)
(***************************************************************************)
EXTENDS SessionManager, LiveOrchestrator, JsonStorage, PaperBook,
        SequenceTheorems, WellFoundedInduction, TLAPS

-----------------------------------------------------------------------------
(* SessionManager: no session of the manager is orphaned, for any names    *)
(* and any number of sessions.                                             *)

\* Sets of sessions; the names are a function; sessions are numbered in turn.
ManagerTypes ==
    /\ DOMAIN name = Sessions
    /\ created \in Nat /\ created <= MaxSessions
    /\ runs \subseteq 1 .. created /\ linked \subseteq 1 .. created
    /\ held \subseteq 1 .. created

\* What the holder of the lock is about.
JobOK ==
    \/ job = NoJob
    \/ /\ job = [op |-> "create", wait |-> {created}] /\ created \in Sessions
       /\ created \notin held /\ created \notin runs
       /\ \A s \in held : name[s] # name[created]
    \/ job.op \in {"remove", "halt"} /\ job = [op |-> job.op, wait |-> job.wait]
       /\ job.wait # {} /\ job.wait \subseteq held

\* A session that runs or is connected is held, stuck, or being created.
Accounted ==
    \A s \in runs \cup linked : s \in held \/ s \in stuck \/ (job.op = "create" /\ s \in job.wait)

\* While halt_all works through the sessions, those it is done with are over.
HaltDone ==
    job.op = "halt" => \A s \in held \ job.wait : s \notin runs /\ (s \in linked => s \in stuck)

HeldOK ==
    /\ \A s \in held : s \in linked => s \in runs \cup stuck
    /\ \A s, t \in held : name[s] = name[t] => s = t

ManagerInv == ManagerTypes /\ JobOK /\ Accounted /\ HaltDone /\ HeldOK

-----------------------------------------------------------------------------
LEMMA ManagerInvInit ==
    ASSUME ManagerInit
    PROVE  ManagerInv
BY ManagerAssumption DEF ManagerInit, ManagerInv, ManagerTypes, JobOK, Accounted, HaltDone, HeldOK, NoJob, Sessions

\* create takes the lock for a name that is not held.
LEMMA CreateOK ==
    ASSUME ManagerInv, NEW n, Create(n)
    PROVE  ManagerInv'
<1> USE ManagerAssumption DEF Create, NoJob
<1>1. created' = created + 1 /\ created' \in Sessions /\ created' \notin held /\ created' \notin runs
    BY DEF ManagerInv, ManagerTypes, Sessions
<1>2. /\ DOMAIN name' = Sessions /\ name'[created'] = n
      /\ \A s \in held : name'[s] = name[s] /\ name'[s] # n
    BY <1>1 DEF ManagerInv, ManagerTypes, Sessions
<1>3. ManagerTypes' BY <1>1, <1>2 DEF ManagerInv, ManagerTypes, Sessions
<1>4. JobOK' BY <1>1, <1>2 DEF JobOK
<1>5. Accounted' /\ HaltDone' BY <1>1 DEF ManagerInv, Accounted, HaltDone, NoJob
<1>6. HeldOK'
    <2>1. \A s \in held : s \in linked' => s \in linked BY <1>1
    <2> QED BY <1>2, <2>1 DEF ManagerInv, HeldOK
<1> QED BY <1>3, <1>4, <1>5, <1>6 DEF ManagerInv

LEMMA StartedOK ==
    ASSUME ManagerInv, NEW s, Started(s)
    PROVE  ManagerInv'
<1> USE ManagerAssumption DEF Started, NoJob
<1>1. /\ s = created /\ created \in Sessions /\ created \notin held
      /\ \A t \in held : name[t] # name[created]
    BY DEF ManagerInv, JobOK
<1>2. ManagerTypes'
    <2>1. created \in 1 .. created BY <1>1 DEF Sessions
    <2> QED BY <1>1, <2>1 DEF ManagerInv, ManagerTypes
<1>3. JobOK' BY DEF JobOK
<1>4. Accounted' /\ HaltDone' BY <1>1 DEF ManagerInv, JobOK, Accounted, HaltDone
<1>5. HeldOK' BY <1>1 DEF ManagerInv, HeldOK
<1> QED BY <1>2, <1>3, <1>4, <1>5 DEF ManagerInv

LEMMA NotStartedOK ==
    ASSUME ManagerInv, NEW s, NotStarted(s)
    PROVE  ManagerInv'
<1> USE ManagerAssumption DEF NotStarted, NoJob
<1>1. s = created /\ job = [op |-> "create", wait |-> {created}] /\ created \in Sessions /\ created \notin held
    BY DEF ManagerInv, JobOK
<1>2. ManagerTypes'
    <2>1. created \in 1 .. created BY <1>1 DEF Sessions
    <2> QED BY <1>1, <2>1 DEF ManagerInv, ManagerTypes
<1>3. JobOK' BY DEF JobOK
<1>4. HaltDone' BY DEF HaltDone
<1>5. Accounted' /\ HeldOK'
    <2>1. /\ \A t \in Sessions \ {s} : t \in linked' <=> t \in linked
          /\ stuck \subseteq stuck' /\ (s \in linked' => s \in stuck')
          /\ UNCHANGED <<runs, held, name>> /\ job' = NoJob
        OBVIOUS
    <2>2. s \notin runs BY <1>1 DEF ManagerInv, JobOK, NoJob
    <2>3. \A t \in runs' \cup linked' : t \in Sessions
        BY <1>1, <1>2 DEF ManagerTypes, Sessions
    <2>4. Accounted' BY <1>1, <2>1, <2>2, <2>3 DEF ManagerInv, Accounted
    <2>5. HeldOK' BY <1>1, <1>2, <2>1 DEF ManagerInv, HeldOK, ManagerTypes, Sessions
    <2> QED BY <2>4, <2>5
<1> QED BY <1>2, <1>3, <1>4, <1>5 DEF ManagerInv

\* What stop() leaves: the session does not run, and a broker that is still
\* connected is one whose disconnect raised.
LEMMA StopFacts ==
    ASSUME ManagerInv, NEW s, NEW raised \in BOOLEAN, StopOutcome(s, raised)
    PROVE  /\ runs' = runs \ {s} /\ linked' \subseteq linked /\ stuck \subseteq stuck'
           /\ linked \ {s} \subseteq linked'
           /\ s \in linked' => raised /\ s \in stuck'
BY DEF StopOutcome

LEMMA StoppedOK ==
    ASSUME ManagerInv, NEW s, NEW raised \in BOOLEAN, Stopped(s, raised)
    PROVE  ManagerInv'
<1>1. /\ job.op \in {"remove", "halt"} /\ s \in job.wait /\ StopOutcome(s, raised)
      /\ job' = IF job.wait = {s} THEN NoJob ELSE [job EXCEPT !.wait = @ \ {s}]
      /\ held' = CASE job.op = "remove" /\ ~raised -> held \ {s}
                   [] job.op = "halt" /\ job.wait = {s} -> {}
                   [] OTHER -> held
      /\ name' = name /\ created' = created
    BY DEF Stopped
<1>2. /\ runs' = runs \ {s} /\ linked' \subseteq linked /\ stuck \subseteq stuck'
      /\ linked \ {s} \subseteq linked'
      /\ s \in linked' => raised /\ s \in stuck'
    BY <1>1, StopFacts
<1>3. job = [op |-> job.op, wait |-> job.wait] /\ job.wait \subseteq held /\ job.wait # {}
    BY <1>1 DEF ManagerInv, JobOK, NoJob
<1>4. held' \subseteq held BY <1>1
<1>5. ManagerTypes' /\ HeldOK' BY <1>1, <1>2, <1>4 DEF ManagerInv, ManagerTypes, HeldOK
<1>6. JobOK' /\ Accounted' /\ HaltDone'
    <2>1. CASE job.wait = {s}
        <3>1. job' = NoJob BY <1>1, <2>1
        <3>2. \A t \in runs' \cup linked' : t \in held \/ t \in stuck
            BY <1>1, <1>2 DEF ManagerInv, Accounted
        <3>3. Accounted'
            <4>1. CASE job.op = "remove"
                BY <1>1, <1>2, <3>2, <4>1 DEF Accounted
            <4>2. CASE job.op = "halt"
                BY <1>1, <1>2, <2>1, <3>2, <4>2 DEF ManagerInv, HaltDone, Accounted
            <4> QED BY <1>1, <4>1, <4>2
        <3> QED BY <3>1, <3>3 DEF JobOK, HaltDone, NoJob
    <2>2. CASE job.wait # {s}
        <3>1. /\ job'.op = job.op /\ job'.wait = job.wait \ {s}
              /\ job' = [op |-> job'.op, wait |-> job'.wait] /\ job'.wait # {}
            BY <1>1, <1>3, <2>2
        <3>2. job'.wait \subseteq held'
            BY <1>1, <1>3, <2>2, <3>1
        <3>3. Accounted' BY <1>1, <1>2, <2>2 DEF ManagerInv, Accounted
        <3>4. HaltDone' BY <1>1, <1>2, <1>4, <3>1 DEF ManagerInv, HaltDone
        <3> QED BY <1>1, <3>1, <3>2, <3>3, <3>4 DEF JobOK
    <2> QED BY <2>1, <2>2
<1> QED BY <1>5, <1>6 DEF ManagerInv

LEMMA ManagerInvNext ==
    ASSUME ManagerInv, [ManagerNext]_managerVars
    PROVE  ManagerInv'
<1>1. ASSUME NEW n \in Names, Create(n) PROVE ManagerInv' BY <1>1, CreateOK
<1>2. ASSUME NEW s \in Sessions, Started(s) PROVE ManagerInv' BY <1>2, StartedOK
<1>3. ASSUME NEW s \in Sessions, NotStarted(s) PROVE ManagerInv' BY <1>3, NotStartedOK
<1>4. ASSUME NEW s \in Sessions, Remove(s) PROVE ManagerInv'
    <2> USE <1>4 DEF Remove, NoJob
    <2>1. ManagerTypes' /\ HeldOK' BY DEF ManagerInv, ManagerTypes, HeldOK
    <2>2. JobOK' BY DEF JobOK
    <2>3. Accounted' /\ HaltDone' BY DEF ManagerInv, Accounted, HaltDone
    <2> QED BY <2>1, <2>2, <2>3 DEF ManagerInv
<1>5. CASE HaltAll
    <2> USE <1>5 DEF HaltAll, NoJob
    <2>1. ManagerTypes' /\ HeldOK' BY DEF ManagerInv, ManagerTypes, HeldOK
    <2>2. JobOK' BY DEF JobOK
    <2>3. Accounted' /\ HaltDone' BY DEF ManagerInv, Accounted, HaltDone
    <2> QED BY <2>1, <2>2, <2>3 DEF ManagerInv
<1>6. ASSUME NEW s \in Sessions, NEW raised \in BOOLEAN, Stopped(s, raised) PROVE ManagerInv'
    BY <1>6, StoppedOK
<1>7. ASSUME NEW s \in Sessions, NEW raised \in BOOLEAN, UserStops(s, raised) PROVE ManagerInv'
    <2>1. UNCHANGED <<name, held, job, created>> /\ StopOutcome(s, raised) BY <1>7 DEF UserStops
    <2>2. /\ runs' = runs \ {s} /\ linked' \subseteq linked /\ stuck \subseteq stuck'
          /\ linked \ {s} \subseteq linked'
          /\ s \in linked' => raised /\ s \in stuck'
        BY <2>1, StopFacts
    <2>3. ManagerTypes' /\ JobOK' BY <2>1, <2>2 DEF ManagerInv, ManagerTypes, JobOK
    <2>4. Accounted' BY <2>1, <2>2 DEF ManagerInv, Accounted
    <2>5. HaltDone' /\ HeldOK' BY <2>1, <2>2 DEF ManagerInv, HaltDone, HeldOK
    <2> QED BY <2>3, <2>4, <2>5 DEF ManagerInv
<1>8. CASE UNCHANGED managerVars
    BY <1>8 DEF managerVars, ManagerInv, ManagerTypes, JobOK, Accounted, HaltDone, HeldOK
<1> QED BY <1>1, <1>2, <1>3, <1>4, <1>5, <1>6, <1>7, <1>8 DEF ManagerNext

\* Whatever starts, stops and disconnects raise, and whoever stops a session,
\* none runs or is connected that the manager does not hold (SessionManager).
THEOREM NoneOrphaned == ManagerSpec => []NoOrphan
<1>1. ManagerInv => NoOrphan
    <2> SUFFICES ASSUME ManagerInv, job = NoJob
                 PROVE  /\ \A s \in Sessions : s \in runs \cup linked => s \in held \cup stuck
                        /\ \A s \in held : s \in linked => s \in runs \cup stuck
                        /\ \A s, t \in held : name[s] = name[t] => s = t
        BY DEF NoOrphan
    <2>1. job.op # "create" BY DEF NoJob
    <2> QED BY <2>1 DEF ManagerInv, Accounted, HeldOK
<1> QED BY <1>1, ManagerInvInit, ManagerInvNext, PTL DEF ManagerSpec

-----------------------------------------------------------------------------
(* LiveOrchestrator: all systems run or none does, and a halt of the       *)
(* portfolio holds, for any number of systems, equities, limits and days.  *)

Engines == [state : {"off", "starting", "up"}, equity : Int, day : Int, last : Int,
            due : BOOLEAN, halted : BOOLEAN, stale : BOOLEAN, refused : BOOLEAN]

OrcTypes ==
    /\ engine \in [Ids -> Engines]
    /\ registered \in 0 .. Systems /\ step \in 0 .. Systems /\ forwarding \subseteq Ids
    /\ active \in BOOLEAN /\ connected \in BOOLEAN /\ portfolioHalted \in BOOLEAN
    /\ phase \in {"none", "start", "undo", "stop"}
    /\ today \in Nat /\ currentDay \in Int

Over(i) == engine[i].state = "off" \/ engine[i].refused

\* The systems before step are up, those after it have not begun.
Starting ==
    phase = "start" =>
        /\ ~ active /\ step \in Ids /\ registered = step - 1
        /\ forwarding = 1 .. (IF engine[step].state = "starting" THEN step ELSE step - 1)
        /\ engine[step].state \in {"off", "starting"}
        /\ \A i \in Ids : (i < step => engine[i].state = "up") /\ (i > step => engine[i].state = "off")

\* The systems after step are over.
Ending == phase \in {"undo", "stop"} => \A i \in Ids : i > step => Over(i)

Running == active => registered = Systems /\ phase \in {"none", "stop"}

\* The engine e is halted and has seen a bar of today: no bar lifts its halt today.
Held(e) == e.halted /\ e.day = today /\ e.last = today

\* On the day the portfolio is halted every engine is held, but for the stale.
HaltOK ==
    /\ LossPct = 0 => ~ portfolioHalted
    /\ currentDay <= today
    /\ (active /\ portfolioHalted /\ currentDay = today) =>
        \A i \in Ids : engine[i].stale \/ Held(engine[i])

OrcInv == OrcTypes /\ Starting /\ Ending /\ Running /\ AllOrNothing /\ HaltOK

-----------------------------------------------------------------------------
LEMMA OrcInvInit == OrcInit => OrcInv
<1> SUFFICES ASSUME OrcInit PROVE OrcInv OBVIOUS
<1> USE OrchestratorAssumption DEF OrcInit
<1>1. NoEngine \in Engines /\ NoEngine.state = "off" BY DEF NoEngine, NeverBar, Engines
<1>2. OrcTypes
    <2>1. engine \in [Ids -> Engines] BY <1>1
    <2>2. 0 \in 0 .. Systems /\ -1 \in Int OBVIOUS
    <2> QED BY <2>1, <2>2 DEF OrcTypes
<1>3. AllOrNothing BY <1>1 DEF AllOrNothing
<1> QED BY <1>2, <1>3 DEF OrcInv, Starting, Ending, Running, HaltOK

\* A field that is given a value of its type.
LEMMA EngineFacts ==
    ASSUME NEW e \in Engines
    PROVE  /\ \A v \in {"off", "starting", "up"} : [e EXCEPT !.state = v] \in Engines
           /\ \A v \in Int : [e EXCEPT !.equity = v] \in Engines
           /\ \A v \in Int : [e EXCEPT !.day = v] \in Engines
           /\ \A v \in Int : [e EXCEPT !.last = v] \in Engines
           /\ \A v \in BOOLEAN : [e EXCEPT !.due = v] \in Engines
           /\ \A v \in BOOLEAN : [e EXCEPT !.halted = v] \in Engines
           /\ \A v \in BOOLEAN : [e EXCEPT !.stale = v] \in Engines
           /\ \A v \in BOOLEAN : [e EXCEPT !.refused = v] \in Engines
<1>1. \A v \in {"off", "starting", "up"} : [e EXCEPT !.state = v] \in Engines BY DEF Engines
<1>2. \A v \in Int : [e EXCEPT !.equity = v] \in Engines BY DEF Engines
<1>3. \A v \in Int : [e EXCEPT !.day = v] \in Engines BY DEF Engines
<1>4. \A v \in BOOLEAN : [e EXCEPT !.halted = v] \in Engines BY DEF Engines
<1>5. \A v \in BOOLEAN : [e EXCEPT !.stale = v] \in Engines BY DEF Engines
<1>6. \A v \in BOOLEAN : [e EXCEPT !.refused = v] \in Engines BY DEF Engines
<1>7. \A v \in Int : [e EXCEPT !.last = v] \in Engines BY DEF Engines
<1>8. \A v \in BOOLEAN : [e EXCEPT !.due = v] \in Engines BY DEF Engines
<1> QED BY <1>1, <1>2, <1>3, <1>4, <1>5, <1>6, <1>7, <1>8

\* h is the engine e halted by the portfolio: held, or stale.
HaltOf(e, h) ==
    /\ h \in Engines /\ h.state = e.state /\ h.refused = e.refused
    /\ h.stale \/ Held(h)

LEMMA HaltFacts ==
    ASSUME NEW e \in Engines
    PROVE  HaltOf(e, [e EXCEPT !.halted = TRUE, !.stale = ~ (e.day = today /\ e.last = today)])
<1> DEFINE b == ~ (e.day = today /\ e.last = today)
           g == [e EXCEPT !.halted = TRUE]
           k == [g EXCEPT !.stale = b]
<1>1. b \in BOOLEAN /\ (b \/ (e.day = today /\ e.last = today)) OBVIOUS
<1> HIDE DEF b
<1>2. g \in Engines /\ k \in Engines
    <2>1. g \in Engines BY EngineFacts
    <2> HIDE DEF g
    <2> QED BY <1>1, <2>1, EngineFacts
<1>3. [e EXCEPT !.halted = TRUE, !.stale = b] = k BY DEF Engines
<1>4. /\ g.state = e.state /\ g.refused = e.refused /\ g.day = e.day /\ g.last = e.last
      /\ g.halted = TRUE
    BY DEF Engines
<1> HIDE DEF g
<1>5. /\ k.state = g.state /\ k.refused = g.refused /\ k.day = g.day /\ k.last = g.last
      /\ k.halted = g.halted /\ k.stale = b
    BY <1>2 DEF Engines
<1> HIDE DEF k
<1>6. HaltOf(e, k) BY <1>1, <1>2, <1>4, <1>5 DEF HaltOf, Held
<1> QED BY <1>3, <1>6 DEF b

\* What the check leaves of the engines eng, and what it makes of the registered.
SameEngines(eng, new) ==
    \A i \in Ids : new[i].state = eng[i].state /\ new[i].refused = eng[i].refused
HaltsAll(eng, new) == \A i \in Ids : i <= registered => HaltOf(eng[i], new[i])

LEMMA CheckFacts ==
    ASSUME NEW eng \in [Ids -> Engines], CheckPortfolioLimits(eng),
           registered \in Nat, today \in Int, currentDay \in Int, portfolioHalted \in BOOLEAN
    PROVE  /\ engine' \in [Ids -> Engines]
           /\ SameEngines(eng, engine')
           /\ portfolioHalted' \in BOOLEAN /\ currentDay' \in {currentDay, today}
           /\ LossPct = 0 => portfolioHalted' = portfolioHalted
           /\ \/ ~ portfolioHalted'
              \/ portfolioHalted /\ engine' = eng /\ currentDay' = currentDay
              \/ HaltsAll(eng, engine')
<1>1. CASE /\ LossPct > 0 /\ currentDay # today
           /\ engine' = eng
           /\ currentDay' = today /\ portfolioHalted' = FALSE
           /\ baseline' = Aggregate(eng, registered)
    <2>1. engine' = eng /\ portfolioHalted' = FALSE /\ currentDay' = today BY <1>1
    <2>2. LossPct # 0 BY <1>1, OrchestratorAssumption
    <2> QED BY <2>1, <2>2 DEF SameEngines
<1>2. CASE /\ LossPct = 0 \/ currentDay = today
           /\ LET hit == /\ LossPct > 0 /\ ~portfolioHalted
                         /\ 100 * Aggregate(eng, registered) <= baseline * (100 - LossPct)
              IN  /\ portfolioHalted' = (portfolioHalted \/ hit)
                  /\ engine' = [i \in Ids |->
                         IF hit /\ i <= registered
                         THEN [eng[i] EXCEPT !.halted = TRUE,
                                             !.stale = ~ (eng[i].day = today /\ eng[i].last = today)]
                         ELSE eng[i]]
           /\ UNCHANGED <<baseline, currentDay>>
    <2> DEFINE hit == /\ LossPct > 0 /\ ~portfolioHalted
                      /\ 100 * Aggregate(eng, registered) <= baseline * (100 - LossPct)
               h(i) == [eng[i] EXCEPT !.halted = TRUE,
                                      !.stale = ~ (eng[i].day = today /\ eng[i].last = today)]
    <2>1. /\ portfolioHalted' = (portfolioHalted \/ hit) /\ currentDay' = currentDay
          /\ engine' = [i \in Ids |-> IF hit /\ i <= registered THEN h(i) ELSE eng[i]]
        BY <1>2
    <2>2. \A i \in Ids : HaltOf(eng[i], h(i))
        <3> SUFFICES ASSUME NEW i \in Ids PROVE HaltOf(eng[i], h(i)) OBVIOUS
        <3>1. eng[i] \in Engines OBVIOUS
        <3> QED BY <3>1, HaltFacts
    <2>3. hit \in BOOLEAN /\ (hit => LossPct > 0 /\ ~ portfolioHalted) OBVIOUS
    <2> HIDE DEF hit, h
    <2>4. CASE hit
        <3>1. engine' = [i \in Ids |-> IF i <= registered THEN h(i) ELSE eng[i]] BY <2>1, <2>4
        <3>2. LossPct # 0 BY <2>3, <2>4, OrchestratorAssumption
        <3>3. /\ engine' \in [Ids -> Engines]
              /\ SameEngines(eng, engine') /\ HaltsAll(eng, engine')
            BY <2>2, <3>1 DEF HaltOf, SameEngines, HaltsAll
        <3>4. currentDay' = currentDay /\ portfolioHalted' \in BOOLEAN BY <2>1, <2>3
        <3> QED BY <3>2, <3>3, <3>4
    <2>5. CASE ~ hit
        <3>1. engine' = eng BY <2>1, <2>5
        <3>2. portfolioHalted' = portfolioHalted BY <2>1, <2>5
        <3>3. SameEngines(eng, engine') BY <3>1 DEF SameEngines
        <3> QED BY <2>1, <3>1, <3>2, <3>3
    <2> QED BY <2>4, <2>5
<1> QED BY <1>1, <1>2 DEF CheckPortfolioLimits

-----------------------------------------------------------------------------
(* The actions.                                                            *)

\* A step that changes one engine, by the field e, and no other.
LEMMA OneEngine ==
    ASSUME OrcInv, NEW i \in Ids, NEW e \in Engines, engine' = [engine EXCEPT ![i] = e]
    PROVE  /\ engine' \in [Ids -> Engines] /\ engine'[i] = e
           /\ \A j \in Ids \ {i} : engine'[j] = engine[j]
BY DEF OrcInv, OrcTypes

\* A step that gives the engine i another equity, day or halt, and touches
\* nothing else, keeps the invariant when it leaves a held engine held.
LEMMA EngineMoves ==
    ASSUME OrcInv, NEW i \in Ids, NEW e \in Engines, engine' = [engine EXCEPT ![i] = e],
           e.state = engine[i].state, e.refused = engine[i].refused,
           engine[i].stale => e.stale, Held(engine[i]) => e.stale \/ Held(e),
           UNCHANGED <<registered, forwarding, active, phase, step, connected, currentDay,
                       portfolioHalted, today, leftOpen>>
    PROVE  OrcInv'
<1>1. /\ engine' \in [Ids -> Engines] /\ engine'[i] = e
      /\ \A j \in Ids \ {i} : engine'[j] = engine[j]
    BY OneEngine
<1>2. \A j \in Ids : engine'[j].state = engine[j].state /\ engine'[j].refused = engine[j].refused
    BY <1>1
<1>3. OrcTypes' BY <1>1 DEF OrcInv, OrcTypes
<1>4. Starting' /\ Ending' /\ Running' /\ AllOrNothing'
    BY <1>2 DEF OrcInv, Starting, Ending, Running, AllOrNothing, Over
<1>5. HaltOK'
    <2>1. \A j \in Ids : engine[j].stale \/ Held(engine[j]) => engine'[j].stale \/ Held(engine'[j])
        BY <1>1
    <2>2. \A j \in Ids : Held(engine[j])' <=> Held(engine'[j]) BY DEF Held
    <2> QED BY <2>1, <2>2 DEF OrcInv, HaltOK
<1> QED BY <1>3, <1>4, <1>5 DEF OrcInv

\* A bar is not older than the last one: on a held engine it is of today.
LEMMA BarStep ==
    ASSUME OrcInv, NEW i \in Ids, NEW d \in 0 .. LastDay, NEW swing \in Swings,
           EngineBar(i, d, swing)
    PROVE  OrcInv'
<1> DEFINE e == [engine[i] EXCEPT !.equity = engine[i].equity + swing, !.day = d, !.last = d,
                                  !.due = TRUE, !.halted = engine[i].halted /\ engine[i].day = d]
<1>1. /\ engine \in [Ids -> Engines] /\ engine[i] \in Engines
      /\ today \in Int /\ d \in Int /\ engine[i].last <= d /\ d <= today
      /\ UNCHANGED <<registered, forwarding, active, phase, step, connected, currentDay,
                     portfolioHalted, today, leftOpen>>
    BY DEF EngineBar, OrcInv, OrcTypes
<1>2. engine[i].equity + swing \in Int /\ engine[i].last \in Int /\ engine[i].day \in Int
    BY <1>1, OrchestratorAssumption DEF Engines
<1>3. e \in Engines /\ e.state = engine[i].state /\ e.refused = engine[i].refused
      /\ e.stale = engine[i].stale /\ e.day = d /\ e.last = d
      /\ (engine[i].halted /\ engine[i].day = d => e.halted)
    BY <1>1, <1>2 DEF Engines
<1>4. engine' = [engine EXCEPT ![i] = e] BY <1>1 DEF EngineBar, Engines
<1> HIDE DEF e
<1>5. Held(engine[i]) => Held(e) BY <1>1, <1>2, <1>3 DEF Held
<1> QED BY <1>1, <1>3, <1>4, <1>5, EngineMoves

\* A fill of an earlier day lifts a halt, and the engine is stale then.
LEMMA ExitStep ==
    ASSUME OrcInv, NEW i \in Ids, NEW d \in 0 .. LastDay, NEW swing \in Swings,
           EngineExit(i, d, swing)
    PROVE  OrcInv'
<1> DEFINE e == [engine[i] EXCEPT !.equity = engine[i].equity + swing, !.day = d,
                                  !.halted = engine[i].halted /\ engine[i].day = d,
                                  !.stale = engine[i].stale \/ d < today]
<1>1. /\ engine \in [Ids -> Engines] /\ engine[i] \in Engines
      /\ today \in Int /\ d \in Int /\ d <= today
      /\ UNCHANGED <<registered, forwarding, active, phase, step, connected, currentDay,
                     portfolioHalted, today, leftOpen>>
    BY DEF EngineExit, OrcInv, OrcTypes
<1>2. engine[i].equity + swing \in Int /\ engine[i].day \in Int
    BY <1>1, OrchestratorAssumption DEF Engines
<1>3. e \in Engines /\ e.state = engine[i].state /\ e.refused = engine[i].refused
      /\ e.last = engine[i].last /\ e.day = d
      /\ (engine[i].stale => e.stale) /\ (d < today => e.stale)
      /\ (engine[i].halted /\ engine[i].day = d => e.halted)
    BY <1>1, <1>2 DEF Engines
<1>4. engine' = [engine EXCEPT ![i] = e] BY <1>1 DEF EngineExit, Engines
<1> HIDE DEF e
<1>5. Held(engine[i]) => e.stale \/ Held(e) BY <1>1, <1>2, <1>3 DEF Held
<1> QED BY <1>1, <1>3, <1>4, <1>5, EngineMoves

\* The report of a bar, which may halt the portfolio, leaves what runs as it is.
LEMMA ReportStep ==
    ASSUME OrcInv, NEW i \in Ids, EngineReports(i)
    PROVE  OrcInv'
<1> DEFINE e == [engine[i] EXCEPT !.due = FALSE]
           eng == [engine EXCEPT ![i] = e]
<1>1. /\ engine \in [Ids -> Engines] /\ engine[i] \in Engines
      /\ registered \in Nat /\ today \in Int /\ currentDay \in Int /\ portfolioHalted \in BOOLEAN
      /\ UNCHANGED <<registered, forwarding, active, phase, step, connected, today, leftOpen>>
    BY DEF EngineReports, OrcInv, OrcTypes
<1>2. /\ e \in Engines /\ e.state = engine[i].state /\ e.refused = engine[i].refused
      /\ e.stale = engine[i].stale /\ e.halted = engine[i].halted
      /\ e.day = engine[i].day /\ e.last = engine[i].last
    <2>1. e \in Engines BY <1>1, EngineFacts
    <2> QED BY <1>1, <2>1 DEF Engines
<1>3. eng = [engine EXCEPT ![i].due = FALSE] BY <1>1 DEF Engines
<1> HIDE DEF e
<1>4. CASE CheckPortfolioLimits(eng)
    <2>1. /\ eng \in [Ids -> Engines] /\ eng[i] = e
          /\ \A j \in Ids \ {i} : eng[j] = engine[j]
        BY <1>1, <1>2
    <2> HIDE DEF eng
    <2>2. /\ engine' \in [Ids -> Engines]
          /\ SameEngines(eng, engine')
          /\ portfolioHalted' \in BOOLEAN /\ currentDay' \in {currentDay, today}
          /\ LossPct = 0 => portfolioHalted' = portfolioHalted
          /\ \/ ~ portfolioHalted'
             \/ portfolioHalted /\ engine' = eng /\ currentDay' = currentDay
             \/ HaltsAll(eng, engine')
        BY <1>1, <1>4, <2>1, CheckFacts
    <2>3. \A j \in Ids : engine'[j].state = engine[j].state /\ engine'[j].refused = engine[j].refused
        BY <1>2, <2>1, <2>2 DEF SameEngines
    <2>4. OrcTypes' BY <1>1, <2>2 DEF OrcInv, OrcTypes
    <2>5. Starting' /\ Ending' /\ Running' /\ AllOrNothing'
        BY <1>1, <2>3 DEF OrcInv, Starting, Ending, Running, AllOrNothing, Over
    <2>6. HaltOK'
        <3>1. LossPct = 0 => ~ portfolioHalted' BY <2>2 DEF OrcInv, HaltOK
        <3>2. currentDay' <= today' BY <1>1, <2>2 DEF OrcInv, HaltOK
        <3>3. ASSUME active, portfolioHalted', currentDay' = today, NEW j \in Ids
              PROVE  engine'[j].stale \/ Held(engine'[j])
            <4>1. CASE portfolioHalted /\ engine' = eng /\ currentDay' = currentDay
                <5>1. engine[j].stale \/ Held(engine[j]) BY <3>3, <4>1 DEF OrcInv, HaltOK
                <5>2. CASE j = i BY <1>2, <2>1, <4>1, <5>1, <5>2 DEF Held
                <5>3. CASE j # i BY <2>1, <4>1, <5>1, <5>3
                <5> QED BY <5>2, <5>3
            <4>2. CASE HaltsAll(eng, engine')
                <5>1. j <= registered BY <3>3, OrchestratorAssumption DEF OrcInv, Running, Ids
                <5> QED BY <4>2, <5>1 DEF HaltsAll, HaltOf
            <4> QED BY <2>2, <3>3, <4>1, <4>2
        <3>4. \A j \in Ids : Held(engine[j])' <=> Held(engine'[j]) BY <1>1 DEF Held
        <3> QED BY <1>1, <3>1, <3>2, <3>3, <3>4 DEF HaltOK
    <2> QED BY <2>4, <2>5, <2>6 DEF OrcInv
<1>5. CASE engine' = eng /\ UNCHANGED <<baseline, currentDay, portfolioHalted>>
    <2>1. Held(engine[i]) => Held(e) BY <1>2 DEF Held
    <2> QED BY <1>1, <1>2, <1>5, <2>1, EngineMoves
<1>6. CheckPortfolioLimits(eng) \/ (engine' = eng /\ UNCHANGED <<baseline, currentDay, portfolioHalted>>)
    <2> HIDE DEF eng
    <2> QED BY <1>3 DEF EngineReports
<1> QED BY <1>4, <1>5, <1>6

LEMMA StartStep ==
    ASSUME OrcInv, OrcStart
    PROVE  OrcInv'
<1>1. /\ phase = "none" /\ ~ active /\ phase' = "start" /\ step' = 1
      /\ engine' = [i \in Ids |-> NoEngine]
      /\ UNCHANGED <<registered, forwarding, active, connected, currentDay, portfolioHalted, today>>
    BY DEF OrcStart, Kept
<1>2. NoEngine \in Engines /\ NoEngine.state = "off" BY DEF NoEngine, NeverBar, Engines
<1>3. 1 \in Ids /\ 1 \in 0 .. Systems BY OrchestratorAssumption DEF Ids
<1>4. OrcTypes'
    <2>1. engine' \in [Ids -> Engines] BY <1>1, <1>2
    <2> QED BY <1>1, <1>3, <2>1 DEF OrcInv, OrcTypes
<1>5. registered = 0 /\ forwarding = {} BY <1>1 DEF OrcInv, AllOrNothing
<1>6. Starting' BY <1>1, <1>2, <1>3, <1>5 DEF Starting, Ids
<1>7. Ending' /\ Running' /\ AllOrNothing' /\ HaltOK'
    BY <1>1 DEF OrcInv, Ending, Running, AllOrNothing, HaltOK
<1> QED BY <1>4, <1>6, <1>7 DEF OrcInv

LEMMA ConstructStep ==
    ASSUME OrcInv, Construct
    PROVE  OrcInv'
<1>1. /\ phase = "start" /\ engine[step].state = "off"
      /\ forwarding' = forwarding \cup {step}
      /\ UNCHANGED <<registered, active, connected, currentDay, portfolioHalted, today>>
    BY DEF Construct, Kept
<1>2. /\ ~ active /\ step \in Ids /\ registered = step - 1 /\ forwarding = 1 .. (step - 1)
      /\ \A i \in Ids : (i < step => engine[i].state = "up") /\ (i > step => engine[i].state = "off")
    BY <1>1 DEF OrcInv, Starting
<1>3. step \in Nat /\ step > 0 /\ forwarding' = 1 .. step /\ forwarding' \subseteq Ids
    BY <1>1, <1>2, OrchestratorAssumption DEF Ids
<1>4. CASE /\ \E last \in {NeverBar} \cup 0 .. today :
                   engine' = [engine EXCEPT ![step] =
                       [NoEngine EXCEPT !.state = "starting", !.equity = Share, !.last = last,
                                        !.day = IF last = NeverBar THEN today ELSE last]]
           /\ UNCHANGED <<phase, step>>
    <2>1. PICK last \in {NeverBar} \cup 0 .. today :
              engine' = [engine EXCEPT ![step] =
                  [NoEngine EXCEPT !.state = "starting", !.equity = Share, !.last = last,
                                   !.day = IF last = NeverBar THEN today ELSE last]]
        BY <1>4
    <2> DEFINE c == [NoEngine EXCEPT !.state = "starting", !.equity = Share, !.last = last,
                                     !.day = IF last = NeverBar THEN today ELSE last]
    <2>2. engine' = [engine EXCEPT ![step] = c] BY <2>1
    <2>3. last \in Int /\ (IF last = NeverBar THEN today ELSE last) \in Int /\ Share \in Int
        BY OrchestratorAssumption DEF OrcInv, OrcTypes, NeverBar
    <2>5. c \in Engines /\ c.state = "starting" BY <2>3 DEF NoEngine, Engines, NeverBar
    <2> HIDE DEF c
    <2>6. /\ engine' \in [Ids -> Engines] /\ engine'[step] = c
          /\ \A j \in Ids \ {step} : engine'[j] = engine[j]
        BY <1>2, <2>2, <2>5, OneEngine
    <2>7. OrcTypes' BY <1>1, <1>3, <1>4, <2>6 DEF OrcInv, OrcTypes
    <2>8. Starting' BY <1>1, <1>2, <1>3, <1>4, <2>5, <2>6 DEF Starting
    <2>9. Ending' /\ Running' /\ AllOrNothing' /\ HaltOK'
        BY <1>1, <1>2, <1>4 DEF OrcInv, Ending, Running, AllOrNothing, HaltOK
    <2> QED BY <2>7, <2>8, <2>9 DEF OrcInv
<1>5. CASE phase' = "undo" /\ step' = step - 1 /\ UNCHANGED engine
    <2>1. step - 1 \in 0 .. Systems BY <1>2, OrchestratorAssumption DEF Ids
    <2>2. OrcTypes' BY <1>1, <1>3, <1>5, <2>1 DEF OrcInv, OrcTypes
    <2>3. Ending'
        <3> SUFFICES ASSUME NEW i \in Ids, i > step - 1 PROVE engine[i].state = "off"
            BY <1>5 DEF Ending, Over
        <3>1. i = step \/ i > step BY <1>2 DEF Ids
        <3> QED BY <1>1, <1>2, <3>1
    <2>4. Starting' /\ Running' /\ AllOrNothing' /\ HaltOK'
        BY <1>1, <1>2, <1>5 DEF OrcInv, Starting, Running, AllOrNothing, HaltOK
    <2> QED BY <2>2, <2>3, <2>4 DEF OrcInv
<1> QED BY <1>4, <1>5 DEF Construct

\* The last engine that starts makes the orchestrator run, not halted.
LEMMA StartedStep ==
    ASSUME OrcInv, EngineStarted
    PROVE  OrcInv'
<1> DEFINE e == [engine[step] EXCEPT !.state = "up"]
<1>1. /\ phase = "start" /\ engine[step].state = "starting"
      /\ engine' = [engine EXCEPT ![step] = e]
      /\ registered' = step /\ connected' = TRUE /\ UNCHANGED <<forwarding, today>>
    BY DEF EngineStarted
<1>2. /\ ~ active /\ step \in Ids /\ forwarding = 1 .. step
      /\ \A i \in Ids : (i < step => engine[i].state = "up") /\ (i > step => engine[i].state = "off")
    BY <1>1 DEF OrcInv, Starting
<1>3. e \in Engines /\ e.state = "up"
    <2>1. engine[step] \in Engines BY <1>2 DEF OrcInv, OrcTypes
    <2>2. e \in Engines BY <2>1, EngineFacts
    <2> QED BY <2>1, <2>2 DEF Engines
<1> HIDE DEF e
<1>4. /\ engine' \in [Ids -> Engines] /\ engine'[step] = e
      /\ \A j \in Ids \ {step} : engine'[j] = engine[j]
    BY <1>1, <1>2, <1>3, OneEngine
<1>5. step \in Nat /\ step > 0 /\ step <= Systems /\ Systems \in Nat
    BY <1>2, OrchestratorAssumption DEF Ids
<1>6. CASE /\ step < Systems /\ step' = step + 1
           /\ UNCHANGED <<phase, active, currentDay, portfolioHalted>>
    <2>1. OrcTypes' BY <1>1, <1>4, <1>5, <1>6 DEF OrcInv, OrcTypes
    <2>2. Starting'
        <3>1. step + 1 \in Ids /\ engine'[step + 1] = engine[step + 1]
              /\ engine[step + 1].state = "off"
            BY <1>2, <1>4, <1>5, <1>6 DEF Ids
        <3>2. \A i \in Ids : (i < step + 1 => engine'[i].state = "up")
                             /\ (i > step + 1 => engine'[i].state = "off")
            BY <1>2, <1>3, <1>4, <1>5 DEF Ids
        <3> QED BY <1>1, <1>2, <1>5, <1>6, <3>1, <3>2 DEF Starting
    <2>3. Ending' /\ Running' /\ AllOrNothing' /\ HaltOK'
        BY <1>1, <1>2, <1>6 DEF OrcInv, Ending, Running, AllOrNothing, HaltOK
    <2> QED BY <2>1, <2>2, <2>3 DEF OrcInv
<1>7. CASE /\ ~ (step < Systems) /\ phase' = "none" /\ step' = 0 /\ active' = TRUE
           /\ currentDay' = today /\ portfolioHalted' = FALSE
    <2>1. step = Systems BY <1>5, <1>7
    <2>2. OrcTypes'
        <3>1. today' \in Nat /\ currentDay' \in Int /\ forwarding' \subseteq Ids
            BY <1>1, <1>7 DEF OrcInv, OrcTypes
        <3>2. registered' \in 0 .. Systems /\ step' \in 0 .. Systems BY <1>1, <1>5, <1>7
        <3> QED BY <1>1, <1>4, <1>7, <3>1, <3>2 DEF OrcTypes
    <2>3. \A i \in Ids : engine'[i].state = "up" BY <1>2, <1>3, <1>4, <1>5, <2>1 DEF Ids
    <2>4. AllOrNothing' BY <1>1, <1>2, <1>7, <2>1, <2>3 DEF AllOrNothing, Ids
    <2>5. Starting' /\ Ending' /\ Running' /\ HaltOK'
        BY <1>1, <1>7, <2>1 DEF Starting, Ending, Running, HaltOK, OrcInv, OrcTypes
    <2> QED BY <2>2, <2>4, <2>5 DEF OrcInv
<1> QED BY <1>6, <1>7 DEF EngineStarted

LEMMA StartFailsStep ==
    ASSUME OrcInv, EngineStartFails
    PROVE  OrcInv'
<1> DEFINE e == [engine[step] EXCEPT !.state = "off"]
<1>1. /\ phase = "start" /\ engine[step].state = "starting"
      /\ engine' = [engine EXCEPT ![step] = e]
      /\ phase' = "undo" /\ step' = step - 1 /\ connected' \in {connected, TRUE}
      /\ UNCHANGED <<registered, forwarding, active, currentDay, portfolioHalted, today>>
    BY DEF EngineStartFails, Kept
<1>2. /\ ~ active /\ step \in Ids
      /\ \A i \in Ids : i > step => engine[i].state = "off"
    BY <1>1 DEF OrcInv, Starting
<1>3. e \in Engines /\ e.state = "off"
    <2>1. engine[step] \in Engines BY <1>2 DEF OrcInv, OrcTypes
    <2>2. e \in Engines BY <2>1, EngineFacts
    <2> QED BY <2>1, <2>2 DEF Engines
<1> HIDE DEF e
<1>4. /\ engine' \in [Ids -> Engines] /\ engine'[step] = e
      /\ \A j \in Ids \ {step} : engine'[j] = engine[j]
    BY <1>1, <1>2, <1>3, OneEngine
<1>5. step - 1 \in 0 .. Systems BY <1>2, OrchestratorAssumption DEF Ids
<1>6. OrcTypes' BY <1>1, <1>4, <1>5 DEF OrcInv, OrcTypes
<1>7. Ending'
    <2> SUFFICES ASSUME NEW i \in Ids, i > step - 1 PROVE engine'[i].state = "off"
        BY <1>1 DEF Ending, Over
    <2>1. i = step \/ i > step BY <1>2 DEF Ids
    <2> QED BY <1>2, <1>3, <1>4, <2>1
<1>8. Starting' /\ Running' /\ AllOrNothing' /\ HaltOK'
    BY <1>1, <1>2 DEF OrcInv, Starting, Running, AllOrNothing, HaltOK
<1> QED BY <1>6, <1>7, <1>8 DEF OrcInv

LEMMA StopStep ==
    ASSUME OrcInv, OrcStop
    PROVE  OrcInv'
<1>1. /\ phase = "none" /\ (active \/ registered > 0) /\ phase' = "stop" /\ step' = registered
      /\ UNCHANGED <<engine, registered, forwarding, active, connected, currentDay,
                     portfolioHalted, today>>
    BY DEF OrcStop, Kept
<1>2. registered = Systems
    <2>1. registered # 0 => registered = Systems BY <1>1 DEF OrcInv, AllOrNothing
    <2> QED BY <1>1, <2>1 DEF OrcInv, Running
<1>3. OrcTypes' BY <1>1 DEF OrcInv, OrcTypes
<1>4. Ending' BY <1>1, <1>2, OrchestratorAssumption DEF Ending, Ids
<1>5. Starting' /\ Running' /\ AllOrNothing' /\ HaltOK'
    BY <1>1 DEF OrcInv, Starting, Running, AllOrNothing, HaltOK, Held
<1> QED BY <1>3, <1>4, <1>5 DEF OrcInv

LEMMA EngineStopsStep ==
    ASSUME OrcInv, EngineStops
    PROVE  OrcInv'
<1> DEFINE a == [engine[step] EXCEPT !.state = "off"]
           b == [engine[step] EXCEPT !.refused = TRUE]
<1>1. /\ phase \in {"undo", "stop"} /\ step > 0 /\ step' = step - 1
      /\ engine' = [engine EXCEPT ![step] = a] \/ engine' = [engine EXCEPT ![step] = b]
      /\ UNCHANGED <<registered, forwarding, active, phase, connected, currentDay,
                     portfolioHalted, today>>
    BY DEF EngineStops, Kept
<1>2. step \in Ids /\ step - 1 \in 0 .. Systems /\ engine[step] \in Engines
    BY <1>1, OrchestratorAssumption DEF OrcInv, OrcTypes, Ids
<1>3. /\ a \in Engines /\ a.state = "off"
      /\ a.halted = engine[step].halted /\ a.stale = engine[step].stale
      /\ a.day = engine[step].day /\ a.last = engine[step].last
    <2>1. a \in Engines BY <1>2, EngineFacts
    <2> QED BY <1>2, <2>1 DEF Engines
<1>4. /\ b \in Engines /\ b.refused
      /\ b.halted = engine[step].halted /\ b.stale = engine[step].stale
      /\ b.day = engine[step].day /\ b.last = engine[step].last
    <2>1. b \in Engines BY <1>2, EngineFacts
    <2> QED BY <1>2, <2>1 DEF Engines
<1> HIDE DEF a, b
<1>5. PICK e \in {a, b} : engine' = [engine EXCEPT ![step] = e] BY <1>1
<1>6. /\ e \in Engines /\ (e.state = "off" \/ e.refused)
      /\ e.halted = engine[step].halted /\ e.stale = engine[step].stale
      /\ e.day = engine[step].day /\ e.last = engine[step].last
    BY <1>3, <1>4, <1>5
<1>7. /\ engine' \in [Ids -> Engines] /\ engine'[step] = e
      /\ \A j \in Ids \ {step} : engine'[j] = engine[j]
    BY <1>2, <1>5, <1>6, OneEngine
<1>8. OrcTypes' BY <1>1, <1>2, <1>7 DEF OrcInv, OrcTypes
<1>9. Ending'
    <2> SUFFICES ASSUME NEW i \in Ids, i > step - 1 PROVE Over(i)' BY <1>1 DEF Ending
    <2>1. CASE i = step BY <1>6, <1>7, <2>1 DEF Over
    <2>2. CASE i # step
        <3>1. i > step BY <1>2, <2>2 DEF Ids
        <3>2. Over(i) BY <1>1, <3>1 DEF OrcInv, Ending
        <3> QED BY <1>7, <2>2, <3>2 DEF Over
    <2> QED BY <2>1, <2>2
<1>10. HaltOK'
    <2>1. \A i \in Ids :
              /\ engine'[i].halted = engine[i].halted /\ engine'[i].stale = engine[i].stale
              /\ engine'[i].day = engine[i].day /\ engine'[i].last = engine[i].last
        BY <1>6, <1>7
    <2> QED BY <1>1, <2>1 DEF OrcInv, HaltOK, Held
<1>11. Starting' /\ Running' /\ AllOrNothing'
    BY <1>1 DEF OrcInv, Starting, Running, AllOrNothing
<1> QED BY <1>8, <1>9, <1>10, <1>11 DEF OrcInv

LEMMA ClearedStep ==
    ASSUME OrcInv, Cleared
    PROVE  OrcInv'
<1>1. /\ phase \in {"undo", "stop"} /\ step = 0
      /\ connected' \in {FALSE, connected} /\ leftOpen' = connected'
      /\ registered' = 0 /\ forwarding' = {} /\ active' = FALSE /\ phase' = "none"
      /\ UNCHANGED <<engine, step, currentDay, portfolioHalted, today>>
    BY DEF Cleared, Kept
<1>2. \A i \in Ids : Over(i) BY <1>1 DEF OrcInv, Ending, Ids
<1>3. OrcTypes' BY <1>1, OrchestratorAssumption DEF OrcInv, OrcTypes
<1>4. AllOrNothing' BY <1>1, <1>2 DEF AllOrNothing, Over
<1>5. Starting' /\ Ending' /\ Running' /\ HaltOK'
    BY <1>1 DEF OrcInv, Starting, Ending, Running, HaltOK
<1> QED BY <1>3, <1>4, <1>5 DEF OrcInv

LEMMA OrcInvNext ==
    ASSUME OrcInv, [OrcNext]_orcVars
    PROVE  OrcInv'
<1>1. ASSUME NEW i \in Ids, NEW d \in 0 .. LastDay, NEW s \in Swings,
             EngineBar(i, d, s) \/ EngineExit(i, d, s)
      PROVE  OrcInv'
    BY <1>1, BarStep, ExitStep
<1>2. CASE Midnight
    <2>1. /\ today' = today + 1
          /\ UNCHANGED <<engine, registered, forwarding, active, phase, step, connected, currentDay,
                         portfolioHalted, leftOpen>>
        BY <1>2 DEF Midnight
    <2>2. OrcTypes' BY <2>1 DEF OrcInv, OrcTypes
    <2>3. Starting' /\ Ending' /\ Running' /\ AllOrNothing'
        BY <2>1 DEF OrcInv, Starting, Ending, Running, AllOrNothing, Over
    <2>4. HaltOK'
        <3>1. currentDay' < today' BY <2>1 DEF OrcInv, OrcTypes, HaltOK
        <3>2. currentDay' # today' /\ currentDay' <= today' BY <2>1, <3>1 DEF OrcInv, OrcTypes
        <3> QED BY <2>1, <3>2 DEF OrcInv, HaltOK
    <2> QED BY <2>2, <2>3, <2>4 DEF OrcInv
<1>3. CASE OrcStart BY <1>3, StartStep
<1>4. CASE Construct BY <1>4, ConstructStep
<1>5. CASE EngineStarted BY <1>5, StartedStep
<1>6. CASE EngineStartFails BY <1>6, StartFailsStep
<1>7. CASE OrcStop BY <1>7, StopStep
<1>8. CASE EngineStops BY <1>8, EngineStopsStep
<1>9. CASE Cleared BY <1>9, ClearedStep
<1>10. CASE UNCHANGED orcVars
    BY <1>10 DEF orcVars, OrcInv, OrcTypes, Starting, Ending, Running, AllOrNothing, HaltOK, Held, Over
<1>11. ASSUME NEW i \in Ids, EngineReports(i) PROVE OrcInv' BY <1>11, ReportStep
<1> QED BY <1>1, <1>2, <1>3, <1>4, <1>5, <1>6, <1>7, <1>8, <1>9, <1>10, <1>11 DEF OrcNext

LEMMA OrcInvariant == OrcSpec => []OrcInv
<1> QED BY OrcInvInit, OrcInvNext, PTL DEF OrcSpec

\* No failure of a start or stop leaves some systems running and others not
\* (LiveOrchestrator.start, stop).
THEOREM NoneOrAll == OrcSpec => []AllOrNothing
<1>1. OrcInv => AllOrNothing BY DEF OrcInv
<1> QED BY <1>1, OrcInvariant, PTL

\* A portfolio that hit its limit keeps all engines halted until midnight, but
\* for those that were not yet in the day when it did or reported an exit of an
\* earlier one (check_portfolio_limits).
THEOREM HaltHolds == OrcSpec => []PortfolioHaltHolds
<1>1. OrcInv => PortfolioHaltHolds BY DEF OrcInv, HaltOK, Held, PortfolioHaltHolds
<1> QED BY <1>1, OrcInvariant, PTL

-----------------------------------------------------------------------------
(* live/storage.py: the files of JsonFileStorage.                          *)

Numbers == 1 .. MaxWrites
Pieces == Numbers \X {1, 2}

Operations == {"none", "save", "append", "clear"}
CallRecords == [op : Operations, dir : Folders \cup {""}, id : Nat,
                phase : {"idle", "waiting", "writing"}, cancelled : BOOLEAN]
ThreadRecords == [op : Operations, dir : Folders \cup {""},
                  step : {"none", "begun", "half", "done", "failed"}]

StorageTypes ==
    /\ writes \in 0 .. MaxWrites
    /\ task \in [Writers -> CallRecords] /\ thread \in [Numbers -> ThreadRecords]
    /\ lines \in [Folders -> Seq(Pieces)]
    /\ DOMAIN stateFile = Folders /\ DOMAIN lockOf = Folders
    /\ DOMAIN returned = Folders /\ DOMAIN unsure = Folders

\* A call that waits has no thread yet; one that writes has the lock of its
\* directory, and its thread is the one of its number.
TaskOK(t) ==
    /\ task[t].phase # "idle" =>
          task[t].id \in 1 .. writes /\ task[t].dir \in Folders /\ task[t].op # "none"
    /\ task[t].phase = "waiting" => thread[task[t].id] = NoThread
    /\ task[t].phase = "writing" =>
          /\ lockOf[task[t].dir] = t
          /\ thread[task[t].id].op = task[t].op /\ thread[task[t].id].dir = task[t].dir
          /\ thread[task[t].id].step # "none"

TwoCalls(t, u) ==
    (t # u /\ task[t].phase # "idle" /\ task[u].phase # "idle") => task[t].id # task[u].id

ThreadOK(k) ==
    /\ k > writes => thread[k] = NoThread
    /\ thread[k].step # "none" => thread[k].dir \in Folders

\* A state that is there was put there by a thread that is done.
PutThere(d) ==
    stateFile[d] # 0 =>
        /\ stateFile[d] \in 1 .. writes /\ thread[stateFile[d]].step \in {"none", "done"}
        /\ \A t \in Writers : task[t].phase = "waiting" => task[t].id # stateFile[d]

StorageBase ==
    /\ StorageTypes
    /\ \A t \in Writers : TaskOK(t)
    /\ \A t, u \in Writers : TwoCalls(t, u)
    /\ \A k \in Numbers : ThreadOK(k)
    /\ \A d \in Folders : PutThere(d)

\* As Whole, and the thread between the two pieces is one of this log.
WholeIn(d, i) ==
    LET k == lines[d][i][1] IN
    IF lines[d][i][2] = 2 THEN i > 1 /\ lines[d][i - 1] = <<k, 1>>
    ELSE \/ k \in cut
         \/ i < Len(lines[d]) /\ lines[d][i + 1] = <<k, 2>>
         \/ i = Len(lines[d]) /\ thread[k].step = "half"
            /\ thread[k].op = "append" /\ thread[k].dir = d

Ends(s, p) == s # <<>> /\ s[Len(s)] = p

\* A thread at work has a task that waits for it; what it has written is there,
\* and what it may leave is expected.
WorkOK(k, d) ==
    /\ \E t \in Writers : task[t].phase = "writing" /\ task[t].id = k
    /\ (thread[k].op = "append" /\ thread[k].step = "half") => Ends(lines[d], <<k, 1>>)
    /\ thread[k].op = "save" => k \in unsure[d]
    /\ thread[k].op = "clear" => 0 \in unsure[d]

\* What a thread that is done has left is there until its call returns.
DoneOK(t, d) ==
    /\ task[t].op = "save" => stateFile[d] = task[t].id
    /\ task[t].op = "clear" => stateFile[d] = 0

DirOK(d) ==
    d \notin abandoned =>
        /\ \A i \in 1 .. Len(lines[d]) : WholeIn(d, i)
        /\ stateFile[d] \in {returned[d]} \cup unsure[d]
        /\ \A k \in Numbers : (thread[k].dir = d /\ AtWork(k)) => WorkOK(k, d)
        /\ \A t \in Writers :
              (task[t].phase = "writing" /\ task[t].dir = d /\ thread[task[t].id].step = "done")
                  => DoneOK(t, d)

StorageInv == StorageBase /\ \A d \in Folders : DirOK(d)

-----------------------------------------------------------------------------
(* Lemmas.                                                                 *)

LEMMA StorageInvInit == StorageInit => StorageInv
<1> SUFFICES ASSUME StorageInit PROVE StorageInv OBVIOUS
<1> USE StorageAssumption DEF StorageInit
<1>1. NoCall \in CallRecords /\ NoCall.phase = "idle" BY DEF NoCall, CallRecords, Operations
<1>2. NoThread \in ThreadRecords /\ NoThread.step = "none"
    BY DEF NoThread, ThreadRecords, Operations
<1>3. StorageTypes BY <1>1, <1>2 DEF StorageTypes, Numbers
<1>4. StorageBase BY <1>1, <1>2, <1>3 DEF StorageBase, TaskOK, TwoCalls, ThreadOK, PutThere, Numbers
<1>5. \A d \in Folders : DirOK(d) BY <1>1, <1>2 DEF DirOK, AtWork, Numbers
<1> QED BY <1>4, <1>5 DEF StorageInv

\* The end of a sequence that grew by one.
LEMMA AppendFacts ==
    ASSUME NEW S, NEW s \in Seq(S), NEW p \in S
    PROVE  /\ Append(s, p) \in Seq(S) /\ Len(s) \in Nat /\ Len(Append(s, p)) = Len(s) + 1
           /\ Append(s, p)[Len(s) + 1] = p /\ Append(s, p) # <<>>
           /\ \A i \in 1 .. Len(s) : Append(s, p)[i] = s[i]
OBVIOUS

\* Two threads that work in a directory that is not abandoned are one.
LEMMA OneThread ==
    ASSUME StorageInv, NEW j \in Numbers, NEW k \in Numbers, NEW d \in Folders, d \notin abandoned,
           AtWork(j), AtWork(k), thread[j].dir = d, thread[k].dir = d
    PROVE  j = k
<1>1. PICK t \in Writers : task[t].phase = "writing" /\ task[t].id = j
    BY DEF StorageInv, DirOK, WorkOK
<1>2. PICK u \in Writers : task[u].phase = "writing" /\ task[u].id = k
    BY DEF StorageInv, DirOK, WorkOK
<1>3. lockOf[d] = t /\ lockOf[d] = u BY <1>1, <1>2 DEF StorageInv, StorageBase, TaskOK
<1> QED BY <1>1, <1>2, <1>3

\* The task that has the lock of such a directory is the one of the thread.
LEMMA HolderOf ==
    ASSUME StorageInv, NEW k \in Numbers, NEW d \in Folders, d \notin abandoned,
           AtWork(k), thread[k].dir = d,
           NEW t \in Writers, task[t].phase = "writing", task[t].dir = d
    PROVE  task[t].id = k
<1>1. PICK u \in Writers : task[u].phase = "writing" /\ task[u].id = k
    BY DEF StorageInv, DirOK, WorkOK
<1>2. lockOf[d] = t /\ lockOf[d] = u BY <1>1 DEF StorageInv, StorageBase, TaskOK
<1> QED BY <1>1, <1>2

\* A directory where no file, thread, owner or expectation changes.
Untouched(d) ==
    /\ lines'[d] = lines[d] /\ stateFile'[d] = stateFile[d]
    /\ returned'[d] = returned[d] /\ unsure'[d] = unsure[d]
    /\ cut \subseteq cut' /\ abandoned \subseteq abandoned'
    /\ \A k \in Numbers : (thread[k].dir = d /\ thread[k].step # "none")
                          \/ (thread'[k].dir = d /\ thread'[k].step # "none") =>
              thread'[k] = thread[k]
    /\ \A t \in Writers : (task[t].dir = d /\ task[t].phase = "writing")
                          \/ (task'[t].dir = d /\ task'[t].phase = "writing") =>
              /\ task'[t].phase = task[t].phase /\ task'[t].id = task[t].id
              /\ task'[t].dir = task[t].dir /\ task'[t].op = task[t].op

LEMMA UntouchedOK ==
    ASSUME StorageInv, NEW d \in Folders, Untouched(d)
    PROVE  DirOK(d)'
<1> SUFFICES ASSUME d \notin abandoned' PROVE DirOK(d)' BY DEF DirOK
<1>1. /\ DirOK(d) /\ d \notin abandoned /\ lines[d] \in Seq(Pieces)
      /\ \A t \in Writers : TaskOK(t)
    BY DEF Untouched, StorageInv, StorageBase, StorageTypes
<1>2. \A i \in 1 .. Len(lines'[d]) : WholeIn(d, i)'
    <2> SUFFICES ASSUME NEW i \in 1 .. Len(lines[d]) PROVE WholeIn(d, i)'
        BY DEF Untouched
    <2> DEFINE k == lines[d][i][1]
    <2>1. WholeIn(d, i) BY <1>1 DEF DirOK
    <2>2. lines[d][i] \in Pieces BY <1>1
    <2>3. k \in Numbers BY <2>2 DEF Pieces
    <2>4. (thread[k].dir = d /\ thread[k].step = "half") => thread'[k] = thread[k] BY <2>3 DEF Untouched
    <2>5. lines'[d] = lines[d] /\ cut \subseteq cut' BY DEF Untouched
    <2> QED BY <2>1, <2>4, <2>5 DEF WholeIn
<1>3. (stateFile[d] \in {returned[d]} \cup unsure[d])' BY <1>1 DEF Untouched, DirOK
<1>4. ASSUME NEW k \in Numbers, thread'[k].dir = d, AtWork(k)' PROVE WorkOK(k, d)'
    <2>1. thread'[k] = thread[k] BY <1>4 DEF Untouched, AtWork
    <2>2. WorkOK(k, d) BY <1>1, <1>4, <2>1 DEF DirOK, AtWork
    <2>3. PICK t \in Writers : task[t].phase = "writing" /\ task[t].id = k BY <2>2 DEF WorkOK
    <2>4. task[t].dir = d BY <1>1, <1>4, <2>1, <2>3 DEF TaskOK
    <2>5. task'[t].phase = "writing" /\ task'[t].id = k BY <2>3, <2>4 DEF Untouched
    <2> QED BY <2>1, <2>2, <2>5 DEF WorkOK, Untouched
<1>5. ASSUME NEW t \in Writers, task'[t].phase = "writing", task'[t].dir = d,
             thread'[task'[t].id].step = "done"
      PROVE  DoneOK(t, d)'
    <2>1. task[t].phase = "writing" /\ task[t].id = task'[t].id /\ task[t].dir = d
          /\ task[t].op = task'[t].op
        BY <1>5 DEF Untouched
    <2>2. task[t].id \in Numbers /\ thread[task[t].id].dir = d /\ thread[task[t].id].step # "none"
        BY <1>1, <2>1, StorageAssumption DEF TaskOK, StorageInv, StorageBase, StorageTypes, Numbers
    <2>3. thread'[task[t].id] = thread[task[t].id] BY <2>2 DEF Untouched
    <2>4. DoneOK(t, d) BY <1>1, <1>5, <2>1, <2>3 DEF DirOK
    <2> QED BY <2>1, <2>4 DEF DoneOK, Untouched
<1> QED BY <1>2, <1>3, <1>4, <1>5 DEF DirOK

-----------------------------------------------------------------------------
(* The actions.                                                            *)

LEMMA CallStep ==
    ASSUME StorageInv, NEW t \in Writers, NEW op \in {"save", "append", "clear"},
           NEW ns \in DOMAIN Clean, Call(t, op, ns)
    PROVE  StorageInv'
<1> DEFINE c == [op |-> op, dir |-> Clean[ns], id |-> writes', phase |-> "waiting",
                 cancelled |-> FALSE]
<1>1. /\ task' = [task EXCEPT ![t] = c] /\ writes < MaxWrites /\ writes' = writes + 1
      /\ task[t].phase = "idle"
      /\ UNCHANGED <<thread, lines, stateFile, lockOf, returned, unsure, cut, abandoned>>
    BY DEF Call
<1>2. /\ StorageTypes /\ writes \in Nat /\ writes' \in Numbers
      /\ \A u \in Writers : TaskOK(u) /\ \A v \in Writers : TwoCalls(u, v)
      /\ \A k \in Numbers : ThreadOK(k)
      /\ \A d \in Folders : PutThere(d)
    BY <1>1, StorageAssumption DEF StorageInv, StorageBase, StorageTypes, Numbers
<1>3. c \in CallRecords /\ c.phase = "waiting" /\ c.dir \in Folders /\ c.id = writes' /\ c.op # "none"
    <2>1. Clean[ns] \in Folders BY StorageAssumption
    <2>2. writes' \in Nat BY <1>2, StorageAssumption DEF Numbers
    <2>3. op \in Operations /\ op # "none" BY DEF Operations
    <2> QED BY <2>1, <2>2, <2>3 DEF CallRecords
<1> HIDE DEF c
<1>4. task'[t] = c /\ \A u \in Writers \ {t} : task'[u] = task[u]
    BY <1>1, <1>2 DEF StorageTypes
<1>5. StorageTypes' BY <1>1, <1>2, <1>3 DEF StorageTypes, Numbers
<1>6. ASSUME NEW u \in Writers PROVE TaskOK(u)'
    <2>1. CASE u = t
        <3>1. thread[writes'] = NoThread BY <1>1, <1>2 DEF ThreadOK
        <3> QED BY <1>1, <1>2, <1>3, <1>4, <2>1, <3>1 DEF TaskOK, Numbers
    <2>2. CASE u # t
        <3>1. task'[u] = task[u] /\ TaskOK(u) BY <1>2, <1>4, <2>2
        <3> QED BY <1>1, <1>2, <3>1 DEF TaskOK
    <2> QED BY <2>1, <2>2
<1>7. ASSUME NEW u \in Writers, NEW v \in Writers PROVE TwoCalls(u, v)'
    <2>1. \A w \in Writers \ {t} : task[w].phase # "idle" => task[w].id # writes'
        BY <1>1, <1>2 DEF TaskOK
    <2>2. TwoCalls(u, v) BY <1>2
    <2> QED BY <1>3, <1>4, <2>1, <2>2 DEF TwoCalls
<1>8. \A k \in Numbers : ThreadOK(k)' BY <1>1, <1>2 DEF ThreadOK, Numbers
<1>9. \A d \in Folders : PutThere(d)'
    <2> SUFFICES ASSUME NEW d \in Folders, stateFile[d] # 0 PROVE PutThere(d)'
        BY <1>1 DEF PutThere
    <2>1. PutThere(d) /\ stateFile[d] \in 1 .. writes /\ stateFile[d] # writes' BY <1>1, <1>2 DEF PutThere
    <2> QED BY <1>1, <1>2, <1>3, <1>4, <2>1 DEF PutThere
<1>10. \A d \in Folders : DirOK(d)'
    <2>1. \A d \in Folders : Untouched(d) BY <1>1, <1>3, <1>4 DEF Untouched
    <2> QED BY <2>1, UntouchedOK
<1> QED BY <1>5, <1>6, <1>7, <1>8, <1>9, <1>10 DEF StorageInv, StorageBase

LEMMA AcquireStep ==
    ASSUME StorageInv, NEW t \in Writers, Acquire(t)
    PROVE  StorageInv'
<1>1. PICK d, n : d = task[t].dir /\ n = task[t].id OBVIOUS
<1> DEFINE c == [task[t] EXCEPT !.phase = "writing"]
           h == [op |-> task[t].op, dir |-> d, step |-> "begun"]
<1>2. /\ task[t].phase = "waiting" /\ lockOf[d] = NoTask
      /\ lockOf' = [lockOf EXCEPT ![d] = t]
      /\ task' = [task EXCEPT ![t] = c] /\ thread' = [thread EXCEPT ![n] = h]
      /\ unsure' = [unsure EXCEPT ![d] = @ \cup Leaves(task[t])]
      /\ UNCHANGED <<lines, stateFile, writes, returned, cut, abandoned>>
    BY <1>1 DEF Acquire
<1>3. /\ StorageTypes /\ task[t] \in CallRecords
      /\ \A u \in Writers : TaskOK(u) /\ \A v \in Writers : TwoCalls(u, v)
      /\ \A k \in Numbers : ThreadOK(k)
      /\ \A e \in Folders : PutThere(e) /\ DirOK(e)
    BY DEF StorageInv, StorageBase, StorageTypes
<1>4. d \in Folders /\ n \in 1 .. writes /\ n \in Numbers /\ task[t].op # "none" /\ thread[n] = NoThread
    BY <1>1, <1>2, <1>3, StorageAssumption DEF TaskOK, StorageTypes, Numbers
<1>5. /\ c \in CallRecords /\ c.phase = "writing" /\ c.dir = d /\ c.op = task[t].op /\ c.id = n
      /\ h \in ThreadRecords /\ h.op = task[t].op /\ h.dir = d /\ h.step = "begun"
      /\ NoThread.step = "none"
    BY <1>1, <1>3, <1>4 DEF CallRecords, ThreadRecords, NoThread
<1> HIDE DEF c, h
<1>6. /\ task'[t] = c /\ thread'[n] = h /\ lockOf'[d] = t
      /\ \A u \in Writers \ {t} : task'[u] = task[u]
      /\ \A k \in Numbers \ {n} : thread'[k] = thread[k]
      /\ \A e \in Folders \ {d} : lockOf'[e] = lockOf[e] /\ unsure'[e] = unsure[e]
      /\ unsure'[d] = unsure[d] \cup Leaves(task[t])
    BY <1>2, <1>3, <1>4 DEF StorageTypes
<1>7. StorageTypes' BY <1>2, <1>3, <1>4, <1>5 DEF StorageTypes
<1>8. ASSUME NEW u \in Writers PROVE TaskOK(u)'
    <2>1. CASE u = t BY <1>2, <1>4, <1>5, <1>6, <2>1 DEF TaskOK
    <2>2. CASE u # t
        <3>1. task'[u] = task[u] /\ TaskOK(u) /\ TwoCalls(u, t) BY <1>3, <1>6, <2>2
        <3>2. task[u].phase # "idle" => task[u].id \in Numbers \ {n}
            BY <1>1, <1>2, <1>3, <2>2, <3>1, StorageAssumption DEF TwoCalls, TaskOK, StorageTypes, Numbers
        <3>3. task[u].phase = "writing" => task[u].dir \in Folders \ {d}
            BY <1>2, <3>1, StorageAssumption DEF TaskOK, NoTask
        <3> QED BY <1>2, <1>6, <3>1, <3>2, <3>3 DEF TaskOK
    <2> QED BY <2>1, <2>2
<1>9. ASSUME NEW u \in Writers, NEW v \in Writers PROVE TwoCalls(u, v)'
    <2>1. TwoCalls(u, v) BY <1>3
    <2> QED BY <1>1, <1>2, <1>5, <1>6, <2>1 DEF TwoCalls
<1>10. ASSUME NEW k \in Numbers PROVE ThreadOK(k)'
    <2>1. ThreadOK(k) BY <1>3
    <2>2. writes \in Int BY <1>3 DEF StorageTypes
    <2> QED BY <1>2, <1>4, <1>5, <1>6, <2>1, <2>2 DEF ThreadOK
<1>11. ASSUME NEW e \in Folders PROVE PutThere(e)'
    <2> SUFFICES ASSUME stateFile[e] # 0 PROVE PutThere(e)' BY <1>2 DEF PutThere
    <2>1. PutThere(e) /\ stateFile[e] \in 1 .. writes BY <1>3 DEF PutThere
    <2>2. stateFile[e] \in Numbers \ {n} BY <1>1, <1>2, <1>3, <2>1, StorageAssumption DEF PutThere, StorageTypes, Numbers
    <2> QED BY <1>2, <1>5, <1>6, <2>1, <2>2 DEF PutThere
<1>12. ASSUME NEW e \in Folders PROVE DirOK(e)'
    <2>1. CASE e # d
        <3>1. Untouched(e) BY <1>1, <1>2, <1>4, <1>5, <1>6, <2>1 DEF Untouched
        <3> QED BY <3>1, UntouchedOK
    <2>2. CASE e = d
        <3> SUFFICES ASSUME d \notin abandoned PROVE DirOK(d)' BY <1>2, <2>2 DEF DirOK
        <3>1. DirOK(d) BY <1>3, <1>4
        <3>2. \A i \in 1 .. Len(lines[d]) : WholeIn(d, i)'
            <4> SUFFICES ASSUME NEW i \in 1 .. Len(lines[d]) PROVE WholeIn(d, i)' OBVIOUS
            <4>1. WholeIn(d, i) BY <3>1 DEF DirOK
            <4>2. lines[d][i] \in Pieces BY <1>3, <1>4 DEF StorageTypes
            <4>3. lines[d][i][1] \in Numbers BY <4>2 DEF Pieces
            <4>4. thread[lines[d][i][1]].step = "half" => thread'[lines[d][i][1]] = thread[lines[d][i][1]]
                BY <1>4, <1>5, <1>6, <4>3
            <4> QED BY <1>2, <4>1, <4>4 DEF WholeIn
        <3>3. stateFile[d] \in {returned[d]} \cup unsure'[d] BY <1>6, <3>1 DEF DirOK
        <3>4. ASSUME NEW k \in Numbers, thread'[k].dir = d, AtWork(k)' PROVE WorkOK(k, d)'
            <4>1. CASE k = n
                <5>1. thread'[k].op = "save" => k \in unsure'[d] BY <1>1, <1>5, <1>6, <4>1 DEF Leaves
                <5>2. thread'[k].op = "clear" => 0 \in unsure'[d] BY <1>1, <1>5, <1>6, <4>1 DEF Leaves
                <5> QED BY <1>5, <1>6, <4>1, <5>1, <5>2 DEF WorkOK
            <4>2. CASE k # n
                <5>1. thread'[k] = thread[k] BY <1>6, <4>2
                <5>2. WorkOK(k, d) BY <3>1, <3>4, <5>1 DEF DirOK, AtWork
                <5>3. PICK u \in Writers : task[u].phase = "writing" /\ task[u].id = k
                    BY <5>2 DEF WorkOK
                <5>4. task'[u] = task[u] BY <1>2, <1>6, <5>3
                <5> QED BY <1>2, <1>6, <5>1, <5>2, <5>3, <5>4 DEF WorkOK
            <4> QED BY <4>1, <4>2
        <3>5. ASSUME NEW u \in Writers, task'[u].phase = "writing", task'[u].dir = d,
                     thread'[task'[u].id].step = "done"
              PROVE  DoneOK(u, d)'
            <4>1. u # t BY <1>5, <1>6, <3>5
            <4>2. task'[u] = task[u] /\ TaskOK(u) BY <1>3, <1>6, <4>1
            <4>3. FALSE BY <1>2, <3>5, <4>2, StorageAssumption DEF TaskOK, NoTask
            <4> QED BY <4>3
        <3> QED BY <1>2, <3>2, <3>3, <3>4, <3>5 DEF DirOK
    <2> QED BY <2>1, <2>2
<1> QED BY <1>7, <1>8, <1>9, <1>10, <1>11, <1>12 DEF StorageInv, StorageBase

\* The threads of d move, only there the files change, and nobody else does
\* anything.
ThreadMoves(n, d) ==
    /\ AtWork(n) /\ thread[n].dir = d
    /\ thread' \in [Numbers -> ThreadRecords] /\ lines' \in [Folders -> Seq(Pieces)]
    /\ DOMAIN stateFile' = Folders
    /\ \A k \in Numbers :
          /\ thread'[k].op = thread[k].op /\ thread'[k].dir = thread[k].dir
          /\ \/ thread'[k] = thread[k]
             \/ thread[k].dir = d /\ AtWork(k) /\ thread'[k].step \in {"half", "done", "failed"}
    /\ \A e \in Folders \ {d} : lines'[e] = lines[e] /\ stateFile'[e] = stateFile[e]
    /\ stateFile'[d] \in {stateFile[d], 0} \/ (stateFile'[d] = n /\ thread'[n].step = "done")
    /\ cut \subseteq cut'
    /\ UNCHANGED <<task, lockOf, writes, returned, unsure, abandoned>>

\* What it leaves there is in order.
LeavesOrder(n, d) ==
    /\ \A i \in 1 .. Len(lines'[d]) : WholeIn(d, i)'
    /\ stateFile'[d] \in {returned[d]} \cup unsure[d]
    /\ (thread[n].op = "append" /\ thread'[n].step = "half") => Ends(lines'[d], <<n, 1>>)
    /\ thread'[n].step = "done" =>
          /\ thread[n].op = "save" => stateFile'[d] = n
          /\ thread[n].op = "clear" => stateFile'[d] = 0

LEMMA ThreadStep ==
    ASSUME StorageInv, NEW n \in Numbers, NEW d \in Folders, ThreadMoves(n, d),
           d \notin abandoned => LeavesOrder(n, d)
    PROVE  StorageInv'
<1>1. /\ StorageTypes /\ NoThread.step = "none"
      /\ \A u \in Writers : TaskOK(u) /\ \A v \in Writers : TwoCalls(u, v)
      /\ \A k \in Numbers : ThreadOK(k)
      /\ \A e \in Folders : PutThere(e) /\ DirOK(e)
    BY DEF StorageInv, StorageBase, NoThread
<1>2. /\ AtWork(n) /\ thread[n].dir = d /\ cut \subseteq cut'
      /\ UNCHANGED <<task, lockOf, writes, returned, unsure, abandoned>>
    BY DEF ThreadMoves
<1>3. \A k \in Numbers : /\ thread'[k].op = thread[k].op /\ thread'[k].dir = thread[k].dir
                         /\ \/ thread'[k] = thread[k]
                            \/ /\ thread[k].dir = d /\ AtWork(k)
                               /\ thread'[k].step \in {"half", "done", "failed"}
    BY DEF ThreadMoves
<1>4. StorageTypes' BY <1>1, <1>2 DEF StorageTypes, ThreadMoves
<1>5. ASSUME NEW u \in Writers PROVE TaskOK(u)'
    <2>1. TaskOK(u) BY <1>1
    <2>2. task[u].phase # "idle" => task[u].id \in Numbers
        BY <1>1, <2>1, StorageAssumption DEF TaskOK, StorageTypes, Numbers
    <2> QED BY <1>1, <1>2, <1>3, <2>1, <2>2 DEF TaskOK, AtWork
<1>6. \A u, v \in Writers : TwoCalls(u, v)' BY <1>1, <1>2 DEF TwoCalls
<1>7. ASSUME NEW k \in Numbers PROVE ThreadOK(k)'
    <2>1. ThreadOK(k) BY <1>1
    <2> QED BY <1>1, <1>2, <1>3, <2>1 DEF ThreadOK, AtWork
<1>8. ASSUME NEW e \in Folders PROVE PutThere(e)'
    <2>1. CASE stateFile'[e] = stateFile[e] /\ stateFile[e] # 0
        <3>1. PutThere(e) /\ stateFile[e] \in Numbers
            BY <1>1, <2>1, StorageAssumption DEF PutThere, StorageTypes, Numbers
        <3>2. thread'[stateFile[e]] = thread[stateFile[e]] BY <1>3, <2>1, <3>1 DEF PutThere, AtWork
        <3> QED BY <1>2, <2>1, <3>1, <3>2 DEF PutThere
    <2>2. CASE stateFile'[e] = 0 BY <2>2 DEF PutThere
    <2>3. CASE e = d /\ stateFile'[d] = n /\ thread'[n].step = "done"
        <3>1. writes \in 0 .. MaxWrites BY <1>1 DEF StorageTypes
        <3>2. ~(n > writes) BY <1>1, <1>2 DEF ThreadOK, AtWork
        <3>3. n \in 1 .. writes BY <3>1, <3>2, StorageAssumption DEF Numbers
        <3>4. \A t \in Writers : task[t].phase = "waiting" => task[t].id # n
            BY <1>1, <1>2 DEF TaskOK, AtWork
        <3> QED BY <1>2, <2>3, <3>3, <3>4 DEF PutThere
    <2> QED BY <2>1, <2>2, <2>3 DEF ThreadMoves
<1>9. ASSUME NEW e \in Folders PROVE DirOK(e)'
    <2>1. CASE e # d
        <3>1. Untouched(e) BY <1>2, <1>3, <2>1 DEF Untouched, ThreadMoves
        <3> QED BY <3>1, UntouchedOK
    <2>2. CASE e = d
        <3> SUFFICES ASSUME d \notin abandoned PROVE DirOK(d)' BY <1>2, <2>2 DEF DirOK
        <3>1. WorkOK(n, d) /\ LeavesOrder(n, d) BY <1>1, <1>2 DEF DirOK
        <3>2. ASSUME NEW k \in Numbers, thread'[k].dir = d, AtWork(k)' PROVE WorkOK(k, d)'
            <4>1. k = n BY <1>2, <1>3, <3>2, OneThread DEF AtWork
            <4> QED BY <1>2, <1>3, <3>1, <4>1 DEF WorkOK, LeavesOrder
        <3>3. ASSUME NEW u \in Writers, task'[u].phase = "writing", task'[u].dir = d,
                     thread'[task'[u].id].step = "done"
              PROVE  DoneOK(u, d)'
            <4>1. task[u].id = n BY <1>2, <3>3, HolderOf
            <4>2. task[u].op = thread[n].op BY <1>1, <1>2, <3>3, <4>1 DEF TaskOK
            <4> QED BY <1>2, <3>1, <3>3, <4>1, <4>2 DEF DoneOK, LeavesOrder
        <3> QED BY <1>2, <3>1, <3>2, <3>3 DEF DirOK, LeavesOrder
    <2> QED BY <2>1, <2>2
<1> QED BY <1>4, <1>5, <1>6, <1>7, <1>8, <1>9 DEF StorageInv, StorageBase

\* The lines of a directory whose log nobody writes to.
LEMMA LinesStay ==
    ASSUME StorageInv, NEW d \in Folders, d \notin abandoned,
           lines'[d] = lines[d], cut \subseteq cut',
           \A k \in Numbers : (thread[k].op = "append" /\ thread[k].step = "half") =>
                                 k \in cut' \/ thread'[k] = thread[k]
    PROVE  \A i \in 1 .. Len(lines'[d]) : WholeIn(d, i)'
<1> SUFFICES ASSUME NEW i \in 1 .. Len(lines[d]) PROVE WholeIn(d, i)' OBVIOUS
<1>1. WholeIn(d, i) BY DEF StorageInv, DirOK
<1>2. lines[d][i] \in Pieces BY DEF StorageInv, StorageBase, StorageTypes
<1>3. lines[d][i][1] \in Numbers BY <1>2 DEF Pieces
<1> QED BY <1>1, <1>3 DEF WholeIn

\* The thread of an append writes a piece or the line.
LEMMA AppendStep ==
    ASSUME StorageInv, NEW n \in Numbers, AppendPiece(n)
    PROVE  StorageInv'
<1>1. PICK d : d = thread[n].dir OBVIOUS
<1>2. StorageTypes /\ d \in Folders
    BY <1>1 DEF StorageInv, StorageBase, ThreadOK, AppendPiece, AtWork
<1>3. PICK x, q : /\ thread' = [thread EXCEPT ![n].step = x]
                  /\ lines' = [lines EXCEPT ![d] = q]
                  /\ \/ /\ thread[n].step = "begun" /\ x = "done"
                        /\ q = lines[d] \o <<<<n, 1>>, <<n, 2>>>>
                     \/ thread[n].step = "begun" /\ x = "half" /\ q = Append(lines[d], <<n, 1>>)
                     \/ thread[n].step = "half" /\ x = "done" /\ q = Append(lines[d], <<n, 2>>)
    <2>1. CASE /\ thread[n].step = "begun"
               /\ lines' = [lines EXCEPT ![d] = @ \o <<<<n, 1>>, <<n, 2>>>>]
               /\ thread' = [thread EXCEPT ![n].step = "done"]
        BY <1>2, <2>1 DEF StorageTypes
    <2>2. CASE /\ thread[n].step = "begun"
               /\ lines' = [lines EXCEPT ![d] = Append(@, <<n, 1>>)]
               /\ thread' = [thread EXCEPT ![n].step = "half"]
        BY <1>2, <2>2 DEF StorageTypes
    <2>3. CASE /\ thread[n].step = "half"
               /\ lines' = [lines EXCEPT ![d] = Append(@, <<n, 2>>)]
               /\ thread' = [thread EXCEPT ![n].step = "done"]
        BY <1>2, <2>3 DEF StorageTypes
    <2> QED BY <1>1, <2>1, <2>2, <2>3 DEF AppendPiece
<1>4. /\ thread[n].op = "append" /\ AtWork(n) /\ d = thread[n].dir
       /\ UNCHANGED <<task, stateFile, lockOf, writes, returned, unsure, cut, abandoned>>
    BY <1>1 DEF AppendPiece
<1>5. /\ StorageTypes /\ d \in Folders /\ lines[d] \in Seq(Pieces)
      /\ \A u \in Writers : TaskOK(u) /\ \A v \in Writers : TwoCalls(u, v)
      /\ \A k \in Numbers : ThreadOK(k)
      /\ \A e \in Folders : PutThere(e) /\ DirOK(e)
    BY <1>3, <1>4, <1>2 DEF StorageInv, StorageBase, StorageTypes, ThreadOK, AtWork
<1>6. /\ thread'[n].op = "append" /\ thread'[n].dir = d /\ thread'[n].step = x
      /\ thread'[n] \in ThreadRecords /\ x \in {"half", "done"}
      /\ \A k \in Numbers \ {n} : thread'[k] = thread[k]
      /\ lines'[d] = q /\ \A e \in Folders \ {d} : lines'[e] = lines[e]
    BY <1>3, <1>4, <1>5 DEF StorageTypes, ThreadRecords
<1>7. <<n, 1>> \in Pieces /\ <<n, 2>> \in Pieces BY DEF Pieces
<1>8. /\ q \in Seq(Pieces) /\ Len(lines[d]) \in Nat /\ Len(q) \in Nat
      /\ \A i \in 1 .. Len(lines[d]) : q[i] = lines[d][i]
      /\ Len(q) > Len(lines[d])
    <2>1. CASE thread[n].step = "begun" /\ x = "done"
        <3>1. q = lines[d] \o <<<<n, 1>>, <<n, 2>>>> BY <1>3, <1>4, <2>1
        <3> QED BY <1>5, <1>7, <2>1, <3>1
    <2>2. CASE ~(thread[n].step = "begun" /\ x = "done")
        <3>1. PICK p \in Pieces : q = Append(lines[d], p) BY <1>3, <1>4, <1>7, <2>2
        <3> QED BY <1>5, <2>2, <3>1, AppendFacts
    <2> QED BY <2>1, <2>2
<1>9. PICK m \in Nat : m = Len(lines[d]) BY <1>8
<1>10. ThreadMoves(n, d)
    BY <1>3, <1>5, <1>6, <1>8, <1>4 DEF ThreadMoves, StorageTypes
<1>11. ASSUME d \notin abandoned PROVE LeavesOrder(n, d)
    <2> USE <1>11
    <2>1. DirOK(d) /\ WorkOK(n, d) BY <1>3, <1>4, <1>5, <1>11 DEF DirOK
    <2>9. /\ m = Len(lines[d]) /\ m \in Nat /\ Len(q) \in Nat
          /\ \A i \in 1 .. m : q[i] = lines[d][i]
          /\ Len(q) > m
        BY <1>8, <1>9
    <2>2. ASSUME NEW k \in Numbers \ {n} PROVE ~(thread[k].dir = d /\ AtWork(k))
        BY <1>3, <1>4, <1>5, <2>2, <1>11, OneThread
    <2>3. ASSUME NEW i \in 1 .. m, ~(i = m /\ thread[n].step = "half")
          PROVE  WholeIn(d, i)'
        <3>1. WholeIn(d, i) BY <2>1, <2>9 DEF DirOK
        <3>2. lines[d][i] \in Pieces BY <1>5, <2>9
        <3>3. lines[d][i][1] \in Numbers BY <3>2 DEF Pieces
        <3>4. ~(i = m /\ thread[lines[d][i][1]].step = "half"
                /\ thread[lines[d][i][1]].dir = d)
            BY <1>3, <1>4, <2>2, <2>3, <3>3 DEF AtWork
        <3>5. q[i] = lines[d][i] /\ (i > 1 => q[i - 1] = lines[d][i - 1])
              /\ (i < m => q[i + 1] = lines[d][i + 1] /\ i < Len(q))
            BY <2>9
        <3>6. PICK k : k = lines[d][i][1] OBVIOUS
        <3>7. CASE lines[d][i][2] = 2
            <4>1. i > 1 /\ lines[d][i - 1] = <<k, 1>> BY <3>1, <3>6, <3>7 DEF WholeIn
            <4> QED BY <1>6, <3>5, <3>6, <3>7, <4>1 DEF WholeIn
        <3>8. CASE lines[d][i][2] # 2
            <4>1. k \in cut \/ (i < m /\ lines[d][i + 1] = <<k, 2>>)
                BY <2>9, <3>1, <3>4, <3>6, <3>8 DEF WholeIn
            <4>2. k \in cut \/ (i < Len(q) /\ q[i + 1] = <<k, 2>>) BY <3>5, <4>1
            <4> QED BY <1>4, <1>6, <3>5, <3>6, <3>8, <4>2 DEF WholeIn
        <3> QED BY <3>7, <3>8
    <2>4. ASSUME NEW i \in 1 .. Len(q) PROVE WholeIn(d, i)'
        <3>1. CASE thread[n].step = "begun" /\ x = "done"
            <4>1. q = lines[d] \o <<<<n, 1>>, <<n, 2>>>> BY <1>3, <1>4, <3>1
            <4>2. /\ Len(q) = m + 2 /\ q[m + 1] = <<n, 1>>
                  /\ q[m + 2] = <<n, 2>>
                BY <1>5, <2>9, <3>1, <4>1
            <4>3. CASE i \in 1 .. m BY <2>3, <3>1, <4>3
            <4>4. CASE i = m + 1
                <5>1. i < Len(q) /\ q[i] = <<n, 1>> /\ q[i + 1] = <<n, 2>> BY <2>9, <4>2, <4>4
                <5> QED BY <1>6, <5>1 DEF WholeIn
            <4>5. CASE i = m + 2
                <5>1. i > 1 /\ q[i] = <<n, 2>> /\ q[i - 1] = <<n, 1>> BY <2>9, <4>2, <4>5
                <5> QED BY <1>6, <5>1 DEF WholeIn
            <4> QED BY <2>9, <4>2, <4>3, <4>4, <4>5
        <3>2. CASE thread[n].step = "begun" /\ x = "half"
            <4>1. q = Append(lines[d], <<n, 1>>) BY <1>3, <1>4, <3>2
            <4>2. Len(q) = m + 1 /\ q[m + 1] = <<n, 1>>
                BY <1>5, <1>7, <2>9, <4>1, AppendFacts
            <4>3. CASE i \in 1 .. m BY <2>3, <3>2, <4>3
            <4>4. CASE i = m + 1
                <5>1. i = Len(q) /\ q[i] = <<n, 1>> BY <2>9, <4>2, <4>4
                <5> QED BY <1>6, <3>2, <5>1 DEF WholeIn
            <4> QED BY <2>9, <4>2, <4>3, <4>4
        <3>3. CASE thread[n].step = "half" /\ x = "done"
            <4>1. q = Append(lines[d], <<n, 2>>) BY <1>3, <1>4, <3>3
            <4>2. Len(q) = m + 1 /\ q[m + 1] = <<n, 2>>
                BY <1>5, <1>7, <2>9, <4>1, AppendFacts
            <4>3. Ends(lines[d], <<n, 1>>) BY <1>3, <1>4, <2>1, <3>3 DEF WorkOK
            <4>4. m \in 1 .. m /\ lines[d][m] = <<n, 1>>
                BY <1>5, <2>9, <4>3 DEF Ends
            <4>5. CASE i \in 1 .. m /\ i # m BY <2>3, <4>5
            <4>6. CASE i = m
                <5>1. i < Len(q) /\ q[i] = <<n, 1>> /\ q[i + 1] = <<n, 2>>
                    BY <2>9, <4>2, <4>4, <4>6
                <5> QED BY <1>6, <5>1 DEF WholeIn
            <4>7. CASE i = m + 1
                <5>1. i > 1 /\ q[i] = <<n, 2>> /\ q[i - 1] = <<n, 1>> BY <2>9, <4>2, <4>4, <4>7
                <5> QED BY <1>6, <5>1 DEF WholeIn
            <4> QED BY <2>9, <4>2, <4>5, <4>6, <4>7
        <3> QED BY <1>3, <1>4, <3>1, <3>2, <3>3
    <2>5. stateFile[d] \in {returned[d]} \cup unsure[d] BY <2>1 DEF DirOK
    <2>6. ASSUME thread'[n].step = "half" PROVE Ends(lines'[d], <<n, 1>>)
        <3>1. q = Append(lines[d], <<n, 1>>) BY <1>3, <1>6, <2>6
        <3> QED BY <1>5, <1>6, <1>7, <3>1, AppendFacts DEF Ends
    <2> QED BY <1>6, <1>4, <2>4, <2>5, <2>6 DEF LeavesOrder
<1> QED BY <1>5, <1>10, <1>11, ThreadStep

\* The thread of a save writes the temporary file or moves it into place.
LEMMA WriteStep ==
    ASSUME StorageInv, NEW n \in Numbers, WriteState(n)
    PROVE  StorageInv'
<1>1. PICK d : d = thread[n].dir OBVIOUS
<1>2. /\ StorageTypes /\ d \in Folders /\ AtWork(n) /\ thread[n].op = "save"
      /\ UNCHANGED <<task, lines, lockOf, writes, returned, unsure, cut, abandoned>>
    BY <1>1 DEF StorageInv, StorageBase, ThreadOK, WriteState, AtWork
<1>3. PICK y \in {"half", "done"} :
         /\ thread' = [thread EXCEPT ![n].step = y]
         /\ stateFile' = IF y = "done" THEN [stateFile EXCEPT ![d] = n] ELSE stateFile
    <2>1. CASE thread' = [thread EXCEPT ![n].step = "half"] /\ stateFile' = stateFile BY <2>1
    <2>2. CASE /\ thread' = [thread EXCEPT ![n].step = "done"]
               /\ stateFile' = [stateFile EXCEPT ![d] = n]
        BY <2>2
    <2> QED BY <1>1, <2>1, <2>2 DEF WriteState
<1>4. /\ thread'[n].op = "save" /\ thread'[n].dir = d /\ thread'[n].step = y
      /\ thread'[n] \in ThreadRecords
      /\ \A k \in Numbers \ {n} : thread'[k] = thread[k]
      /\ DOMAIN stateFile' = Folders /\ \A e \in Folders \ {d} : stateFile'[e] = stateFile[e]
      /\ stateFile'[d] = IF y = "done" THEN n ELSE stateFile[d]
    BY <1>1, <1>2, <1>3 DEF StorageTypes, ThreadRecords
<1>5. ThreadMoves(n, d) BY <1>1, <1>2, <1>3, <1>4 DEF ThreadMoves, StorageTypes
<1>6. ASSUME d \notin abandoned PROVE LeavesOrder(n, d)
    <2>1. DirOK(d) /\ WorkOK(n, d) BY <1>1, <1>2, <1>6 DEF DirOK, StorageInv
    <2>2. \A i \in 1 .. Len(lines'[d]) : WholeIn(d, i)' BY <1>2, <1>4, <1>6, LinesStay
    <2>3. stateFile'[d] \in {returned[d]} \cup unsure[d] BY <1>2, <1>4, <1>6, <2>1 DEF DirOK, WorkOK
    <2> QED BY <1>2, <1>4, <2>2, <2>3 DEF LeavesOrder
<1> QED BY <1>2, <1>5, <1>6, ThreadStep

\* The thread of a clear removes a file, or is done.
LEMMA ClearStep ==
    ASSUME StorageInv, NEW n \in Numbers, ClearFiles(n)
    PROVE  StorageInv'
<1>1. PICK d : d = thread[n].dir OBVIOUS
<1>2. /\ StorageTypes /\ d \in Folders /\ AtWork(n) /\ thread[n].op = "clear"
      /\ thread[n] \in ThreadRecords
      /\ UNCHANGED <<task, lockOf, writes, returned, unsure, cut, abandoned>>
    BY <1>1 DEF StorageInv, StorageBase, StorageTypes, ThreadOK, ClearFiles, AtWork
<1>3. ASSUME d \notin abandoned PROVE DirOK(d) /\ WorkOK(n, d)
    BY <1>1, <1>2, <1>3 DEF DirOK, StorageInv
<1>4. CASE /\ lines' = [lines EXCEPT ![d] = <<>>] /\ stateFile' = stateFile
           /\ thread' = [j \in 1 .. MaxWrites |->
                 IF thread[j].op = "append" /\ thread[j].dir = d /\ thread[j].step = "half"
                 THEN [thread[j] EXCEPT !.step = "done"] ELSE thread[j]]
    <2>1. ASSUME NEW k \in Numbers
          PROVE  /\ thread'[k].op = thread[k].op /\ thread'[k].dir = thread[k].dir
                 /\ thread'[k] \in ThreadRecords
                 /\ \/ thread'[k] = thread[k]
                    \/ thread[k].dir = d /\ AtWork(k) /\ thread'[k].step = "done"
        <3>1. thread[k] \in ThreadRecords BY <1>2 DEF StorageTypes
        <3> QED BY <1>4, <3>1 DEF ThreadRecords, AtWork, Numbers
    <2>2. thread' \in [Numbers -> ThreadRecords] BY <1>4, <2>1 DEF Numbers
    <2>3. thread'[n] = thread[n] BY <1>2, <1>4 DEF Numbers
    <2>4. <<>> \in Seq(Pieces) /\ lines' \in [Folders -> Seq(Pieces)] /\ lines'[d] = <<>>
          /\ \A e \in Folders \ {d} : lines'[e] = lines[e]
        BY <1>2, <1>4 DEF StorageTypes
    <2>5. ThreadMoves(n, d) BY <1>1, <1>2, <1>4, <2>1, <2>2, <2>4 DEF ThreadMoves, StorageTypes
    <2>6. ASSUME d \notin abandoned PROVE LeavesOrder(n, d)
        <3>1. \A i \in 1 .. Len(lines'[d]) : WholeIn(d, i)' BY <2>4
        <3> QED BY <1>2, <1>3, <1>4, <2>3, <2>6, <3>1 DEF LeavesOrder, DirOK, AtWork
    <2> QED BY <1>2, <2>5, <2>6, ThreadStep
<1>5. CASE stateFile' = [stateFile EXCEPT ![d] = 0] /\ UNCHANGED <<lines, thread>>
    <2>1. DOMAIN stateFile' = Folders /\ stateFile'[d] = 0
          /\ \A e \in Folders \ {d} : stateFile'[e] = stateFile[e]
        BY <1>2, <1>5 DEF StorageTypes
    <2>2. ThreadMoves(n, d) BY <1>1, <1>2, <1>5, <2>1 DEF ThreadMoves, StorageTypes
    <2>3. ASSUME d \notin abandoned PROVE LeavesOrder(n, d)
        <3>1. \A i \in 1 .. Len(lines'[d]) : WholeIn(d, i)' BY <1>2, <1>5, <2>3, LinesStay
        <3> QED BY <1>2, <1>3, <1>5, <2>1, <2>3, <3>1 DEF LeavesOrder, WorkOK, AtWork
    <2> QED BY <1>2, <2>2, <2>3, ThreadStep
<1>6. CASE /\ stateFile[d] = 0 /\ UNCHANGED <<lines, stateFile>>
           /\ thread' = [thread EXCEPT ![n].step = "done"]
    <2>1. /\ thread'[n].op = "clear" /\ thread'[n].dir = d /\ thread'[n].step = "done"
          /\ thread'[n] \in ThreadRecords
          /\ \A k \in Numbers \ {n} : thread'[k] = thread[k]
        BY <1>1, <1>2, <1>6 DEF StorageTypes, ThreadRecords
    <2>2. ThreadMoves(n, d) BY <1>1, <1>2, <1>6, <2>1 DEF ThreadMoves, StorageTypes
    <2>3. ASSUME d \notin abandoned PROVE LeavesOrder(n, d)
        <3>1. \A i \in 1 .. Len(lines'[d]) : WholeIn(d, i)'
            BY <1>2, <1>6, <2>1, <2>3, LinesStay
        <3> QED BY <1>2, <1>3, <1>6, <2>1, <2>3, <3>1 DEF LeavesOrder, DirOK
    <2> QED BY <1>2, <2>2, <2>3, ThreadStep
<1> QED BY <1>1, <1>4, <1>5, <1>6 DEF ClearFiles

\* A thread fails: a line of which it has written a part is cut off.
LEMMA FailsStep ==
    ASSUME StorageInv, NEW n \in Numbers, ThreadFails(n)
    PROVE  StorageInv'
<1>1. PICK d : d = thread[n].dir OBVIOUS
<1>2. /\ StorageTypes /\ d \in Folders /\ AtWork(n) /\ cut \subseteq cut'
      /\ (thread[n].op = "append" /\ thread[n].step = "half") => n \in cut'
      /\ thread' = [thread EXCEPT ![n].step = "failed"]
      /\ UNCHANGED <<task, lines, stateFile, lockOf, writes, returned, unsure, abandoned>>
    BY <1>1 DEF StorageInv, StorageBase, ThreadOK, ThreadFails, AtWork
<1>3. /\ thread'[n].op = thread[n].op /\ thread'[n].dir = d /\ thread'[n].step = "failed"
      /\ thread'[n] \in ThreadRecords
      /\ \A k \in Numbers \ {n} : thread'[k] = thread[k]
    BY <1>1, <1>2 DEF StorageTypes, ThreadRecords
<1>4. ThreadMoves(n, d) BY <1>1, <1>2, <1>3 DEF ThreadMoves, StorageTypes
<1>5. ASSUME d \notin abandoned PROVE LeavesOrder(n, d)
    <2>1. DirOK(d) BY <1>2 DEF StorageInv
    <2>2. \A i \in 1 .. Len(lines'[d]) : WholeIn(d, i)' BY <1>2, <1>3, <1>5, LinesStay
    <2> QED BY <1>2, <1>3, <1>5, <2>1, <2>2 DEF LeavesOrder, DirOK
<1> QED BY <1>2, <1>4, <1>5, ThreadStep

LEMMA CancelStep ==
    ASSUME StorageInv, NEW t \in Writers, Cancel(t)
    PROVE  StorageInv'
<1>1. /\ StorageTypes /\ NoCall \in CallRecords /\ NoCall.phase = "idle"
      /\ \A u \in Writers : TaskOK(u) /\ \A v \in Writers : TwoCalls(u, v)
      /\ \A k \in Numbers : ThreadOK(k)
      /\ \A e \in Folders : PutThere(e)
    BY DEF StorageInv, StorageBase, NoCall, CallRecords, Operations
<1>2. UNCHANGED <<thread, lines, stateFile, lockOf, writes, returned, unsure, cut, abandoned>>
    BY DEF Cancel
<1>3. PICK c \in CallRecords :
         /\ task' = [task EXCEPT ![t] = c]
         /\ \/ task[t].phase = "waiting" /\ c = NoCall
            \/ /\ task[t].phase = "writing" /\ c.phase = "writing" /\ c.id = task[t].id
               /\ c.dir = task[t].dir /\ c.op = task[t].op
    <2>1. CASE task[t].phase = "waiting" /\ task' = [task EXCEPT ![t] = NoCall] BY <1>1, <2>1
    <2>2. CASE task[t].phase = "writing" /\ task' = [task EXCEPT ![t].cancelled = TRUE]
        <3>1. task[t] \in CallRecords BY <1>1 DEF StorageTypes
        <3>2. [task[t] EXCEPT !.cancelled = TRUE] \in CallRecords BY <3>1 DEF CallRecords
        <3> QED BY <2>2, <3>1, <3>2 DEF CallRecords
    <2> QED BY <2>1, <2>2 DEF Cancel
<1>4. task'[t] = c /\ \A u \in Writers \ {t} : task'[u] = task[u] BY <1>1, <1>3 DEF StorageTypes
<1>5. StorageTypes' BY <1>1, <1>2, <1>3 DEF StorageTypes
<1>6. ASSUME NEW u \in Writers PROVE TaskOK(u)'
    <2>1. TaskOK(u) BY <1>1
    <2> QED BY <1>1, <1>2, <1>3, <1>4, <2>1 DEF TaskOK
<1>7. \A u, v \in Writers : TwoCalls(u, v)' BY <1>1, <1>3, <1>4 DEF TwoCalls
<1>8. \A k \in Numbers : ThreadOK(k)' BY <1>1, <1>2 DEF ThreadOK
<1>9. \A e \in Folders : PutThere(e)' BY <1>1, <1>2, <1>3, <1>4 DEF PutThere
<1>10. ASSUME NEW e \in Folders PROVE DirOK(e)'
    <2>1. Untouched(e) BY <1>1, <1>2, <1>3, <1>4 DEF Untouched
    <2> QED BY <2>1, UntouchedOK
<1> QED BY <1>5, <1>6, <1>7, <1>8, <1>9, <1>10 DEF StorageInv, StorageBase

\* A call ends and lets the lock of d go: its thread is at rest, or d is given up.
LetsGo(t, d, n) ==
    /\ task[t].phase = "writing" /\ d = task[t].dir /\ n = task[t].id
    /\ task' = [task EXCEPT ![t] = NoCall]
    /\ lockOf' = [lockOf EXCEPT ![d] = NoTask]
    /\ \/ thread' = thread /\ d \in abandoned'
       \/ thread' = [thread EXCEPT ![n] = NoThread]
          /\ (thread[n].op = "append" => thread[n].step # "half")
    /\ DOMAIN returned' = Folders /\ DOMAIN unsure' = Folders
    /\ \A e \in Folders \ {d} : returned'[e] = returned[e] /\ unsure'[e] = unsure[e]
    /\ d \notin abandoned' => stateFile[d] \in {returned'[d]} \cup unsure'[d]
    /\ abandoned \subseteq abandoned'
    /\ UNCHANGED <<lines, stateFile, writes, cut>>

LEMMA LetsGoStep ==
    ASSUME StorageInv, NEW t \in Writers, NEW d \in Folders, NEW n \in Numbers, LetsGo(t, d, n),
           thread'[n] = thread[n] \/ stateFile[d] # n \/ thread[n].step = "done"
    PROVE  StorageInv'
<1>1. /\ StorageTypes /\ NoCall \in CallRecords /\ NoCall.phase = "idle"
      /\ NoThread \in ThreadRecords /\ NoThread.step = "none"
      /\ \A u \in Writers : TaskOK(u) /\ \A v \in Writers : TwoCalls(u, v)
      /\ \A k \in Numbers : ThreadOK(k)
      /\ \A e \in Folders : PutThere(e) /\ DirOK(e)
    BY DEF StorageInv, StorageBase, NoCall, CallRecords, Operations, NoThread, ThreadRecords
<1>2. /\ task[t].phase = "writing" /\ d = task[t].dir /\ n = task[t].id
      /\ UNCHANGED <<lines, stateFile, writes, cut>> /\ abandoned \subseteq abandoned'
    BY DEF LetsGo
<1>3. /\ task'[t] = NoCall /\ \A u \in Writers \ {t} : task'[u] = task[u]
      /\ lockOf'[d] = NoTask /\ \A e \in Folders \ {d} : lockOf'[e] = lockOf[e]
    BY <1>1 DEF LetsGo, StorageTypes
<1>4. /\ \A k \in Numbers \ {n} : thread'[k] = thread[k]
      /\ (thread'[n] = thread[n] /\ d \in abandoned') \/ thread'[n] = NoThread
    BY <1>1 DEF LetsGo, StorageTypes
<1>5. StorageTypes' BY <1>1 DEF StorageTypes, LetsGo
<1>6. ASSUME NEW u \in Writers \ {t} PROVE task[u].phase = "writing" => task[u].dir # d
    <2>1. TaskOK(u) /\ TaskOK(t) BY <1>1, <1>6
    <2> QED BY <1>2, <1>6, <2>1 DEF TaskOK
<1>7. ASSUME NEW u \in Writers PROVE TaskOK(u)'
    <2>1. CASE u = t BY <1>1, <1>3, <2>1 DEF TaskOK
    <2>2. CASE u # t
        <3>1. TaskOK(u) /\ TwoCalls(u, t) /\ task'[u] = task[u] BY <1>1, <1>3, <2>2
        <3>2. task[u].phase # "idle" => task[u].id \in Numbers \ {n}
            BY <1>1, <1>2, <2>2, <3>1, StorageAssumption DEF TaskOK, TwoCalls, StorageTypes, Numbers
        <3>3. task[u].phase = "writing" => task[u].dir \in Folders \ {d}
            BY <1>6, <2>2, <3>1 DEF TaskOK
        <3> QED BY <1>2, <1>3, <1>4, <3>1, <3>2, <3>3 DEF TaskOK
    <2> QED BY <2>1, <2>2
<1>8. \A u, v \in Writers : TwoCalls(u, v)' BY <1>1, <1>3 DEF TwoCalls
<1>9. ASSUME NEW k \in Numbers PROVE ThreadOK(k)'
    <2>1. ThreadOK(k) BY <1>1
    <2> QED BY <1>1, <1>2, <1>4, <2>1 DEF ThreadOK
<1>10. ASSUME NEW e \in Folders PROVE PutThere(e)'
    <2> SUFFICES ASSUME stateFile[e] # 0 PROVE PutThere(e)' BY <1>2 DEF PutThere
    <2>1. PutThere(e) /\ stateFile[e] \in Numbers
        BY <1>1, StorageAssumption DEF PutThere, StorageTypes, Numbers
    <2> QED BY <1>1, <1>2, <1>3, <1>4, <2>1 DEF PutThere
<1>11. ASSUME NEW e \in Folders PROVE DirOK(e)'
    <2>1. CASE e # d
        <3>1. thread[n].step # "none" => thread[n].dir = d BY <1>1, <1>2 DEF TaskOK
        <3>2. \A k \in Numbers : (thread[k].dir = e /\ thread[k].step # "none")
                                 \/ (thread'[k].dir = e /\ thread'[k].step # "none") =>
                  thread'[k] = thread[k]
            BY <1>1, <1>4, <2>1, <3>1
        <3>3. returned'[e] = returned[e] /\ unsure'[e] = unsure[e] BY <2>1 DEF LetsGo
        <3>4. Untouched(e) BY <1>1, <1>2, <1>3, <2>1, <3>2, <3>3 DEF Untouched
        <3> QED BY <3>4, UntouchedOK
    <2>2. CASE e = d
        <3> SUFFICES ASSUME d \notin abandoned' PROVE DirOK(d)' BY <2>2 DEF DirOK
        <3>1. d \notin abandoned /\ DirOK(d) /\ thread'[n] = NoThread BY <1>1, <1>2, <1>4
        <3>2. thread[n].op = "append" => thread[n].step # "half" BY <3>1 DEF LetsGo
        <3>3. \A i \in 1 .. Len(lines'[d]) : WholeIn(d, i)'
            BY <1>2, <1>4, <3>1, <3>2, LinesStay
        <3>4. (stateFile[d] \in {returned[d]} \cup unsure[d])' BY <1>2 DEF LetsGo
        <3>5. ASSUME NEW k \in Numbers, thread'[k].dir = d, AtWork(k)' PROVE FALSE
            <4>1. k # n BY <1>1, <3>1, <3>5 DEF AtWork
            <4>2. AtWork(k) /\ thread[k].dir = d BY <1>4, <3>5, <4>1 DEF AtWork
            <4>3. task[t].id = k BY <1>2, <3>1, <4>2, HolderOf
            <4> QED BY <1>2, <4>1, <4>3
        <3>6. ASSUME NEW u \in Writers, task'[u].phase = "writing", task'[u].dir = d PROVE FALSE
            BY <1>1, <1>3, <1>6, <3>6
        <3> QED BY <3>3, <3>4, <3>5, <3>6 DEF DirOK
    <2> QED BY <2>1, <2>2
<1> QED BY <1>5, <1>7, <1>8, <1>9, <1>10, <1>11 DEF StorageInv, StorageBase

\* What is known of a task that writes.
LEMMA WriterIs ==
    ASSUME StorageInv, NEW t \in Writers, task[t].phase = "writing"
    PROVE  /\ task[t].dir \in Folders /\ task[t].id \in Numbers /\ task[t].id # 0
           /\ task[t].op \in {"save", "append", "clear"}
           /\ thread[task[t].id].op = task[t].op /\ thread[task[t].id].dir = task[t].dir
<1>1. TaskOK(t) /\ StorageTypes BY DEF StorageInv, StorageBase
<1>2. task[t] \in CallRecords BY <1>1 DEF StorageTypes
<1>3. task[t].op \in {"save", "append", "clear"}
    BY <1>1, <1>2 DEF TaskOK, CallRecords, Operations
<1>4. writes \in 0 .. MaxWrites /\ task[t].id \in 1 .. writes BY <1>1 DEF TaskOK, StorageTypes
<1>5. task[t].id \in Numbers /\ task[t].id # 0 BY <1>4, StorageAssumption DEF Numbers
<1> QED BY <1>1, <1>3, <1>5 DEF TaskOK

LEMMA CancelAgainStep ==
    ASSUME StorageInv, NEW t \in Writers, CancelAgain(t)
    PROVE  StorageInv'
<1>1. PICK d, n : d = task[t].dir /\ n = task[t].id OBVIOUS
<1>2. /\ task[t].phase = "writing" /\ AtWork(n) /\ d \in Folders /\ n \in Numbers /\ n # 0
      /\ UNCHANGED <<lines, stateFile, writes, returned, unsure, cut>>
    BY <1>1, WriterIs DEF CancelAgain
<1>3. /\ StorageTypes /\ DirOK(d) /\ PutThere(d) BY <1>2 DEF StorageInv, StorageBase
<1>4. stateFile[d] # n BY <1>2, <1>3 DEF PutThere, AtWork
<1>5. LetsGo(t, d, n)
    <2>1. d \notin abandoned => stateFile[d] \in {returned[d]} \cup unsure[d] BY <1>3 DEF DirOK
    <2> QED BY <1>1, <1>2, <1>3, <2>1 DEF LetsGo, CancelAgain, StorageTypes
<1> QED BY <1>2, <1>4, <1>5, LetsGoStep

LEMMA ReturnStep ==
    ASSUME StorageInv, NEW t \in Writers, Return(t)
    PROVE  StorageInv'
<1>1. PICK d, n : d = task[t].dir /\ n = task[t].id OBVIOUS
<1>2. /\ task[t].phase = "writing" /\ thread[n].step \in {"done", "failed"}
      /\ d \in Folders /\ n \in Numbers /\ n # 0 /\ task[t].op \in {"save", "append", "clear"}
      /\ task' = [task EXCEPT ![t] = NoCall] /\ thread' = [thread EXCEPT ![n] = NoThread]
      /\ lockOf' = [lockOf EXCEPT ![d] = NoTask]
      /\ UNCHANGED <<lines, stateFile, writes, cut, abandoned>>
    BY <1>1, WriterIs DEF Return
<1>3. StorageTypes /\ DirOK(d) /\ PutThere(d) BY <1>2 DEF StorageInv, StorageBase
<1>4. stateFile[d] = n => thread[n].step = "done" BY <1>2, <1>3 DEF PutThere
<1>5. CASE /\ thread[n].step = "done" /\ task[t].op # "append"
           /\ returned' = [returned EXCEPT ![d] = IF task[t].op = "save" THEN n ELSE 0]
           /\ unsure' = [unsure EXCEPT ![d] = {}]
    <2>1. d \notin abandoned => DoneOK(t, d) BY <1>1, <1>2, <1>3, <1>5 DEF DirOK
    <2>2. d \notin abandoned => stateFile[d] \in {returned'[d]} \cup unsure'[d]
        BY <1>1, <1>2, <1>3, <1>5, <2>1 DEF DoneOK, StorageTypes
    <2> QED BY <1>1, <1>2, <1>3, <1>4, <1>5, <2>2, LetsGoStep DEF LetsGo, StorageTypes
<1>6. CASE UNCHANGED <<returned, unsure>>
    <2>1. d \notin abandoned => stateFile[d] \in {returned[d]} \cup unsure[d] BY <1>3 DEF DirOK
    <2> QED BY <1>1, <1>2, <1>3, <1>4, <1>6, <2>1, LetsGoStep DEF LetsGo, StorageTypes
<1>7. CASE /\ thread[n].step = "failed" /\ returned' = returned
           /\ unsure' = [unsure EXCEPT ![d] = @ \ {n}]
    <2>1. d \notin abandoned => stateFile[d] \in {returned[d]} \cup unsure[d] BY <1>3 DEF DirOK
    <2>2. d \notin abandoned => stateFile[d] \in {returned'[d]} \cup unsure'[d]
        BY <1>2, <1>3, <1>4, <1>7, <2>1 DEF StorageTypes
    <2> QED BY <1>1, <1>2, <1>3, <1>4, <1>7, <2>2, LetsGoStep DEF LetsGo, StorageTypes
<1> QED BY <1>1, <1>5, <1>6, <1>7 DEF Return

LEMMA StorageCrashStep ==
    ASSUME StorageInv, StorageCrash
    PROVE  StorageInv'
<1>1. /\ StorageTypes /\ NoCall \in CallRecords /\ NoCall.phase = "idle"
      /\ NoThread \in ThreadRecords /\ NoThread.step = "none"
      /\ \A e \in Folders : PutThere(e) /\ DirOK(e)
    BY DEF StorageInv, StorageBase, NoCall, CallRecords, Operations, NoThread, ThreadRecords
<1>2. /\ task' = [t \in Writers |-> NoCall] /\ thread' = [k \in Numbers |-> NoThread]
      /\ lockOf' = [d \in Folders |-> NoTask] /\ cut \subseteq cut'
      /\ \A k \in Numbers : (thread[k].op = "append" /\ thread[k].step = "half") => k \in cut'
      /\ UNCHANGED <<lines, stateFile, writes, returned, unsure, abandoned>>
    BY DEF StorageCrash, Numbers
<1>3. StorageTypes' BY <1>1, <1>2 DEF StorageTypes
<1>4. /\ \A t \in Writers : TaskOK(t)' /\ \A u \in Writers : TwoCalls(t, u)'
      /\ \A k \in Numbers : ThreadOK(k)'
    BY <1>1, <1>2 DEF TaskOK, TwoCalls, ThreadOK
<1>5. ASSUME NEW e \in Folders PROVE PutThere(e)'
    <2> SUFFICES ASSUME stateFile[e] # 0 PROVE PutThere(e)' BY <1>2 DEF PutThere
    <2>1. PutThere(e) /\ stateFile[e] \in Numbers
        BY <1>1, StorageAssumption DEF PutThere, StorageTypes, Numbers
    <2> QED BY <1>1, <1>2, <2>1 DEF PutThere
<1>6. ASSUME NEW e \in Folders PROVE DirOK(e)'
    <2> SUFFICES ASSUME e \notin abandoned PROVE DirOK(e)' BY <1>2 DEF DirOK
    <2>1. DirOK(e) BY <1>1
    <2>2. \A i \in 1 .. Len(lines'[e]) : WholeIn(e, i)' BY <1>2, LinesStay
    <2> QED BY <1>1, <1>2, <2>1, <2>2 DEF DirOK, AtWork
<1> QED BY <1>3, <1>4, <1>5, <1>6 DEF StorageInv, StorageBase

LEMMA StorageInvNext == StorageInv /\ [StorageNext]_storageVars => StorageInv'
<1> SUFFICES ASSUME StorageInv, [StorageNext]_storageVars PROVE StorageInv' OBVIOUS
<1>1. ASSUME NEW t \in Writers, NEW op \in {"save", "append", "clear"}, NEW ns \in DOMAIN Clean,
             Call(t, op, ns)
      PROVE  StorageInv'
    BY <1>1, CallStep
<1>2. ASSUME NEW t \in Writers, Acquire(t) \/ Cancel(t) \/ CancelAgain(t) \/ Return(t)
      PROVE  StorageInv'
    BY <1>2, AcquireStep, CancelStep, CancelAgainStep, ReturnStep
<1>3. ASSUME NEW k \in Numbers,
             AppendPiece(k) \/ WriteState(k) \/ ClearFiles(k) \/ ThreadFails(k)
      PROVE  StorageInv'
    BY <1>3, AppendStep, WriteStep, ClearStep, FailsStep
<1>4. CASE StorageCrash BY <1>4, StorageCrashStep
<1>5. CASE UNCHANGED storageVars
    <2>1. UNCHANGED <<task, thread, lines, stateFile, lockOf, writes, returned, unsure, cut, abandoned>>
        BY <1>5 DEF storageVars
    <2>2. StorageBase'
        BY <2>1 DEF StorageInv, StorageBase, StorageTypes, TaskOK, TwoCalls, ThreadOK, PutThere
    <2>3. ASSUME NEW d \in Folders PROVE DirOK(d)'
        <3>1. Untouched(d) BY <2>1 DEF Untouched
        <3> QED BY <3>1, UntouchedOK
    <2> QED BY <2>2, <2>3 DEF StorageInv
<1> QED BY <1>1, <1>2, <1>3, <1>4, <1>5 DEF StorageNext, Numbers

\* For any tasks, directories, names, numbers of calls and of crashes, and any
\* cancellations and failing writes (storage.py:56-65, 123-157, 210-214): in every
\* directory whose lock was not let go under a thread, lines are never mixed and
\* only an error or a crash cuts one off, and the state is what the last save or
\* clear that returned left, or one that began later and did not fail.
THEOREM FilesAreWhole == StorageSpec => []FilesWhole
<1>1. ASSUME StorageInv PROVE FilesWhole
    <2> SUFFICES ASSUME NEW d \in Folders, d \notin abandoned
                 PROVE  /\ \A i \in 1 .. Len(lines[d]) : Whole(lines[d], i)
                        /\ stateFile[d] \in {returned[d]} \cup unsure[d]
        BY DEF FilesWhole
    <2>1. DirOK(d) BY <1>1 DEF StorageInv
    <2>2. ASSUME NEW i \in 1 .. Len(lines[d]) PROVE Whole(lines[d], i)
        <3>1. WholeIn(d, i) BY <2>1 DEF DirOK
        <3> QED BY <3>1 DEF WholeIn, Whole
    <2> QED BY <2>1, <2>2 DEF DirOK
<1> QED BY <1>1, StorageInvInit, StorageInvNext, PTL DEF StorageSpec

-----------------------------------------------------------------------------
(* live/paper.py: the order history.                                       *)

\* The history is a sequence, whatever its records are.
IsHistory(h) == \E R : h \in Seq(R)

LEMMA HistoryGrows ==
    ASSUME NEW h, IsHistory(h), NEW x
    PROVE  /\ IsHistory(Append(h, x))
           /\ Len(Append(h, x)) = Len(h) + 1 /\ Len(h) \in Nat
           /\ \A o \in 1 .. Len(h) : Append(h, x)[o] = h[o]
<1>1. PICK R : h \in Seq(R)
  BY DEF IsHistory
<1>2. PICK S : S = R \cup {x}
  OBVIOUS
<1>3. h \in Seq(S) /\ x \in S
  BY <1>1, <1>2
<1>4. Append(h, x) \in Seq(S)
  BY <1>3
<1>5. QED
  BY <1>3, <1>4 DEF IsHistory

\* Record r takes place n of the history.
Replaced(h, n, r) == [h EXCEPT ![n] = r]

LEMMA PutKeeps ==
    ASSUME NEW h, IsHistory(h), NEW n, NEW r, NEW g, g = Replaced(h, n, r)
    PROVE  /\ IsHistory(g) /\ Len(g) = Len(h)
           /\ \A o \in 1 .. Len(h) : o # n => g[o] = h[o]
<1>1. PICK R : h \in Seq(R)
  BY DEF IsHistory
<1>2. PICK S : S = R \cup {r}
  OBVIOUS
<1>3. h \in Seq(S) /\ r \in S
  BY <1>1, <1>2
<1> USE DEF Replaced
<1>4. CASE n \in 1 .. Len(h)
  <2>1. g \in Seq(S) /\ Len(g) = Len(h) /\ \A o \in 1 .. Len(h) : g[o] = IF o = n THEN r ELSE h[o]
    BY <1>3, <1>4, ExceptSeq
  <2>2. QED
    BY <2>1 DEF IsHistory
<1>5. CASE n \notin 1 .. Len(h)
  <2>1. h \in [1 .. Len(h) -> S]
    BY <1>3
  <2>2. g = h
    BY <1>5, <2>1
  <2>3. QED
    BY <2>2
<1>6. QED
  BY <1>4, <1>5

\* Only the order that fills changes.
LEMMA FillKeeps ==
    ASSUME NEW os, IsHistory(os), NEW n, NEW price, NEW kind, Fill(os, n, price, kind)
    PROVE  /\ IsHistory(orders') /\ Len(orders') = Len(os)
           /\ \A o \in 1 .. Len(os) : o # n => orders'[o] = os[o]
<1>1. PICK p : orders' = [os EXCEPT ![n].status = "filled", ![n].price = p]
  BY DEF Fill
<1>2. PICK g, r, h, q : /\ g = Replaced(os, n, r)
                        /\ h = Replaced(g, n, q) /\ orders' = h
  BY <1>1 DEF Replaced
<1>3. IsHistory(g) /\ Len(g) = Len(os) /\ \A o \in 1 .. Len(os) : o # n => g[o] = os[o]
  BY <1>2, PutKeeps
<1>4. IsHistory(h) /\ Len(h) = Len(g) /\ \A o \in 1 .. Len(g) : o # n => h[o] = g[o]
  BY <1>2, <1>3, PutKeeps
<1>5. QED
  BY <1>2, <1>3, <1>4

\* What every step does to the history: the orders that are done stay.
Stay == \A o \in 1 .. Len(orders) : ~IsOpen(o) => orders'[o] = orders[o]

LEMMA OpenChanges ==
    ASSUME IsHistory(orders), NEW n, IsOpen(n), NEW r, orders' = Replaced(orders, n, r)
    PROVE  IsHistory(orders') /\ Stay
<1>1. PICK g : g = Replaced(orders, n, r) /\ orders' = g
  OBVIOUS
<1>2. IsHistory(g) /\ \A o \in 1 .. Len(orders) : o # n => g[o] = orders[o]
  BY <1>1, PutKeeps
<1>3. QED
  BY <1>1, <1>2 DEF Stay

LEMMA SubmitStays ==
    ASSUME IsHistory(orders), NEW t \in Tickets, Submit(t)
    PROVE  IsHistory(orders') /\ Stay
<1>1. PICK x, new, o : /\ x = [side |-> t.side, type |-> t.type, qty |-> t.qty,
                               limit |-> t.limit, stop |-> t.stop, status |-> "open",
                               triggered |-> FALSE, price |-> NoPrice]
                       /\ new = Append(orders, x) /\ o = Len(new)
  OBVIOUS
<1>2. /\ IsHistory(new) /\ o = Len(orders) + 1 /\ Len(orders) \in Nat
      /\ \A i \in 1 .. Len(orders) : new[i] = orders[i]
  BY <1>1, HistoryGrows
<1>3. \/ orders' = new
      \/ orders' = [new EXCEPT ![o].status = "rejected"]
      \/ \E price : Fill(new, o, price, "market")
  BY <1>1 DEF Submit
<1>4. CASE orders' = new
  BY <1>2, <1>4 DEF Stay
<1>5. CASE orders' = [new EXCEPT ![o].status = "rejected"]
  <2>1. PICK r, g : g = Replaced(new, o, r) /\ orders' = g
    BY <1>5 DEF Replaced
  <2>2. IsHistory(g) /\ \A i \in 1 .. Len(new) : i # o => g[i] = new[i]
    BY <1>2, <2>1, PutKeeps
  <2>3. \A i \in 1 .. Len(orders) : i \in 1 .. Len(new) /\ i # o
    BY <1>1, <1>2
  <2>4. QED
    BY <1>2, <2>1, <2>2, <2>3 DEF Stay
<1>6. ASSUME NEW price, Fill(new, o, price, "market") PROVE IsHistory(orders') /\ Stay
  <2>1. IsHistory(orders') /\ \A i \in 1 .. Len(new) : i # o => orders'[i] = new[i]
    BY <1>2, <1>6, FillKeeps
  <2>2. QED
    BY <1>1, <1>2, <2>1 DEF Stay
<1>7. QED
  BY <1>3, <1>4, <1>5, <1>6

LEMMA MatchStays ==
    ASSUME IsHistory(orders), MatchNext
    PROVE  IsHistory(orders') /\ Stay
<1>1. PICK n : n = Foremost
  OBVIOUS
<1>2. \/ UNCHANGED orders
      \/ IsOpen(n) /\ \E price, kind : Fill(orders, n, price, kind)
      \/ IsOpen(n) /\ \E price, kind : Fill([orders EXCEPT ![n].triggered = TRUE], n, price, kind)
      \/ IsOpen(n) /\ \E r : orders' = Replaced(orders, n, r)
  BY <1>1, Zenon DEF MatchNext, Replaced
<1>3. CASE UNCHANGED orders
  BY <1>3 DEF Stay
<1>4. ASSUME IsOpen(n), NEW price, NEW kind, Fill(orders, n, price, kind)
      PROVE  IsHistory(orders') /\ Stay
  BY <1>4, FillKeeps DEF Stay
<1>5. ASSUME IsOpen(n), NEW price, NEW kind,
             Fill([orders EXCEPT ![n].triggered = TRUE], n, price, kind)
      PROVE  IsHistory(orders') /\ Stay
  <2>1. PICK r, h : /\ h = [orders EXCEPT ![n].triggered = TRUE] /\ h = Replaced(orders, n, r)
                    /\ Fill(h, n, price, kind)
    BY <1>5 DEF Replaced
  <2>2. IsHistory(h) /\ Len(h) = Len(orders) /\ \A o \in 1 .. Len(orders) : o # n => h[o] = orders[o]
    <3>1. h = Replaced(orders, n, r)
      BY <2>1
    <3>2. QED
      BY <3>1, PutKeeps
  <2>3. IsHistory(orders') /\ \A o \in 1 .. Len(h) : o # n => orders'[o] = h[o]
    BY <2>1, <2>2, FillKeeps
  <2>4. QED
    BY <1>5, <2>2, <2>3 DEF Stay
<1>6. ASSUME IsOpen(n), NEW r, orders' = Replaced(orders, n, r)
      PROVE  IsHistory(orders') /\ Stay
  BY <1>6, OpenChanges
<1>7. QED
  BY <1>2, <1>3, <1>4, <1>5, <1>6

LEMMA BookStep ==
    ASSUME IsHistory(orders), [BookNext]_bookVars
    PROVE  IsHistory(orders') /\ Stay
<1>1. CASE \E t \in Tickets : Submit(t)
  BY <1>1, SubmitStays
<1>2. ASSUME NEW n, CancelNow(n) \/ Modify(n) PROVE IsHistory(orders') /\ Stay
  <2>1. IsOpen(n) /\ \E r : orders' = Replaced(orders, n, r)
    BY <1>2 DEF CancelNow, Modify, Replaced
  <2>2. QED
    BY <2>1, OpenChanges
<1>3. CASE MatchNext
  BY <1>3, MatchStays
<1>4. CASE (\E b \in Bars : ShowBar(b)) \/ ListOrders \/ BarDone \/ UNCHANGED bookVars
  BY <1>4 DEF ShowBar, ListOrders, BarDone, bookVars, Stay
<1>5. QED
  BY <1>1, <1>2, <1>3, <1>4 DEF BookNext

\* Whatever is submitted, amended or canceled while a bar is being matched, an
\* order that is filled, canceled or rejected never changes again: it is filled
\* at most once and at one price (_fill_order, cancel_order_nowait, simulate_bar).
THEOREM DoneStaysDone == BookSpec => OrdersStayDone
<1>1. BookInit => IsHistory(orders)
  <2>1. <<>> \in Seq({})
    OBVIOUS
  <2>2. QED
    BY <2>1 DEF BookInit, IsHistory
<1>2. IsHistory(orders) /\ [BookNext]_bookVars => IsHistory(orders)'
  BY BookStep DEF IsHistory
<1>3. IsHistory(orders) /\ [BookNext]_bookVars
          => [\A o \in 1 .. Len(orders) : ~IsOpen(o) => orders'[o] = orders[o]]_bookVars
  BY BookStep DEF Stay
<1>4. QED
  BY <1>1, <1>2, <1>3, PTL DEF BookSpec, OrdersStayDone

-----------------------------------------------------------------------------
(* live/paper.py: the books.  The fills of a history earn the last of the  *)
(* sums of their gains; that the sums exist, and what one order more or    *)
(* another order in the place of one does to them, is induction over the   *)
(* history, by a least counterexample.                                     *)

\* An order in the books.
Entries ==
    [side : {-1, 1}, type : {"market", "limit", "stop", "stop_limit"}, qty : Nat \ {0},
     limit : Int, stop : Int, status : {"open", "filled", "canceled", "rejected"},
     triggered : BOOLEAN, price : Int]

\* f holds the sums of the first numbers of w, up to n of them.
Sums(f, w, n) ==
    /\ f = [o \in 0 .. n |-> IF o = 0 THEN 0 ELSE f[o - 1] + w[o]]

\* A set of natural numbers that has a member has a least one.
LEMMA LeastOne ==
    ASSUME NEW S, S \subseteq Nat, S # {}
    PROVE  \E x \in S : \A y \in S : x <= y
<1>1. PICK R : R = OpToRel(<, Nat)
  OBVIOUS
<1>2. IsWellFoundedOn(R, Nat)
  BY <1>1, NatLessThanWellFounded
<1>3. PICK x \in S : \A y \in S : ~(<<y, x>> \in R)
  BY <1>2, WFMin
<1>4. ASSUME NEW y \in S PROVE x <= y
  <2>1. y < x => <<y, x>> \in R
    BY <1>1 DEF OpToRel
  <2>2. QED
    BY <1>3, <2>1
<1>5. QED
  BY <1>4

\* The sums of any numbers exist: the least length without them would be one
\* more than a length with them.
LEMMA SumsExist ==
    ASSUME NEW n \in Nat, NEW w \in [1 .. n -> Int]
    PROVE  \E f : Sums(f, w, n) /\ f \in [0 .. n -> Int]
<1> DEFINE Has(k) == \E f : Sums(f, w, k) /\ f \in [0 .. k -> Int]
           Bad == {k \in 0 .. n : ~Has(k)}
<1>1. SUFFICES ASSUME Bad # {} PROVE FALSE
  <2>1. n \in 0 .. n
    OBVIOUS
  <2>2. QED
    BY <2>1
<1>2. Bad \subseteq Nat
  OBVIOUS
<1>3. PICK k \in Bad : \A y \in Bad : k <= y
  BY <1>1, <1>2, LeastOne
<1>4. k \in 0 .. n /\ ~Has(k)
  OBVIOUS
<1>5. k # 0
  <2>1. PICK f : f = [o \in 0 .. 0 |-> 0]
    OBVIOUS
  <2>2. Sums(f, w, 0) /\ f \in [0 .. 0 -> Int]
    BY <2>1 DEF Sums
  <2>3. Has(0)
    BY <2>2
  <2>4. QED
    BY <1>4, <2>3
<1>6. k \in 1 .. n /\ k - 1 \in 0 .. n /\ ~(k <= k - 1)
  BY <1>4, <1>5
<1>7. Has(k - 1)
  BY <1>3, <1>6
<1>8. PICK f : Sums(f, w, k - 1) /\ f \in [0 .. (k - 1) -> Int]
  BY <1>7
<1>9. PICK g : g = [o \in 0 .. k |-> IF o = k THEN f[k - 1] + w[k] ELSE f[o]]
  OBVIOUS
<1>10. g \in [0 .. k -> Int]
  BY <1>6, <1>8, <1>9
<1>11. Sums(g, w, k)
  <2>1. f = [o \in 0 .. (k - 1) |-> IF o = 0 THEN 0 ELSE f[o - 1] + w[o]]
    BY <1>8 DEF Sums
  <2>2. ASSUME NEW o \in 0 .. k PROVE g[o] = IF o = 0 THEN 0 ELSE g[o - 1] + w[o]
    BY <1>6, <1>9, <2>1
  <2>3. QED
    BY <1>9, <2>2 DEF Sums
<1>12. QED
  BY <1>4, <1>10, <1>11

\* Numbers that differ by d at k and nowhere else have sums that differ by d
\* from k on.
Differ(f, w, n, g, v, m, d, k) ==
    /\ n \in Nat /\ Sums(f, w, n) /\ f \in [0 .. n -> Int]
    /\ m \in Nat /\ n <= m /\ Sums(g, v, m)
    /\ d \in Int /\ k \in Nat /\ k > 0
    /\ \A o \in 1 .. n : w[o] \in Int /\ v[o] = w[o] + (IF o = k THEN d ELSE 0)

LEMMA SumsDiffer ==
    ASSUME NEW f, NEW w, NEW n, NEW g, NEW v, NEW m, NEW d, NEW k, Differ(f, w, n, g, v, m, d, k)
    PROVE  g[n] = f[n] + (IF k <= n THEN d ELSE 0)
<1> /\ n \in Nat /\ Sums(f, w, n) /\ f \in [0 .. n -> Int]
    /\ m \in Nat /\ n <= m /\ Sums(g, v, m)
    /\ d \in Int /\ k \in Nat /\ k > 0
    /\ \A o \in 1 .. n : w[o] \in Int /\ v[o] = w[o] + (IF o = k THEN d ELSE 0)
  BY DEF Differ
<1> DEFINE Same(j) == g[j] = f[j] + (IF k <= j THEN d ELSE 0)
           Bad == {j \in 0 .. n : ~Same(j)}
<1>1. SUFFICES ASSUME Bad # {} PROVE FALSE
  <2>1. n \in 0 .. n
    OBVIOUS
  <2>2. QED
    BY <2>1
<1>2. Bad \subseteq Nat
  OBVIOUS
<1>3. PICK j \in Bad : \A y \in Bad : j <= y
  BY <1>1, <1>2, LeastOne
<1>4. j \in 0 .. n /\ ~Same(j)
  OBVIOUS
<1>5. /\ f[0] = 0 /\ \A o \in 1 .. n : f[o] = f[o - 1] + w[o]
      /\ g[0] = 0 /\ \A o \in 1 .. n : g[o] = g[o - 1] + v[o]
  <2>1. f[0] = 0 /\ \A o \in 1 .. n : f[o] = f[o - 1] + w[o]
    <3>1. f = [o \in 0 .. n |-> IF o = 0 THEN 0 ELSE f[o - 1] + w[o]]
      BY DEF Sums
    <3>2. QED
      BY <3>1
  <2>2. g[0] = 0 /\ \A o \in 1 .. m : g[o] = g[o - 1] + v[o]
    <3>1. g = [o \in 0 .. m |-> IF o = 0 THEN 0 ELSE g[o - 1] + v[o]]
      BY DEF Sums
    <3>2. QED
      BY <3>1
  <2>3. QED
    BY <2>1, <2>2
<1>6. j # 0
  <2>1. ~(k <= 0) /\ f[0] = 0 /\ g[0] = 0
    BY <1>5
  <2>2. Same(0)
    BY <2>1
  <2>3. QED
    BY <1>4, <2>2
<1>7. j \in 1 .. n /\ j - 1 \in 0 .. n /\ ~(j <= j - 1)
  BY <1>4, <1>6
<1>8. Same(j - 1)
  BY <1>3, <1>7
<1>9. f[j - 1] \in Int /\ w[j] \in Int
  BY <1>7
<1>10. Same(j)
  <2>1. /\ f[j] = f[j - 1] + w[j] /\ g[j] = g[j - 1] + v[j]
        /\ v[j] = w[j] + (IF j = k THEN d ELSE 0)
    BY <1>5, <1>7
  <2>2. g[j - 1] = f[j - 1] + (IF k <= j - 1 THEN d ELSE 0)
    BY <1>8
  <2>3. PICK a, b, c, e : a = f[j - 1] /\ b = g[j - 1] /\ c = w[j] /\ e = v[j]
    OBVIOUS
  <2>4. /\ a \in Int /\ c \in Int /\ j \in Int
        /\ b = a + (IF k <= j - 1 THEN d ELSE 0) /\ e = c + (IF j = k THEN d ELSE 0)
    BY <1>7, <1>9, <2>1, <2>2, <2>3
  <2>5. b + e = a + c + (IF k <= j THEN d ELSE 0)
    <3>1. CASE k <= j - 1
      BY <2>4, <3>1
    <3>2. CASE k = j
      BY <2>4, <3>2
    <3>3. CASE k > j
      BY <2>4, <3>3
    <3>4. QED
      BY <1>7, <3>1, <3>2, <3>3
  <2>6. QED
    BY <2>1, <2>3, <2>4, <2>5
<1>11. QED
  BY <1>4, <1>10

\* What the orders have earned is the last of the sums of their gains.
LEMMA EarnedSums ==
    ASSUME NEW os \in Seq(Entries), NEW m \in Int
    PROVE  \E f, w : /\ w = [o \in 1 .. Len(os) |-> Gain(os[o], m)]
                     /\ w \in [1 .. Len(os) -> Int]
                     /\ Sums(f, w, Len(os)) /\ f \in [0 .. Len(os) -> Int]
                     /\ Earned(os, m) = f[Len(os)]
<1>1. PICK w : w = [o \in 1 .. Len(os) |-> Gain(os[o], m)]
  OBVIOUS
<1>2. Len(os) \in Nat
  OBVIOUS
<1>3. ASSUME NEW o \in 1 .. Len(os) PROVE Gain(os[o], m) \in Int
  <2>1. PICK x : x = os[o]
    OBVIOUS
  <2>2. x \in Entries
    BY <2>1
  <2>3. x.side \in Int /\ x.qty \in Int /\ x.price \in Int
    BY <2>2 DEF Entries
  <2>4. QED
    BY <2>1, <2>3 DEF Gain
<1>4. w \in [1 .. Len(os) -> Int]
  BY <1>1, <1>3
<1>5. PICK f : Sums(f, w, Len(os)) /\ f \in [0 .. Len(os) -> Int]
  BY <1>2, <1>4, SumsExist
<1>6. PICK g : g = CHOOSE h : h = [o \in 0 .. Len(os) |-> IF o = 0 THEN 0 ELSE h[o - 1] + Gain(os[o], m)]
  OBVIOUS
<1>7. f = [o \in 0 .. Len(os) |-> IF o = 0 THEN 0 ELSE f[o - 1] + Gain(os[o], m)]
  <2>1. f = [o \in 0 .. Len(os) |-> IF o = 0 THEN 0 ELSE f[o - 1] + w[o]]
    BY <1>5 DEF Sums
  <2>2. ASSUME NEW o \in 0 .. Len(os), o # 0 PROVE w[o] = Gain(os[o], m)
    BY <1>1, <1>2, <2>2
  <2>3. QED
    BY <2>1, <2>2
<1>8. g = [o \in 0 .. Len(os) |-> IF o = 0 THEN 0 ELSE g[o - 1] + Gain(os[o], m)]
  BY <1>6, <1>7
<1>9. Earned(os, m) = g[Len(os)]
  BY <1>6 DEF Earned
<1>10. Sums(g, w, Len(os))
  <2>1. ASSUME NEW o \in 0 .. Len(os), o # 0 PROVE w[o] = Gain(os[o], m)
    BY <1>1, <1>2, <2>1
  <2>2. QED
    BY <1>8, <2>1 DEF Sums
<1>11. g[Len(os)] = f[Len(os)]
  <2>1. \A o \in 1 .. Len(os) : w[o] \in Int /\ w[o] = w[o] + (IF o = 1 THEN 0 ELSE 0)
    BY <1>4
  <2>2. PICK n, k, d : n = Len(os) /\ k = 1 /\ d = 0
    OBVIOUS
  <2>3. Differ(f, w, n, g, w, n, d, k)
    BY <1>2, <1>5, <1>10, <2>1, <2>2 DEF Differ
  <2>4. g[n] = f[n] + (IF k <= n THEN d ELSE 0)
    BY <2>3, SumsDiffer
  <2>5. f[n] \in Int
    BY <1>2, <1>5, <2>2
  <2>6. QED
    BY <2>2, <2>4, <2>5
<1>12. QED
  BY <1>1, <1>4, <1>5, <1>9, <1>10, <1>11

\* One more order adds its gain.
LEMMA AppendEarns ==
    ASSUME NEW os \in Seq(Entries), NEW x \in Entries, NEW m \in Int, NEW ns, ns = Append(os, x)
    PROVE  /\ ns \in Seq(Entries) /\ Len(ns) = Len(os) + 1 /\ Earned(ns, m) = Earned(os, m) + Gain(x, m)
           /\ Earned(os, m) \in Int /\ Gain(x, m) \in Int
<1>1. /\ ns \in Seq(Entries) /\ Len(ns) = Len(os) + 1 /\ Len(os) \in Nat
      /\ ns[Len(os) + 1] = x /\ \A o \in 1 .. Len(os) : ns[o] = os[o]
  OBVIOUS
<1>2. PICK f, w : /\ w = [o \in 1 .. Len(os) |-> Gain(os[o], m)]
                  /\ w \in [1 .. Len(os) -> Int]
                  /\ Sums(f, w, Len(os)) /\ f \in [0 .. Len(os) -> Int]
                  /\ Earned(os, m) = f[Len(os)]
  BY EarnedSums
<1>3. PICK g, v : /\ v = [o \in 1 .. Len(ns) |-> Gain(ns[o], m)]
                  /\ v \in [1 .. Len(ns) -> Int]
                  /\ Sums(g, v, Len(ns)) /\ g \in [0 .. Len(ns) -> Int]
                  /\ Earned(ns, m) = g[Len(ns)]
  BY <1>1, EarnedSums
<1>4. PICK n, k, d : n = Len(os) /\ k = n + 1 /\ d = 0
  OBVIOUS
<1>5. n \in Nat /\ Len(ns) = n + 1 /\ k \in Nat /\ k > 0 /\ d \in Int
  BY <1>1, <1>4
<1>6. ASSUME NEW o \in 1 .. n PROVE w[o] \in Int /\ v[o] = w[o] + (IF o = k THEN d ELSE 0)
  <2>1. o \in 1 .. Len(os) /\ o \in 1 .. Len(ns)
    BY <1>4, <1>5
  <2>2. w[o] = Gain(os[o], m) /\ v[o] = Gain(ns[o], m) /\ w[o] \in Int
    BY <1>2, <1>3, <2>1
  <2>3. v[o] = w[o]
    BY <1>1, <2>1, <2>2
  <2>4. QED
    BY <1>4, <2>2, <2>3
<1>7. g[n] = f[n]
  <2>1. Sums(f, w, n) /\ f \in [0 .. n -> Int]
    BY <1>2, <1>4
  <2>2. PICK r : r = n + 1
    OBVIOUS
  <2>3. r = Len(ns) /\ r \in Nat /\ n <= r
    BY <1>5, <2>2
  <2>7. Differ(f, w, n, g, v, r, d, k)
    BY <1>3, <1>5, <1>6, <2>1, <2>3 DEF Differ
  <2>4. g[n] = f[n] + (IF k <= n THEN d ELSE 0)
    BY <2>7, SumsDiffer
  <2>5. f[n] \in Int
    BY <1>5, <2>1
  <2>6. QED
    BY <1>4, <1>5, <2>4, <2>5
<1>8. g[n + 1] = g[n] + v[n + 1] /\ v[n + 1] = Gain(x, m)
  <2>1. g = [o \in 0 .. (n + 1) |-> IF o = 0 THEN 0 ELSE g[o - 1] + v[o]]
    BY <1>3, <1>5 DEF Sums
  <2>2. n + 1 \in 0 .. (n + 1) /\ n + 1 # 0 /\ (n + 1) - 1 = n
    BY <1>5
  <2>3. g[n + 1] = g[n] + v[n + 1]
    BY <2>1, <2>2
  <2>4. v[n + 1] = Gain(ns[n + 1], m)
    BY <1>3, <1>5
  <2>5. QED
    BY <1>1, <1>4, <2>3, <2>4
<1>9. f[n] \in Int /\ v[n + 1] \in Int
  <2>1. f[n] \in Int
    BY <1>2, <1>4, <1>5
  <2>2. n + 1 \in 1 .. Len(ns)
    BY <1>5
  <2>3. QED
    BY <1>3, <2>1, <2>2
<1>10. QED
  BY <1>1, <1>2, <1>3, <1>4, <1>5, <1>7, <1>8, <1>9

\* ns are the orders os with x for number k.
Changes(os, k, x, ns) ==
    /\ os \in Seq(Entries) /\ k \in 1 .. Len(os) /\ x \in Entries /\ ns = Replaced(os, k, x)

\* An order that takes the place of another changes what is earned by the
\* difference of their gains.
LEMMA PutEarns ==
    ASSUME NEW os, NEW k, NEW x, NEW ns, Changes(os, k, x, ns), NEW m \in Int
    PROVE  /\ ns \in Seq(Entries) /\ Len(ns) = Len(os) /\ ns[k] = x
           /\ Earned(ns, m) = Earned(os, m) + (Gain(x, m) - Gain(os[k], m))
           /\ Earned(os, m) \in Int /\ Gain(x, m) \in Int /\ Gain(os[k], m) \in Int
<1> os \in Seq(Entries) /\ k \in 1 .. Len(os) /\ x \in Entries /\ ns = Replaced(os, k, x)
  BY DEF Changes
<1>1. /\ ns \in Seq(Entries) /\ Len(ns) = Len(os) /\ Len(os) \in Nat
      /\ \A o \in 1 .. Len(os) : ns[o] = IF o = k THEN x ELSE os[o]
  BY ExceptSeq DEF Replaced
<1>2. PICK f, w : /\ w = [o \in 1 .. Len(os) |-> Gain(os[o], m)]
                  /\ w \in [1 .. Len(os) -> Int]
                  /\ Sums(f, w, Len(os)) /\ f \in [0 .. Len(os) -> Int]
                  /\ Earned(os, m) = f[Len(os)]
  BY EarnedSums
<1>3. PICK g, v : /\ v = [o \in 1 .. Len(ns) |-> Gain(ns[o], m)]
                  /\ v \in [1 .. Len(ns) -> Int]
                  /\ Sums(g, v, Len(ns)) /\ g \in [0 .. Len(ns) -> Int]
                  /\ Earned(ns, m) = g[Len(ns)]
  BY <1>1, EarnedSums
<1>4. PICK n, d : n = Len(os) /\ d = Gain(x, m) - Gain(os[k], m)
  OBVIOUS
<1>5. /\ n \in Nat /\ Len(ns) = n /\ k \in 1 .. n
      /\ w[k] = Gain(os[k], m) /\ v[k] = Gain(x, m) /\ w[k] \in Int /\ v[k] \in Int
  BY <1>1, <1>2, <1>3, <1>4
<1>6. d \in Int
  BY <1>4, <1>5
<1>7. \A o \in 1 .. n : w[o] \in Int /\ v[o] = w[o] + (IF o = k THEN d ELSE 0)
  <2>1. ASSUME NEW o \in 1 .. n PROVE w[o] \in Int /\ v[o] = w[o] + (IF o = k THEN d ELSE 0)
    <3>1. CASE o = k
      BY <1>4, <1>5, <3>1
    <3>2. CASE o # k
      <4>1. o \in 1 .. Len(os) /\ o \in 1 .. Len(ns)
        BY <1>4, <1>5
      <4>2. w[o] = Gain(os[o], m) /\ v[o] = Gain(ns[o], m) /\ w[o] \in Int
        BY <1>2, <1>3, <4>1
      <4>3. v[o] = w[o]
        BY <1>1, <3>2, <4>1, <4>2
      <4>4. QED
        BY <3>2, <4>2, <4>3
    <3>3. QED
      BY <3>1, <3>2
  <2>2. QED
    BY <2>1
<1>8. g[n] = f[n] + (IF k <= n THEN d ELSE 0)
  <2>1. Sums(f, w, n) /\ f \in [0 .. n -> Int]
    BY <1>2, <1>4
  <2>2. Sums(g, v, n) /\ n <= n /\ k \in Nat /\ k > 0
    BY <1>3, <1>5
  <2>3. Differ(f, w, n, g, v, n, d, k)
    BY <1>5, <1>6, <1>7, <2>1, <2>2 DEF Differ
  <2>4. QED
    BY <2>3, SumsDiffer
<1>9. f[n] \in Int
  BY <1>2, <1>4, <1>5
<1>10. QED
  BY <1>1, <1>2, <1>3, <1>4, <1>5, <1>8, <1>9

\* The signs of two factors.
LEMMA Signs ==
    ASSUME NEW a \in Int, NEW b \in Int
    PROVE  /\ a * b \in Int
           /\ a * b < 0 <=> (a > 0 /\ b < 0) \/ (a < 0 /\ b > 0)
           /\ a * b > 0 <=> (a > 0 /\ b > 0) \/ (a < 0 /\ b < 0)
<1>1. a * b \in Int
  OBVIOUS
<1>2. CASE a = 0 \/ b = 0
  BY <1>2
<1>3. CASE a > 0 /\ b > 0
  BY <1>3
<1>4. CASE a < 0 /\ b < 0
  BY <1>4
<1>5. CASE a > 0 /\ b < 0
  BY <1>5
<1>6. CASE a < 0 /\ b > 0
  BY <1>6
<1>7. QED
  BY <1>1, <1>2, <1>3, <1>4, <1>5, <1>6

\* What divides without remainder is restored.
LEMMA Divides ==
    ASSUME NEW x \in Int, NEW q \in Int, q > 0, x % q = 0
    PROVE  x \div q \in Int /\ q * (x \div q) = x
<1>1. x \div q \in Int
  OBVIOUS
<1>2. x = q * (x \div q) + (x % q)
  OBVIOUS
<1>3. QED
  BY <1>1, <1>2

\* The average entry of a fill that adds to the position is a whole number.
Exact(p, incoming, price) ==
    (Magnitude(p.qty) * p.avg + Magnitude(incoming) * price) % Magnitude(p.qty + incoming) = 0

\* A fill that adds to the position: its value at m goes up by what the fill
\* is worth there.
LEMMA AddsValue ==
    ASSUME NEW a \in Int, NEW A \in Int, NEW i \in Int, NEW P \in Int, NEW m \in Int,
           i # 0, a * i >= 0, NEW X, X = Magnitude(a) * A + Magnitude(i) * P,
           NEW Q, Q = Magnitude(a + i), X % Q = 0, NEW E, E = X \div Q
    PROVE  E \in Int /\ (m - E) * (a + i) = (m - A) * a + i * (m - P)
<1>1. Magnitude(a) \in Int /\ Magnitude(i) \in Int /\ a + i \in Int
  BY DEF Magnitude
<1>2. ~((a > 0 /\ i < 0) \/ (a < 0 /\ i > 0))
  BY Signs
<1>3. Q \in Int /\ Q > 0
  BY <1>1, <1>2 DEF Magnitude
<1>4. X \in Int
  BY <1>1
<1>5. E \in Int /\ Q * E = X
  BY <1>3, <1>4, Divides
<1>6. CASE a >= 0 /\ i > 0
  <2>1. Q = a + i /\ X = a * A + i * P
    BY <1>6 DEF Magnitude
  <2>2. (a + i) * E = a * A + i * P
    BY <1>5, <2>1
  <2>3. (m - E) * (a + i) = m * a + m * i - (a + i) * E
    BY <1>5
  <2>4. (m - A) * a + i * (m - P) = m * a + m * i - (a * A + i * P)
    OBVIOUS
  <2>5. QED
    BY <1>5, <2>2, <2>3, <2>4
<1>7. CASE a <= 0 /\ i < 0
  <2>1. Q = -(a + i) /\ X = (-a) * A + (-i) * P
    BY <1>7 DEF Magnitude
  <2>2. (-(a + i)) * E = (-a) * A + (-i) * P
    BY <1>5, <2>1
  <2>3. (m - E) * (a + i) = m * a + m * i + (-(a + i)) * E
    BY <1>5
  <2>4. (m - A) * a + i * (m - P) = m * a + m * i + ((-a) * A + (-i) * P)
    OBVIOUS
  <2>5. QED
    BY <1>5, <2>2, <2>3, <2>4
<1>8. QED
  BY <1>2, <1>5, <1>6, <1>7

\* A fill against the position realizes what it takes out of it.
LEMMA ClosesValue ==
    ASSUME NEW p \in [qty : Int, avg : Int], NEW i \in Int, NEW P \in Int, p.qty * i < 0
    PROVE  Realized(p, i, P) = IF (p.qty + i) * p.qty > 0 THEN -((P - p.avg) * i)
                               ELSE (P - p.avg) * p.qty
<1>1. PICK a, A : a = p.qty /\ A = p.avg
  OBVIOUS
<1>2. a \in Int /\ A \in Int /\ a * i < 0 /\ a + i \in Int
  BY <1>1
<1>3. (a > 0 /\ i < 0) \/ (a < 0 /\ i > 0)
  BY <1>2, Signs
<1>4. Realized(p, i, P) = (P - A) * Lesser(Magnitude(a), Magnitude(i)) * (IF a > 0 THEN 1 ELSE -1)
  BY <1>1, <1>2 DEF Realized
<1>5. (a + i) * a > 0 <=> (a + i > 0 /\ a > 0) \/ (a + i < 0 /\ a < 0)
  BY <1>2, Signs
<1>6. CASE a > 0 /\ i < 0
  <2>1. Lesser(Magnitude(a), Magnitude(i)) = IF a + i > 0 THEN -i ELSE a
    BY <1>2, <1>6 DEF Lesser, Magnitude
  <2>2. CASE a + i > 0
    <3>1. Realized(p, i, P) = (P - A) * (-i) * 1
      BY <1>4, <1>6, <2>1, <2>2
    <3>2. (P - A) * (-i) * 1 = -((P - A) * i)
      BY <1>2
    <3>3. (a + i) * a > 0
      BY <1>5, <1>6, <2>2
    <3>4. QED
      BY <1>1, <3>1, <3>2, <3>3
  <2>3. CASE ~(a + i > 0)
    <3>1. Realized(p, i, P) = (P - A) * a * 1
      BY <1>4, <1>6, <2>1, <2>3
    <3>2. (P - A) * a * 1 = (P - A) * a
      BY <1>2
    <3>3. ~((a + i) * a > 0)
      BY <1>2, <1>5, <1>6, <2>3
    <3>4. QED
      BY <1>1, <3>1, <3>2, <3>3
  <2>4. QED
    BY <2>2, <2>3
<1>7. CASE a < 0 /\ i > 0
  <2>1. Lesser(Magnitude(a), Magnitude(i)) = IF a + i < 0 THEN i ELSE -a
    BY <1>2, <1>7 DEF Lesser, Magnitude
  <2>2. QED
    BY <1>1, <1>2, <1>4, <1>5, <1>7, <2>1
<1>8. QED
  BY <1>3, <1>6, <1>7

\* Cash and position together are worth, at any price m, what they were and
\* what the fill has earned there: additions, partial and full exits, reversals.
FillsTo(p, i, P, q) ==
    /\ p \in [qty : Int, avg : Int] /\ i \in Int /\ i # 0 /\ P \in Int
    /\ p.qty * i >= 0 => Exact(p, i, P)
    /\ q = NextPosition(p, i, P)

Balanced(p, i, P, q, m) ==
    /\ q \in [qty : Int, avg : Int] /\ Realized(p, i, P) \in Int
    /\ (m - q.avg) * q.qty + Realized(p, i, P) = (m - p.avg) * p.qty + i * (m - P)

LEMMA FillBalances ==
    ASSUME NEW p, NEW i, NEW P, NEW q, FillsTo(p, i, P, q), NEW m \in Int
    PROVE  Balanced(p, i, P, q, m)
<1> SUFFICES /\ q \in [qty : Int, avg : Int] /\ Realized(p, i, P) \in Int
             /\ (m - q.avg) * q.qty + Realized(p, i, P) = (m - p.avg) * p.qty + i * (m - P)
  BY DEF Balanced
<1> /\ p \in [qty : Int, avg : Int] /\ i \in Int /\ i # 0 /\ P \in Int
    /\ p.qty * i >= 0 => Exact(p, i, P)
    /\ q = NextPosition(p, i, P)
  BY DEF FillsTo
<1>1. PICK a, A, n : a = p.qty /\ A = p.avg /\ n = a + i
  OBVIOUS
<1>2. a \in Int /\ A \in Int /\ n \in Int /\ a * i \in Int
  BY <1>1
<1>3. CASE a * i >= 0
  <2>1. PICK X, Q, E : X = Magnitude(a) * A + Magnitude(i) * P /\ Q = Magnitude(n) /\ E = X \div Q
    OBVIOUS
  <2>2. X % Q = 0
    BY <1>1, <1>3, <2>1 DEF Exact
  <2>3. E \in Int /\ (m - E) * (a + i) = (m - A) * a + i * (m - P)
    BY <1>1, <1>2, <1>3, <2>1, <2>2, AddsValue
  <2>4. q = [qty |-> n, avg |-> E]
    BY <1>1, <1>3, <2>1 DEF NextPosition
  <2>5. Realized(p, i, P) = 0
    BY <1>1, <1>3 DEF Realized
  <2>6. q.qty = n /\ q.avg = E /\ q \in [qty : Int, avg : Int]
    BY <1>2, <2>3, <2>4
  <2>7. QED
    BY <1>1, <1>2, <2>3, <2>5, <2>6
<1>4. CASE a * i < 0
  <2>1. Realized(p, i, P) = IF n * a > 0 THEN -((P - A) * i) ELSE (P - A) * a
    BY <1>1, <1>4, ClosesValue
  <2>2. /\ n * a > 0 <=> (n > 0 /\ a > 0) \/ (n < 0 /\ a < 0)
        /\ n * a < 0 <=> (n > 0 /\ a < 0) \/ (n < 0 /\ a > 0)
    BY <1>2, Signs
  <2>3. (a > 0 /\ i < 0) \/ (a < 0 /\ i > 0)
    BY <1>2, <1>4, Signs
  <2>4. q = CASE a * i >= 0 -> [qty |-> n, avg |-> (Magnitude(a) * A + Magnitude(i) * P) \div Magnitude(n)]
              [] a * i < 0 /\ n = 0 -> [qty |-> 0, avg |-> 0]
              [] a * i < 0 /\ n * a > 0 -> [qty |-> n, avg |-> A]
              [] a * i < 0 /\ n * a < 0 -> [qty |-> n, avg |-> P]
    BY <1>1, Zenon DEF NextPosition
  <2>5. CASE n = 0
    <3>1. q = [qty |-> 0, avg |-> 0]
      BY <1>2, <1>4, <2>4, <2>5
    <3>2. i = -a /\ ~(n * a > 0)
      BY <1>1, <1>2, <2>5
    <3>3. (P - A) * a = (m - A) * a + (-a) * (m - P)
      BY <1>2
    <3>4. q.qty = 0 /\ q.avg = 0 /\ q \in [qty : Int, avg : Int]
      BY <3>1
    <3>5. Realized(p, i, P) = (P - A) * a /\ (P - A) * a \in Int
      BY <1>2, <2>1, <3>2
    <3>6. (m - q.avg) * q.qty = 0
      BY <3>4
    <3>7. i * (m - P) = (-a) * (m - P)
      BY <3>2
    <3>8. QED
      BY <1>1, <3>3, <3>4, <3>5, <3>6, <3>7
  <2>6. CASE n * a > 0
    <3>1. q = [qty |-> n, avg |-> A]
      BY <1>2, <1>4, <2>2, <2>4, <2>6
    <3>2. (m - A) * (a + i) + (-((P - A) * i)) = (m - A) * a + i * (m - P)
      BY <1>2
    <3>3. q.qty = n /\ q.avg = A /\ q \in [qty : Int, avg : Int]
      BY <1>2, <3>1
    <3>4. QED
      BY <1>1, <1>2, <2>1, <2>6, <3>2, <3>3
  <2>7. CASE n * a < 0
    <3>1. q = [qty |-> n, avg |-> P]
      BY <1>2, <1>4, <2>2, <2>4, <2>7
    <3>2. (m - P) * (a + i) + (P - A) * a = (m - A) * a + i * (m - P)
      BY <1>2
    <3>3. q.qty = n /\ q.avg = P /\ q \in [qty : Int, avg : Int]
      BY <1>2, <3>1
    <3>4. QED
      BY <1>1, <1>2, <2>1, <2>2, <2>7, <3>2, <3>3
  <2>8. QED
    BY <1>2, <2>2, <2>3, <2>5, <2>6, <2>7
<1>5. QED
  BY <1>2, <1>3, <1>4

\* The books balance at every whole price, not only at those the bars show.
BalancesAt(m) == cash + (m - position.avg) * position.qty = StartCash - fees + Earned(orders, m)

BookTypes ==
    /\ orders \in Seq(Entries) /\ position \in [qty : Int, avg : Int]
    /\ cash \in Int /\ fees \in Int /\ lastPrice \in Int
    /\ queue \subseteq 1 .. Len(orders)

BookInv == BookTypes /\ \A m \in Int : BalancesAt(m)

\* A step that fills an order which adds to the position has an average entry
\* without remainder: the model's prices are whole numbers, the code's floats.
ExactAverages ==
    \A o \in 1 .. Len(orders') :
        LET incoming == orders'[o].side * orders'[o].qty
        IN  /\ orders'[o].status = "filled" /\ (o > Len(orders) \/ IsOpen(o))
            /\ position.qty * incoming >= 0
            => Exact(position, incoming, orders'[o].price)

\* Replacing an order that has not filled by one that has not fills nothing.
LEMMA KeepEarns ==
    ASSUME NEW os, NEW k, NEW x, NEW ns, Changes(os, k, x, ns),
           os[k].status # "filled", x.status # "filled"
    PROVE  /\ ns \in Seq(Entries) /\ Len(ns) = Len(os) /\ ns[k] = x
           /\ \A m \in Int : Earned(ns, m) = Earned(os, m)
<1>1. ASSUME NEW m \in Int
      PROVE  /\ ns \in Seq(Entries) /\ Len(ns) = Len(os) /\ ns[k] = x
             /\ Earned(ns, m) = Earned(os, m)
  <2>1. /\ ns \in Seq(Entries) /\ Len(ns) = Len(os) /\ ns[k] = x
        /\ Earned(ns, m) = Earned(os, m) + (Gain(x, m) - Gain(os[k], m))
        /\ Earned(os, m) \in Int
    BY PutEarns
  <2>2. Gain(x, m) = 0 /\ Gain(os[k], m) = 0
    BY DEF Gain
  <2>3. QED
    BY <2>1, <2>2
<1>2. \E m \in Int : TRUE
  OBVIOUS
<1>3. QED
  BY <1>1, <1>2

\* What Commission takes is a number.
LEMMA CommissionInt ==
    ASSUME NEW q \in Int PROVE Commission(q) \in Int
<1>1. /\ PerUnit \in Int /\ PerOrder \in Int /\ MinCommission \in Int
  BY BookAssumption
<1>2. PICK c : c = PerUnit * q + PerOrder
  OBVIOUS
<1>3. c \in Int
  BY <1>1, <1>2
<1>4. QED
  BY <1>1, <1>2, <1>3 DEF Commission, Greater

LEMMA MarkInt ==
    ASSUME NEW p \in [qty : Int, avg : Int], NEW m \in Int
    PROVE  (m - p.avg) * p.qty \in Int
<1>1. PICK q, a : q = p.qty /\ a = p.avg
  OBVIOUS
<1>2. q \in Int /\ a \in Int
  BY <1>1
<1>3. (m - a) * q \in Int
  BY <1>2
<1>4. QED
  BY <1>1, <1>3

\* The fill of an open order of os, whose earnings balance.
FillsOpen(os, o, price, kind) ==
    /\ os \in Seq(Entries) /\ o \in 1 .. Len(os) /\ os[o].status = "open"
    /\ price \in Int /\ kind \in {"market", "limit", "stop"} /\ Fill(os, o, price, kind)
    /\ o > Len(orders) \/ IsOpen(o)
    /\ \A m \in Int : cash + (m - position.avg) * position.qty = StartCash - fees + Earned(os, m)

LEMMA FillStep ==
    ASSUME BookTypes, ExactAverages, NEW os, NEW o, NEW price, NEW kind, FillsOpen(os, o, price, kind)
    PROVE  /\ orders' \in Seq(Entries) /\ Len(orders') = Len(os)
           /\ position' \in [qty : Int, avg : Int] /\ cash' \in Int /\ fees' \in Int
           /\ \A m \in Int : BalancesAt(m)'
<1> /\ os \in Seq(Entries) /\ o \in 1 .. Len(os) /\ os[o].status = "open"
    /\ price \in Int /\ kind \in {"market", "limit", "stop"} /\ Fill(os, o, price, kind)
    /\ o > Len(orders) \/ IsOpen(o)
    /\ \A m \in Int : cash + (m - position.avg) * position.qty = StartCash - fees + Earned(os, m)
  BY DEF FillsOpen
<1>1. PICK P, i, c, r : /\ P = FillPrice(price, os[o].side, kind) /\ i = os[o].side * os[o].qty
                        /\ c = Commission(os[o].qty) /\ r = Realized(position, i, P)
  OBVIOUS
<1>2. /\ os[o] \in Entries /\ os[o].side \in {-1, 1} /\ os[o].qty \in Nat \ {0}
  <2>1. PICK e : e = os[o]
    OBVIOUS
  <2>2. e \in Entries
    BY <2>1
  <2>3. e.side \in {-1, 1} /\ e.qty \in Nat \ {0}
    BY <2>2 DEF Entries
  <2>4. QED
    BY <2>1, <2>2, <2>3
<1>3. P \in Int
  <2>1. Slip[kind] \in Int
    BY BookAssumption
  <2>2. QED
    BY <1>1, <1>2, <2>1 DEF FillPrice
<1>4. i \in Int /\ i # 0 /\ c \in Int
  <2>1. PICK s, n : s = os[o].side /\ n = os[o].qty
    OBVIOUS
  <2>2. s \in {-1, 1} /\ n \in Nat \ {0} /\ i = s * n /\ c = Commission(n)
    BY <1>1, <1>2, <2>1
  <2>3. i = n \/ i = -n
    BY <2>2
  <2>4. QED
    <3>1. n \in Int
      BY <2>2
    <3>2. Commission(n) \in Int
      BY <3>1, CommissionInt
    <3>3. QED
      BY <2>2, <2>3, <3>2
<1>5. PICK x : x = [os[o] EXCEPT !.status = "filled", !.price = P]
  OBVIOUS
<1>6. /\ x \in Entries /\ x.status = "filled" /\ x.price = P
      /\ x.side = os[o].side /\ x.qty = os[o].qty
  BY <1>2, <1>3, <1>5 DEF Entries
<1>7. orders' = Replaced(os, o, x)
  <2>1. orders' = [os EXCEPT ![o].status = "filled", ![o].price = P]
    BY <1>1 DEF Fill
  <2>2. QED
    BY <1>5, <2>1 DEF Replaced
<1>8. /\ position' = NextPosition(position, i, P) /\ cash' = cash - c + r /\ fees' = fees + c
  BY <1>1 DEF Fill
<1>15. Changes(os, o, x, orders')
  BY <1>6, <1>7 DEF Changes
<1>9. orders' \in Seq(Entries) /\ Len(orders') = Len(os) /\ orders'[o] = x
  <2>1. PICK m : m \in Int
    OBVIOUS
  <2>2. QED
    BY <1>15, <2>1, PutEarns
<1>10. position.qty * i >= 0 => Exact(position, i, P)
  <2>1. o \in 1 .. Len(orders') /\ orders'[o].status = "filled" /\ orders'[o].price = P
    BY <1>6, <1>9
  <2>2. orders'[o].side * orders'[o].qty = i
    BY <1>1, <1>6, <1>9
  <2>3. QED
    BY <2>1, <2>2 DEF ExactAverages
<1>11. position \in [qty : Int, avg : Int] /\ cash \in Int /\ fees \in Int /\ StartCash \in Int
  BY BookAssumption DEF BookTypes
<1>12. ASSUME NEW m \in Int
       PROVE  /\ position' \in [qty : Int, avg : Int] /\ r \in Int
              /\ BalancesAt(m)'
  <2>1. PICK q, v, w, e, d, g :
            /\ q = position' /\ v = (m - position.avg) * position.qty /\ w = (m - q.avg) * q.qty
            /\ e = Earned(os, m) /\ d = Earned(orders', m) /\ g = i * (m - P)
    OBVIOUS
  <2>2. q \in [qty : Int, avg : Int] /\ r \in Int /\ w + r = v + g
    <3>1. FillsTo(position, i, P, q)
      BY <1>3, <1>4, <1>8, <1>10, <1>11, <2>1 DEF FillsTo
    <3>2. /\ q \in [qty : Int, avg : Int] /\ Realized(position, i, P) \in Int
          /\ (m - q.avg) * q.qty + Realized(position, i, P) = (m - position.avg) * position.qty + i * (m - P)
      <4>1. Balanced(position, i, P, q, m)
        BY <3>1, FillBalances
      <4>2. QED
        BY <4>1 DEF Balanced
    <3>3. QED
      BY <1>1, <2>1, <3>2
  <2>3. /\ d = e + (Gain(x, m) - Gain(os[o], m))
        /\ e \in Int /\ Gain(x, m) \in Int /\ Gain(os[o], m) \in Int
    BY <1>15, <2>1, PutEarns
  <2>4. Gain(os[o], m) = 0 /\ Gain(x, m) = g
    BY <1>1, <1>6, <2>1 DEF Gain
  <2>5. d = e + g /\ g \in Int
    BY <2>3, <2>4
  <2>6. v \in Int /\ w \in Int
    BY <1>11, <2>1, <2>2, MarkInt
  <2>7. cash + v = StartCash - fees + e
    BY <2>1
  <2>8. (cash - c + r) + w = StartCash - (fees + c) + d
    <3>1. PICK a, b, h : a = cash /\ b = StartCash /\ h = fees
      OBVIOUS
    <3>2. a \in Int /\ b \in Int /\ h \in Int /\ a + v = b - h + e
      BY <1>11, <2>7, <3>1
    <3>3. w + r = v + g /\ r \in Int
      BY <2>2
    <3>4. e \in Int
      BY <2>3
    <3>5. (a - c + r) + w = b - (h + c) + d
      BY <1>4, <2>5, <2>6, <3>2, <3>3, <3>4
    <3>6. QED
      BY <3>1, <3>5
  <2>9. QED
    BY <1>8, <2>1, <2>2, <2>8 DEF BalancesAt
<1>13. r \in Int /\ position' \in [qty : Int, avg : Int]
  <2>1. \E m \in Int : TRUE
    OBVIOUS
  <2>2. QED
    BY <1>12, <2>1
<1>14. QED
  BY <1>4, <1>8, <1>9, <1>11, <1>12, <1>13

LEMMA BookStarts == BookInit => BookInv
<1> SUFFICES ASSUME BookInit PROVE BookInv
  OBVIOUS
<1>1. orders = <<>> /\ orders \in Seq(Entries) /\ Len(orders) = 0
  BY DEF BookInit
<1>2. BookTypes
  BY <1>1, BookAssumption DEF BookInit, BookTypes, NoPrice
<1>3. ASSUME NEW m \in Int PROVE BalancesAt(m)
  <2>1. PICK f, w : Sums(f, w, Len(orders)) /\ Earned(orders, m) = f[Len(orders)]
    BY <1>1, EarnedSums
  <2>2. f = [o \in 0 .. 0 |-> IF o = 0 THEN 0 ELSE f[o - 1] + w[o]]
    BY <1>1, <2>1 DEF Sums
  <2>3. Earned(orders, m) = 0
    BY <1>1, <2>1, <2>2
  <2>4. position.avg = 0 /\ position.qty = 0 /\ cash = StartCash /\ fees = 0 /\ StartCash \in Int
    BY BookAssumption DEF BookInit
  <2>5. QED
    BY <2>3, <2>4 DEF BalancesAt
<1>4. QED
  BY <1>2, <1>3 DEF BookInv

\* Types of the variables a step may change without an order's filling.
LEMMA BooksStay ==
    ASSUME BookInv, UNCHANGED <<position, cash, fees>>, orders' \in Seq(Entries),
           \A m \in Int : Earned(orders', m) = Earned(orders, m),
           lastPrice' \in Int, queue' \subseteq 1 .. Len(orders')
    PROVE  BookInv'
<1>1. BookTypes'
  BY DEF BookInv, BookTypes
<1>2. ASSUME NEW m \in Int PROVE BalancesAt(m)'
  <2>1. cash + (m - position.avg) * position.qty = StartCash - fees + Earned(orders, m)
    BY DEF BookInv, BalancesAt
  <2>2. Earned(orders', m) = Earned(orders, m)
    OBVIOUS
  <2>3. QED
    BY <2>1, <2>2 DEF BalancesAt
<1>3. QED
  BY <1>1, <1>2 DEF BookInv

LEMMA BookSubmit ==
    ASSUME BookInv, ExactAverages, NEW t \in Tickets, Submit(t)
    PROVE  BookInv'
<1>1. PICK x, new, o : /\ x = [side |-> t.side, type |-> t.type, qty |-> t.qty,
                               limit |-> t.limit, stop |-> t.stop, status |-> "open",
                               triggered |-> FALSE, price |-> NoPrice]
                       /\ new = Append(orders, x) /\ o = Len(new)
  OBVIOUS
<1>2. /\ t \in [type : {"market", "limit", "stop", "stop_limit"}, side : {-1, 1},
               qty : Nat \ {0}, limit : Int, stop : Int]
      /\ orders \in Seq(Entries) /\ lastPrice \in Int
  BY BookAssumption DEF BookInv, BookTypes
<1>3. x \in Entries /\ x.status = "open"
  BY <1>1, <1>2 DEF Entries, NoPrice
<1>4. /\ new \in Seq(Entries) /\ Len(new) = Len(orders) + 1 /\ Len(orders) \in Nat
      /\ new[o] = x /\ o \in 1 .. Len(new) /\ o > Len(orders)
  BY <1>1, <1>2, <1>3
<1>5. ASSUME NEW m \in Int PROVE Earned(new, m) = Earned(orders, m)
  <2>1. /\ Earned(new, m) = Earned(orders, m) + Gain(x, m)
        /\ Earned(orders, m) \in Int
    BY <1>1, <1>2, <1>3, AppendEarns
  <2>2. Gain(x, m) = 0
    BY <1>3 DEF Gain
  <2>3. QED
    BY <2>1, <2>2
<1>6. UNCHANGED <<lastPrice, queue>> /\ queue \subseteq 1 .. Len(new)
  BY <1>4 DEF Submit, BookInv, BookTypes
<1>7. PICK price : price = IF lastPrice # NoPrice THEN lastPrice
                           ELSE IF t.limit # NoPrice THEN t.limit ELSE t.stop
  OBVIOUS
<1>8. price \in Int
  BY <1>2, <1>7
<1>9. \/ orders' = new /\ UNCHANGED <<position, cash, fees>>
      \/ orders' = [new EXCEPT ![o].status = "rejected"] /\ UNCHANGED <<position, cash, fees>>
      \/ Fill(new, o, price, "market")
  BY <1>1, <1>7 DEF Submit
<1>10. CASE orders' = new /\ UNCHANGED <<position, cash, fees>>
  BY <1>2, <1>4, <1>5, <1>6, <1>10, BooksStay
<1>11. CASE orders' = [new EXCEPT ![o].status = "rejected"] /\ UNCHANGED <<position, cash, fees>>
  <2>1. PICK y : y = [new[o] EXCEPT !.status = "rejected"]
    OBVIOUS
  <2>2. y \in Entries /\ y.status = "rejected"
    BY <1>3, <1>4, <2>1 DEF Entries
  <2>3. Changes(new, o, y, orders')
    BY <1>4, <1>11, <2>1, <2>2 DEF Changes, Replaced
  <2>4. new[o].status # "filled"
    BY <1>3, <1>4
  <2>5. /\ orders' \in Seq(Entries) /\ Len(orders') = Len(new)
        /\ \A m \in Int : Earned(orders', m) = Earned(new, m)
    BY <2>2, <2>3, <2>4, KeepEarns
  <2>6. QED
    BY <1>2, <1>5, <1>6, <1>11, <2>5, BooksStay
<1>12. CASE Fill(new, o, price, "market")
  <2>1. \A m \in Int : cash + (m - position.avg) * position.qty = StartCash - fees + Earned(new, m)
    BY <1>5 DEF BookInv, BalancesAt
  <2>2. PICK kind : kind = "market"
    OBVIOUS
  <2>3. FillsOpen(new, o, price, kind)
    BY <1>3, <1>4, <1>8, <1>12, <2>1, <2>2 DEF FillsOpen
  <2>4. BookTypes
    BY DEF BookInv
  <2>5. /\ orders' \in Seq(Entries) /\ Len(orders') = Len(new)
        /\ position' \in [qty : Int, avg : Int] /\ cash' \in Int /\ fees' \in Int
        /\ \A m \in Int : BalancesAt(m)'
    BY <2>3, <2>4, FillStep
  <2>6. QED
    BY <1>2, <1>6, <2>5 DEF BookInv, BookTypes
<1>13. QED
  BY <1>9, <1>10, <1>11, <1>12

\* An open order is amended or canceled.
LEMMA BookAmends ==
    ASSUME BookInv, NEW o \in 1 .. Len(orders), CancelNow(o) \/ Modify(o)
    PROVE  BookInv'
<1>1. /\ orders \in Seq(Entries) /\ lastPrice \in Int /\ queue \subseteq 1 .. Len(orders)
      /\ UNCHANGED <<position, cash, fees, lastPrice, queue>> /\ orders[o].status = "open"
  BY DEF BookInv, BookTypes, CancelNow, Modify, IsOpen
<1>2. PICK e : e = orders[o]
  OBVIOUS
<1>3. e \in Entries /\ e.status = "open"
  BY <1>1, <1>2
<1>4. \E x : x \in Entries /\ x.status # "filled" /\ orders' = Replaced(orders, o, x)
  <2>1. CASE CancelNow(o)
    <3>1. PICK x : x = [e EXCEPT !.status = "canceled"]
      OBVIOUS
    <3>2. x \in Entries /\ x.status = "canceled"
      BY <1>3, <3>1 DEF Entries
    <3>3. orders' = Replaced(orders, o, x)
      BY <1>2, <2>1, <3>1 DEF CancelNow, Replaced
    <3>4. QED
      BY <3>2, <3>3
  <2>2. ASSUME NEW t \in Tickets, orders' = [orders EXCEPT ![o].qty = t.qty]
        PROVE  \E x : x \in Entries /\ x.status # "filled" /\ orders' = Replaced(orders, o, x)
    <3>1. PICK x : x = [e EXCEPT !.qty = t.qty]
      OBVIOUS
    <3>2. t.qty \in Nat \ {0}
      BY BookAssumption
    <3>3. x \in Entries /\ x.status = "open"
      BY <1>3, <3>1, <3>2 DEF Entries
    <3>4. orders' = Replaced(orders, o, x)
      BY <1>2, <2>2, <3>1 DEF Replaced
    <3>5. QED
      BY <3>3, <3>4
  <2>3. ASSUME NEW p \in Prices, orders' = [orders EXCEPT ![o].limit = p]
        PROVE  \E x : x \in Entries /\ x.status # "filled" /\ orders' = Replaced(orders, o, x)
    <3>1. PICK x : x = [e EXCEPT !.limit = p]
      OBVIOUS
    <3>2. p \in Int
      BY BookAssumption
    <3>3. x \in Entries /\ x.status = "open"
      BY <1>3, <3>1, <3>2 DEF Entries
    <3>4. orders' = Replaced(orders, o, x)
      BY <1>2, <2>3, <3>1 DEF Replaced
    <3>5. QED
      BY <3>3, <3>4
  <2>4. ASSUME NEW p \in Prices, orders' = [orders EXCEPT ![o].stop = p]
        PROVE  \E x : x \in Entries /\ x.status # "filled" /\ orders' = Replaced(orders, o, x)
    <3>1. PICK x : x = [e EXCEPT !.stop = p]
      OBVIOUS
    <3>2. p \in Int
      BY BookAssumption
    <3>3. x \in Entries /\ x.status = "open"
      BY <1>3, <3>1, <3>2 DEF Entries
    <3>4. orders' = Replaced(orders, o, x)
      BY <1>2, <2>4, <3>1 DEF Replaced
    <3>5. QED
      BY <3>3, <3>4
  <2>5. QED
    BY <2>1, <2>2, <2>3, <2>4 DEF Modify
<1>5. PICK x : x \in Entries /\ x.status # "filled" /\ orders' = Replaced(orders, o, x)
  BY <1>4
<1>6. Changes(orders, o, x, orders') /\ orders[o].status # "filled"
  BY <1>1, <1>5 DEF Changes
<1>7. /\ orders' \in Seq(Entries) /\ Len(orders') = Len(orders)
      /\ \A m \in Int : Earned(orders', m) = Earned(orders, m)
  BY <1>5, <1>6, KeepEarns
<1>8. QED
  BY <1>1, <1>7, BooksStay

\* The order that is matched next is one of the queue.
LEMMA ForemostIn ==
    ASSUME queue \subseteq 1 .. Len(orders), Len(orders) \in Nat, queue # {}
    PROVE  Foremost \in queue
<1>1. queue \subseteq Nat
  OBVIOUS
<1>2. \E o \in queue : \A p \in queue : o <= p
  BY <1>1, LeastOne
<1>3. QED
  BY <1>2 DEF Foremost

LEMMA BookMatches ==
    ASSUME BookInv, ExactAverages, MatchNext
    PROVE  BookInv'
<1>1. PICK o, r, hit : o = Foremost /\ r = orders[o] /\ hit = (r.triggered \/ TouchedStop(r, bar))
  OBVIOUS
<1>2. /\ orders \in Seq(Entries) /\ lastPrice \in Int /\ queue \subseteq 1 .. Len(orders)
      /\ UNCHANGED lastPrice /\ queue' = queue \ {o} /\ Len(orders) \in Nat
  BY <1>1 DEF BookInv, BookTypes, MatchNext
<1>3. o \in 1 .. Len(orders)
  <2>1. queue # {}
    BY DEF MatchNext
  <2>2. QED
    BY <1>1, <1>2, <2>1, ForemostIn
<1>4. r \in Entries /\ r.limit \in Int /\ r.stop \in Int
  <2>1. r \in Entries
    BY <1>1, <1>2, <1>3
  <2>2. QED
    BY <2>1 DEF Entries
<1>5. PICK x : x = [r EXCEPT !.triggered = TRUE]
  OBVIOUS
<1>6. PICK y : y = [r EXCEPT !.triggered = @ \/ (r.type = "stop_limit" /\ hit)]
  OBVIOUS
<1>7. PICK h : h = Replaced(orders, o, x)
  OBVIOUS
<1>8. /\ x \in Entries /\ x.status = r.status /\ y \in Entries /\ y.status = r.status
  BY <1>4, <1>5, <1>6 DEF Entries
<1>9. \/ UNCHANGED <<orders, position, cash, fees>>
      \/ IsOpen(o) /\ Fill(orders, o, r.limit, "limit")
      \/ IsOpen(o) /\ Fill(orders, o, r.stop, "stop")
      \/ IsOpen(o) /\ Fill(h, o, r.limit, "limit")
      \/ IsOpen(o) /\ orders' = Replaced(orders, o, y) /\ UNCHANGED <<position, cash, fees>>
  <2>1. [orders EXCEPT ![o].triggered = TRUE] = h
    BY <1>1, <1>5, <1>7 DEF Replaced
  <2>2. [orders EXCEPT ![o].triggered = @ \/ (r.type = "stop_limit" /\ hit)] = Replaced(orders, o, y)
    BY <1>1, <1>6 DEF Replaced
  <2>3. \/ ~IsOpen(o) /\ UNCHANGED <<orders, position, cash, fees>>
        \/ IsOpen(o) /\ Fill(orders, o, r.limit, "limit")
        \/ IsOpen(o) /\ Fill(orders, o, r.stop, "stop")
        \/ IsOpen(o) /\ Fill([orders EXCEPT ![o].triggered = TRUE], o, r.limit, "limit")
        \/ /\ IsOpen(o) /\ UNCHANGED <<position, cash, fees>>
           /\ orders' = [orders EXCEPT ![o].triggered = @ \/ (r.type = "stop_limit" /\ hit)]
    BY <1>1, Zenon DEF MatchNext
  <2>4. QED
    BY <2>1, <2>2, <2>3
<1>10. queue' \subseteq 1 .. Len(orders)
  BY <1>2
<1>11. \A m \in Int : cash + (m - position.avg) * position.qty = StartCash - fees + Earned(orders, m)
  BY DEF BookInv, BalancesAt
<1>12. ASSUME NEW os, NEW price, NEW kind, FillsOpen(os, o, price, kind), Len(os) = Len(orders)
       PROVE  BookInv'
  <2>1. BookTypes
    BY DEF BookInv
  <2>2. /\ orders' \in Seq(Entries) /\ Len(orders') = Len(os)
        /\ position' \in [qty : Int, avg : Int] /\ cash' \in Int /\ fees' \in Int
        /\ \A m \in Int : BalancesAt(m)'
    BY <1>12, <2>1, FillStep
  <2>3. QED
    BY <1>2, <1>10, <1>12, <2>2 DEF BookInv, BookTypes
<1>13. CASE UNCHANGED <<orders, position, cash, fees>>
  BY <1>2, <1>10, <1>13, BooksStay
<1>14. ASSUME IsOpen(o), NEW price \in Int, NEW kind \in {"limit", "stop"}, Fill(orders, o, price, kind)
       PROVE  BookInv'
  <2>1. orders[o].status = "open" /\ kind \in {"market", "limit", "stop"}
    BY <1>14 DEF IsOpen
  <2>2. FillsOpen(orders, o, price, kind)
    BY <1>2, <1>3, <1>11, <1>14, <2>1 DEF FillsOpen
  <2>3. QED
    BY <1>12, <2>2
<1>15. CASE IsOpen(o) /\ Fill(h, o, r.limit, "limit")
  <2>1. orders[o].status = "open" /\ x.status = "open"
    BY <1>1, <1>8, <1>15 DEF IsOpen
  <2>2. Changes(orders, o, x, h) /\ orders[o].status # "filled" /\ x.status # "filled"
    BY <1>2, <1>3, <1>7, <1>8, <2>1 DEF Changes
  <2>3. /\ h \in Seq(Entries) /\ Len(h) = Len(orders) /\ h[o] = x
        /\ \A m \in Int : Earned(h, m) = Earned(orders, m)
    BY <2>2, KeepEarns
  <2>4. PICK price, kind : price = r.limit /\ kind = "limit"
    OBVIOUS
  <2>5. price \in Int /\ kind \in {"market", "limit", "stop"} /\ Fill(h, o, price, kind)
    BY <1>4, <1>15, <2>4
  <2>6. \A m \in Int : cash + (m - position.avg) * position.qty = StartCash - fees + Earned(h, m)
    BY <1>11, <2>3
  <2>7. FillsOpen(h, o, price, kind)
    BY <1>3, <1>15, <2>1, <2>3, <2>5, <2>6 DEF FillsOpen
  <2>8. QED
    BY <1>12, <2>3, <2>7
<1>16. CASE IsOpen(o) /\ orders' = Replaced(orders, o, y) /\ UNCHANGED <<position, cash, fees>>
  <2>1. orders[o].status = "open" /\ y.status = "open"
    BY <1>1, <1>8, <1>16 DEF IsOpen
  <2>2. Changes(orders, o, y, orders') /\ orders[o].status # "filled" /\ y.status # "filled"
    BY <1>2, <1>3, <1>8, <1>16, <2>1 DEF Changes
  <2>3. /\ orders' \in Seq(Entries) /\ Len(orders') = Len(orders)
        /\ \A m \in Int : Earned(orders', m) = Earned(orders, m)
    BY <2>2, KeepEarns
  <2>4. QED
    BY <1>2, <1>10, <1>16, <2>3, BooksStay
<1>17. QED
  <2>1. CASE IsOpen(o) /\ Fill(orders, o, r.limit, "limit")
    <3>1. PICK kind : kind = "limit"
      OBVIOUS
    <3>2. QED
      BY <1>4, <1>14, <2>1, <3>1
  <2>2. CASE IsOpen(o) /\ Fill(orders, o, r.stop, "stop")
    <3>1. PICK kind : kind = "stop"
      OBVIOUS
    <3>2. QED
      BY <1>4, <1>14, <2>2, <3>1
  <2>3. QED
    BY <1>9, <1>13, <1>15, <1>16, <2>1, <2>2

LEMMA BookInvHolds ==
    ASSUME BookInv, [BookNext]_bookVars, [ExactAverages]_bookVars
    PROVE  BookInv'
<1>1. CASE UNCHANGED bookVars
  <2>1. \A m \in Int : Earned(orders', m) = Earned(orders, m)
    BY <1>1 DEF bookVars
  <2>2. QED
    BY <1>1, <2>1, BooksStay DEF bookVars, BookInv, BookTypes
<1>2. CASE BookNext /\ ExactAverages
  <2>1. CASE \E t \in Tickets : Submit(t)
    BY <1>2, <2>1, BookSubmit
  <2>2. CASE \E o \in 1 .. Len(orders) : CancelNow(o) \/ Modify(o)
    BY <2>2, BookAmends
  <2>3. CASE MatchNext
    BY <1>2, <2>3, BookMatches
  <2>4. CASE (\E b \in Bars : ShowBar(b)) \/ ListOrders \/ BarDone
    <3>1. UNCHANGED <<orders, position, cash, fees>>
      BY <2>4 DEF ShowBar, ListOrders, BarDone
    <3>2. lastPrice' \in Int
      <4>1. \A b \in Bars : b.close \in Int
        BY BookAssumption
      <4>2. lastPrice \in Int
        BY DEF BookInv, BookTypes
      <4>3. QED
        BY <2>4, <4>1, <4>2 DEF ShowBar, ListOrders, BarDone
    <3>3. queue' \subseteq 1 .. Len(orders)
      BY <2>4 DEF ShowBar, ListOrders, BarDone, BookInv, BookTypes
    <3>4. \A m \in Int : Earned(orders', m) = Earned(orders, m)
      BY <3>1
    <3>5. QED
      BY <3>1, <3>2, <3>3, <3>4, BooksStay DEF BookInv, BookTypes
  <2>5. QED
    BY <1>2, <2>1, <2>2, <2>3, <2>4 DEF BookNext
<1>3. QED
  BY <1>1, <1>2

\* The books of the paper account balance at every price after any submits,
\* amendments, cancels and bars, for any costs, slippage and prices, as long as
\* the average entries are whole numbers: cash and the marked position are what
\* all fills have earned, less commissions (paper.py:145-178, 282-386).
THEOREM BooksAlwaysBalance == BookSpec /\ [][ExactAverages]_bookVars => []BooksBalance
<1>1. BookInit => BookInv
  BY BookStarts
<1>2. BookInv /\ [BookNext]_bookVars /\ [ExactAverages]_bookVars => BookInv'
  BY BookInvHolds
<1>3. BookInv => BooksBalance
  BY BookAssumption DEF BookInv, BalancesAt, BooksBalance
<1>4. QED
  BY <1>1, <1>2, <1>3, PTL DEF BookSpec
=============================================================================
