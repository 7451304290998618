------------------------ MODULE TradingSession_proofs ------------------------
(***************************************************************************)
(* live/session.py: the session loses sight of no protective leg, and an   *)
(* entry that fills gets its stop, for any number of users and entries,    *)
(* both kinds of account and any failures; on a paper account a trade has  *)
(* one exit and a flatten leaves nothing: see the README.                  *)
(***************************************************************************)
EXTENDS TradingSession, WellFoundedInduction, TLAPS

\* The leg orders a coroutine alone answers for: those it is submitting, the
\* stop it has submitted while the target is out, and those close_position
\* has taken out of the bracket and not canceled yet.
Hands(f) ==
    CASE f.at = "stop" -> {f.order}
      [] f.at = "target" -> {f.order, f.stop}
      [] f.at = "unleg" -> {f.order} \cup f.left
      [] OTHER -> {}

\* Every leg that can act is in the bracket or in some coroutine's hands.
Owned ==
    ~lost => \A o \in Legs : Live(o) =>
        o \in LegsOf(bracket) \/ \E p \in Procs : o \in Hands(co[p])

\* The submit of o has returned.
Was(o) == o \in Orders => status[o] \notin {"none", "sent"}
Went(o) == o \in Orders => status[o] # "none"

FrameOK(f) ==
    /\ f.at = "stop" => "stop" \notin f.legs
    /\ f.at \in {"entry", "ready", "target"} => Was(f.stop)
    /\ f.at \in {"stop", "target"} => Went(f.order)

BracketOK == Was(bracket.stop) /\ Was(bracket.target)

IsFrame(f) == DOMAIN f = DOMAIN Idle

Shapes ==
    /\ status \in [Orders -> OrderStatus]
    /\ DOMAIN meta = Orders
    /\ DOMAIN co = Procs /\ \A p \in Procs : IsFrame(co[p])

LegsInv ==
    /\ Shapes
    /\ \A p \in Procs : FrameOK(co[p])
    /\ BracketOK
    /\ Owned

-----------------------------------------------------------------------------
(* Steps in general.                                                       *)

\* A step of coroutine p, which goes on with frame f.  No leg becomes live but
\* in its hands, and it lets go of none that is live but into the bracket.
LEMMA FrameStep ==
    ASSUME LegsInv, NEW p \in Procs, NEW f, IsFrame(f), co' = [co EXCEPT ![p] = f],
           Shapes', FrameOK(f)', BracketOK', lost => lost',
           \A o \in Orders : Was(o) => Was(o)',
           \A o \in Orders : Went(o) => Went(o)',
           ~lost' => \A o \in Legs' : Live(o)' =>
               \/ o \in Hands(f)
               \/ /\ o \in Legs /\ Live(o)
                  /\ o \in LegsOf(bracket) \cup Hands(co[p]) => o \in LegsOf(bracket') \cup Hands(f)
    PROVE  LegsInv'
<1>1. co'[p] = f /\ \A q \in Procs \ {p} : co'[q] = co[q]
  BY DEF LegsInv, Shapes
<1>2. \A q \in Procs : FrameOK(co[q])'
  <2>1. TAKE q \in Procs
  <2>2. CASE q = p
    BY <1>1, <2>2 DEF FrameOK, Was, Went
  <2>3. CASE q # p
    <3>1. FrameOK(co[q])
      BY DEF LegsInv
    <3>2. co'[q] = co[q]
      BY <1>1, <2>3
    <3>3. QED
      BY <3>1, <3>2 DEF FrameOK, Was, Went
  <2>4. QED
    BY <2>2, <2>3
<1>3. Owned'
  <2>1. SUFFICES ASSUME ~lost', NEW o \in Legs', Live(o)', o \notin Hands(f)
                 PROVE  o \in LegsOf(bracket') \/ \E q \in Procs : o \in Hands(co'[q])
    BY <1>1 DEF Owned
  <2>2. /\ o \in Legs /\ Live(o)
        /\ o \in LegsOf(bracket) \cup Hands(co[p]) => o \in LegsOf(bracket')
    BY <2>1
  <2>3. o \in LegsOf(bracket) \/ \E q \in Procs : o \in Hands(co[q])
    BY <2>1, <2>2 DEF LegsInv, Owned
  <2>4. QED
    BY <1>1, <2>2, <2>3
<1>4. QED
  BY <1>2, <1>3 DEF LegsInv

\* A step that leaves the coroutines and the bracket, or wakes a free task.
LEMMA QuietStep ==
    ASSUME LegsInv, Shapes', lost' = lost, UNCHANGED meta,
           NEW f, IsFrame(f), f.at \in {"idle", "ready"}, f.stop = NoOrder,
           \/ UNCHANGED co
           \/ \E t \in FreeSlots : co' = [co EXCEPT ![t] = f],
           \A o \in Orders : Was(o) => Was(o)',
           \A o \in Orders : Went(o) => Went(o)',
           \A o \in Orders : Live(o)' => Live(o),
           \/ UNCHANGED bracket
           \/ bracket' = Bare /\ \A o \in LegsOf(bracket) \cap Orders : ~Live(o)'
    PROVE  LegsInv'
<1>1. BracketOK'
  <2>1. NoOrder \notin Orders
    BY OrderAssumption
  <2>2. CASE UNCHANGED bracket
    BY <2>2 DEF LegsInv, BracketOK, Was
  <2>3. CASE bracket' = Bare
    BY <2>1, <2>3 DEF BracketOK, Was, Bare
  <2>4. QED
    BY <2>2, <2>3
<1>2. Legs' = Legs
  BY DEF Legs
<1>3. ASSUME NEW o \in Orders, Live(o)', o \in LegsOf(bracket) PROVE o \in LegsOf(bracket')
  BY <1>3
<1>4. CASE UNCHANGED co
  <2>1. \A p \in Procs : FrameOK(co[p])'
    BY <1>4 DEF LegsInv, FrameOK, Was, Went
  <2>2. Owned'
    <3>1. SUFFICES ASSUME ~lost', NEW o \in Legs, Live(o)'
                   PROVE  o \in LegsOf(bracket') \/ \E q \in Procs : o \in Hands(co[q])
      BY <1>2, <1>4 DEF Owned
    <3>2. o \in Orders
      BY DEF Legs
    <3>3. Live(o)
      BY <3>1, <3>2
    <3>4. QED
      BY <1>3, <3>1, <3>2, <3>3 DEF LegsInv, Owned
  <2>3. QED
    BY <1>1, <2>1, <2>2 DEF LegsInv
<1>5. ASSUME NEW t \in FreeSlots, co' = [co EXCEPT ![t] = f] PROVE LegsInv'
  <2>1. t \in Procs /\ Hands(co[t]) = {}
    BY <1>5 DEF FreeSlots, Procs, Hands
  <2>2. FrameOK(f)'
    BY OrderAssumption DEF FrameOK, Was
  <2>3. \A o \in Legs' : Live(o)' =>
          /\ o \in Legs /\ Live(o)
          /\ o \in LegsOf(bracket) \cup Hands(co[t]) => o \in LegsOf(bracket')
    BY <1>2, <1>3, <2>1 DEF Legs
  <2>4. QED
    BY <1>1, <1>5, <2>1, <2>2, <2>3, FrameStep
<1>6. QED
  BY <1>4, <1>5

-----------------------------------------------------------------------------
(* The account.                                                            *)

\* The callbacks wake at most one task, and empty the bracket only for its
\* last leg, or for a leg that has filled at PaperEngine.
LEMMA HeardIs ==
    ASSUME NEW o, NEW s
    PROVE  /\ IsFrame(Heard(o, s).task) /\ Heard(o, s).task.stop = NoOrder
           /\ Heard(o, s).task.at \in {"idle", "ready"}
           /\ \/ Heard(o, s).bracket = bracket
              \/ /\ Heard(o, s).bracket = Bare
                 /\ running /\ o \in LegsOf(bracket)
                 /\ \/ LegsOf(bracket) = {o}
                    \/ Synchronous /\ s = "filled" /\ pending # o
<1> DEFINE b == [pending |-> IF pending = o THEN NoOrder ELSE pending,
                 bracket |-> bracket, winner |-> winner, halted |-> halted, task |-> Idle]
           leg == o \in LegsOf(bracket)
           sib == IF o = bracket.stop THEN bracket.target ELSE bracket.stop
           oco == [Idle EXCEPT !.at = "ready", !.op = "oco", !.order = sib]
           att == [Idle EXCEPT !.at = "ready", !.op = "attach", !.entry = o, !.legs = meta[o].legs]
<1>1. \A g \in {Idle, oco, att} : IsFrame(g) /\ g.stop = NoOrder /\ g.at \in {"idle", "ready"}
  <2>1. IsFrame(Idle) /\ Idle.stop = NoOrder /\ Idle.at = "idle"
    BY DEF Idle, IsFrame
  <2>2. IsFrame(oco) /\ oco.stop = NoOrder /\ oco.at = "ready"
    BY DEF Idle, IsFrame
  <2>3. IsFrame(att) /\ att.stop = NoOrder /\ att.at = "ready"
    BY DEF Idle, IsFrame
  <2>4. QED
    BY <2>1, <2>2, <2>3
<1>2. leg /\ sib = NoOrder => LegsOf(bracket) = {o}
  BY DEF LegsOf
<1>3. CASE ~running
  <2>1. Heard(o, s) = [b EXCEPT !.pending = pending]
    BY <1>3 DEF Heard
  <2>2. QED
    BY <1>1, <2>1
<1>4. CASE running /\ s = "filled" /\ pending = o
  <2>1. Heard(o, s) = [b EXCEPT !.task = att]
    BY <1>4 DEF Heard
  <2>2. QED
    BY <1>1, <2>1
<1>5. CASE running /\ s = "filled" /\ pending # o /\ leg
  <2>1. Heard(o, s) =
           IF sib = NoOrder \/ Synchronous
           THEN [b EXCEPT !.bracket = Bare, !.winner = NoOrder]
           ELSE [b EXCEPT !.winner = IF winner = NoOrder THEN sib ELSE winner, !.task = oco]
    BY <1>5 DEF Heard
  <2>2. QED
    BY <1>1, <1>2, <1>5, <2>1
<1>6. CASE running /\ s # "filled" /\ leg /\ winner = NoOrder
  <2>1. Heard(o, s) =
           IF sib = NoOrder
           THEN [b EXCEPT !.halted = TRUE, !.bracket = Bare]
           ELSE [b EXCEPT !.halted = TRUE, !.winner = sib, !.task = oco]
    BY <1>6 DEF Heard
  <2>2. QED
    BY <1>1, <1>2, <1>6, <2>1
<1>7. CASE running /\ (s = "filled" => pending # o /\ ~leg)
           /\ (s # "filled" => ~(leg /\ winner = NoOrder))
  <2>1. Heard(o, s) = b
    BY <1>7 DEF Heard
  <2>2. QED
    BY <1>1, <2>1
<1>8. QED
  BY <1>3, <1>4, <1>5, <1>6, <1>7

\* The callbacks run about order o, which is over.
LEMMA TellsStep ==
    ASSUME LegsInv, NEW o, NEW s, Tells(Heard(o, s)),
           status' \in [Orders -> OrderStatus],
           \A x \in Orders : Was(x) => Was(x)',
           \A x \in Orders : Went(x) => Went(x)',
           \A x \in Orders : Live(x)' => Live(x),
           o \in Orders => ~Live(o)',
           Synchronous /\ s = "filled" /\ running /\ pending # o /\ o \in LegsOf(bracket)
              => \A x \in LegsOf(bracket) \cap Orders : ~Live(x)'
    PROVE  LegsInv'
<1> DEFINE h == Heard(o, s)
<1>1. /\ IsFrame(h.task) /\ h.task.stop = NoOrder /\ h.task.at \in {"idle", "ready"}
      /\ \/ h.bracket = bracket
         \/ /\ h.bracket = Bare
            /\ running /\ o \in LegsOf(bracket)
            /\ \/ LegsOf(bracket) = {o}
               \/ Synchronous /\ s = "filled" /\ pending # o
  BY HeardIs
<1>2. /\ bracket' = h.bracket /\ UNCHANGED <<meta, lost>>
      /\ UNCHANGED co \/ \E t \in FreeSlots : co' = [co EXCEPT ![t] = h.task]
  <2>1. FreeSlots # {} => (CHOOSE x \in FreeSlots : TRUE) \in FreeSlots
    OBVIOUS
  <2>2. QED
    BY <2>1 DEF Tells
<1> HIDE DEF h
<1>3. UNCHANGED bracket \/ (bracket' = Bare /\ \A x \in LegsOf(bracket) \cap Orders : ~Live(x)')
  BY <1>1, <1>2
<1>4. Shapes'
  <2>1. DOMAIN co' = Procs /\ \A p \in Procs : IsFrame(co'[p])
    BY <1>1, <1>2 DEF LegsInv, Shapes, FreeSlots, Procs
  <2>2. DOMAIN meta' = Orders
    BY <1>2 DEF LegsInv, Shapes
  <2>3. QED
    BY <2>1, <2>2 DEF Shapes, IsFrame
<1>5. QED
  BY <1>1, <1>2, <1>3, <1>4, QuietStep

\* An order that was sent or working goes on, or is over.
LEMMA MovesStep ==
    ASSUME LegsInv, NEW o, status[o] \in {"sent", "working"},
           NEW s \in {"working", "filled", "canceled", "rejected"},
           Moves(o, s)
    PROVE  LegsInv'
<1> DEFINE sib  == IF o = bracket.stop THEN bracket.target ELSE bracket.stop
           gone == IF /\ Synchronous /\ running /\ s = "filled"
                      /\ pending # o /\ o \in LegsOf(bracket)
                   THEN {x \in {sib} \ {NoOrder} : status[x] = "working"} ELSE {}
<1>1. status' = [x \in Orders |-> IF x = o THEN s
                                  ELSE IF x \in gone THEN "canceled" ELSE status[x]]
  BY DEF Moves
<1>2. /\ status \in [Orders -> OrderStatus]
      /\ \A x \in gone : status[x] = "working"
  BY DEF LegsInv, Shapes
<1>3. status' \in [Orders -> OrderStatus]
  <2>1. s \in OrderStatus /\ "canceled" \in OrderStatus
    BY DEF OrderStatus, Done
  <2>2. QED
    BY <1>1, <1>2, <2>1
<1>4. /\ \A x \in Orders : Was(x) => Was(x)'
      /\ \A x \in Orders : Went(x) => Went(x)'
      /\ \A x \in Orders : Live(x)' => Live(x)
  BY <1>1, <1>2 DEF Was, Went, Live
<1>5. CASE Synchronous /\ s \in Done
  <2>1. Tells(Heard(o, s))
    BY <1>5 DEF Moves
  <2>2. o \in Orders => ~Live(o)'
    BY <1>1, <1>5 DEF Live, Done
  <2>3. ASSUME Synchronous, s = "filled", running, pending # o, o \in LegsOf(bracket),
               NEW x \in LegsOf(bracket) \cap Orders
        PROVE  ~Live(x)'
    <3>1. x = o \/ x = sib
      BY <2>3 DEF LegsOf
    <3>2. CASE x = o
      BY <2>2, <3>2
    <3>3. CASE x # o
      <4>1. x = sib /\ x # NoOrder
        BY <3>1, <3>3, OrderAssumption
      <4>2. status[x] \notin {"none", "sent"}
        BY <2>3, <4>1 DEF LegsInv, BracketOK, Was, LegsOf
      <4>3. status'[x] = IF x \in gone THEN "canceled" ELSE status[x]
        BY <1>1, <3>3
      <4>4. status[x] = "working" => x \in gone
        BY <2>3, <4>1
      <4>5. QED
        BY <4>2, <4>3, <4>4 DEF Live
    <3>4. QED
      BY <3>2, <3>3
  <2>4. QED
    BY <1>3, <1>4, <2>1, <2>2, <2>3, TellsStep
<1>6. CASE ~(Synchronous /\ s \in Done)
  <2>1. UNCHANGED <<sessionVars, co, lost>>
    BY <1>6 DEF Moves
  <2>2. UNCHANGED <<bracket, meta, co, lost>>
    BY <2>1 DEF sessionVars
  <2>3. Shapes'
    BY <1>3, <2>2 DEF LegsInv, Shapes, IsFrame
  <2>4. IsFrame(Idle) /\ Idle.at = "idle" /\ Idle.stop = NoOrder
    BY DEF Idle, IsFrame
  <2>5. QED
    BY <1>4, <2>2, <2>3, <2>4, QuietStep
<1>7. QED
  BY <1>5, <1>6

LEMMA AccountStep ==
    ASSUME LegsInv,
           \/ \E o \in Orders : \/ AccountAnswers(o) \/ AccountFills(o)
                                \/ AccountDrops(o) \/ AccountTells(o)
           \/ \E p \in Procs : CancelActs(p)
    PROVE  LegsInv'
<1>1. CASE \E p \in Procs : CancelActs(p)
  <2>1. PICK p \in Procs : CancelActs(p)
    BY <1>1
  <2>2. PICK o : o = co[p].order
    OBVIOUS
  <2>3. status[o] = "working" /\ Moves(o, "canceled")
    BY <2>1, <2>2 DEF CancelActs
  <2>4. QED
    BY <2>3, MovesStep
<1>2. ASSUME NEW o \in Orders, AccountAnswers(o) \/ AccountFills(o) \/ AccountDrops(o)
      PROVE  LegsInv'
  <2>1. Answers(o) \subseteq {"working", "filled", "canceled", "rejected"}
    BY DEF Answers
  <2>2. QED
    BY <1>2, <2>1, MovesStep DEF AccountAnswers, AccountFills, AccountDrops
<1>3. ASSUME NEW o \in Orders, AccountTells(o) PROVE LegsInv'
  <2>1. /\ status[o] \in Done /\ UNCHANGED status /\ ~Synchronous
        /\ Tells(Heard(o, status[o]))
    BY <1>3 DEF AccountTells, Tell
  <2>2. ~Live(o)'
    BY <2>1 DEF Live, Done
  <2>3. /\ \A x \in Orders : Was(x) => Was(x)'
        /\ \A x \in Orders : Went(x) => Went(x)'
        /\ \A x \in Orders : Live(x)' => Live(x)
        /\ status' \in [Orders -> OrderStatus]
    BY <2>1 DEF Was, Went, Live, LegsInv, Shapes
  <2>4. QED
    BY <2>1, <2>2, <2>3, TellsStep
<1>4. QED
  BY <1>1, <1>2, <1>3

-----------------------------------------------------------------------------
(* What the steps of the coroutines are made of.                           *)

\* No order is new, and none comes back to life.
NoneNew ==
    /\ UNCHANGED meta
    /\ status' \in [Orders -> OrderStatus]
    /\ \A o \in Orders : Was(o) => Was(o)'
    /\ \A o \in Orders : Went(o) => Went(o)'
    /\ \A o \in Orders : Live(o)' => Live(o)

LEMMA AccountRests ==
    ASSUME LegsInv, UNCHANGED accountVars, UNCHANGED meta
    PROVE  NoneNew /\ UNCHANGED status
BY DEF LegsInv, Shapes, NoneNew, accountVars, Was, Went, Live

\* A submit that failed on its way out leaves no live order.
LEMMA NeverArrived ==
    ASSUME LegsInv, NEW o, NeverArrives(o), UNCHANGED meta
    PROVE  NoneNew /\ (o \in Orders => ~Live(o)')
<1>1. status \in [Orders -> OrderStatus] /\ status' = [status EXCEPT ![o] = "rejected"]
      /\ status[o] = "sent"
  BY DEF LegsInv, Shapes, NeverArrives
<1>2. status' \in [Orders -> OrderStatus]
  BY <1>1 DEF OrderStatus, Done
<1>3. \A x \in Orders : status'[x] = IF x = o THEN "rejected" ELSE status[x]
  BY <1>1
<1>4. QED
  BY <1>1, <1>2, <1>3 DEF NoneNew, Was, Went, Live

\* A coroutine goes on to frame f without a submit call.
LEMMA GoesOn ==
    ASSUME LegsInv, NEW p \in Procs, NEW f, IsFrame(f), Stays(p, f),
           f.at \notin {"entry", "ready", "stop", "target"},
           NoneNew, BracketOK', lost => lost',
           ~lost' => \A o \in Orders : Live(o)' =>
               (o \in LegsOf(bracket) \cup Hands(co[p]) => o \in LegsOf(bracket') \cup Hands(f))
    PROVE  LegsInv'
<1>1. co' = [co EXCEPT ![p] = f]
  BY DEF Stays
<1>2. Shapes'
  BY <1>1 DEF LegsInv, Shapes, NoneNew, IsFrame
<1>3. FrameOK(f)'
  BY DEF FrameOK
<1>4. Legs' = Legs /\ Legs \subseteq Orders
  BY DEF Legs, NoneNew
<1>5. \A o \in Orders : Was(o) => Was(o)'
  BY DEF NoneNew
<1>6. \A o \in Orders : Went(o) => Went(o)'
  BY DEF NoneNew
<1>7. \A o \in Orders : Live(o)' => Live(o)
  BY DEF NoneNew
<1>8. ~lost' => \A o \in Legs' : Live(o)' =>
               \/ o \in Hands(f)
               \/ /\ o \in Legs /\ Live(o)
                  /\ o \in LegsOf(bracket) \cup Hands(co[p]) => o \in LegsOf(bracket') \cup Hands(f)
  BY <1>4, <1>7
<1>9. QED
  BY <1>1, <1>2, <1>3, <1>5, <1>6, <1>8, FrameStep

\* Coroutine p goes on with no leg in its hands, and not to a new bar.
EmptyHanded(p) ==
    \E f : /\ IsFrame(f) /\ Stays(p, f)
          /\ f.at \notin {"entry", "ready", "stop", "target", "unleg", "bar"}

LEMMA Leaves ==
    ASSUME LegsInv, NEW p \in Procs, EmptyHanded(p), NoneNew, BracketOK', lost => lost',
           ~lost' => \A o \in Orders : Live(o)' =>
               (o \in LegsOf(bracket) \cup Hands(co[p]) => o \in LegsOf(bracket'))
    PROVE  LegsInv'
<1>1. PICK f : /\ IsFrame(f) /\ Stays(p, f)
               /\ f.at \notin {"entry", "ready", "stop", "target", "unleg", "bar"}
  BY DEF EmptyHanded
<1>2. Hands(f) = {}
  BY <1>1 DEF Hands
<1>3. QED
  BY <1>1, <1>2, GoesOn

\* The bracket stays, and what was in hand is over or known to be lost.
LEMMA Passes ==
    ASSUME LegsInv, NEW p \in Procs, EmptyHanded(p), NoneNew, UNCHANGED bracket, lost => lost',
           ~lost' => \A o \in Orders \cap Hands(co[p]) : ~Live(o)'
    PROVE  LegsInv'
<1>1. BracketOK'
  BY DEF LegsInv, BracketOK, NoneNew, Was
<1>2. QED
  BY <1>1, Leaves

\* The bracket goes, and what it named is over, lost or named by the new one.
LEMMA Replaces ==
    ASSUME LegsInv, NEW p \in Procs, EmptyHanded(p), UNCHANGED <<status, meta>>,
           BracketOK', lost => lost',
           ~lost' => \A o \in Orders : Live(o) =>
               (o \in LegsOf(bracket) \cup Hands(co[p]) => o \in LegsOf(bracket'))
    PROVE  LegsInv'
<1>1. NoneNew /\ \A o : Live(o)' <=> Live(o)
  BY DEF LegsInv, Shapes, NoneNew, Was, Went, Live
<1>2. QED
  BY <1>1, Leaves

LEMMA RaisesIs ==
    ASSUME NEW p \in Procs, Raises(p)
    PROVE  EmptyHanded(p)
<1>1. PICK f : /\ f = IF p \in Tasks THEN [Idle EXCEPT !.at = "failed"] ELSE Idle
               /\ Stays(p, f)
  BY DEF Raises
<1>2. QED
  BY <1>1 DEF EmptyHanded, IsFrame, Idle

LEMMA RefreshingIs ==
    ASSUME NEW p \in Procs, NEW f, IsFrame(f), Stays(p, Refreshing(f))
    PROVE  EmptyHanded(p)
<1>1. PICK g : g = Refreshing(f) /\ Stays(p, g)
  OBVIOUS
<1>2. IsFrame(g) /\ g.at = "drain"
  BY <1>1 DEF Refreshing, IsFrame, Idle
<1>3. QED
  BY <1>1, <1>2 DEF EmptyHanded

LEMMA FinishesIs ==
    ASSUME LegsInv, NEW p \in Procs, Finishes(p)
    PROVE  EmptyHanded(p)
<1>1. IsFrame(co[p]) /\ IsFrame(Idle) /\ Idle.at = "idle"
  BY DEF LegsInv, Shapes, IsFrame, Idle
<1>2. PICK f : /\ f = [co[p] EXCEPT !.at = "open"] \/ f = Idle
               /\ Stays(p, f)
  BY DEF Finishes
<1>3. QED
  BY <1>1, <1>2 DEF EmptyHanded, IsFrame, Idle

\* The call of submit_order for a new client id.
LEMMA Sent ==
    ASSUME LegsInv, NEW o, NEW d, NEW m, NEW kind, NEW parent, NEW legs,
           Sends(o, d, m, kind, parent, legs)
    PROVE  /\ status' \in [Orders -> OrderStatus] /\ DOMAIN meta' = Orders
           /\ \A x \in Orders : Was(x) => Was(x)'
           /\ \A x \in Orders : Went(x) => Went(x)'
           /\ Went(o)'
           /\ \A x \in Legs' : Live(x)' =>
                  \/ x = o /\ kind \in {"stop", "target"}
                  \/ x \in Legs /\ Live(x)
<1>1. /\ status \in [Orders -> OrderStatus] /\ DOMAIN meta = Orders
      /\ status[o] = "none" /\ status' = [status EXCEPT ![o] = "sent"]
      /\ meta' = [meta EXCEPT ![o] = [kind |-> kind, parent |-> parent, legs |-> legs]]
  BY DEF LegsInv, Shapes, Sends, Send
<1>2. status' \in [Orders -> OrderStatus]
  BY <1>1 DEF OrderStatus
<1>3. \A x \in Orders : status'[x] = IF x = o THEN "sent" ELSE status[x]
  BY <1>1
<1>4. \A x \in Orders :
          meta'[x] = IF x = o THEN [kind |-> kind, parent |-> parent, legs |-> legs] ELSE meta[x]
  BY <1>1
<1>5. ASSUME NEW x \in Legs', Live(x)', x # o PROVE x \in Legs /\ Live(x)
  BY <1>3, <1>4, <1>5 DEF Legs, Live
<1>6. ASSUME NEW x \in Legs', x = o PROVE kind \in {"stop", "target"}
  <2>1. x \in Orders /\ meta'[x].kind \in {"stop", "target"}
    BY DEF Legs
  <2>2. QED
    BY <1>4, <1>6, <2>1
<1>7. /\ \A x \in Orders : Was(x) => Was(x)'
      /\ \A x \in Orders : Went(x) => Went(x)'
      /\ Went(o)'
  BY <1>1, <1>3 DEF Was, Went
<1>8. QED
  BY <1>1, <1>2, <1>5, <1>6, <1>7

\* The call that submits an entry or a close.
LEMMA SendsNoLeg ==
    ASSUME LegsInv, NEW p \in Procs, NEW f, IsFrame(f), Stays(p, f), f.at \in {"entry", "close"},
           f.at = "entry" => f.stop = NoOrder,
           NEW o, NEW d, NEW m, NEW kind \in {"entry", "close"}, NEW parent, NEW legs,
           Sends(o, d, m, kind, parent, legs),
           lost' = lost, BracketOK',
           ~lost => \A x \in Orders : Live(x) =>
               (x \in LegsOf(bracket) \cup Hands(co[p]) => x \in LegsOf(bracket'))
    PROVE  LegsInv'
<1>1. /\ status' \in [Orders -> OrderStatus] /\ DOMAIN meta' = Orders
      /\ \A x \in Orders : Was(x) => Was(x)'
      /\ \A x \in Orders : Went(x) => Went(x)'
      /\ \A x \in Legs' : Live(x)' => x \in Legs /\ Live(x)
  BY Sent
<1>2. co' = [co EXCEPT ![p] = f]
  BY DEF Stays
<1>3. Shapes'
  BY <1>1, <1>2 DEF LegsInv, Shapes, IsFrame
<1>4. FrameOK(f)'
  BY OrderAssumption DEF FrameOK, Was
<1>5. ~lost' => \A x \in Legs' : Live(x)' =>
          /\ x \in Legs /\ Live(x)
          /\ x \in LegsOf(bracket) \cup Hands(co[p]) => x \in LegsOf(bracket')
  BY <1>1 DEF Legs
<1>6. QED
  BY <1>1, <1>2, <1>3, <1>4, <1>5, FrameStep

\* The call that submits a leg: it is in hand, with the stop before it.
LEMMA SendsLeg ==
    ASSUME LegsInv, NEW p \in Procs, NEW f, IsFrame(f), NEW e, NEW legs,
           SubmitsLeg(p, f, e, legs), UNCHANGED <<bracket, lost>>,
           Was(f.stop),
           ~lost => \A x \in Orders \cap Hands(co[p]) :
                        Live(x) => x = f.stop /\ "stop" \notin legs
    PROVE  LegsInv'
<1>1. PICK k, n, d, none, g :
          /\ k = (IF "stop" \in legs THEN "stop" ELSE "target")
          /\ n = seq + 1 /\ d = -side[e] /\ none = {}
          /\ g = [f EXCEPT !.at = k, !.order = n, !.entry = e, !.legs = legs \ {k}]
          /\ Sends(n, d, FALSE, k, e, none) /\ Stays(p, g)
  BY DEF SubmitsLeg
<1>2. /\ g.at = k /\ g.order = n /\ g.legs = legs \ {k} /\ g.stop = f.stop /\ IsFrame(g)
  BY <1>1 DEF IsFrame, Idle
<1>3. k \in {"stop", "target"} /\ (k = "target" => "stop" \notin legs)
      /\ ("stop" \notin legs => k = "target")
  BY <1>1
<1>4. /\ status' \in [Orders -> OrderStatus] /\ DOMAIN meta' = Orders
      /\ \A x \in Orders : Was(x) => Was(x)'
      /\ \A x \in Orders : Went(x) => Went(x)'
      /\ Went(n)'
      /\ \A x \in Legs' : Live(x)' => x = n \/ (x \in Legs /\ Live(x))
  BY <1>1, Sent
<1>5. co' = [co EXCEPT ![p] = g]
  BY <1>1 DEF Stays
<1>6. Shapes'
  BY <1>2, <1>4, <1>5 DEF LegsInv, Shapes, IsFrame
<1>7. BracketOK' /\ Was(f.stop)'
  BY <1>4 DEF LegsInv, BracketOK, Was
<1>8. FrameOK(g)'
  BY <1>2, <1>3, <1>4, <1>7 DEF FrameOK, Was, Went
<1>9. n \in Hands(g) /\ ("stop" \notin legs => f.stop \in Hands(g))
  BY <1>2, <1>3 DEF Hands
<1>10. ~lost' => \A x \in Legs' : Live(x)' =>
               \/ x \in Hands(g)
               \/ /\ x \in Legs /\ Live(x)
                  /\ x \in LegsOf(bracket) \cup Hands(co[p]) => x \in LegsOf(bracket') \cup Hands(g)
  BY <1>4, <1>9 DEF Legs
<1>11. QED
  BY <1>2, <1>4, <1>5, <1>6, <1>7, <1>8, <1>10, FrameStep

-----------------------------------------------------------------------------
(* One lemma for each operation.                                           *)

\* The coroutine's frame, with what the invariant says of it.
LEMMA FrameIs ==
    ASSUME LegsInv, NEW p \in Procs
    PROVE  /\ IsFrame(co[p]) /\ FrameOK(co[p])
           /\ co[p].at \notin {"stop", "target", "unleg"} => Hands(co[p]) = {}
BY DEF LegsInv, Shapes, Hands

LEMMA PlaceOrderStep ==
    ASSUME LegsInv, NEW p \in Procs, PlaceOrder(p)
    PROVE  LegsInv'
<1>1. PICK d, m, legs, n, f :
          /\ n = seq + 1
          /\ f = [Idle EXCEPT !.at = "entry", !.op = "place", !.order = n]
          /\ Sends(n, d, m, "entry", NoOrder, legs) /\ Stays(p, f)
  BY DEF PlaceOrder
<1>2. IsFrame(f) /\ f.at = "entry" /\ f.stop = NoOrder
  BY <1>1 DEF IsFrame, Idle
<1>3. UNCHANGED <<bracket, lost>> /\ Hands(co[p]) = {}
  BY FrameIs DEF PlaceOrder
<1>4. BracketOK'
  BY <1>1, <1>3, Sent DEF LegsInv, BracketOK, Was
<1>5. QED
  BY <1>1, <1>2, <1>3, <1>4, SendsNoLeg

LEMMA EntryReturnsStep ==
    ASSUME LegsInv, NEW p \in Procs, EntryReturns(p)
    PROVE  LegsInv'
<1>1. co[p].at = "entry" /\ Hands(co[p]) = {} /\ IsFrame(co[p]) /\ Was(co[p].stop)
  BY FrameIs DEF EntryReturns, FrameOK
<1>2. CASE \E e, legs : SubmitsLeg(p, co[p], e, legs) /\ UNCHANGED lost
  <2>1. PICK e, legs, f : SubmitsLeg(p, f, e, legs) /\ f = co[p]
    BY <1>2
  <2>2. UNCHANGED <<bracket, lost>>
    BY <1>2 DEF EntryReturns
  <2>3. QED
    BY <1>1, <2>1, <2>2, SendsLeg
<1>3. CASE Stays(p, Refreshing(co[p])) /\ UNCHANGED <<accountVars, meta>> /\ (lost => lost')
  <2>1. EmptyHanded(p)
    BY <1>1, <1>3, RefreshingIs
  <2>2. UNCHANGED bracket
    BY DEF EntryReturns
  <2>3. QED
    BY <1>1, <1>3, <2>1, <2>2, AccountRests, Passes
<1>4. QED
  BY <1>2, <1>3 DEF EntryReturns

\* The submit of an entry or a close raises.
LEMMA SubmitFailsStep ==
    ASSUME LegsInv, NEW p \in Procs, EntryFails(p) \/ CloseFails(p)
    PROVE  LegsInv'
<1>1. /\ co[p].at \in {"entry", "close"} /\ Raises(p) /\ UNCHANGED <<bracket, meta, lost>>
      /\ NeverArrives(co[p].order) \/ UNCHANGED accountVars
  BY DEF EntryFails, CloseFails
<1>2. NoneNew
  BY <1>1, AccountRests, NeverArrived
<1>3. QED
  BY <1>1, <1>2, FrameIs, RaisesIs, Passes

LEMMA AttachBeginsStep ==
    ASSUME LegsInv, NEW p \in Procs, AttachBegins(p)
    PROVE  LegsInv'
<1>1. /\ Hands(co[p]) = {} /\ IsFrame(co[p]) /\ Was(co[p].stop)
      /\ SubmitsLeg(p, co[p], co[p].entry, co[p].legs) /\ UNCHANGED <<bracket, lost>>
  BY FrameIs DEF AttachBegins, FrameOK
<1>2. PICK e, legs, f : SubmitsLeg(p, f, e, legs) /\ f = co[p]
  BY <1>1
<1>3. QED
  BY <1>1, <1>2, SendsLeg

LEMMA AttachesIs ==
    ASSUME LegsInv, NEW p \in Procs, NEW b, Attaches(p, b)
    PROVE  EmptyHanded(p)
<1>1. CASE p \in Tasks
  <2>1. PICK f : f = [Idle EXCEPT !.at = "done"] /\ Stays(p, f)
    BY <1>1 DEF Attaches
  <2>2. QED
    BY <2>1 DEF EmptyHanded, IsFrame, Idle
<1>2. CASE p \notin Tasks
  BY <1>2, FrameIs, RefreshingIs DEF Attaches
<1>3. QED
  BY <1>1, <1>2

LEMMA AttachesStep ==
    ASSUME LegsInv, NEW p \in Procs, NEW b, Attaches(p, b), Was(b.stop), Was(b.target),
           UNCHANGED <<accountVars, meta>>,
           Hands(co[p]) \cap Orders \subseteq LegsOf(b)
    PROVE  LegsInv'
<1>1. bracket' = b /\ lost' = (lost \/ Forgets(LegsOf(bracket) \ LegsOf(b)))
  BY DEF Attaches
<1>2. EmptyHanded(p)
  BY AttachesIs
<1>3. UNCHANGED <<status, meta>>
  BY DEF accountVars
<1>4. BracketOK'
  BY <1>1, <1>3 DEF BracketOK, Was
<1>5. ASSUME NEW o \in Orders, ~lost', Live(o), o \in LegsOf(bracket) \cup Hands(co[p])
      PROVE  o \in LegsOf(bracket')
  <2>1. o \in LegsOf(bracket) => o \in LegsOf(b)
    BY <1>1, <1>5 DEF Forgets
  <2>2. QED
    BY <1>1, <1>5, <2>1
<1>6. lost => lost'
  BY <1>1
<1>7. QED
  BY <1>2, <1>3, <1>4, <1>5, <1>6, Replaces

LEMMA StopReturnsStep ==
    ASSUME LegsInv, NEW p \in Procs, StopReturns(p)
    PROVE  LegsInv'
<1>1. PICK o, f, none : o = co[p].order /\ f = [co[p] EXCEPT !.stop = o] /\ none = [Bare EXCEPT !.stop = o]
  OBVIOUS
<1>2. /\ co[p].at = "stop" /\ status[o] # "sent" /\ Hands(co[p]) = {o}
      /\ IsFrame(co[p]) /\ "stop" \notin co[p].legs /\ Went(o)
  BY <1>1, FrameIs DEF StopReturns, FrameOK, Hands
<1>3. IsFrame(f) /\ f.stop = o /\ f.legs = co[p].legs
  BY <1>1, <1>2 DEF IsFrame, Idle
<1>4. Was(o)
  BY <1>2 DEF Was, Went
<1>5. PICK r \in Receipts(o) :
          \/ /\ r = "rejected" /\ Raises(p)
             /\ UNCHANGED <<accountVars, meta, bracket, lost>>
          \/ /\ r # "rejected"
             /\ SubmitsLeg(p, f, f.entry, f.legs)
             /\ UNCHANGED <<bracket, lost>>
          \/ /\ r # "rejected"
             /\ Attaches(p, none)
             /\ UNCHANGED <<accountVars, meta>>
  BY <1>1 DEF StopReturns
<1>6. CASE r = "rejected" /\ Raises(p) /\ UNCHANGED <<accountVars, meta, bracket, lost>>
  <2>1. status[o] = "rejected"
    BY <1>6 DEF Receipts
  <2>2. NoneNew /\ UNCHANGED status
    BY <1>6, AccountRests
  <2>3. ~Live(o)'
    BY <2>1, <2>2 DEF Live
  <2>4. QED
    BY <1>2, <1>6, <2>2, <2>3, RaisesIs, Passes
<1>7. CASE SubmitsLeg(p, f, f.entry, f.legs) /\ UNCHANGED <<bracket, lost>>
  <2>1. PICK e, legs : e = f.entry /\ legs = f.legs /\ SubmitsLeg(p, f, e, legs)
    BY <1>7
  <2>2. QED
    BY <1>2, <1>3, <1>4, <1>7, <2>1, SendsLeg
<1>8. CASE Attaches(p, none) /\ UNCHANGED <<accountVars, meta>>
  <2>1. none.stop = o /\ none.target = NoOrder
    BY <1>1 DEF Bare
  <2>2. Was(none.stop) /\ Was(none.target) /\ Orders \cap {o} \subseteq LegsOf(none)
    BY <1>4, <2>1, OrderAssumption DEF Was, LegsOf
  <2>3. QED
    BY <1>2, <1>8, <2>2, AttachesStep
<1>9. QED
  BY <1>5, <1>6, <1>7, <1>8

LEMMA StopFailsStep ==
    ASSUME LegsInv, NEW p \in Procs, StopFails(p)
    PROVE  LegsInv'
<1>1. /\ Hands(co[p]) = {co[p].order} /\ Raises(p) /\ UNCHANGED <<bracket, meta>>
      /\ \/ NeverArrives(co[p].order) /\ UNCHANGED lost
         \/ UNCHANGED accountVars /\ lost' = TRUE
  BY DEF StopFails, Hands
<1>2. NoneNew
  BY <1>1, AccountRests, NeverArrived
<1>3. /\ lost => lost'
      /\ ~lost' => \A o \in Orders \cap Hands(co[p]) : ~Live(o)'
  <2>1. CASE lost' = TRUE
    BY <2>1
  <2>2. CASE NeverArrives(co[p].order) /\ UNCHANGED lost
    BY <1>1, <2>2, NeverArrived
  <2>3. QED
    BY <1>1, <2>1, <2>2
<1>4. QED
  BY <1>1, <1>2, <1>3, RaisesIs, Passes

LEMMA CompensatesIs ==
    ASSUME LegsInv, NEW p \in Procs, Compensates(p)
    PROVE  EmptyHanded(p)
<1>1. IsFrame(co[p])
  BY FrameIs
<1>2. CASE co[p].stop = NoOrder
  BY <1>2, RaisesIs DEF Compensates
<1>3. CASE co[p].stop # NoOrder
  <2>1. PICK f : f = [co[p] EXCEPT !.at = "undo", !.order = co[p].stop] /\ Stays(p, f)
    BY <1>3 DEF Compensates
  <2>2. IsFrame(f) /\ f.at = "undo"
    BY <1>1, <2>1 DEF IsFrame, Idle
  <2>3. QED
    BY <2>1, <2>2 DEF EmptyHanded
<1>4. QED
  BY <1>2, <1>3

LEMMA CompensatesStep ==
    ASSUME LegsInv, NEW p \in Procs, co[p].at = "target", Compensates(p), NoneNew, lost => lost',
           NEW o, o = co[p].order, NEW s, s = co[p].stop,
           ~lost' => (o \in Orders => ~Live(o)'),
           ~lost' => (s # NoOrder => \A x \in Orders \cap (LegsOf(bracket) \ {s}) : ~Live(x)')
    PROVE  LegsInv'
<1>2. IsFrame(co[p]) /\ Was(s) /\ Hands(co[p]) = {o, s}
  BY FrameIs DEF FrameOK, Hands
<1>3. ~lost' => (o \in Orders => ~Live(o)')
  OBVIOUS
<1>4. CASE s = NoOrder
  <2>1. Raises(p) /\ UNCHANGED bracket
    BY <1>4 DEF Compensates
  <2>2. s \notin Orders
    BY <1>4, OrderAssumption
  <2>3. QED
    BY <1>2, <1>3, <2>1, <2>2, RaisesIs, Passes
<1>5. CASE s # NoOrder
  <2>1. bracket' = [Bare EXCEPT !.stop = s]
    BY <1>5 DEF Compensates
  <2>2. EmptyHanded(p)
    BY CompensatesIs
  <2>3. bracket'.stop = s /\ bracket'.target = NoOrder /\ LegsOf(bracket') = {s}
    BY <1>5, <2>1 DEF Bare, LegsOf
  <2>4. BracketOK'
    BY <1>2, <2>3, OrderAssumption DEF BracketOK, NoneNew, Was
  <2>5. ASSUME NEW x \in Orders, ~lost', Live(x)', x \in LegsOf(bracket) \cup Hands(co[p])
        PROVE  x \in LegsOf(bracket')
    BY <1>2, <1>3, <1>5, <2>3, <2>5
  <2>6. QED
    BY <2>2, <2>4, <2>5, Leaves
<1>6. QED
  BY <1>4, <1>5

LEMMA TargetReturnsStep ==
    ASSUME LegsInv, NEW p \in Procs, TargetReturns(p)
    PROVE  LegsInv'
<1>1. PICK o, s, b : o = co[p].order /\ s = co[p].stop /\ b = [stop |-> s, target |-> o]
  OBVIOUS
<1>2. /\ co[p].at = "target" /\ status[o] # "sent" /\ Hands(co[p]) = {o, s}
      /\ Was(s) /\ Went(o)
  BY <1>1, FrameIs DEF TargetReturns, FrameOK, Hands
<1>3. Was(o)
  BY <1>2 DEF Was, Went
<1>4. UNCHANGED <<accountVars, meta>> /\ NoneNew /\ UNCHANGED status
  BY AccountRests DEF TargetReturns
<1>5. PICK r \in Receipts(o) :
          \/ /\ r = "rejected" /\ Compensates(p)
             /\ lost' = (lost \/ (s # NoOrder /\ Forgets(LegsOf(bracket) \ {s})))
          \/ Attaches(p, b)
  BY <1>1 DEF TargetReturns
<1>6. CASE /\ r = "rejected" /\ Compensates(p)
           /\ lost' = (lost \/ (s # NoOrder /\ Forgets(LegsOf(bracket) \ {s})))
  <2>1. status[o] = "rejected"
    BY <1>6 DEF Receipts
  <2>2. ~Live(o)' /\ (lost => lost')
    BY <1>4, <1>6, <2>1 DEF Live
  <2>3. ~lost' => (s # NoOrder => \A x \in Orders \cap (LegsOf(bracket) \ {s}) : ~Live(x)')
    BY <1>4, <1>6 DEF Forgets, Live
  <2>4. QED
    BY <1>1, <1>2, <1>4, <1>6, <2>2, <2>3, CompensatesStep
<1>7. CASE Attaches(p, b)
  <2>1. b.stop = s /\ b.target = o /\ Orders \cap {o, s} \subseteq LegsOf(b)
    BY <1>1, OrderAssumption DEF LegsOf
  <2>2. QED
    BY <1>2, <1>3, <1>4, <1>7, <2>1, AttachesStep
<1>8. QED
  BY <1>5, <1>6, <1>7

LEMMA TargetFailsStep ==
    ASSUME LegsInv, NEW p \in Procs, TargetFails(p)
    PROVE  LegsInv'
<1>1. PICK o, s : o = co[p].order /\ s = co[p].stop
  OBVIOUS
<1>2. /\ co[p].at = "target" /\ Compensates(p) /\ UNCHANGED meta
      /\ \/ /\ NeverArrives(o)
            /\ lost' = (lost \/ (s # NoOrder /\ Forgets(LegsOf(bracket) \ {s})))
         \/ UNCHANGED accountVars /\ lost' = TRUE
  BY <1>1 DEF TargetFails
<1>3. NoneNew
  BY <1>2, AccountRests, NeverArrived
<1>4. CASE lost' = TRUE
  BY <1>1, <1>2, <1>3, <1>4, CompensatesStep
<1>5. CASE /\ NeverArrives(o)
           /\ lost' = (lost \/ (s # NoOrder /\ Forgets(LegsOf(bracket) \ {s})))
  <2>1. o \in Orders => ~Live(o)'
    BY <1>2, <1>5, NeverArrived
  <2>2. \A x \in Orders : Live(x)' => Live(x)
    BY <1>3 DEF NoneNew
  <2>3. ~lost' => (s # NoOrder => \A x \in Orders \cap (LegsOf(bracket) \ {s}) : ~Live(x)')
    BY <1>5, <2>2 DEF Forgets
  <2>4. lost => lost'
    BY <1>5
  <2>5. QED
    BY <1>1, <1>2, <1>3, <2>1, <2>3, <2>4, CompensatesStep
<1>6. QED
  BY <1>2, <1>4, <1>5

\* The bracket is emptied, once its legs are over or known to be lost.
LEMMA Clears ==
    ASSUME LegsInv, NEW p \in Procs, EmptyHanded(p), Hands(co[p]) = {},
           UNCHANGED <<status, meta>>, lost => lost',
           UNCHANGED bracket \/ bracket' = Bare,
           bracket' = Bare => (~lost' => \A o \in Orders \cap LegsOf(bracket) : ~Live(o))
    PROVE  LegsInv'
<1>1. BracketOK'
  BY OrderAssumption DEF LegsInv, BracketOK, Was, Bare
<1>2. ASSUME NEW o \in Orders, ~lost', Live(o), o \in LegsOf(bracket) \cup Hands(co[p])
      PROVE  o \in LegsOf(bracket')
  BY <1>2
<1>3. QED
  BY <1>1, <1>2, Replaces

\* One leg of the bracket is over, the bracket is emptied.
LEMMA ClearsAfter ==
    ASSUME LegsInv, NEW p \in Procs, EmptyHanded(p), Hands(co[p]) = {},
           ~Live(co[p].order), bracket' = Bare, UNCHANGED <<accountVars, meta>>,
           lost' = (lost \/ Forgets(LegsOf(bracket) \ {co[p].order}))
    PROVE  LegsInv'
<1>1. ASSUME ~lost', NEW o \in Orders \cap LegsOf(bracket) PROVE ~Live(o)
  BY <1>1 DEF Forgets
<1>2. UNCHANGED <<status, meta>> /\ (lost => lost')
  BY DEF accountVars
<1>3. QED
  BY <1>1, <1>2, Clears

LEMMA UndoReturnsStep ==
    ASSUME LegsInv, NEW p \in Procs, UndoReturns(p)
    PROVE  LegsInv'
<1>1. EmptyHanded(p) /\ Hands(co[p]) = {}
  BY FrameIs, RaisesIs DEF UndoReturns
<1>2. QED
  BY <1>1, ClearsAfter DEF UndoReturns

LEMMA OcoReturnsStep ==
    ASSUME LegsInv, NEW p \in Procs, OcoReturns(p)
    PROVE  LegsInv'
<1>1. Hands(co[p]) = {}
  BY FrameIs DEF OcoReturns
<1>2. PICK f : f = [Idle EXCEPT !.at = "done"] /\ Stays(p, f)
  BY DEF OcoReturns
<1>3. EmptyHanded(p)
  BY <1>2 DEF EmptyHanded, IsFrame, Idle
<1>4. QED
  BY <1>1, <1>3, ClearsAfter DEF OcoReturns

LEMMA SiblingReturnsStep ==
    ASSUME LegsInv, NEW p \in Procs, SiblingReturns(p)
    PROVE  LegsInv'
<1>1. EmptyHanded(p) /\ Hands(co[p]) = {}
  BY FrameIs, FinishesIs DEF SiblingReturns
<1>2. QED
  BY <1>1, ClearsAfter DEF SiblingReturns

LEMMA RecoverReturnsIs ==
    ASSUME LegsInv, NEW p \in Procs, RecoverReturns(p)
    PROVE  EmptyHanded(p)
<1>1. CASE Finishes(p)
  BY <1>1, FinishesIs
<1>2. CASE Stays(p, [co[p] EXCEPT !.at = "sibling", !.order = winner])
  <2>1. PICK f : f = [co[p] EXCEPT !.at = "sibling", !.order = winner] /\ Stays(p, f)
    BY <1>2
  <2>2. IsFrame(f) /\ f.at \in {"recover", "sibling"}
    BY <2>1, FrameIs DEF IsFrame, Idle
  <2>3. QED
    BY <2>1, <2>2 DEF EmptyHanded
<1>3. QED
  BY <1>1, <1>2 DEF RecoverReturns

LEMMA RecoverReturnsStep ==
    ASSUME LegsInv, NEW p \in Procs, RecoverReturns(p)
    PROVE  LegsInv'
<1>1. EmptyHanded(p) /\ Hands(co[p]) = {}
  BY FrameIs, RecoverReturnsIs DEF RecoverReturns
<1>2. QED
  BY <1>1, ClearsAfter DEF RecoverReturns

LEMMA OrdersReadIs ==
    ASSUME LegsInv, NEW p \in Procs, OrdersRead(p)
    PROVE  EmptyHanded(p)
<1>1. IsFrame(co[p]) /\ Settles(p, Open, recovery)
  BY FrameIs DEF OrdersRead
<1>2. CASE Finishes(p)
  BY <1>2, FinishesIs
<1>3. CASE \E at \in {"recover", "sibling"} : \E o :
               Stays(p, [co[p] EXCEPT !.at = at, !.order = o, !.left = Open])
  <2> PICK at \in {"recover", "sibling"} :
          \E o : Stays(p, [co[p] EXCEPT !.at = at, !.order = o, !.left = Open])
    BY <1>3
  <2>1. PICK o, f : f = [co[p] EXCEPT !.at = at, !.order = o, !.left = Open] /\ Stays(p, f)
    OBVIOUS
  <2>2. IsFrame(f) /\ f.at \in {"recover", "sibling"}
    BY <1>1, <2>1 DEF IsFrame, Idle
  <2>3. QED
    BY <2>1, <2>2 DEF EmptyHanded
<1>4. QED
  BY <1>1, <1>2, <1>3 DEF Settles

LEMMA OrdersReadStep ==
    ASSUME LegsInv, NEW p \in Procs, OrdersRead(p)
    PROVE  LegsInv'
<1>1. /\ Hands(co[p]) = {} /\ Settles(p, Open, recovery)
      /\ UNCHANGED <<status, meta>>
  BY FrameIs DEF OrdersRead, accountVars
<1>2. EmptyHanded(p)
  BY OrdersReadIs
<1>3. \/ UNCHANGED <<bracket, lost>>
      \/ /\ UNCHANGED bracket \/ bracket' = Bare
         /\ lost' = (lost \/ (bracket' = Bare /\ Forgets(LegsOf(bracket))))
  BY <1>1 DEF Settles
<1>4. CASE UNCHANGED <<bracket, lost>>
  BY <1>1, <1>2, <1>4, AccountRests, Passes DEF OrdersRead
<1>5. CASE /\ UNCHANGED bracket \/ bracket' = Bare
           /\ lost' = (lost \/ (bracket' = Bare /\ Forgets(LegsOf(bracket))))
  <2>1. ASSUME bracket' = Bare, ~lost', NEW o \in Orders \cap LegsOf(bracket) PROVE ~Live(o)
    BY <1>5, <2>1 DEF Forgets
  <2>2. lost => lost'
    BY <1>5
  <2>3. QED
    BY <1>1, <1>2, <1>5, <2>1, <2>2, Clears
<1>6. QED
  BY <1>3, <1>4, <1>5

\* A step that touches neither the account nor a leg.
LEMMA Idles ==
    ASSUME LegsInv, NEW p \in Procs, EmptyHanded(p), co[p].at \notin {"stop", "target", "unleg"},
           UNCHANGED <<accountVars, meta, bracket, lost>>
    PROVE  LegsInv'
BY FrameIs, AccountRests, Passes

\* An exception leaves a cancel call that holds no leg; refresh raises.
LEMMA RaisedIs ==
    ASSUME NEW p \in Procs, UndoFails(p) \/ OcoFails(p) \/ DrainRaises(p)
    PROVE  EmptyHanded(p)
<1>1. CASE DrainRaises(p)
  <2>1. PICK f : f = Idle /\ Stays(p, f)
    BY <1>1 DEF DrainRaises
  <2>2. QED
    BY <2>1 DEF EmptyHanded, IsFrame, Idle
<1>2. CASE UndoFails(p) \/ OcoFails(p)
  BY <1>2, RaisesIs DEF UndoFails, OcoFails
<1>3. QED
  BY <1>1, <1>2

LEMMA RaisedStep ==
    ASSUME LegsInv, NEW p \in Procs, UndoFails(p) \/ OcoFails(p) \/ DrainRaises(p)
    PROVE  LegsInv'
BY RaisedIs, Idles DEF UndoFails, OcoFails, DrainRaises

LEMMA DrainReturnsIs ==
    ASSUME LegsInv, NEW p \in Procs, DrainReturns(p)
    PROVE  EmptyHanded(p)
<1>1. IsFrame(co[p]) /\ co[p].at = "drain"
  BY FrameIs DEF DrainReturns
<1>2. CASE tasks' # {}
  <2>1. PICK f : f = [co[p] EXCEPT !.left = tasks'] /\ Stays(p, f)
    BY <1>2 DEF DrainReturns
  <2>2. IsFrame(f) /\ f.at = "drain"
    BY <1>1, <2>1 DEF IsFrame, Idle
  <2>3. QED
    BY <2>1, <2>2 DEF EmptyHanded
<1>3. CASE tasks' = {} /\ co[p].op = "leaving"
  <2>1. PICK f : f = Idle /\ Stays(p, f)
    BY <1>3 DEF DrainReturns
  <2>2. QED
    BY <2>1 DEF EmptyHanded, IsFrame, Idle
<1>4. CASE tasks' = {} /\ co[p].op # "leaving"
  <2>1. PICK at, op, f : /\ at = (CASE co[p].op = "bar" /\ ~co[p].done -> "risk"
                                    [] co[p].op = "stopping" -> "find"
                                    [] OTHER -> "orders")
                         /\ f = [co[p] EXCEPT !.left = {}, !.at = at, !.op = op]
                         /\ Stays(p, f)
    BY <1>1, <1>4 DEF DrainReturns
  <2>2. at \in {"risk", "find", "orders"}
    BY <2>1
  <2>3. IsFrame(f) /\ f.at = at
    BY <1>1, <2>1 DEF IsFrame, Idle
  <2>4. QED
    BY <2>1, <2>2, <2>3 DEF EmptyHanded
<1>5. QED
  BY <1>2, <1>3, <1>4

LEMMA DrainReturnsStep ==
    ASSUME LegsInv, NEW p \in Procs, DrainReturns(p)
    PROVE  LegsInv'
BY DrainReturnsIs, Idles DEF DrainReturns

\* The calls of users, but for place_order and push_bar.
LEMMA CallsIs ==
    ASSUME NEW p \in Procs,
           \/ Refresh(p) \/ ClosePosition(p) \/ Flatten(p) \/ Stop(p) \/ CancelOrder(p) \/ Start(p)
    PROVE  EmptyHanded(p)
<1>1. CASE \E op : Stays(p, Refreshing([Idle EXCEPT !.op = op]))
  <2>1. PICK op, g : g = [Idle EXCEPT !.op = op] /\ Stays(p, Refreshing(g))
    BY <1>1
  <2>2. IsFrame(g)
    BY <2>1 DEF IsFrame, Idle
  <2>3. QED
    BY <2>1, <2>2, RefreshingIs
<1>2. CASE \E o : Stays(p, [Idle EXCEPT !.at = "cancel", !.op = "cancel", !.order = o])
  <2>1. PICK o, f : f = [Idle EXCEPT !.at = "cancel", !.op = "cancel", !.order = o] /\ Stays(p, f)
    BY <1>2
  <2>2. IsFrame(f) /\ f.at = "cancel"
    BY <2>1 DEF IsFrame, Idle
  <2>3. QED
    BY <2>1, <2>2 DEF EmptyHanded
<1>3. CASE ClosePosition(p) \/ Flatten(p)
  <2>1. PICK op, f : f = [Idle EXCEPT !.op = op, !.at = "find"] /\ Stays(p, f)
    BY <1>3 DEF ClosePosition, Flatten, Begins
  <2>2. IsFrame(f) /\ f.at = "find"
    BY <2>1 DEF IsFrame, Idle
  <2>3. QED
    BY <2>1, <2>2 DEF EmptyHanded
<1>4. CASE Refresh(p) \/ Start(p)
  BY <1>1, <1>4 DEF Refresh, Start
<1>5. CASE Stop(p)
  BY <1>1, <1>5 DEF Stop, Begins
<1>6. CASE CancelOrder(p)
  BY <1>2, <1>6 DEF CancelOrder
<1>7. QED
  BY <1>3, <1>4, <1>5, <1>6

LEMMA CallsStep ==
    ASSUME LegsInv, NEW p \in Procs,
           \/ Refresh(p) \/ ClosePosition(p) \/ Flatten(p) \/ Stop(p) \/ CancelOrder(p) \/ Start(p)
    PROVE  LegsInv'
<1>1. co[p].at = "idle" /\ UNCHANGED <<accountVars, meta, bracket, lost>>
  BY DEF Refresh, ClosePosition, Flatten, Stop, Begins, CancelOrder, Start, sessionVars
<1>2. QED
  BY <1>1, CallsIs, Idles

\* push_bar goes on to the account's matching of the bar.
LEMMA PushBarIs ==
    ASSUME NEW p \in Procs, PushBar(p)
    PROVE  \E f : IsFrame(f) /\ Stays(p, f) /\ f.at = "bar"
<1>1. PICK f : f = [Idle EXCEPT !.at = "bar", !.op = "bar"] /\ Stays(p, f)
  BY DEF PushBar
<1>2. IsFrame(f) /\ f.at = "bar"
  BY <1>1 DEF IsFrame, Idle
<1>3. QED
  BY <1>1, <1>2

LEMMA PushBarStep ==
    ASSUME LegsInv, NEW p \in Procs, PushBar(p)
    PROVE  LegsInv'
<1>1. PICK f : IsFrame(f) /\ Stays(p, f) /\ f.at = "bar"
  BY PushBarIs
<1>2. Hands(co[p]) = {} /\ UNCHANGED <<accountVars, meta, bracket, lost>>
  BY FrameIs DEF PushBar, sessionVars
<1>3. NoneNew /\ UNCHANGED status
  BY <1>2, AccountRests
<1>4. BracketOK'
  BY <1>2, <1>3 DEF LegsInv, BracketOK, Was
<1>5. QED
  BY <1>1, <1>2, <1>3, <1>4, GoesOn

\* The calls that return and leave the orders as they are.
LEMMA ReturnsIs ==
    ASSUME LegsInv, NEW p \in Procs,
           \/ OcoBegins(p) \/ BarReturns(p) \/ RiskSynced(p) \/ CloseReturns(p) \/ CancelReturns(p)
    PROVE  EmptyHanded(p)
<1>1. IsFrame(co[p])
  BY FrameIs
<1>2. CASE OcoBegins(p)
  <2>1. PICK f : f = [co[p] EXCEPT !.at = "oco"] /\ Stays(p, f)
    BY <1>2 DEF OcoBegins
  <2>2. IsFrame(f) /\ f.at = "oco"
    BY <1>1, <2>1 DEF IsFrame, Idle
  <2>3. QED
    BY <2>1, <2>2 DEF EmptyHanded
<1>3. CASE CloseReturns(p)
  <2>1. PICK f : /\ f = [co[p] EXCEPT !.at = "risk", !.order = NoOrder, !.entry = NoOrder]
                 /\ Stays(p, f)
    BY <1>3 DEF CloseReturns
  <2>2. IsFrame(f) /\ f.at = "risk"
    BY <1>1, <2>1 DEF IsFrame, Idle
  <2>3. QED
    BY <2>1, <2>2 DEF EmptyHanded
<1>4. CASE BarReturns(p) \/ CancelReturns(p)
  <2>1. PICK g : g = co[p] /\ Stays(p, Refreshing(g))
    BY <1>4 DEF BarReturns, CancelReturns
  <2>2. QED
    BY <1>1, <2>1, RefreshingIs
<1>5. CASE RiskSynced(p)
  <2>1. PICK g : g = [co[p] EXCEPT !.done = (co[p].op = "bar")] /\ Stays(p, Refreshing(g))
    BY <1>5 DEF RiskSynced
  <2>2. IsFrame(g)
    BY <1>1, <2>1 DEF IsFrame
  <2>3. QED
    BY <2>1, <2>2, RefreshingIs
<1>6. QED
  BY <1>2, <1>3, <1>4, <1>5

LEMMA ReturnsStep ==
    ASSUME LegsInv, NEW p \in Procs,
           \/ OcoBegins(p) \/ BarReturns(p) \/ RiskSynced(p) \/ CloseReturns(p) \/ CancelReturns(p)
    PROVE  LegsInv'
<1>1. /\ co[p].at \in {"ready", "bar", "risk", "close", "cancel"}
      /\ UNCHANGED <<accountVars, meta, bracket, lost>>
  BY DEF OcoBegins, BarReturns, RiskSynced, CloseReturns, CancelReturns, sessionVars
<1>2. QED
  BY <1>1, ReturnsIs, Idles

\* close_position turns to the next leg it took, or submits the close.
LEMMA NextUnlegStep ==
    ASSUME LegsInv, NEW p \in Procs, NEW f, IsFrame(f), f.at \in {"find", "unleg"},
           NEW legs, NextUnleg(p, f, legs), lost' = lost,
           UNCHANGED bracket \/ bracket' = Bare,
           \A o \in Orders : Live(o) =>
               (o \in LegsOf(bracket) \cup Hands(co[p]) => o \in LegsOf(bracket') \cup legs)
    PROVE  LegsInv'
<1>1. CASE legs # {}
  <2>1. PICK o, g : /\ g = [f EXCEPT !.at = "unleg", !.order = o, !.left = legs \ {o}]
                    /\ Stays(p, g) /\ UNCHANGED <<accountVars, meta>>
    BY <1>1 DEF NextUnleg
  <2>2. IsFrame(g) /\ g.at = "unleg" /\ g.order = o /\ g.left = legs \ {o}
    BY <2>1 DEF IsFrame, Idle
  <2>3. legs \subseteq Hands(g)
    BY <2>2 DEF Hands
  <2>4. NoneNew /\ \A x : Live(x)' <=> Live(x)
    BY <2>1, AccountRests DEF Live
  <2>5. BracketOK'
    BY <2>1, OrderAssumption DEF LegsInv, BracketOK, Was, Bare, accountVars
  <2>6. ASSUME NEW x \in Orders, Live(x)', x \in LegsOf(bracket) \cup Hands(co[p])
        PROVE  x \in LegsOf(bracket') \cup Hands(g)
    BY <2>3, <2>4, <2>6
  <2>7. QED
    BY <2>1, <2>2, <2>4, <2>5, <2>6, GoesOn
<1>2. CASE legs = {}
  <2>1. PICK n, d, none, g :
            /\ none = {}
            /\ g = [f EXCEPT !.at = "close", !.order = n, !.left = none]
            /\ Sends(n, d, TRUE, "close", NoOrder, none) /\ Stays(p, g)
    BY <1>2 DEF NextUnleg
  <2>2. IsFrame(g) /\ g.at = "close"
    BY <2>1 DEF IsFrame, Idle
  <2>3. BracketOK'
    <3>1. \A x \in Orders : Was(x) => Was(x)'
      BY <2>1, Sent
    <3>2. CASE UNCHANGED bracket
      BY <3>1, <3>2 DEF LegsInv, BracketOK, Was
    <3>3. CASE bracket' = Bare
      BY <3>3, OrderAssumption DEF BracketOK, Was, Bare
    <3>4. QED
      BY <3>2, <3>3
  <2>4. \A x \in Orders : Live(x) =>
            (x \in LegsOf(bracket) \cup Hands(co[p]) => x \in LegsOf(bracket'))
    BY <1>2
  <2>5. QED
    BY <2>1, <2>2, <2>3, <2>4, SendsNoLeg
<1>3. QED
  BY <1>1, <1>2

LEMMA FindReturnsStep ==
    ASSUME LegsInv, NEW p \in Procs, FindReturns(p)
    PROVE  LegsInv'
<1>1. co[p].at = "find" /\ IsFrame(co[p]) /\ Hands(co[p]) = {} /\ UNCHANGED lost
  BY FrameIs DEF FindReturns
<1>2. CASE net = 0
  <2>1. PICK f : /\ f = Idle \/ f = [co[p] EXCEPT !.at = "open"]
                 /\ Stays(p, f) /\ UNCHANGED <<accountVars, bracket, meta>>
    BY <1>2 DEF FindReturns
  <2>2. IsFrame(f) /\ f.at \in {"idle", "open"}
    BY <1>1, <2>1 DEF IsFrame, Idle
  <2>3. EmptyHanded(p)
    BY <2>1, <2>2 DEF EmptyHanded
  <2>4. QED
    BY <1>1, <2>1, <2>3, Idles
<1>3. CASE net # 0
  <2>1. PICK f, legs : /\ f = [co[p] EXCEPT !.entry = net] /\ legs = LegsOf(bracket)
                       /\ NextUnleg(p, f, legs) /\ bracket' = Bare
    BY <1>3 DEF FindReturns
  <2>2. IsFrame(f) /\ f.at = "find"
    BY <1>1, <2>1 DEF IsFrame, Idle
  <2>3. QED
    BY <1>1, <2>1, <2>2, NextUnlegStep
<1>4. QED
  BY <1>2, <1>3

LEMMA UnlegReturnsStep ==
    ASSUME LegsInv, NEW p \in Procs, UnlegReturns(p)
    PROVE  LegsInv'
<1>1. PICK f, legs : f = co[p] /\ legs = co[p].left /\ NextUnleg(p, f, legs)
  BY DEF UnlegReturns
<1>2. /\ f.at = "unleg" /\ IsFrame(f) /\ ~Live(f.order) /\ UNCHANGED <<bracket, lost>>
      /\ Hands(co[p]) = {f.order} \cup legs
  BY <1>1, FrameIs DEF UnlegReturns, Hands
<1>3. \A o \in Orders : Live(o) =>
          (o \in LegsOf(bracket) \cup Hands(co[p]) => o \in LegsOf(bracket') \cup legs)
  BY <1>2
<1>4. QED
  BY <1>1, <1>2, <1>3, NextUnlegStep

LEMMA UnlegFailsStep ==
    ASSUME LegsInv, NEW p \in Procs, UnlegFails(p)
    PROVE  LegsInv'
<1>1. /\ Hands(co[p]) = {co[p].order} \cup co[p].left
      /\ lost' = (lost \/ Forgets(co[p].left \cup {co[p].order}))
      /\ Raises(p) /\ UNCHANGED <<accountVars, bracket, meta>>
  BY DEF UnlegFails, Hands
<1>2. NoneNew /\ UNCHANGED status
  BY <1>1, AccountRests
<1>3. ASSUME ~lost', NEW o \in Orders \cap Hands(co[p]) PROVE ~Live(o)'
  BY <1>1, <1>2, <1>3 DEF Forgets, Live
<1>4. lost => lost'
  BY <1>1
<1>5. QED
  BY <1>1, <1>2, <1>3, <1>4, RaisesIs, Passes

\* flatten turns to the next open order, or clears the books.
LEMMA SweepIs ==
    ASSUME LegsInv, NEW p \in Procs, NEW left, NextSweep(p, left)
    PROVE  EmptyHanded(p)
<1>1. IsFrame(co[p])
  BY FrameIs
<1>2. CASE left # {}
  <2>1. PICK o, f : /\ f = [co[p] EXCEPT !.at = "sweep", !.order = o, !.left = left \ {o}]
                    /\ Stays(p, f)
    BY <1>2 DEF NextSweep
  <2>2. IsFrame(f) /\ f.at = "sweep"
    BY <1>1, <2>1 DEF IsFrame, Idle
  <2>3. QED
    BY <2>1, <2>2 DEF EmptyHanded
<1>3. CASE left = {}
  <2>1. PICK g : g = [co[p] EXCEPT !.done = TRUE] /\ Stays(p, Refreshing(g))
    BY <1>3 DEF NextSweep
  <2>2. IsFrame(g)
    BY <1>1, <2>1 DEF IsFrame
  <2>3. QED
    BY <2>1, <2>2, RefreshingIs
<1>4. QED
  BY <1>2, <1>3

LEMMA SweepStep ==
    ASSUME LegsInv, NEW p \in Procs, OpenRead(p) \/ SweepReturns(p)
    PROVE  LegsInv'
<1>1. PICK left : NextSweep(p, left)
  BY DEF OpenRead, SweepReturns
<1>2. /\ co[p].at \in {"open", "sweep"} /\ Hands(co[p]) = {} /\ EmptyHanded(p)
      /\ UNCHANGED <<accountVars, meta>>
  BY <1>1, FrameIs, SweepIs DEF OpenRead, SweepReturns
<1>3. CASE left # {}
  <2>1. UNCHANGED <<bracket, lost>>
    BY <1>1, <1>3 DEF NextSweep
  <2>2. QED
    BY <1>2, <2>1, Idles
<1>4. CASE left = {}
  <2>1. PICK ids : /\ bracket' = Bare /\ LegsOf(bracket) \subseteq ids
                   /\ lost' = (lost \/ Forgets(ids))
    BY <1>1, <1>4 DEF NextSweep
  <2>2. ASSUME ~lost', NEW o \in Orders \cap LegsOf(bracket) PROVE ~Live(o)
    BY <2>1, <2>2 DEF Forgets
  <2>3. UNCHANGED <<status, meta>> /\ (lost => lost')
    BY <1>2, <2>1 DEF accountVars
  <2>4. QED
    BY <1>2, <2>1, <2>2, <2>3, Clears
<1>5. QED
  BY <1>3, <1>4

-----------------------------------------------------------------------------

LEMMA LegsInvStarts ==
    Init => LegsInv
<1> SUFFICES ASSUME Init PROVE LegsInv
  OBVIOUS
<1>1. /\ status = [o \in Orders |-> "none"] /\ bracket = Bare /\ co = [p \in Procs |-> Idle]
      /\ DOMAIN meta = Orders
  BY DEF Init, AccountInit
<1>2. Shapes
  BY <1>1 DEF Shapes, OrderStatus, IsFrame
<1>3. \A p \in Procs : FrameOK(co[p])
  BY <1>1 DEF FrameOK, Idle
<1>4. BracketOK
  BY <1>1, OrderAssumption DEF BracketOK, Was, Bare
<1>5. Owned
  <2>1. \A o \in Orders : ~Live(o)
    BY <1>1 DEF Live
  <2>2. QED
    BY <2>1 DEF Owned, Legs
<1>6. QED
  BY <1>2, <1>3, <1>4, <1>5 DEF LegsInv

LEMMA LegsInvHolds ==
    LegsInv /\ [Next]_vars => LegsInv'
<1> SUFFICES ASSUME LegsInv, [Next]_vars PROVE LegsInv'
  OBVIOUS
<1>1. CASE UNCHANGED vars
  <2>1. UNCHANGED <<status, bracket, meta, co, lost>>
    BY <1>1 DEF vars, accountVars, sessionVars
  <2>2. QED
    BY <2>1 DEF LegsInv, Shapes, FrameOK, BracketOK, Owned, Was, Went, Legs, Live
<1>2. ASSUME NEW p \in Callers, Calls(p) PROVE LegsInv'
  <2>1. p \in Procs
    BY DEF Procs
  <2>2. QED
    BY <1>2, <2>1, PlaceOrderStep, PushBarStep, CallsStep DEF Calls
<1>3. ASSUME NEW p \in Procs, Resumes(p) PROVE LegsInv'
  BY <1>3, EntryReturnsStep, AttachBeginsStep, StopReturnsStep, TargetReturnsStep,
     UndoReturnsStep, OcoReturnsStep, DrainReturnsStep, RaisedStep, OrdersReadStep,
     RecoverReturnsStep, SiblingReturnsStep, ReturnsStep, FindReturnsStep, UnlegReturnsStep,
     SweepStep DEF Resumes
<1>4. ASSUME NEW p \in Procs, Fails(p) PROVE LegsInv'
  BY <1>4, SubmitFailsStep, StopFailsStep, TargetFailsStep, RaisedStep, UnlegFailsStep DEF Fails
<1>5. CASE \/ \E o \in Orders : \/ AccountAnswers(o) \/ AccountFills(o)
                                \/ AccountDrops(o) \/ AccountTells(o)
           \/ \E p \in Procs : CancelActs(p)
  BY <1>5, AccountStep
<1>6. QED
  BY <1>1, <1>2, <1>3, <1>4, <1>5 DEF Next

\* As long as the session has not knowingly dropped one, no protective leg that
\* can act is out of its sight: the bracket names it, or a coroutine that is
\* submitting or canceling it does, through attach, compensation, OCO, close and
\* flatten (session.py:354-383, 436-555, 631-730).
THEOREM NoLegStrays == Spec => []NoStrayLeg
<1>1. Init => LegsInv
  BY LegsInvStarts
<1>2. LegsInv /\ [Next]_vars => LegsInv'
  BY LegsInvHolds
<1>3. LegsInv => NoStrayLeg
  <2>1. \A p \in Procs : Hands(co[p]) \subseteq Held(p)
    BY DEF Hands, Held
  <2>2. QED
    BY <2>1 DEF LegsInv, Owned, NoStrayLeg
<1>4. QED
  BY <1>1, <1>2, <1>3, PTL DEF Spec

-----------------------------------------------------------------------------
(* Every entry that fills gets the stop it was given: who will see to it.  *)

\* The account has not reported the fill of e, if there was one.
Unheard(e) == status[e] = "filled" => ~told[e]

\* An entry that has filled or may fill, and was given a stop.
Owed(e) == /\ meta[e].kind = "entry" /\ "stop" \in meta[e].legs
           /\ status[e] \in {"sent", "working", "filled"}

\* The coroutine submits e, or was spawned to attach its bracket.
Submitting(f, e) == f.at = "entry" /\ f.order = e
Attaching(f, e) ==
    f.at = "ready" /\ f.op = "attach" /\ f.entry = e /\ "stop" \in f.legs

HasStop(e) == \E o \in Orders : meta[o].kind = "stop" /\ meta[o].parent = e
Staged(e) == pending = e /\ status[e] # "sent" /\ Unheard(e)

Promised(e) ==
    \/ HasStop(e)
    \/ Staged(e)
    \/ \E p \in Procs : Submitting(co[p], e) /\ (Synchronous \/ Unheard(e))
    \/ \E p \in Procs : Attaching(co[p], e)

\* A session of a streaming account that is stopped hears nothing.
Listens == Synchronous \/ (starts <= 1 /\ running)

PromisesKept == Listens /\ ~raised /\ ~lost => \A e \in Orders : Owed(e) => Promised(e)

\* The ids in use have been submitted.
MetaSent == \A o \in Orders : meta[o].kind # "none" => status[o] # "none"

\* On a paper account one coroutine at a time is between two awaits, and bars
\* are matched for a session that runs.
OneRuns ==
    Synchronous =>
        /\ \A p, q \in Procs : p # q => Suspended(co[p]) \/ Suspended(co[q])
        /\ \A p \in Procs : co[p].at = "bar" => running

Unstarted ==
    starts = 0 => /\ ~running /\ \A p \in Procs : co[p].at = "idle"
                  /\ \A o \in Orders : status[o] = "none"

PromiseInv ==
    LegsInv /\ starts \in Nat /\ MetaSent /\ OneRuns /\ Unstarted /\ PromisesKept

\* What a step of a coroutine may do to the orders: submit one that was not
\* in use, or learn that one never arrived.
OrdersGoOn ==
    /\ \A o \in Orders : meta[o].kind # "none" => meta'[o] = meta[o]
    /\ \A o \in Orders : status[o] # "none" => status'[o] # "none"
    /\ \A o \in Orders : meta'[o].kind # "none" => status'[o] # "none"
    /\ \A o \in Orders : status'[o] \in {"working", "filled"}
                            => status'[o] = status[o] /\ told'[o] = told[o]
    /\ \A o \in Orders : status'[o] = "sent" /\ meta[o].kind # "none" => status[o] = "sent"

\* What the step takes from the books or the coroutine it has seen to.
SeesTo(p) ==
    ~raised' /\ ~lost' => \A e \in Orders :
        /\ Owed(e)' /\ Submitting(co[p], e) /\ (Synchronous \/ Unheard(e)) => Promised(e)'
        /\ Owed(e)' /\ Attaching(co[p], e) => Promised(e)'
        /\ Owed(e)' /\ meta[e].kind = "none" => Promised(e)'

LEMMA PromiseStep ==
    ASSUME PromiseInv, LegsInv', NEW p \in Procs, NEW f, IsFrame(f), Stays(p, f), Runs(p),
           f.at = "bar" => running', running' => running, co[p].at # "idle" \/ running,
           UNCHANGED starts, raised => raised', lost => lost',
           OrdersGoOn, SeesTo(p),
           pending' = pending \/ lost' \/ ~Forgets({pending} \ {NoOrder})
    PROVE  PromiseInv'
<1>1. co'[p] = f /\ \A q \in Procs \ {p} : co'[q] = co[q]
  BY DEF PromiseInv, LegsInv, Shapes, Stays
<1>2. starts # 0 /\ starts' \in Nat /\ Unstarted'
  BY DEF PromiseInv, Unstarted
<1>3. MetaSent'
  BY DEF MetaSent, OrdersGoOn
<1>4. OneRuns'
  <2>1. SUFFICES ASSUME Synchronous PROVE OneRuns'
    BY DEF OneRuns
  <2>2. \A q \in Procs \ {p} : Suspended(co[q])
    BY <2>1 DEF Runs
  <2>3. \A q \in Procs \ {p} : Suspended(co'[q]) /\ co'[q].at # "bar"
    BY <1>1, <2>2 DEF Suspended
  <2>4. QED
    BY <1>1, <2>3 DEF OneRuns
<1>5. ASSUME Listens', ~raised', ~lost', NEW e \in Orders, Owed(e)' PROVE Promised(e)'
  <2>1. CASE meta[e].kind = "none"
    BY <1>5, <2>1 DEF SeesTo
  <2>2. CASE meta[e].kind # "none"
    <3>1. meta'[e] = meta[e] /\ Owed(e)
      BY <1>5, <2>2 DEF OrdersGoOn, Owed
    <3>2. Promised(e)
      BY <1>5, <3>1 DEF PromiseInv, PromisesKept, Listens
    <3>3. status'[e] = status[e] /\ (status[e] = "filled" => told'[e] = told[e])
      BY <1>5, <2>2 DEF OrdersGoOn, Owed
    <3>4. Unheard(e) => Unheard(e)'
      BY <3>3 DEF Unheard
    <3>5. CASE HasStop(e)
      <4>1. PICK o \in Orders : meta[o].kind = "stop" /\ meta[o].parent = e
        BY <3>5 DEF HasStop
      <4>2. meta'[o] = meta[o]
        BY <4>1 DEF OrdersGoOn
      <4>3. QED
        BY <4>1, <4>2 DEF Promised, HasStop
    <3>6. CASE Staged(e)
      <4>1. e \in {pending} \ {NoOrder} /\ status[e] \in {"working", "filled"}
        BY <3>1, <3>6, OrderAssumption DEF Staged, Owed
      <4>2. Forgets({pending} \ {NoOrder})
        BY <3>6, <4>1 DEF Forgets, Live, Staged, Unheard
      <4>3. pending' = pending
        BY <1>5, <4>2
      <4>4. QED
        BY <3>3, <3>4, <3>6, <4>3 DEF Promised, Staged
    <3>7. ASSUME NEW q \in Procs,
                 \/ Submitting(co[q], e) /\ (Synchronous \/ Unheard(e))
                 \/ Attaching(co[q], e)
          PROVE  Promised(e)'
      <4>1. CASE q = p
        BY <1>5, <3>2, <3>7, <4>1 DEF SeesTo
      <4>2. CASE q # p
        <5>1. co'[q] = co[q]
          BY <1>1, <4>2
        <5>2. \/ Submitting(co'[q], e) /\ (Synchronous \/ Unheard(e)')
              \/ Attaching(co'[q], e)
          BY <3>4, <3>7, <5>1
        <5>3. QED
          BY <5>2 DEF Promised, Submitting, Attaching
      <4>3. QED
        BY <4>1, <4>2
    <3>8. QED
      BY <3>2, <3>5, <3>6, <3>7 DEF Promised
  <2>3. QED
    BY <2>1, <2>2
<1>6. QED
  BY <1>2, <1>3, <1>4, <1>5 DEF PromiseInv, PromisesKept

\* No submit call is made.
NoneSent ==
    /\ UNCHANGED meta
    /\ UNCHANGED accountVars \/ \E o : NeverArrives(o)

LEMMA NoneSentGoesOn ==
    ASSUME PromiseInv, NoneSent
    PROVE  OrdersGoOn
<1>1. \A o \in Orders : meta[o].kind # "none" => status[o] # "none"
  BY DEF PromiseInv, MetaSent
<1>2. CASE UNCHANGED accountVars
  BY <1>1, <1>2 DEF OrdersGoOn, NoneSent, accountVars
<1>3. ASSUME NEW x, NeverArrives(x) PROVE OrdersGoOn
  <2>1. /\ status[x] = "sent" /\ told' = [told EXCEPT ![x] = TRUE]
        /\ \A o \in Orders : status'[o] = IF o = x THEN "rejected" ELSE status[o]
    BY <1>3 DEF NeverArrives, PromiseInv, LegsInv, Shapes
  <2>2. \A o \in Orders : o # x => told'[o] = told[o]
    BY <2>1
  <2>3. QED
    BY <1>1, <2>1, <2>2 DEF OrdersGoOn, NoneSent
<1>4. QED
  BY <1>2, <1>3 DEF NoneSent

\* The coroutine has no entry in hand.
Free(p) == co[p].at # "entry" /\ (co[p].at = "ready" => co[p].op # "attach")

LEMMA PromisePasses ==
    ASSUME PromiseInv, LegsInv', NEW p \in Procs, NEW f, IsFrame(f), Stays(p, f), f.at # "bar",
           Runs(p), running' => running, co[p].at # "idle" \/ running,
           UNCHANGED starts, raised => raised', lost => lost', NoneSent,
           Free(p) \/ raised',
           pending' = pending \/ lost' \/ ~Forgets({pending} \ {NoOrder})
    PROVE  PromiseInv'
<1>1. OrdersGoOn
  BY NoneSentGoesOn
<1>2. \A e \in Orders : Owed(e)' => meta[e].kind # "none"
  BY DEF Owed, NoneSent
<1>3. SeesTo(p)
  BY <1>2 DEF SeesTo, Free, Submitting, Attaching
<1>4. QED
  BY <1>1, <1>3, PromiseStep

LEMMA PromiseLeaves ==
    ASSUME PromiseInv, LegsInv', NEW p \in Procs, EmptyHanded(p),
           Runs(p), running' => running, co[p].at # "idle" \/ running,
           UNCHANGED starts, raised => raised', lost => lost', NoneSent,
           Free(p) \/ raised',
           pending' = pending \/ lost' \/ ~Forgets({pending} \ {NoOrder})
    PROVE  PromiseInv'
BY PromisePasses DEF EmptyHanded

\* The submit call is for the stop of each entry the coroutine has in hand.
Serves(p, kind, parent) ==
    \A e \in Orders :
        ((Submitting(co[p], e) /\ (Synchronous \/ Unheard(e))) \/ Attaching(co[p], e))
            => (kind = "stop" /\ parent = e) \/ "stop" \notin meta[e].legs

\* A submit call for an order that is not in use.
LEMMA PromiseSends ==
    ASSUME PromiseInv, LegsInv', NEW p \in Procs, NEW f, IsFrame(f), Stays(p, f), f.at # "bar",
           Runs(p), running' => running, co[p].at # "idle" \/ running,
           UNCHANGED <<starts, raised, pending>>, lost => lost',
           NEW o, NEW d, NEW m, NEW kind, kind # "none", NEW parent, NEW legs,
           Sends(o, d, m, kind, parent, legs),
           kind = "entry" => f.at = "entry" /\ f.order = o, Serves(p, kind, parent)
    PROVE  PromiseInv'
<1>1. /\ o \in Orders /\ status[o] = "none" /\ UNCHANGED told
      /\ \A x \in Orders : status'[x] = IF x = o THEN "sent" ELSE status[x]
      /\ \A x \in Orders : meta'[x] = IF x = o THEN [kind |-> kind, parent |-> parent, legs |-> legs]
                                      ELSE meta[x]
  BY DEF Sends, Send, PromiseInv, LegsInv, Shapes
<1>2. meta[o].kind = "none" /\ \A x \in Orders : meta[x].kind # "none" => status[x] # "none"
  BY <1>1 DEF PromiseInv, MetaSent
<1>3. OrdersGoOn
  BY <1>1, <1>2 DEF OrdersGoOn
<1>4. co'[p] = f
  BY DEF PromiseInv, LegsInv, Shapes, Stays
<1>5. ASSUME kind = "stop" PROVE HasStop(parent)'
  BY <1>1, <1>5 DEF HasStop
<1>6. ASSUME kind = "entry" PROVE Promised(o)'
  <2>1. Submitting(co'[p], o) /\ status'[o] = "sent"
    BY <1>1, <1>4, <1>6 DEF Submitting
  <2>2. Unheard(o)'
    BY <2>1 DEF Unheard
  <2>3. QED
    BY <2>1, <2>2 DEF Promised, Submitting
<1>7. ASSUME NEW e \in Orders, Owed(e)', meta[e].kind = "none" PROVE Promised(e)'
  <2>1. e = o
    BY <1>1, <1>7 DEF Owed
  <2>2. kind = "entry"
    BY <1>1, <1>7, <2>1 DEF Owed
  <2>3. QED
    BY <1>6, <2>1, <2>2
<1>8. ASSUME NEW e \in Orders, Owed(e)', meta[e].kind # "none",
             \/ Submitting(co[p], e) /\ (Synchronous \/ Unheard(e))
             \/ Attaching(co[p], e)
      PROVE  Promised(e)'
  <2>1. meta'[e] = meta[e] /\ "stop" \in meta[e].legs
    BY <1>1, <1>2, <1>8 DEF Owed
  <2>2. kind = "stop" /\ parent = e
    BY <1>8, <2>1 DEF Serves
  <2>3. QED
    BY <1>5, <2>2 DEF Promised
<1>9. SeesTo(p)
  BY <1>7, <1>8 DEF SeesTo
<1>10. QED
  BY <1>3, <1>9, PromiseStep

\* The coroutine ends with an exception.
LEMMA PromiseRaises ==
    ASSUME PromiseInv, LegsInv', NEW p \in Procs, Raises(p), Runs(p), co[p].at # "idle",
           NoneSent, UNCHANGED <<starts, pending>>, lost => lost'
    PROVE  PromiseInv'
<1>1. EmptyHanded(p) /\ raised' /\ (running' => running)
  BY RaisesIs DEF Raises
<1>2. QED
  BY <1>1, PromiseLeaves

LEMMA PromiseFails ==
    ASSUME PromiseInv, LegsInv', NEW p \in Procs, Fails(p)
    PROVE  PromiseInv'
<1>1. co[p].at # "idle" /\ Runs(p) /\ UNCHANGED <<starts, pending, meta>> /\ (lost => lost')
  <2>1. CASE EntryFails(p) \/ CloseFails(p)
    BY <2>1 DEF EntryFails, CloseFails, Runs
  <2>2. CASE StopFails(p)
    BY <2>2 DEF StopFails, Runs
  <2>3. CASE TargetFails(p)
    BY <2>3 DEF TargetFails, Runs
  <2>4. CASE UndoFails(p)
    BY <2>4 DEF UndoFails, Runs
  <2>5. CASE OcoFails(p)
    BY <2>5 DEF OcoFails, Runs
  <2>6. CASE UnlegFails(p)
    BY <2>6 DEF UnlegFails, Runs
  <2>7. QED
    BY <2>1, <2>2, <2>3, <2>4, <2>5, <2>6 DEF Fails
<1>2. NoneSent
  <2>1. UNCHANGED accountVars \/ NeverArrives(co[p].order)
    BY DEF Fails, EntryFails, StopFails, TargetFails, UndoFails, OcoFails, UnlegFails, CloseFails
  <2>2. QED
    BY <1>1, <2>1 DEF NoneSent
<1>3. CASE Raises(p)
  BY <1>1, <1>2, <1>3, PromiseRaises
<1>4. CASE co[p].at = "target" /\ Compensates(p)
  <2>1. EmptyHanded(p)
    BY <1>4, CompensatesIs DEF PromiseInv
  <2>2. (raised => raised') /\ (running' => running)
    BY <1>4 DEF Compensates, Raises
  <2>3. QED
    BY <1>1, <1>2, <1>4, <2>1, <2>2, PromiseLeaves DEF Free
<1>5. QED
  BY <1>3, <1>4 DEF Fails, EntryFails, StopFails, TargetFails, UndoFails, OcoFails, UnlegFails, CloseFails

\* The steps of a coroutine that submit nothing and leave the staged bracket.
Settling(p) ==
    \/ UndoReturns(p) \/ OcoBegins(p) \/ OcoReturns(p) \/ DrainReturns(p) \/ DrainRaises(p)
    \/ OrdersRead(p) \/ RecoverReturns(p) \/ SiblingReturns(p) \/ BarReturns(p) \/ RiskSynced(p)
    \/ CloseReturns(p) \/ CancelReturns(p) \/ TargetReturns(p)

LEMMA PromiseSettles ==
    ASSUME PromiseInv, LegsInv', NEW p \in Procs, Settling(p)
    PROVE  PromiseInv'
<1>1. /\ Runs(p) /\ co[p].at # "idle" /\ Free(p) /\ UNCHANGED <<accountVars, meta, pending, starts>>
  BY DEF Settling, Free, sessionVars, UndoReturns, OcoBegins, OcoReturns, DrainReturns, DrainRaises,
     OrdersRead, RecoverReturns, SiblingReturns, BarReturns, RiskSynced, CloseReturns,
     CancelReturns, TargetReturns
<1>2. (lost => lost') /\ (running' => running) /\ (raised => raised')
  <2>1. CASE UndoReturns(p)
    BY <2>1 DEF UndoReturns, Raises
  <2>2. CASE OcoBegins(p) \/ BarReturns(p) \/ CloseReturns(p) \/ CancelReturns(p)
    BY <2>2 DEF OcoBegins, BarReturns, CloseReturns, CancelReturns, sessionVars
  <2>3. CASE OcoReturns(p)
    BY <2>3 DEF OcoReturns
  <2>4. CASE RiskSynced(p)
    BY <2>4 DEF RiskSynced
  <2>5. CASE DrainReturns(p)
    BY <2>5 DEF DrainReturns
  <2>6. CASE DrainRaises(p)
    BY <2>6 DEF DrainRaises
  <2>7. CASE OrdersRead(p)
    BY <2>7 DEF OrdersRead, Settles, Finishes
  <2>8. CASE RecoverReturns(p)
    BY <2>8 DEF RecoverReturns, Finishes
  <2>9. CASE SiblingReturns(p)
    BY <2>9 DEF SiblingReturns, Finishes
  <2>10. CASE TargetReturns(p)
    <3>1. CASE \E b : Attaches(p, b) /\ UNCHANGED <<running, raised>>
      <4>1. PICK b : lost' = (lost \/ Forgets(LegsOf(bracket) \ LegsOf(b)))
        BY <3>1 DEF Attaches
      <4>2. lost => lost'
        BY <4>1
      <4>3. UNCHANGED running /\ UNCHANGED raised
        BY <3>1
      <4>4. QED
        BY <4>2, <4>3
    <3>2. CASE Compensates(p) /\ (lost => lost')
      BY <3>2 DEF Compensates, Raises
    <3>3. QED
      BY <2>10, <3>1, <3>2 DEF TargetReturns
  <2>11. QED
    BY <2>1, <2>2, <2>3, <2>4, <2>5, <2>6, <2>7, <2>8, <2>9, <2>10 DEF Settling
<1>3. EmptyHanded(p)
  <2>1. CASE OcoReturns(p)
    <3>1. PICK f : f = [Idle EXCEPT !.at = "done"] /\ Stays(p, f)
      BY <2>1 DEF OcoReturns
    <3>2. QED
      BY <3>1 DEF EmptyHanded, IsFrame, Idle
  <2>2. CASE UndoReturns(p) \/ SiblingReturns(p)
    BY <2>2, RaisesIs, FinishesIs DEF PromiseInv, UndoReturns, SiblingReturns
  <2>3. CASE TargetReturns(p)
    <3>1. Compensates(p) \/ \E b : Attaches(p, b)
      BY <2>3 DEF TargetReturns
    <3>2. QED
      BY <3>1, CompensatesIs, AttachesIs DEF PromiseInv
  <2>4. CASE \/ OcoBegins(p) \/ BarReturns(p) \/ RiskSynced(p) \/ CloseReturns(p) \/ CancelReturns(p)
    BY <2>4, ReturnsIs DEF PromiseInv
  <2>5. CASE DrainReturns(p) \/ DrainRaises(p) \/ OrdersRead(p) \/ RecoverReturns(p)
    BY <2>5, DrainReturnsIs, RaisedIs, OrdersReadIs, RecoverReturnsIs DEF PromiseInv
  <2>6. QED
    BY <2>1, <2>2, <2>3, <2>4, <2>5 DEF Settling
<1>4. NoneSent
  BY <1>1 DEF NoneSent
<1>5. QED
  BY <1>1, <1>2, <1>3, <1>4, PromiseLeaves

\* The calls of users, but for place_order and start.
LEMMA PromiseCalls ==
    ASSUME PromiseInv, LegsInv', NEW p \in Procs,
           \/ Refresh(p) \/ PushBar(p) \/ ClosePosition(p) \/ Flatten(p) \/ Stop(p) \/ CancelOrder(p)
    PROVE  PromiseInv'
<1>1. /\ Runs(p) /\ co[p].at = "idle" /\ running
      /\ UNCHANGED <<accountVars, meta, pending, starts, raised, lost, running>>
  BY DEF Refresh, PushBar, ClosePosition, Flatten, Stop, Begins, CancelOrder, sessionVars
<1>2. NoneSent /\ Free(p)
  BY <1>1 DEF NoneSent, Free
<1>3. CASE PushBar(p)
  <2>1. PICK f : IsFrame(f) /\ Stays(p, f) /\ f.at = "bar"
    BY <1>3, PushBarIs
  <2>2. OrdersGoOn
    BY <1>2, NoneSentGoesOn
  <2>3. SeesTo(p)
    BY <1>1, <1>2 DEF SeesTo, Owed, Submitting, Attaching
  <2>4. QED
    BY <1>1, <2>1, <2>2, <2>3, PromiseStep
<1>4. CASE ~PushBar(p)
  <2>1. EmptyHanded(p)
    BY <1>4, CallsIs
  <2>2. QED
    BY <1>1, <1>2, <2>1, PromiseLeaves
<1>5. QED
  BY <1>3, <1>4

\* A session that starts on a streaming account for the first time has no
\* entries; on a paper account nothing has filled behind its back.
LEMMA PromiseStarts ==
    ASSUME PromiseInv, LegsInv', NEW p \in Procs, Start(p)
    PROVE  PromiseInv'
<1>1. EmptyHanded(p)
  BY CallsIs
<1>2. PICK f : /\ IsFrame(f) /\ Stays(p, f)
               /\ f.at \notin {"entry", "ready", "stop", "target", "unleg", "bar"}
  BY <1>1 DEF EmptyHanded
<1>3. co'[p] = f /\ \A q \in Procs \ {p} : co'[q] = co[q]
  BY <1>2 DEF PromiseInv, LegsInv, Shapes, Stays
<1>4. /\ co[p].at = "idle" /\ Runs(p) /\ running' = TRUE /\ starts' = starts + 1
      /\ UNCHANGED <<status, told, meta, pending, raised, lost>>
  BY DEF Start, accountVars
<1>5. starts' \in Nat /\ Unstarted' /\ MetaSent'
  BY <1>4 DEF PromiseInv, Unstarted, MetaSent
<1>6. OneRuns'
  <2>1. Synchronous => \A q \in Procs \ {p} : Suspended(co'[q])
    BY <1>3, <1>4 DEF Runs
  <2>2. QED
    BY <1>3, <1>4, <2>1 DEF OneRuns
<1>7. ASSUME Listens', ~raised', ~lost', NEW e \in Orders, Owed(e)' PROVE Promised(e)'
  <2>1. Owed(e) /\ (Unheard(e) <=> Unheard(e)')
    BY <1>4, <1>7 DEF Owed, Unheard
  <2>2. starts # 0
    BY <2>1 DEF PromiseInv, Unstarted, Owed
  <2>3. Synchronous
    BY <1>4, <1>7, <2>2 DEF Listens, PromiseInv
  <2>4. Promised(e)
    BY <1>4, <1>7, <2>1, <2>3 DEF PromiseInv, PromisesKept, Listens
  <2>5. CASE HasStop(e) \/ Staged(e)
    BY <1>4, <2>5 DEF Promised, HasStop, Staged, Unheard
  <2>6. CASE \E q \in Procs : Submitting(co[q], e) \/ Attaching(co[q], e)
    <3>1. PICK q \in Procs : Submitting(co[q], e) \/ Attaching(co[q], e)
      BY <2>6
    <3>2. q # p
      BY <1>4, <3>1 DEF Submitting, Attaching
    <3>3. Submitting(co'[q], e) \/ Attaching(co'[q], e)
      BY <1>3, <3>1, <3>2
    <3>4. QED
      BY <2>3, <3>3 DEF Promised, Submitting, Attaching
  <2>7. QED
    BY <2>4, <2>5, <2>6 DEF Promised
<1>8. QED
  BY <1>5, <1>6, <1>7 DEF PromiseInv, PromisesKept

LEMMA PromisePlaces ==
    ASSUME PromiseInv, LegsInv', NEW p \in Procs, PlaceOrder(p)
    PROVE  PromiseInv'
<1>1. PICK n, d, m, legs, f, kind :
          /\ f = [Idle EXCEPT !.at = "entry", !.op = "place", !.order = n] /\ kind = "entry"
          /\ Sends(n, d, m, kind, NoOrder, legs) /\ Stays(p, f)
  BY DEF PlaceOrder
<1>2. IsFrame(f) /\ f.at = "entry" /\ f.order = n
  BY <1>1 DEF IsFrame, Idle
<1>3. /\ Runs(p) /\ running /\ UNCHANGED <<running, starts, raised, lost, pending>>
      /\ \A e : ~Submitting(co[p], e) /\ ~Attaching(co[p], e)
  BY DEF PlaceOrder, Submitting, Attaching
<1>4. f.at # "bar" /\ kind # "none" /\ (lost => lost') /\ (running' => running)
  BY <1>1, <1>2, <1>3
<1>5. Serves(p, kind, NoOrder)
  BY <1>3 DEF Serves
<1>6. QED
  BY <1>1, <1>2, <1>3, <1>4, <1>5, PromiseSends

\* A coroutine submits a leg: of the entry it has in hand, the stop first.
LEMMA PromiseSubmits ==
    ASSUME PromiseInv, LegsInv', NEW p \in Procs, NEW f, IsFrame(f), NEW e, NEW legs,
           SubmitsLeg(p, f, e, legs), Runs(p), running' => running, co[p].at # "idle",
           UNCHANGED <<starts, raised, lost, pending>>,
           \A x \in Orders :
               ((Submitting(co[p], x) /\ (Synchronous \/ Unheard(x))) \/ Attaching(co[p], x))
                   => x = e /\ ("stop" \in meta[x].legs => "stop" \in legs)
    PROVE  PromiseInv'
<1>1. PICK k, n, d, m, none, g :
          /\ k = (IF "stop" \in legs THEN "stop" ELSE "target")
          /\ g = [f EXCEPT !.at = k, !.order = n, !.entry = e, !.legs = legs \ {k}]
          /\ Sends(n, d, m, k, e, none) /\ Stays(p, g)
  BY DEF SubmitsLeg
<1>2. k # "none" /\ k # "entry" /\ ("stop" \in legs => k = "stop")
  BY <1>1
<1>3. IsFrame(g) /\ g.at = k
  BY <1>1 DEF IsFrame, Idle
<1>4. g.at # "bar"
  BY <1>1, <1>3
<1>5. Serves(p, k, e)
  BY <1>2 DEF Serves
<1>6. lost => lost'
  OBVIOUS
<1>7. QED
  BY <1>1, <1>2, <1>3, <1>4, <1>5, <1>6, PromiseSends

\* The submit of an entry returns: filled, the stop is submitted; else the
\* bracket is staged, and what was staged is known to be over or lost.
LEMMA PromiseEnters ==
    ASSUME PromiseInv, LegsInv', NEW p \in Procs, EntryReturns(p)
    PROVE  PromiseInv'
<1>1. PICK o : o = co[p].order
  OBVIOUS
<1>2. /\ co[p].at = "entry" /\ Runs(p) /\ status[o] # "sent"
      /\ UNCHANGED <<running, starts, raised>>
      /\ \A e : Submitting(co[p], e) => e = o
      /\ \A e : ~Attaching(co[p], e)
  BY <1>1 DEF EntryReturns, Submitting, Attaching
<1>3. IsFrame(co[p])
  BY FrameIs DEF PromiseInv
<1>4. PICK r \in Receipts(o) :
          IF meta[o].legs # {} /\ r = "filled"
          THEN SubmitsLeg(p, co[p], o, meta[o].legs) /\ UNCHANGED <<pending, lost>>
          ELSE /\ pending' = IF meta[o].legs # {} /\ r # "rejected" THEN o ELSE pending
               /\ lost' = (lost \/ (pending' # pending /\ Forgets({pending} \ {NoOrder})))
               /\ Stays(p, Refreshing(co[p]))
               /\ UNCHANGED <<accountVars, meta, seq>>
  BY <1>1 DEF EntryReturns
<1>5. CASE SubmitsLeg(p, co[p], o, meta[o].legs) /\ UNCHANGED <<pending, lost>>
  <2>1. PICK f, legs : f = co[p] /\ legs = meta[o].legs /\ SubmitsLeg(p, f, o, legs)
    BY <1>5
  <2>2. QED
    BY <1>2, <1>3, <1>5, <2>1, PromiseSubmits
<1>6. CASE /\ ~(meta[o].legs # {} /\ r = "filled")
           /\ pending' = IF meta[o].legs # {} /\ r # "rejected" THEN o ELSE pending
           /\ lost' = (lost \/ (pending' # pending /\ Forgets({pending} \ {NoOrder})))
           /\ Stays(p, Refreshing(co[p]))
           /\ UNCHANGED <<accountVars, meta, seq>>
  <2>1. EmptyHanded(p)
    <3>1. PICK f : f = co[p] /\ Stays(p, Refreshing(f))
      BY <1>6
    <3>2. QED
      BY <1>3, <3>1, RefreshingIs
  <2>2. PICK f : /\ IsFrame(f) /\ Stays(p, f)
                 /\ f.at \notin {"entry", "ready", "stop", "target", "unleg", "bar"}
    BY <2>1 DEF EmptyHanded
  <2>3. OrdersGoOn /\ NoneSent
    BY <1>6, NoneSentGoesOn DEF NoneSent
  <2>4. ASSUME ~raised', ~lost', NEW e \in Orders, Owed(e)',
               Submitting(co[p], e), Synchronous \/ Unheard(e)
        PROVE  Promised(e)'
    <3>1. /\ e = o /\ UNCHANGED <<status, told, meta>>
          /\ "stop" \in meta[o].legs /\ status[o] \in {"working", "filled"}
      BY <1>2, <1>6, <2>4 DEF Owed, accountVars
    <3>2. r # "filled" /\ r # "rejected" /\ (Synchronous => status[o] # "filled")
      BY <1>4, <1>6, <3>1 DEF Receipts
    <3>3. pending' = e
      BY <1>6, <3>1, <3>2
    <3>4. Unheard(e)' /\ status'[e] # "sent"
      BY <2>4, <3>1, <3>2 DEF Unheard
    <3>5. QED
      BY <3>3, <3>4 DEF Promised, Staged
  <2>5. SeesTo(p)
    BY <1>2, <1>6, <2>4 DEF SeesTo, Owed
  <2>6. pending' = pending \/ lost' \/ ~Forgets({pending} \ {NoOrder})
    BY <1>6
  <2>7. lost => lost'
    BY <1>6
  <2>8. QED
    BY <1>2, <2>2, <2>3, <2>5, <2>6, <2>7, PromiseStep
<1>7. QED
  BY <1>4, <1>5, <1>6

\* The task attaches the bracket it was spawned for.
LEMMA PromiseAttaches ==
    ASSUME PromiseInv, LegsInv', NEW p \in Procs, AttachBegins(p)
    PROVE  PromiseInv'
<1>1. PICK f, e, legs : /\ f = co[p] /\ e = co[p].entry /\ legs = co[p].legs
                        /\ SubmitsLeg(p, f, e, legs)
  BY DEF AttachBegins
<1>2. /\ co[p].at = "ready" /\ Runs(p)
      /\ UNCHANGED <<running, starts, raised, lost, pending>>
  BY DEF AttachBegins
<1>3. \A x : ~Submitting(co[p], x) /\ (Attaching(co[p], x) => x = e /\ "stop" \in legs)
  BY <1>1, <1>2 DEF Submitting, Attaching
<1>4. IsFrame(f)
  BY <1>1, FrameIs DEF PromiseInv
<1>5. QED
  BY <1>1, <1>2, <1>3, <1>4, PromiseSubmits

LEMMA PromiseStops ==
    ASSUME PromiseInv, LegsInv', NEW p \in Procs, StopReturns(p)
    PROVE  PromiseInv'
<1>1. /\ co[p].at = "stop" /\ Runs(p) /\ UNCHANGED <<pending, starts>> /\ Free(p)
      /\ \A x : ~Submitting(co[p], x) /\ ~Attaching(co[p], x)
  BY DEF StopReturns, Free, Submitting, Attaching
<1>2. IsFrame(co[p])
  BY FrameIs DEF PromiseInv
<1>3. PICK f, b : f = [co[p] EXCEPT !.stop = co[p].order] /\ b = [Bare EXCEPT !.stop = co[p].order]
  OBVIOUS
<1>4. IsFrame(f)
  BY <1>2, <1>3 DEF IsFrame, Idle
<1>5. CASE Raises(p) /\ UNCHANGED <<accountVars, meta, lost>>
  <2>1. NoneSent
    BY <1>5 DEF NoneSent
  <2>2. QED
    BY <1>1, <1>5, <2>1, PromiseRaises
<1>6. CASE SubmitsLeg(p, f, f.entry, f.legs) /\ UNCHANGED <<running, raised, lost>>
  <2>1. PICK e, legs : e = f.entry /\ legs = f.legs /\ SubmitsLeg(p, f, e, legs)
    BY <1>6
  <2>2. QED
    BY <1>1, <1>4, <1>6, <2>1, PromiseSubmits
<1>7. CASE Attaches(p, b) /\ UNCHANGED <<accountVars, meta, running, raised>>
  <2>1. NoneSent
    BY <1>7 DEF NoneSent
  <2>2. EmptyHanded(p)
    BY <1>7, AttachesIs DEF PromiseInv
  <2>3. lost => lost'
    BY <1>7 DEF Attaches
  <2>4. QED
    BY <1>1, <1>7, <2>1, <2>2, <2>3, PromiseLeaves
<1>8. QED
  BY <1>3, <1>5, <1>6, <1>7 DEF StopReturns

\* close_position cancels the next leg it took, or submits the close.
LEMMA PromiseUnlegs ==
    ASSUME PromiseInv, LegsInv', NEW p \in Procs, NEW f, IsFrame(f), NEW legs,
           NextUnleg(p, f, legs), Runs(p), co[p].at \in {"find", "unleg"},
           UNCHANGED <<running, starts, raised, lost, pending>>
    PROVE  PromiseInv'
<1>1. Free(p) /\ \A x : ~Submitting(co[p], x) /\ ~Attaching(co[p], x)
  BY DEF Free, Submitting, Attaching
<1>2. CASE legs # {}
  <2>1. PICK o, g : /\ g = [f EXCEPT !.at = "unleg", !.order = o, !.left = legs \ {o}]
                    /\ Stays(p, g) /\ UNCHANGED <<accountVars, meta>>
    BY <1>2 DEF NextUnleg
  <2>2. IsFrame(g) /\ g.at = "unleg"
    BY <2>1 DEF IsFrame, Idle
  <2>3. NoneSent
    BY <2>1 DEF NoneSent
  <2>4. QED
    BY <1>1, <2>1, <2>2, <2>3, PromisePasses
<1>3. CASE legs = {}
  <2>1. PICK n, d, m, none, g, kind :
            /\ g = [f EXCEPT !.at = "close", !.order = n, !.left = none] /\ kind = "close"
            /\ Sends(n, d, m, kind, NoOrder, none) /\ Stays(p, g)
    BY <1>3 DEF NextUnleg
  <2>2. IsFrame(g) /\ g.at = "close"
    BY <2>1 DEF IsFrame, Idle
  <2>3. Serves(p, kind, NoOrder)
    BY <1>1 DEF Serves
  <2>4. QED
    BY <1>1, <2>1, <2>2, <2>3, PromiseSends
<1>4. QED
  BY <1>2, <1>3

LEMMA PromiseCloses ==
    ASSUME PromiseInv, LegsInv', NEW p \in Procs, FindReturns(p) \/ UnlegReturns(p)
    PROVE  PromiseInv'
<1>1. /\ Runs(p) /\ co[p].at \in {"find", "unleg"} /\ IsFrame(co[p])
      /\ UNCHANGED <<running, starts, raised, lost, pending>>
  BY FrameIs DEF PromiseInv, FindReturns, UnlegReturns
<1>2. CASE FindReturns(p) /\ net = 0
  <2>1. PICK f : /\ f = Idle \/ f = [co[p] EXCEPT !.at = "open"]
                 /\ Stays(p, f) /\ UNCHANGED <<accountVars, meta>>
    BY <1>2 DEF FindReturns
  <2>2. IsFrame(f) /\ f.at \in {"idle", "open"}
    BY <1>1, <2>1 DEF IsFrame, Idle
  <2>3. NoneSent /\ Free(p)
    BY <1>1, <2>1 DEF NoneSent, Free
  <2>4. QED
    BY <1>1, <2>1, <2>2, <2>3, PromisePasses
<1>3. CASE FindReturns(p) /\ net # 0
  <2>1. PICK f, legs : f = [co[p] EXCEPT !.entry = net] /\ NextUnleg(p, f, legs)
    BY <1>3 DEF FindReturns
  <2>2. IsFrame(f)
    BY <1>1, <2>1 DEF IsFrame, Idle
  <2>3. QED
    BY <1>1, <2>1, <2>2, PromiseUnlegs
<1>4. CASE UnlegReturns(p)
  <2>1. PICK f, legs : f = co[p] /\ NextUnleg(p, f, legs)
    BY <1>4 DEF UnlegReturns
  <2>2. QED
    BY <1>1, <2>1, PromiseUnlegs
<1>5. QED
  BY <1>2, <1>3, <1>4

\* flatten drops a staged bracket; of one that may still fill it knows.
LEMMA PromiseSweeps ==
    ASSUME PromiseInv, LegsInv', NEW p \in Procs, OpenRead(p) \/ SweepReturns(p)
    PROVE  PromiseInv'
<1>1. PICK left : NextSweep(p, left)
  BY DEF OpenRead, SweepReturns
<1>2. /\ Runs(p) /\ co[p].at \in {"open", "sweep"} /\ EmptyHanded(p)
      /\ UNCHANGED <<accountVars, meta, running, starts, raised>>
  BY <1>1, SweepIs DEF PromiseInv, OpenRead, SweepReturns
<1>3. NoneSent /\ Free(p)
  BY <1>2 DEF NoneSent, Free
<1>4. /\ lost => lost'
      /\ pending' = pending \/ lost' \/ ~Forgets({pending} \ {NoOrder})
  <2>1. CASE left # {}
    BY <1>1, <2>1 DEF NextSweep
  <2>2. CASE left = {}
    <3>1. PICK ids : lost' = (lost \/ Forgets(ids)) /\ {pending} \ {NoOrder} \subseteq ids
      BY <1>1, <2>2 DEF NextSweep
    <3>2. Forgets({pending} \ {NoOrder}) => Forgets(ids)
      BY <3>1 DEF Forgets
    <3>3. QED
      BY <3>1, <3>2
  <2>3. QED
    BY <2>1, <2>2
<1>5. QED
  BY <1>2, <1>3, <1>4, PromiseLeaves

-----------------------------------------------------------------------------
(* The account's steps, and the promise that a fill makes.                 *)

\* Only the fill of the staged entry takes it off the stage, and spawns the
\* task that attaches its bracket.
LEMMA HearsEntry ==
    ASSUME NEW o, NEW s
    PROVE  /\ pending # o => Heard(o, s).pending = pending
           /\ running /\ s = "filled" /\ pending = o =>
                  Heard(o, s).task = [Idle EXCEPT !.at = "ready", !.op = "attach",
                                                  !.entry = o, !.legs = meta[o].legs]
<1> DEFINE b == [pending |-> IF pending = o THEN NoOrder ELSE pending,
                 bracket |-> bracket, winner |-> winner, halted |-> halted, task |-> Idle]
           leg == o \in LegsOf(bracket)
           sib == IF o = bracket.stop THEN bracket.target ELSE bracket.stop
           oco == [Idle EXCEPT !.at = "ready", !.op = "oco", !.order = sib]
           att == [Idle EXCEPT !.at = "ready", !.op = "attach", !.entry = o, !.legs = meta[o].legs]
<1>1. CASE ~running
  <2>1. Heard(o, s) = [b EXCEPT !.pending = pending]
    BY <1>1 DEF Heard
  <2>2. QED
    BY <1>1, <2>1
<1>2. CASE running /\ s = "filled" /\ pending = o
  <2>1. Heard(o, s) = [b EXCEPT !.task = att]
    BY <1>2 DEF Heard
  <2>2. QED
    BY <1>2, <2>1
<1>3. CASE running /\ s = "filled" /\ pending # o /\ leg
  <2>1. Heard(o, s) =
           IF sib = NoOrder \/ Synchronous
           THEN [b EXCEPT !.bracket = Bare, !.winner = NoOrder]
           ELSE [b EXCEPT !.winner = IF winner = NoOrder THEN sib ELSE winner, !.task = oco]
    BY <1>3 DEF Heard
  <2>2. QED
    BY <1>3, <2>1
<1>4. CASE running /\ s # "filled" /\ leg /\ winner = NoOrder
  <2>1. Heard(o, s) =
           IF sib = NoOrder
           THEN [b EXCEPT !.halted = TRUE, !.bracket = Bare]
           ELSE [b EXCEPT !.halted = TRUE, !.winner = sib, !.task = oco]
    BY <1>4 DEF Heard
  <2>2. QED
    BY <1>4, <2>1
<1>5. CASE running /\ (s = "filled" => pending # o /\ ~leg)
           /\ (s # "filled" => ~(leg /\ winner = NoOrder))
  <2>1. Heard(o, s) = b
    BY <1>5 DEF Heard
  <2>2. QED
    BY <1>5, <2>1
<1>6. QED
  BY <1>1, <1>2, <1>3, <1>4, <1>5

\* What an account step does to the orders.
AccountGoesOn(o) ==
    /\ \A x \in Orders : status[x] # "none" => status'[x] # "none"
    /\ \A x \in Orders : status'[x] = "sent" => status[x] = "sent"
    /\ \A x \in Orders : x # o /\ status'[x] \in {"working", "filled"}
                            => status'[x] = status[x] /\ told'[x] = told[x]
    /\ o \in Orders => /\ status[o] # "none" /\ status'[o] # "sent"
                       /\ status'[o] \in {"working", "filled"}
                            => status[o] \in {"sent", "working", "filled"}

\* What the coroutines do meanwhile: nothing, but that a task may be woken.
Wakes(f) ==
    \/ UNCHANGED co
    \/ \E t \in FreeSlots : co' = [co EXCEPT ![t] = f]

\* A step of the account.  The fill of a staged entry wakes its task.
LEMMA PromiseHears ==
    ASSUME PromiseInv, LegsInv', starts # 0, NEW o, AccountGoesOn(o),
           NEW f, IsFrame(f), f.at \in {"idle", "ready"}, Wakes(f),
           UNCHANGED <<running, meta, starts, raised, lost>>,
           pending # o => pending' = pending,
           o \in Orders /\ Owed(o)' /\ Listens /\ Owed(o) =>
               /\ Staged(o) => (pending' = pending /\ Unheard(o)')
                               \/ \E t \in Procs : Attaching(co'[t], o)
               /\ \A p \in Procs : Submitting(co[p], o) => Synchronous \/ Unheard(o)'
    PROVE  PromiseInv'
<1>1. \A q \in Procs : co[q].at \notin {"idle", "done", "failed"} => co'[q] = co[q]
  BY DEF Wakes, FreeSlots, PromiseInv, LegsInv, Shapes, Procs
<1>2. \A q \in Procs : co'[q] = co[q] \/ (co'[q] = f /\ co[q].at \in {"idle", "done", "failed"})
  BY DEF Wakes, FreeSlots, PromiseInv, LegsInv, Shapes, Procs
<1>3. MetaSent' /\ starts' \in Nat /\ Unstarted'
  BY DEF PromiseInv, MetaSent, Unstarted, AccountGoesOn
<1>4. OneRuns'
  <2>1. \A q \in Procs : Suspended(co[q]) => Suspended(co'[q])
    BY <1>2 DEF Suspended
  <2>2. \A q \in Procs : co'[q].at = "bar" => co[q].at = "bar"
    BY <1>2
  <2>3. QED
    BY <2>1, <2>2 DEF PromiseInv, OneRuns
<1>5. ASSUME Listens', ~raised', ~lost', NEW e \in Orders, Owed(e)' PROVE Promised(e)'
  <2>1. Owed(e) /\ Listens
    <3>1. Listens /\ meta'[e] = meta[e]
      BY <1>5 DEF Listens
    <3>2. status[e] \in {"sent", "working", "filled"}
      BY <1>5 DEF Owed, AccountGoesOn
    <3>3. QED
      BY <1>5, <3>1, <3>2 DEF Owed
  <2>2. Promised(e)
    BY <1>5, <2>1 DEF PromiseInv, PromisesKept
  <2>3. CASE HasStop(e)
    BY <2>3 DEF Promised, HasStop
  <2>4. CASE \E p \in Procs : Attaching(co[p], e)
    BY <1>1, <2>4 DEF Promised, Attaching
  <2>5. e # o => (Unheard(e) => Unheard(e)') /\ (status[e] # "sent" => status'[e] # "sent")
    BY DEF Unheard, AccountGoesOn
  <2>6. CASE Staged(e)
    <3>1. CASE e # o
      BY <2>5, <2>6, <3>1 DEF Promised, Staged
    <3>2. CASE e = o
      BY <1>5, <2>1, <2>6, <3>2 DEF Promised, Staged, AccountGoesOn
    <3>3. QED
      BY <3>1, <3>2
  <2>7. ASSUME NEW p \in Procs, Submitting(co[p], e), Synchronous \/ Unheard(e)
        PROVE  Promised(e)'
    <3>1. co'[p] = co[p]
      BY <1>1, <2>7 DEF Submitting
    <3>2. Synchronous \/ Unheard(e)'
      BY <1>5, <2>1, <2>5, <2>7
    <3>3. QED
      BY <2>7, <3>1, <3>2 DEF Promised, Submitting
  <2>8. QED
    BY <2>2, <2>3, <2>4, <2>6, <2>7 DEF Promised
<1>6. QED
  BY <1>3, <1>4, <1>5 DEF PromiseInv, PromisesKept

\* The callbacks wake the task their result names.
LEMMA TellsWakes ==
    ASSUME NEW h, Tells(h)
    PROVE  /\ pending' = h.pending /\ Wakes(h.task)
           /\ h.task # Idle => \E t \in FreeSlots : co' = [co EXCEPT ![t] = h.task]
           /\ UNCHANGED <<running, meta, starts, raised, lost>>
<1>1. FreeSlots # {} => (CHOOSE x \in FreeSlots : TRUE) \in FreeSlots
  OBVIOUS
<1>2. QED
  BY <1>1 DEF Tells, Wakes

\* The fill of a staged entry that is reported wakes its task.
LEMMA TellsAttach ==
    ASSUME PromiseInv, NEW o, running, pending = o, Owed(o), Tells(Heard(o, "filled"))
    PROVE  \E t \in Procs : Attaching(co'[t], o)
<1>1. PICK f : f = [Idle EXCEPT !.at = "ready", !.op = "attach", !.entry = o, !.legs = meta[o].legs]
  OBVIOUS
<1>2. /\ f.at = "ready" /\ f.op = "attach" /\ f.entry = o /\ f.legs = meta[o].legs /\ f # Idle
  BY <1>1 DEF Idle
<1>3. \E t \in FreeSlots : co' = [co EXCEPT ![t] = f]
  <2>1. PICK h, s : h = Heard(o, s) /\ s = "filled"
    OBVIOUS
  <2>2. Tells(h) /\ h.task = f
    BY <1>1, <2>1, HearsEntry
  <2>3. QED
    BY <1>2, <2>2, TellsWakes
<1>4. \E t \in Procs : co'[t] = f
  BY <1>3 DEF FreeSlots, Procs, PromiseInv, LegsInv, Shapes
<1>5. QED
  BY <1>2, <1>4 DEF Attaching, Owed

LEMMA PromiseMoves ==
    ASSUME PromiseInv, LegsInv', starts # 0, NEW o, status[o] \in {"sent", "working"},
           NEW s \in {"working", "filled", "canceled", "rejected"}, Moves(o, s),
           Synchronous /\ status[o] = "working" /\ s = "filled" => running
    PROVE  PromiseInv'
<1> DEFINE sib  == IF o = bracket.stop THEN bracket.target ELSE bracket.stop
           gone == IF /\ Synchronous /\ running /\ s = "filled"
                      /\ pending # o /\ o \in LegsOf(bracket)
                   THEN {x \in {sib} \ {NoOrder} : status[x] = "working"} ELSE {}
<1>1. /\ status' = [x \in Orders |-> IF x = o THEN s
                                      ELSE IF x \in gone THEN "canceled" ELSE status[x]]
      /\ told' = [x \in Orders |-> IF x \in gone \cup {o} THEN Synchronous /\ s \in Done
                                    ELSE told[x]]
  BY DEF Moves
<1> HIDE DEF sib, gone
<1>2. AccountGoesOn(o)
  BY <1>1 DEF AccountGoesOn
<1>3. CASE Synchronous /\ s \in Done
  <2>1. PICK h : h = Heard(o, s) /\ Tells(h)
    BY <1>3 DEF Moves
  <2>2. PICK f : /\ IsFrame(f) /\ f.at \in {"idle", "ready"} /\ Wakes(f)
                 /\ pending # o => pending' = pending
                 /\ UNCHANGED <<running, meta, starts, raised, lost>>
    <3>1. IsFrame(h.task) /\ h.task.at \in {"idle", "ready"}
      BY <2>1, HeardIs
    <3>2. pending # o => h.pending = pending
      BY <2>1, HearsEntry
    <3>3. pending' = h.pending /\ Wakes(h.task) /\ UNCHANGED <<running, meta, starts, raised, lost>>
      BY <2>1, TellsWakes
    <3>4. QED
      BY <3>1, <3>2, <3>3
  <2>3. ASSUME o \in Orders, Owed(o)', Owed(o), Staged(o) PROVE \E t \in Procs : Attaching(co'[t], o)
    <3>1. s = "filled"
      BY <1>1, <1>3, <2>3 DEF Owed, Done
    <3>2. running /\ pending = o
      BY <2>3, <3>1, <1>3 DEF Staged
    <3>3. QED
      BY <2>1, <2>3, <3>1, <3>2, TellsAttach
  <2>4. QED
    BY <1>2, <1>3, <2>2, <2>3, PromiseHears
<1>4. CASE ~(Synchronous /\ s \in Done)
  <2>1. UNCHANGED <<sessionVars, co, starts, raised, lost>>
    BY <1>4 DEF Moves
  <2>2. UNCHANGED <<running, meta, pending, starts, raised, lost>>
    BY <2>1 DEF sessionVars
  <2>3. o \in Orders => Unheard(o)'
    BY <1>1, <1>4 DEF Unheard
  <2>4. PICK f : IsFrame(f) /\ f.at \in {"idle", "ready"} /\ Wakes(f)
    <3>1. IsFrame(Idle) /\ Idle.at = "idle"
      BY DEF IsFrame, Idle
    <3>2. QED
      BY <2>1, <3>1 DEF Wakes
  <2>5. QED
    BY <1>2, <2>2, <2>3, <2>4, PromiseHears
<1>5. QED
  BY <1>3, <1>4

\* The account reports a fill or an end.  An entry whose submit is still out
\* is not reported on, as ~Delayed says.
LEMMA PromiseTells ==
    ASSUME PromiseInv, LegsInv', Synchronous \/ ~Delayed, NEW o \in Orders, AccountTells(o)
    PROVE  PromiseInv'
<1>1. /\ ~Synchronous /\ status[o] \in Done /\ UNCHANGED status
      /\ told' = [told EXCEPT ![o] = TRUE] /\ Tells(Heard(o, status[o]))
  BY DEF AccountTells, Tell
<1>2. AccountGoesOn(o) /\ starts # 0
  <2>1. \A x \in Orders : x # o => told'[x] = told[x]
    BY <1>1
  <2>2. QED
    BY <1>1, <2>1 DEF AccountGoesOn, PromiseInv, Unstarted, Done
<1>3. \A p \in Procs : ~Submitting(co[p], o)
  BY <1>1 DEF AccountTells, Submits, Submitting
<1>4. PICK f : /\ IsFrame(f) /\ f.at \in {"idle", "ready"} /\ Wakes(f)
               /\ pending # o => pending' = pending
               /\ UNCHANGED <<running, meta, starts, raised, lost>>
  <2>1. PICK h : h = Heard(o, status[o]) /\ Tells(h)
    BY <1>1
  <2>2. IsFrame(h.task) /\ h.task.at \in {"idle", "ready"}
    BY <2>1, HeardIs
  <2>3. pending # o => h.pending = pending
    BY <2>1, HearsEntry
  <2>4. pending' = h.pending /\ Wakes(h.task) /\ UNCHANGED <<running, meta, starts, raised, lost>>
    BY <2>1, TellsWakes
  <2>5. QED
    BY <2>2, <2>3, <2>4
<1>5. ASSUME Owed(o)', Listens, Owed(o), Staged(o) PROVE \E t \in Procs : Attaching(co'[t], o)
  <2>1. status[o] = "filled"
    BY <1>1, <1>5 DEF Owed, Done
  <2>2. running /\ pending = o
    BY <1>1, <1>5 DEF Staged, Listens
  <2>3. QED
    BY <1>1, <1>5, <2>1, <2>2, TellsAttach
<1>6. QED
  BY <1>2, <1>3, <1>4, <1>5, PromiseHears

LEMMA PromiseAccount ==
    ASSUME PromiseInv, LegsInv', Synchronous \/ ~Delayed,
           \/ \E o \in Orders : \/ AccountAnswers(o) \/ AccountFills(o)
                                \/ AccountDrops(o) \/ AccountTells(o)
           \/ \E p \in Procs : CancelActs(p)
    PROVE  PromiseInv'
<1>1. \A o \in Orders : status[o] # "none" => starts # 0
  BY DEF PromiseInv, Unstarted
<1>2. ASSUME NEW o \in Orders, AccountAnswers(o) PROVE PromiseInv'
  <2>1. status[o] = "sent" /\ \E s \in {"working", "filled", "canceled", "rejected"} : Moves(o, s)
    BY <1>2 DEF AccountAnswers, Answers
  <2>2. QED
    BY <1>1, <2>1, PromiseMoves
<1>3. ASSUME NEW o \in Orders, AccountFills(o) PROVE PromiseInv'
  <2>1. PICK s : s = "filled"
    OBVIOUS
  <2>2. status[o] = "working" /\ Moves(o, s) /\ (Synchronous => running)
    BY <1>3, <2>1 DEF AccountFills, PromiseInv, OneRuns, Procs
  <2>3. QED
    BY <1>1, <2>1, <2>2, PromiseMoves
<1>4. ASSUME NEW o \in Orders, AccountDrops(o) PROVE PromiseInv'
  <2>1. PICK s : s = "canceled"
    OBVIOUS
  <2>2. status[o] = "working" /\ Moves(o, s)
    BY <1>4, <2>1 DEF AccountDrops
  <2>3. QED
    BY <1>1, <2>1, <2>2, PromiseMoves
<1>5. ASSUME NEW o \in Orders, AccountTells(o) PROVE PromiseInv'
  BY <1>5, PromiseTells
<1>6. ASSUME NEW p \in Procs, CancelActs(p) PROVE PromiseInv'
  <2>1. PICK s, o : s = "canceled" /\ o = co[p].order
    OBVIOUS
  <2>2. status[o] = "working" /\ Moves(o, s) /\ starts # 0
    BY <1>6, <2>1 DEF CancelActs, Cancels, PromiseInv, Unstarted
  <2>3. QED
    BY <2>1, <2>2, PromiseMoves
<1>7. QED
  BY <1>2, <1>3, <1>4, <1>5, <1>6

-----------------------------------------------------------------------------

LEMMA PromiseInvStarts ==
    Init => PromiseInv
<1> SUFFICES ASSUME Init PROVE PromiseInv
  OBVIOUS
<1>1. LegsInv
  BY LegsInvStarts
<1>2. /\ starts = 0 /\ ~running
      /\ \A o \in Orders : status[o] = "none" /\ meta[o].kind = "none"
  BY DEF Init, AccountInit
<1>3. \A p \in Procs : co[p].at = "idle"
  BY DEF Init, Idle
<1>4. OneRuns
  BY <1>3 DEF OneRuns, Suspended
<1>5. MetaSent /\ Unstarted /\ PromisesKept
  BY <1>2, <1>3 DEF MetaSent, Unstarted, PromisesKept, Owed
<1>6. QED
  BY <1>1, <1>2, <1>4, <1>5 DEF PromiseInv

LEMMA PromiseInvHolds ==
    ASSUME Synchronous \/ ~Delayed
    PROVE  PromiseInv /\ [Next]_vars => PromiseInv'
<1> SUFFICES ASSUME PromiseInv, [Next]_vars PROVE PromiseInv'
  OBVIOUS
<1>1. LegsInv'
  BY LegsInvHolds DEF PromiseInv
<1>2. CASE UNCHANGED vars
  <2>1. UNCHANGED <<status, told, running, pending, meta, co, starts, raised, lost>>
    BY <1>2 DEF vars, accountVars, sessionVars
  <2>2. MetaSent' /\ OneRuns' /\ Unstarted' /\ starts' \in Nat
    BY <2>1 DEF PromiseInv, MetaSent, OneRuns, Unstarted, Suspended
  <2>3. PromisesKept'
    BY <2>1 DEF PromiseInv, PromisesKept, Listens, Owed, Promised, HasStop, Staged, Unheard,
                Submitting, Attaching
  <2>4. QED
    BY <1>1, <2>2, <2>3 DEF PromiseInv
<1>3. ASSUME NEW p \in Callers, Calls(p) PROVE PromiseInv'
  <2>1. p \in Procs
    BY DEF Procs
  <2>2. QED
    BY <1>1, <1>3, <2>1, PromisePlaces, PromiseCalls, PromiseStarts DEF Calls
<1>4. ASSUME NEW p \in Procs, Resumes(p) PROVE PromiseInv'
  BY <1>1, <1>4, PromiseEnters, PromiseAttaches, PromiseStops, PromiseCloses, PromiseSweeps,
     PromiseSettles DEF Resumes, Settling
<1>5. ASSUME NEW p \in Procs, Fails(p) PROVE PromiseInv'
  BY <1>1, <1>5, PromiseFails
<1>6. CASE \/ \E o \in Orders : \/ AccountAnswers(o) \/ AccountFills(o)
                                \/ AccountDrops(o) \/ AccountTells(o)
           \/ \E p \in Procs : CancelActs(p)
  BY <1>1, <1>6, PromiseAccount
<1>7. QED
  BY <1>2, <1>3, <1>4, <1>5, <1>6 DEF Next

\* At rest no coroutine has an entry in hand and every fill has been reported,
\* so that a promise not kept by now was never made.
LEMMA PromiseProtects ==
    ASSUME PromiseInv, Synchronous \/ starts <= 1
    PROVE  Protected
<1>1. SUFFICES ASSUME AtRest, running, ~raised, ~lost,
                      NEW e \in Entries, status[e] = "filled", "stop" \in meta[e].legs
               PROVE  HasStop(e)
  BY DEF Protected, HasStop
<1>2. e \in Orders /\ Owed(e)
  BY <1>1 DEF Entries, Owed
<1>3. Promised(e)
  BY <1>1, <1>2 DEF PromiseInv, PromisesKept, Listens
<1>4. ~Staged(e)
  BY <1>1, <1>2 DEF Staged, Unheard, AtRest, Done
<1>5. \A p \in Procs : ~Submitting(co[p], e) /\ ~Attaching(co[p], e)
  BY <1>1 DEF AtRest, Submitting, Attaching
<1>6. QED
  BY <1>3, <1>4, <1>5 DEF Promised

\* On a paper account always, and on a streaming one that reports a fill only
\* after the entry's submit has returned, until the session is started again:
\* once all is quiet, every entry that filled with a stop planned has had that
\* stop submitted, unless a call raised or a bracket was knowingly dropped
\* (session.py:354-383, 631-649).  The hypotheses are real: a fill reported
\* during the submit finds no staged bracket, and one reported between a stop
\* and a second start is not heard.
THEOREM EntriesAreProtected ==
    ASSUME Synchronous \/ ~Delayed
    PROVE  Spec => []((Synchronous \/ starts <= 1) => Protected)
<1>1. Init => PromiseInv
  BY PromiseInvStarts
<1>2. PromiseInv /\ [Next]_vars => PromiseInv'
  BY PromiseInvHolds
<1>3. PromiseInv => ((Synchronous \/ starts <= 1) => Protected)
  BY PromiseProtects
<1>4. QED
  BY <1>1, <1>2, <1>3, PTL DEF Spec

-----------------------------------------------------------------------------
(* One trade at a time: a paper account, one user who does not pyramid,    *)
(* and orders that are never refused.                                      *)

PaperTrades ==
    /\ Synchronous /\ ~Pyramids /\ "venue" \notin Faults
    /\ \A p, q \in Callers : p = q
    /\ Dirs \subseteq Int \ {0}

LiveOrders == {x \in Orders : Live(x)}

\* A caller that is at nothing, a task that has not begun or is done.
Rests(f) == f.at \in {"idle", "done"} /\ f.op = "none"

\* Nothing has failed, and no id was dropped.
Clean ==
    /\ ~raised /\ ~lost /\ recovery = NoOrder
    /\ \A o \in Orders : status[o] # "rejected" /\ (status[o] \in Done => told[o])

\* What kind of order is where: a market order is answered at once.
KindOK(o) ==
    /\ meta[o].kind \in {"entry", "stop", "target", "close"} /\ side[o] # 0
    /\ meta[o].kind \in {"stop", "target"} => ~market[o]
    /\ meta[o].kind = "close" => market[o]
    /\ market[o] => status[o] # "working"

Kinds ==
    /\ net \in Int /\ side \in [Orders -> Int] /\ DOMAIN market = Orders
    /\ \A o \in LiveOrders : KindOK(o)
    /\ pending # NoOrder => pending \in Entries /\ status[pending] # "sent"
    /\ LegsOf(bracket) \subseteq Legs

\* An order that can fill opens the one trade, or closes it.
OneTrade ==
    \A x \in LiveOrders :
        IF meta[x].kind = "entry" THEN net = 0 /\ LiveOrders = {x}
        ELSE net # 0 /\ side[x] = -net

Submitted ==
    \A o \in Orders : status[o] = "sent" =>
        \E p \in Procs : co[p].at \in Submits /\ co[p].order = o

\* A task that is at work is one the user waits for or will wait for.
Awaited(t) ==
    /\ t \in tasks
    /\ \E u \in Callers : \/ co[u].at = "bar" /\ co[t].op = "attach"
                          \/ co[u].at = "cancel" /\ co[t].op = "oco"
                          \/ co[u].at = "drain" /\ t \in co[u].left

OneTask ==
    /\ tasks \subseteq Tasks
    /\ \A t \in Tasks : Rests(co[t]) \/ Awaited(t)
    /\ \A s, t \in Tasks : s = t \/ Rests(co[s]) \/ Rests(co[t])
    /\ \A u \in Callers : co[u].at = "drain" => co[u].left \subseteq tasks
    /\ winner # NoOrder => \E t \in Tasks : co[t].op = "oco"

\* The operations that close the position and sweep the open orders.
Closing == {"flatten", "stop"}

\* The order and legs of a coroutine that works for the position.
Opens(f, orders) ==
    /\ f.entry \in Orders /\ status[f.entry] = "filled" /\ net # 0 /\ net = side[f.entry]
    /\ LiveOrders \subseteq orders

\* What holds of the trade while a coroutine is where it is.
TradeFrame(f) ==
    /\ f.at = "entry" => /\ f.order \in Entries /\ LiveOrders \subseteq {f.order} /\ f.stop = NoOrder
                         /\ status[f.order] = "filled" => net # 0 /\ net = side[f.order]
    /\ f.at = "ready" /\ f.op = "attach" => Opens(f, {}) /\ f.stop = NoOrder
    /\ f.at = "stop" => Opens(f, {f.order})
    /\ f.at = "target" => Opens(f, {f.order, f.stop}) /\ f.stop \in Legs \cup {NoOrder}
    /\ f.at \in {"stop", "target"} => f.order \in Legs
    /\ f.at = "unleg" => net # 0 /\ f.entry = net /\ bracket = Bare
    /\ f.at \in {"unleg", "sweep"} => f.left \subseteq Orders /\ LiveOrders \subseteq f.left \cup {f.order}
    /\ f.at = "close" => /\ f.order \in Closes /\ LiveOrders \subseteq {f.order}
                         /\ ~Live(f.order) => net = 0
    /\ f.at \in {"unleg", "sweep", "cancel"} \/ f.op = "oco" => f.order \in Orders
    /\ f.op \in Closing /\ f.at \in {"risk", "drain", "orders", "open", "sweep"} => net = 0
    /\ f.op \in Closing /\ f.done => LiveOrders = {}
    /\ f.op = "oco" => /\ winner # NoOrder /\ f.order = winner
                       /\ LegsOf(bracket) \cap LiveOrders \subseteq {winner}

\* Which operation a user's coroutine may be in at an await, and a task.
CallerRole(f) ==
    /\ f.at \in {"idle", "entry", "stop", "target", "bar", "cancel", "drain", "risk", "orders",
                 "find", "unleg", "close", "open", "sweep"}
    /\ f.at = "idle" => f.op = "none"
    /\ f.at \in {"entry", "stop", "target"} => f.op = "place"
    /\ f.at = "bar" => f.op = "bar"
    /\ f.at = "cancel" => f.op = "cancel"
    /\ f.at \in {"find", "unleg", "close"} => f.op \in Closing \cup {"close"}
    /\ f.at \in {"open", "sweep"} => f.op \in Closing
    /\ f.at \in {"drain", "orders", "risk"} => f.op \notin {"none", "attach", "oco"}
    /\ f.op = "stopping" => f.at = "drain" /\ ~f.done
    /\ f.op \in Closing /\ f.done => f.at \in {"drain", "orders"}

TaskRole(f) ==
    \/ Rests(f)
    \/ f.op = "attach" /\ f.at \in {"ready", "stop", "target"}
    \/ f.op = "oco" /\ f.at \in {"ready", "oco"}

Roles == /\ \A p \in Callers : CallerRole(co[p])
         /\ \A t \in Tasks : TaskRole(co[t])

OrdersOK == Clean /\ Kinds /\ OneTrade

TradeInv ==
    /\ PromiseInv /\ OrdersOK /\ Submitted /\ OneTask /\ Roles
    /\ \A p \in Procs : TradeFrame(co[p])

\* The one user's coroutine is the only one under way; a task is, while that
\* user waits for it.
Alone(p) == p \in Callers /\ \A q \in Procs \ {p} : Rests(co[q])

Tended(p) ==
    /\ p \in Tasks
    /\ \E u \in Callers : /\ co[u].at = "drain" /\ p \in co[u].left
                         /\ \A q \in Procs \ {p, u} : Rests(co[q])

LEMMA RunsAlone ==
    ASSUME PaperTrades, TradeInv, NEW p \in Callers, Runs(p), co[p].at \notin {"bar", "cancel"},
           co[p].at = "drain" => \A t \in co[p].left : co[t].at = "done"
    PROVE  Alone(p)
<1>1. ASSUME NEW t \in Tasks PROVE Rests(co[t])
  <2>1. SUFFICES ASSUME Awaited(t) PROVE Rests(co[t])
    BY DEF TradeInv, OneTask
  <2>2. co[p].at = "drain" /\ co[t].at = "done"
    BY <2>1 DEF Awaited, PaperTrades
  <2>3. QED
    BY <2>2 DEF TradeInv, Roles, TaskRole
<1>2. QED
  BY <1>1 DEF Alone, Procs, PaperTrades

LEMMA RunsTended ==
    ASSUME PaperTrades, TradeInv, NEW p \in Tasks, Runs(p), ~Rests(co[p])
    PROVE  Tended(p)
<1>1. Awaited(p)
  BY DEF TradeInv, OneTask
<1>2. PICK u \in Callers : \/ co[u].at \in {"bar", "cancel"}
                           \/ co[u].at = "drain" /\ p \in co[u].left
  BY <1>1 DEF Awaited
<1>3. u # p /\ Suspended(co[u])
  BY SessionAssumption DEF PaperTrades, Runs, Procs
<1>4. co[u].at = "drain" /\ p \in co[u].left
  BY <1>2, <1>3 DEF Suspended
<1>5. ASSUME NEW q \in Procs \ {p, u} PROVE Rests(co[q])
  BY DEF TradeInv, OneTask, Procs, PaperTrades
<1>6. QED
  BY <1>4, <1>5 DEF Tended

LEMMA RestsFrame ==
    ASSUME NEW f, Rests(f)
    PROVE  TradeFrame(f)'
BY DEF Rests, TradeFrame, Closing

LEMMA AloneIs ==
    ASSUME TradeInv, NEW p, Alone(p)
    PROVE  winner = NoOrder /\ p \in Procs /\ \A t \in Tasks : Rests(co[t])
<1>1. \A t \in Tasks : Rests(co[t])
  BY SessionAssumption DEF Alone, Procs
<1>2. winner = NoOrder
  BY <1>1 DEF TradeInv, OneTask, Rests
<1>3. QED
  BY <1>1, <1>2 DEF Alone, Procs

\* The user's coroutine goes on.
LEMMA CallerStep ==
    ASSUME PaperTrades, TradeInv, PromiseInv', NEW p, Alone(p), NEW f, Stays(p, f),
           OrdersOK', Submitted', CallerRole(f), TradeFrame(f)',
           f.at = "drain" => f.left \subseteq tasks', tasks' \subseteq Tasks,
           winner' \in {winner, NoOrder}
    PROVE  TradeInv'
<1>2. p \in Callers /\ p \in Procs /\ p \notin Tasks
  BY SessionAssumption DEF Alone, Procs
<1>1. co'[p] = f /\ \A q \in Procs \ {p} : co'[q] = co[q]
  BY <1>2 DEF TradeInv, PromiseInv, LegsInv, Shapes, Stays
<1>3. \A q \in Procs \ {p} : Rests(co'[q])
  BY <1>1 DEF Alone
<1>4. \A t \in Tasks : Rests(co'[t])
  BY <1>2, <1>3 DEF Procs
<1>5. winner' = NoOrder
  BY AloneIs
<1>6. \A u \in Callers : u = p
  BY <1>2 DEF PaperTrades
<1>7. OneTask'
  BY <1>1, <1>4, <1>5, <1>6 DEF OneTask
<1>8. Roles'
  BY <1>1, <1>4, <1>6 DEF Roles, TaskRole
<1>9. \A q \in Procs : TradeFrame(co[q])'
  <2>1. ASSUME NEW q \in Procs \ {p} PROVE TradeFrame(co[q])'
    <3>1. PICK g : g = co'[q]
      OBVIOUS
    <3>2. TradeFrame(g)'
      BY <1>3, <3>1, RestsFrame
    <3>3. QED
      BY <3>1, <3>2 DEF TradeFrame, Opens
  <2>2. TradeFrame(co[p])'
    BY <1>1 DEF TradeFrame, Opens
  <2>3. QED
    BY <2>1, <2>2
<1>10. QED
  BY <1>7, <1>8, <1>9 DEF TradeInv

\* A task goes on while the user waits for it.
LEMMA TaskStep ==
    ASSUME PaperTrades, TradeInv, PromiseInv', NEW p, Tended(p), NEW f, Stays(p, f),
           OrdersOK', Submitted', TaskRole(f), TradeFrame(f)', UNCHANGED <<tasks, net>>,
           \/ winner' = NoOrder
           \/ winner' = winner /\ (co[p].op = "oco" => f.op = "oco"),
           net # 0 \/ LiveOrders' \subseteq LiveOrders
    PROVE  TradeInv'
<1>1. p \in Tasks /\ p \in Procs /\ p \notin Callers
  BY SessionAssumption DEF Tended, Procs
<1>2. co'[p] = f /\ \A q \in Procs \ {p} : co'[q] = co[q]
  BY <1>1 DEF TradeInv, PromiseInv, LegsInv, Shapes, Stays
<1>3. PICK u \in Callers : /\ co[u].at = "drain" /\ p \in co[u].left
                          /\ \A q \in Procs \ {p, u} : Rests(co[q])
  BY DEF Tended
<1>4. u \in Procs /\ u \notin Tasks /\ co'[u] = co[u]
  BY <1>1, <1>2, <1>3, SessionAssumption DEF Procs
<1>5. \A v \in Callers : v = u
  BY DEF PaperTrades
<1>6. \A t \in Tasks \ {p} : Rests(co[t]) /\ co'[t] = co[t]
  BY <1>2, <1>3, <1>4 DEF Procs
<1>7. OneTask'
  <2>1. tasks' \subseteq Tasks /\ co[u].left \subseteq tasks
    BY <1>3 DEF TradeInv, OneTask
  <2>2. Awaited(p)'
    BY <1>3, <1>4, <2>1 DEF Awaited
  <2>3. \A t \in Tasks \ {p} : Rests(co'[t])
    BY <1>6
  <2>4. ASSUME winner' # NoOrder PROVE co'[p].op = "oco"
    <3>1. winner # NoOrder /\ (co[p].op = "oco" => f.op = "oco")
      BY <2>4
    <3>2. PICK t \in Tasks : co[t].op = "oco"
      BY <3>1 DEF TradeInv, OneTask
    <3>3. t = p
      BY <1>6, <3>2 DEF Rests
    <3>4. QED
      BY <1>2, <3>1, <3>2, <3>3
  <2>5. \A v \in Callers : co'[v].at = "drain" => co'[v].left \subseteq tasks'
    BY <1>4, <1>5, <2>1
  <2>6. QED
    BY <1>1, <2>1, <2>2, <2>3, <2>4, <2>5 DEF OneTask
<1>8. Roles'
  BY <1>2, <1>4, <1>5, <1>6 DEF Roles, TaskRole, TradeInv
<1>9. TradeFrame(co[u])'
  <2>1. PICK g : g = co[u]
    OBVIOUS
  <2>2. g.at = "drain" /\ g.op # "oco" /\ TradeFrame(g)
    BY <1>3, <1>4, <2>1 DEF TradeInv, Roles, CallerRole
  <2>3. g.op \in Closing => net' = 0
    BY <2>2 DEF TradeFrame
  <2>4. g.op \in Closing /\ g.done => LiveOrders' = {}
    BY <2>2, <2>3 DEF TradeFrame
  <2>5. TradeFrame(g)'
    BY <2>2, <2>3, <2>4 DEF TradeFrame
  <2>6. QED
    BY <1>4, <2>1, <2>5 DEF TradeFrame, Opens
<1>10. \A q \in Procs : TradeFrame(co[q])'
  <2>1. ASSUME NEW q \in Procs \ {p, u} PROVE TradeFrame(co[q])'
    <3>1. PICK g : g = co'[q]
      OBVIOUS
    <3>2. TradeFrame(g)'
      BY <1>2, <1>3, <3>1, RestsFrame
    <3>3. QED
      BY <3>1, <3>2 DEF TradeFrame, Opens
  <2>2. TradeFrame(co[p])'
    BY <1>2 DEF TradeFrame, Opens
  <2>3. QED
    BY <1>9, <2>1, <2>2
<1>11. QED
  BY <1>7, <1>8, <1>10 DEF TradeInv

\* A step that leaves the account alone.
LEMMA OrdersRest ==
    ASSUME TradeInv, NEW p \in Procs, NEW f, Stays(p, f), UNCHANGED <<accountVars, meta, raised>>,
           ~lost', recovery' = NoOrder, LegsOf(bracket') \subseteq Legs,
           pending' \in {pending, NoOrder} \/ (pending' \in Entries /\ status[pending'] # "sent"),
           co[p].at \in Submits => status[co[p].order] # "sent"
    PROVE  /\ OrdersOK' /\ Submitted' /\ LiveOrders' = LiveOrders
           /\ Legs' = Legs /\ Entries' = Entries /\ Closes' = Closes
<1>1. UNCHANGED <<status, side, market, told, net>>
  BY DEF accountVars
<1>2. LiveOrders' = LiveOrders /\ Legs' = Legs /\ Entries' = Entries /\ Closes' = Closes
  BY <1>1 DEF LiveOrders, Live, Legs, Entries, Closes
<1>3. Clean'
  BY <1>1 DEF TradeInv, OrdersOK, Clean
<1>4. \A o \in LiveOrders' : KindOK(o)'
  BY <1>1, <1>2 DEF TradeInv, OrdersOK, Kinds, KindOK
<1>5. pending' # NoOrder => pending' \in Entries /\ status[pending'] # "sent"
  BY DEF TradeInv, OrdersOK, Kinds
<1>6. Kinds'
  BY <1>1, <1>2, <1>4, <1>5 DEF TradeInv, OrdersOK, Kinds
<1>7. OneTrade'
  BY <1>1, <1>2 DEF TradeInv, OrdersOK, OneTrade
<1>8. Submitted'
  <2>1. \A q \in Procs \ {p} : co'[q] = co[q]
    BY DEF TradeInv, PromiseInv, LegsInv, Shapes, Stays
  <2>2. QED
    BY <1>1, <2>1 DEF TradeInv, Submitted
<1>9. QED
  BY <1>2, <1>3, <1>6, <1>7, <1>8 DEF OrdersOK

\* Coroutine p submits order o, which opens the trade or is one of its exits.
SubmitsOne(p, o, kind) ==
    \E f, parent, legs : \E d \in Int \ {0}, m \in BOOLEAN :
        /\ Stays(p, f) /\ f.at \in Submits /\ f.order = o
        /\ Sends(o, d, m, kind, parent, legs)
        /\ kind \in {"stop", "target"} => m = FALSE
        /\ kind = "close" => m = TRUE
        /\ kind = "entry" => net = 0 /\ LiveOrders = {}
        /\ kind # "entry" => net # 0 /\ d = -net

LEMMA OrdersSent ==
    ASSUME TradeInv, NEW p \in Procs, NEW o, NEW kind \in {"entry", "stop", "target", "close"},
           SubmitsOne(p, o, kind),
           UNCHANGED <<raised, lost, pending>>, recovery' = NoOrder,
           LegsOf(bracket') \subseteq Legs,
           co[p].at \in Submits => status[co[p].order] # "sent"
    PROVE  /\ OrdersOK' /\ Submitted' /\ o \in Orders /\ LiveOrders' = LiveOrders \cup {o}
           /\ net' = net /\ meta'[o].kind = kind /\ status'[o] = "sent"
           /\ Legs \subseteq Legs' /\ Entries \subseteq Entries' /\ Closes \subseteq Closes'
           /\ \A x \in Orders \ {o} : side'[x] = side[x] /\ status'[x] = status[x]
<1> PICK f, parent, legs : \E d \in Int \ {0}, m \in BOOLEAN :
        /\ Stays(p, f) /\ f.at \in Submits /\ f.order = o
        /\ Sends(o, d, m, kind, parent, legs)
        /\ kind \in {"stop", "target"} => m = FALSE
        /\ kind = "close" => m = TRUE
        /\ kind = "entry" => net = 0 /\ LiveOrders = {}
        /\ kind # "entry" => net # 0 /\ d = -net
  BY DEF SubmitsOne
<1> PICK d \in Int \ {0}, m \in BOOLEAN :
        /\ Stays(p, f) /\ f.at \in Submits /\ f.order = o
        /\ Sends(o, d, m, kind, parent, legs)
        /\ kind \in {"stop", "target"} => m = FALSE
        /\ kind = "close" => m = TRUE
        /\ kind = "entry" => net = 0 /\ LiveOrders = {}
        /\ kind # "entry" => net # 0 /\ d = -net
  OBVIOUS
<1>1. /\ o \in Orders /\ status[o] = "none" /\ UNCHANGED <<told, net>>
      /\ status' = [status EXCEPT ![o] = "sent"] /\ side' = [side EXCEPT ![o] = d]
      /\ market' = [market EXCEPT ![o] = m]
  BY DEF Sends, Send
<1>2. PICK r : r.kind = kind /\ meta' = [meta EXCEPT ![o] = r]
  BY DEF Sends
<1>3. /\ status \in [Orders -> OrderStatus] /\ DOMAIN meta = Orders /\ DOMAIN market = Orders
      /\ side \in [Orders -> Int] /\ net \in Int
  BY DEF TradeInv, PromiseInv, LegsInv, Shapes, OrdersOK, Kinds
<1>4. /\ \A x \in Orders \ {o} : /\ status'[x] = status[x] /\ side'[x] = side[x]
                                  /\ market'[x] = market[x] /\ meta'[x] = meta[x]
      /\ status'[o] = "sent" /\ side'[o] = d /\ market'[o] = m /\ meta'[o].kind = kind
  BY <1>1, <1>2, <1>3
<1>5. meta[o].kind = "none" \/ meta[o].kind \notin {"entry", "stop", "target", "close"}
  BY <1>1 DEF TradeInv, PromiseInv, MetaSent
<1>6. LiveOrders' = LiveOrders \cup {o}
  BY <1>1, <1>4 DEF LiveOrders, Live
<1>7. Legs \subseteq Legs' /\ Entries \subseteq Entries' /\ Closes \subseteq Closes'
  BY <1>4, <1>5 DEF Legs, Entries, Closes
<1>8. Clean'
  BY <1>1, <1>4 DEF TradeInv, OrdersOK, Clean, Done
<1>9. ASSUME NEW x \in LiveOrders' PROVE KindOK(x)'
  <2>1. CASE x = o
    BY <1>4, <2>1 DEF KindOK
  <2>2. CASE x # o
    <3>1. x \in LiveOrders /\ x \in Orders
      BY <1>6, <2>2 DEF LiveOrders
    <3>2. KindOK(x)
      BY <3>1 DEF TradeInv, OrdersOK, Kinds
    <3>3. QED
      BY <1>4, <2>2, <3>1, <3>2 DEF KindOK
  <2>3. QED
    BY <2>1, <2>2
<1>10. pending # NoOrder => pending \in Entries' /\ status'[pending] # "sent"
  <2>1. pending # NoOrder => pending \in Entries /\ status[pending] # "sent"
    BY DEF TradeInv, OrdersOK, Kinds
  <2>2. pending # NoOrder => pending # o /\ pending \in Orders
    BY <1>5, <2>1 DEF Entries
  <2>3. QED
    BY <1>4, <1>7, <2>1, <2>2
<1>11. Kinds'
  <2>1. side' \in [Orders -> Int] /\ DOMAIN market' = Orders
    BY <1>1, <1>3
  <2>2. LegsOf(bracket') \subseteq Legs'
    BY <1>7
  <2>3. QED
    BY <1>1, <1>3, <1>9, <1>10, <2>1, <2>2 DEF Kinds
<1>12. ASSUME NEW x \in LiveOrders'
       PROVE  IF meta'[x].kind = "entry" THEN net' = 0 /\ LiveOrders' = {x}
              ELSE net' # 0 /\ side'[x] = -net'
  <2>1. CASE x = o
    BY <1>1, <1>4, <1>6, <2>1
  <2>2. CASE x # o
    <3>1. x \in LiveOrders /\ x \in Orders
      BY <1>6, <2>2 DEF LiveOrders
    <3>2. IF meta[x].kind = "entry" THEN net = 0 ELSE net # 0 /\ side[x] = -net
      BY <3>1 DEF TradeInv, OrdersOK, OneTrade
    <3>3. net # 0
      BY <3>1
    <3>4. QED
      BY <1>1, <1>4, <2>2, <3>1, <3>2, <3>3
  <2>3. QED
    BY <2>1, <2>2
<1>13. OneTrade'
  BY <1>12 DEF OneTrade
<1>14. Submitted'
  <2>1. co'[p] = f /\ \A q \in Procs \ {p} : co'[q] = co[q]
    BY DEF TradeInv, PromiseInv, LegsInv, Shapes, Stays
  <2>2. QED
    BY <1>4, <2>1 DEF TradeInv, Submitted
<1>15. QED
  BY <1>1, <1>4, <1>6, <1>7, <1>8, <1>11, <1>13, <1>14 DEF OrdersOK

\* An await at which no order is in hand.
Plain == {"idle", "bar", "cancel", "drain", "risk", "orders", "find", "open"}

\* What has to hold of the trade at such an await.
PlainFrame(f) ==
    /\ f.at = "cancel" => f.order \in Orders
    /\ f.op \in Closing /\ f.at \in {"risk", "drain", "orders", "open"} => net = 0
    /\ f.op \in Closing /\ f.done => LiveOrders = {}

LEMMA CallerPlain ==
    ASSUME PaperTrades, TradeInv, PromiseInv', NEW p, Alone(p), NEW f, Stays(p, f),
           f.at \in Plain, CallerRole(f), PlainFrame(f),
           UNCHANGED <<accountVars, meta, raised>>, ~lost', recovery' = NoOrder,
           LegsOf(bracket') \subseteq Legs,
           pending' \in {pending, NoOrder} \/ (pending' \in Entries /\ status[pending'] # "sent"),
           co[p].at \in Submits => status[co[p].order] # "sent",
           f.at = "drain" => f.left \subseteq tasks', tasks' \subseteq Tasks,
           winner' \in {winner, NoOrder}
    PROVE  TradeInv'
<1>1. p \in Procs
  BY AloneIs
<1>2. OrdersOK' /\ Submitted' /\ LiveOrders' = LiveOrders
  BY <1>1, OrdersRest
<1>3. f.op # "oco"
  BY DEF CallerRole, Plain, Closing
<1>4. net' = net
  BY DEF accountVars
<1>5. TradeFrame(f)'
  BY <1>2, <1>3, <1>4 DEF TradeFrame, PlainFrame, Plain
<1>6. QED
  BY <1>2, <1>5, CallerStep

\* What the invariant says of the books while nothing is lost.
LEMMA BooksAre ==
    ASSUME TradeInv
    PROVE  /\ ~raised /\ ~lost /\ recovery = NoOrder
           /\ LegsOf(bracket) \subseteq Legs /\ Legs \subseteq Orders
           /\ pending = NoOrder \/ pending \in Orders
           /\ tasks \subseteq Tasks
           /\ \A o \in Orders : status[o] # "rejected" /\ (status[o] = "filled" => told[o])
BY DEF TradeInv, OrdersOK, Clean, Kinds, OneTask, Legs, Entries, Done

\* Letting go of orders that are over loses nothing.
LEMMA NothingForgotten ==
    ASSUME TradeInv, NEW ids, ids \subseteq Orders, ids \cap LiveOrders = {}
    PROVE  ~Forgets(ids)
BY BooksAre DEF Forgets, LiveOrders

LEMMA FrameShape ==
    ASSUME TradeInv, NEW p \in Procs
    PROVE  /\ IsFrame(co[p]) /\ TradeFrame(co[p])
           /\ p \in Callers => CallerRole(co[p])
           /\ p \in Tasks => TaskRole(co[p])
BY DEF TradeInv, PromiseInv, LegsInv, Shapes, Roles

LEMMA TradeCalls ==
    ASSUME PaperTrades, TradeInv, PromiseInv', NEW p \in Callers,
           \/ Refresh(p) \/ PushBar(p) \/ ClosePosition(p) \/ Flatten(p) \/ Stop(p)
           \/ CancelOrder(p) \/ Start(p)
    PROVE  TradeInv'
<1>1. /\ co[p].at = "idle" /\ Runs(p) /\ UNCHANGED <<accountVars, meta, raised, lost, recovery>>
      /\ UNCHANGED <<bracket, pending, tasks, winner>>
  BY DEF Refresh, PushBar, ClosePosition, Flatten, Stop, Begins, CancelOrder, Start, sessionVars
<1>2. Alone(p)
  BY <1>1, RunsAlone
<1>3. /\ ~lost' /\ recovery' = NoOrder /\ LegsOf(bracket') \subseteq Legs /\ tasks' \subseteq Tasks
      /\ co[p].at \notin Submits
  BY <1>1, BooksAre DEF Submits
<1>4. CASE \E op \in {"refresh", "start", "stopping", "leaving"} :
               Stays(p, Refreshing([Idle EXCEPT !.op = op]))
  <2> PICK op \in {"refresh", "start", "stopping", "leaving"} :
            Stays(p, Refreshing([Idle EXCEPT !.op = op]))
    BY <1>4
  <2>1. PICK f : f = Refreshing([Idle EXCEPT !.op = op]) /\ Stays(p, f)
    OBVIOUS
  <2>2. f.at = "drain" /\ f.op = op /\ f.left = tasks /\ ~f.done
    BY <2>1 DEF Refreshing, Idle
  <2>3. CallerRole(f) /\ PlainFrame(f) /\ f.at \in Plain
    BY <2>2 DEF CallerRole, PlainFrame, Closing, Plain
  <2>4. QED
    BY <1>1, <1>2, <1>3, <2>1, <2>2, <2>3, CallerPlain
<1>5. CASE \E op \in {"close", "flatten"} : Stays(p, [Idle EXCEPT !.op = op, !.at = "find"])
  <2> PICK op \in {"close", "flatten"} :
            Stays(p, [Idle EXCEPT !.op = op, !.at = "find"])
    BY <1>5
  <2>1. PICK f : f = [Idle EXCEPT !.op = op, !.at = "find"] /\ Stays(p, f)
    OBVIOUS
  <2>2. f.at = "find" /\ f.op = op /\ ~f.done
    BY <2>1 DEF Idle
  <2>3. CallerRole(f) /\ PlainFrame(f) /\ f.at \in Plain
    BY <2>2 DEF CallerRole, PlainFrame, Closing, Plain
  <2>4. QED
    BY <1>1, <1>2, <1>3, <2>1, <2>2, <2>3, CallerPlain
<1>6. CASE PushBar(p)
  <2>1. PICK f : f = [Idle EXCEPT !.at = "bar", !.op = "bar"] /\ Stays(p, f)
    BY <1>6 DEF PushBar
  <2>2. f.at = "bar" /\ f.op = "bar" /\ ~f.done
    BY <2>1 DEF Idle
  <2>3. CallerRole(f) /\ PlainFrame(f) /\ f.at \in Plain
    BY <2>2 DEF CallerRole, PlainFrame, Closing, Plain
  <2>4. QED
    BY <1>1, <1>2, <1>3, <2>1, <2>2, <2>3, CallerPlain
<1>7. CASE CancelOrder(p)
  <2> PICK o \in Open :
            Stays(p, [Idle EXCEPT !.at = "cancel", !.op = "cancel", !.order = o])
    BY <1>7 DEF CancelOrder
  <2>1. PICK f : f = [Idle EXCEPT !.at = "cancel", !.op = "cancel", !.order = o] /\ Stays(p, f)
    OBVIOUS
  <2>2. f.at = "cancel" /\ f.op = "cancel" /\ ~f.done /\ f.order \in Orders
    BY <2>1 DEF Idle, Open
  <2>3. CallerRole(f) /\ PlainFrame(f) /\ f.at \in Plain
    BY <2>2 DEF CallerRole, PlainFrame, Closing, Plain
  <2>4. QED
    BY <1>1, <1>2, <1>3, <2>1, <2>2, <2>3, CallerPlain
<1>8. CASE Refresh(p) \/ Stop(p) \/ Start(p)
  BY <1>4, <1>8 DEF Refresh, Stop, Begins, Start
<1>9. CASE ClosePosition(p) \/ Flatten(p)
  BY <1>5, <1>9 DEF ClosePosition, Flatten, Begins
<1>10. QED
  BY <1>6, <1>7, <1>8, <1>9

-----------------------------------------------------------------------------
(* The coroutines, one trade at a time.                                    *)

\* The next leg of an entry that has filled is submitted.
LEMMA TradeSubmits ==
    ASSUME PaperTrades, TradeInv, PromiseInv', NEW p \in Procs, Alone(p) \/ Tended(p),
           NEW f, IsFrame(f), NEW e \in Orders, NEW legs, SubmitsLeg(p, f, e, legs),
           status[e] = "filled", net # 0, net = side[e],
           LiveOrders \subseteq {f.stop}, f.stop \in Legs \cup {NoOrder},
           "stop" \in legs => LiveOrders = {},
           UNCHANGED <<raised, lost, pending, recovery, bracket, winner, tasks>>,
           p \in Callers => f.op = "place", p \in Tasks => f.op = "attach" /\ co[p].op # "oco",
           co[p].at \in Submits => status[co[p].order] # "sent"
    PROVE  TradeInv'
<1>1. PICK k, n, d, m, none, g :
          /\ k = (IF "stop" \in legs THEN "stop" ELSE "target")
          /\ n = seq + 1 /\ d = -side[e] /\ m = FALSE /\ none = {}
          /\ g = [f EXCEPT !.at = k, !.order = n, !.entry = e, !.legs = legs \ {k}]
          /\ Sends(n, d, m, k, e, none) /\ Stays(p, g)
  BY DEF SubmitsLeg
<1>2. g.at = k /\ g.order = n /\ g.entry = e /\ g.stop = f.stop /\ g.op = f.op
  BY <1>1 DEF IsFrame, Idle
<1>3. /\ k \in {"stop", "target"} /\ (k = "stop" => LiveOrders = {})
      /\ k \in {"entry", "stop", "target", "close"} /\ k # "entry" /\ k # "close" /\ m = FALSE
  BY <1>1
<1>4. d \in Int \ {0} /\ d = -net
  BY <1>1 DEF TradeInv, OrdersOK, Kinds
<1>5. recovery' = NoOrder /\ LegsOf(bracket') \subseteq Legs /\ g.at \in Submits /\ tasks' \subseteq Tasks
  BY <1>2, <1>3, BooksAre DEF Submits
<1>6. /\ OrdersOK' /\ Submitted' /\ n \in Orders /\ LiveOrders' = LiveOrders \cup {n}
      /\ net' = net /\ meta'[n].kind = k /\ status'[n] = "sent" /\ Legs \subseteq Legs'
      /\ \A x \in Orders \ {n} : side'[x] = side[x] /\ status'[x] = status[x]
  <2>1. SubmitsOne(p, n, k)
    <3>1. m \in BOOLEAN /\ g.order = n /\ (k # "entry" => net # 0 /\ d = -net)
      BY <1>1, <1>2, <1>4
    <3>2. Stays(p, g) /\ Sends(n, d, m, k, e, none)
      BY <1>1
    <3>3. QED
      BY <1>3, <1>4, <1>5, <3>1, <3>2 DEF SubmitsOne
  <2>2. UNCHANGED <<raised, lost, pending>>
    OBVIOUS
  <2>3. QED
    BY <1>3, <1>5, <2>1, <2>2, OrdersSent
<1>7. e # n
  BY <1>1 DEF Sends, Send
<1>8. n \in Legs' /\ f.stop \in Legs' \cup {NoOrder}
  BY <1>3, <1>6 DEF Legs
<1>9. Opens(g, {n, f.stop})' /\ (k = "stop" => Opens(g, {n})')
  BY <1>2, <1>3, <1>6, <1>7 DEF Opens
<1>10. g.op \in {"place", "attach"}
  BY <1>2 DEF Procs
<1>11. TradeFrame(g)'
  BY <1>2, <1>3, <1>8, <1>9, <1>10 DEF TradeFrame, Opens, Closing
<1>12. CASE Alone(p)
  <2>1. CallerRole(g)
    BY <1>2, <1>3, <1>12 DEF CallerRole, Alone, Closing
  <2>2. QED
    BY <1>1, <1>2, <1>3, <1>5, <1>6, <1>11, <1>12, <2>1, CallerStep
<1>13. CASE Tended(p)
  <2>1. TaskRole(g) /\ co[p].op # "oco"
    BY <1>2, <1>3, <1>13 DEF TaskRole, Tended
  <2>2. QED
    BY <1>1, <1>6, <1>11, <1>13, <2>1, TaskStep
<1>14. QED
  BY <1>12, <1>13

LEMMA TradePlaces ==
    ASSUME PaperTrades, TradeInv, PromiseInv', NEW p \in Callers, PlaceOrder(p)
    PROVE  TradeInv'
<1> PICK d \in Dirs, m \in BOOLEAN, legs \in Plans :
        /\ Sends(seq + 1, d, m, "entry", NoOrder, legs)
        /\ Stays(p, [Idle EXCEPT !.at = "entry", !.op = "place", !.order = seq + 1])
  BY DEF PlaceOrder
<1>1. PICK o, kind, f :
          /\ kind = "entry" /\ Sends(o, d, m, kind, NoOrder, legs)
          /\ f = [Idle EXCEPT !.at = "entry", !.op = "place", !.order = o] /\ Stays(p, f)
  OBVIOUS
<1>2. f.at = "entry" /\ f.op = "place" /\ f.order = o /\ f.stop = NoOrder
  BY <1>1 DEF Idle
<1>3. Alone(p) /\ p \in Procs /\ co[p].at \notin Submits
  BY RunsAlone DEF PlaceOrder, Submits, Procs
<1>4. net = 0 /\ LiveOrders = {}
  BY DEF PlaceOrder, PaperTrades, Flat, LiveOrders
<1>5. /\ UNCHANGED <<raised, lost, pending, bracket, tasks, winner>> /\ recovery' = NoOrder
      /\ LegsOf(bracket') \subseteq Legs /\ tasks' \subseteq Tasks
  BY BooksAre DEF PlaceOrder
<1>6. /\ d \in Int \ {0} /\ f.at \in Submits /\ kind \in {"entry", "stop", "target", "close"}
      /\ kind \notin {"stop", "target"} /\ kind # "close"
  BY <1>1, <1>2 DEF PaperTrades, Submits
<1>7. /\ OrdersOK' /\ Submitted' /\ o \in Orders /\ LiveOrders' = LiveOrders \cup {o}
      /\ meta'[o].kind = kind /\ status'[o] = "sent"
  <2>1. SubmitsOne(p, o, kind)
    BY <1>1, <1>2, <1>4, <1>6 DEF SubmitsOne
  <2>2. QED
    BY <1>3, <1>5, <1>6, <2>1, OrdersSent
<1>8. o \in Entries' /\ LiveOrders' \subseteq {o}
  BY <1>1, <1>4, <1>7 DEF Entries
<1>9. TradeFrame(f)'
  BY <1>2, <1>7, <1>8 DEF TradeFrame, Closing
<1>10. CallerRole(f)
  BY <1>2 DEF CallerRole, Closing
<1>11. QED
  BY <1>1, <1>2, <1>3, <1>5, <1>7, <1>9, <1>10, CallerStep

\* A step of a task leaves it working, or done.
LEMMA TaskEnds ==
    ASSUME PaperTrades, TradeInv, PromiseInv', NEW p, Tended(p), NEW f, Stays(p, f), Rests(f),
           UNCHANGED <<accountVars, meta, raised, pending, tasks>>, ~lost', recovery' = NoOrder,
           LegsOf(bracket') \subseteq Legs,
           co[p].at \in Submits => status[co[p].order] # "sent",
           winner' = NoOrder \/ (winner' = winner /\ co[p].op # "oco")
    PROVE  TradeInv'
<1>1. p \in Procs
  BY DEF Tended, Procs
<1>2. OrdersOK' /\ Submitted' /\ LiveOrders' = LiveOrders
  BY <1>1, OrdersRest
<1>3. TradeFrame(f)' /\ TaskRole(f)
  BY RestsFrame DEF TaskRole
<1>4. net' = net
  BY DEF accountVars
<1>5. QED
  BY <1>2, <1>3, <1>4, TaskStep

\* The legs are in place.
LEMMA TradeAttaches ==
    ASSUME PaperTrades, TradeInv, PromiseInv', NEW p \in Procs, Alone(p) \/ Tended(p),
           NEW b, LegsOf(b) \subseteq Legs, LiveOrders \subseteq LegsOf(b), Attaches(p, b),
           p \in Callers => co[p].op = "place", p \in Tasks => co[p].op = "attach",
           UNCHANGED <<accountVars, meta, raised, pending, recovery, winner, tasks>>,
           co[p].at \in Submits => status[co[p].order] # "sent"
    PROVE  TradeInv'
<1>1. ~Forgets(LegsOf(bracket) \ LegsOf(b))
  BY BooksAre, NothingForgotten
<1>2. bracket' = b /\ ~lost' /\ recovery' = NoOrder /\ tasks' \subseteq Tasks
  BY <1>1, BooksAre DEF Attaches
<1>3. CASE Alone(p)
  <2>1. PICK f : f = Refreshing(co[p]) /\ Stays(p, f)
    BY <1>3, SessionAssumption DEF Attaches, Alone
  <2>2. f.at = "drain" /\ f.left = tasks /\ f.op = "place"
    BY <1>3, <2>1, FrameShape DEF Refreshing, IsFrame, Idle, Alone
  <2>3. f.at \in Plain /\ CallerRole(f) /\ PlainFrame(f)
    BY <2>2 DEF Plain, CallerRole, PlainFrame, Closing
  <2>4. QED
    BY <1>2, <1>3, <2>1, <2>2, <2>3, CallerPlain
<1>4. CASE Tended(p)
  <2>1. PICK f : f = [Idle EXCEPT !.at = "done"] /\ Stays(p, f)
    BY <1>4 DEF Attaches, Tended
  <2>2. Rests(f) /\ co[p].op # "oco"
    BY <1>4, <2>1 DEF Rests, Idle, Tended
  <2>3. QED
    BY <1>2, <1>4, <2>1, <2>2, TaskEnds
<1>5. QED
  BY <1>3, <1>4

LEMMA TradeEnters ==
    ASSUME PaperTrades, TradeInv, PromiseInv', NEW p \in Procs, EntryReturns(p)
    PROVE  TradeInv'
<1>1. co[p].at = "entry" /\ Runs(p)
  BY DEF EntryReturns
<1>2. p \in Callers
  BY <1>1, FrameShape DEF Procs, TaskRole, Rests
<1>3. Alone(p)
  BY <1>1, <1>2, RunsAlone
<1>4. PICK o, legs, r :
          /\ o = co[p].order /\ legs = meta[o].legs /\ status[o] # "sent" /\ r = status[o]
          /\ IF legs # {} /\ r = "filled"
             THEN SubmitsLeg(p, co[p], o, legs) /\ UNCHANGED <<pending, lost>>
             ELSE /\ pending' = (IF legs # {} /\ r # "rejected" THEN o ELSE pending)
                  /\ lost' = (lost \/ (pending' # pending /\ Forgets({pending} \ {NoOrder})))
                  /\ Stays(p, Refreshing(co[p]))
                  /\ UNCHANGED <<accountVars, meta, seq>>
  BY DEF EntryReturns, Receipts, PaperTrades
<1>5. UNCHANGED <<raised, bracket, recovery, winner, tasks>>
  BY DEF EntryReturns
<1>6. /\ IsFrame(co[p]) /\ co[p].op = "place" /\ o \in Entries /\ LiveOrders \subseteq {o}
      /\ r = "filled" => net # 0 /\ net = side[o]
      /\ co[p].stop = NoOrder
  BY <1>1, <1>2, <1>4, FrameShape DEF CallerRole, TradeFrame
<1>7. CASE legs # {} /\ r = "filled"
  <2>1. SubmitsLeg(p, co[p], o, legs) /\ UNCHANGED <<pending, lost>>
    BY <1>4, <1>7
  <2>2. LiveOrders = {}
    BY <1>4, <1>6, <1>7 DEF LiveOrders, Live
  <2>3. PICK f : f = co[p]
    OBVIOUS
  <2>4. f.op = "place" /\ IsFrame(f) /\ SubmitsLeg(p, f, o, legs) /\ f.stop \in Legs \cup {NoOrder}
    BY <1>6, <2>1, <2>3
  <2>5. p \notin Tasks /\ o \in Orders
    BY <1>2, <1>6, SessionAssumption DEF Entries
  <2>6. QED
    BY <1>3, <1>4, <1>5, <1>6, <1>7, <2>1, <2>2, <2>3, <2>4, <2>5, TradeSubmits
<1>8. CASE ~(legs # {} /\ r = "filled")
  <2>1. PICK f : f = Refreshing(co[p]) /\ Stays(p, f)
    BY <1>4, <1>8
  <2>2. f.at = "drain" /\ f.left = tasks /\ f.op = "place"
    BY <1>6, <2>1 DEF Refreshing, IsFrame, Idle
  <2>3. f.at \in Plain /\ CallerRole(f) /\ PlainFrame(f)
    BY <2>2 DEF Plain, CallerRole, PlainFrame, Closing
  <2>4. pending' = pending \/ (pending' = o /\ o \in Entries)
    BY <1>4, <1>6, <1>8
  <2>5. pending' # pending => ~Forgets({pending} \ {NoOrder})
    <3>1. SUFFICES ASSUME pending' # pending PROVE ~Forgets({pending} \ {NoOrder})
      OBVIOUS
    <3>2. {pending} \ {NoOrder} \subseteq Orders /\ pending # o
      BY <2>4, <3>1, BooksAre
    <3>3. ({pending} \ {NoOrder}) \cap LiveOrders = {}
      BY <1>6, <3>2
    <3>4. QED
      BY <3>2, <3>3, NothingForgotten
  <2>6. ~lost'
    BY <1>4, <1>8, <2>5, BooksAre
  <2>7. /\ recovery' = NoOrder /\ LegsOf(bracket') \subseteq Legs /\ tasks' \subseteq Tasks
        /\ UNCHANGED <<accountVars, meta, raised>> /\ status[co[p].order] # "sent"
    BY <1>4, <1>5, <1>8, BooksAre
  <2>8. pending' \in {pending, NoOrder} \/ (pending' \in Entries /\ status[pending'] # "sent")
    BY <1>4, <2>4
  <2>9. QED
    BY <1>3, <1>5, <2>1, <2>2, <2>3, <2>6, <2>7, <2>8, CallerPlain
<1>9. QED
  BY <1>7, <1>8

LEMMA TradeBegins ==
    ASSUME PaperTrades, TradeInv, PromiseInv', NEW p \in Procs, AttachBegins(p)
    PROVE  TradeInv'
<1>1. co[p].at = "ready" /\ co[p].op = "attach" /\ Runs(p)
  BY DEF AttachBegins
<1>2. p \in Tasks /\ p \notin Callers
  BY <1>1, FrameShape, SessionAssumption DEF Procs, CallerRole
<1>3. Tended(p)
  BY <1>1, <1>2, RunsTended DEF Rests
<1>4. IsFrame(co[p]) /\ Opens(co[p], {}) /\ FrameOK(co[p])
  BY <1>1, FrameShape DEF TradeFrame, TradeInv, PromiseInv, LegsInv
<1>5. PICK f, e, legs : f = co[p] /\ e = f.entry /\ legs = f.legs /\ SubmitsLeg(p, f, e, legs)
  BY DEF AttachBegins
<1>6. /\ e \in Orders /\ status[e] = "filled" /\ net # 0 /\ net = side[e] /\ LiveOrders = {}
      /\ f.op = "attach" /\ IsFrame(f)
  BY <1>1, <1>4, <1>5 DEF Opens
<1>7. f.stop = NoOrder
  BY <1>1, <1>5, FrameShape DEF TradeFrame
<1>8. UNCHANGED <<raised, lost, pending, recovery, bracket, winner, tasks>>
  BY DEF AttachBegins
<1>9. QED
  BY <1>1, <1>2, <1>3, <1>5, <1>6, <1>7, <1>8, TradeSubmits DEF Submits

\* A leg has been submitted: by place_order itself, or by a task.
LEMMA LegRuns ==
    ASSUME PaperTrades, TradeInv, NEW p \in Procs, co[p].at \in {"stop", "target"}, Runs(p)
    PROVE  /\ Alone(p) \/ Tended(p)
           /\ p \in Callers => co[p].op = "place"
           /\ p \in Tasks => co[p].op = "attach"
           /\ co[p].order \in Legs /\ status[co[p].order] # "rejected"
<1>1. CASE p \in Callers
  <2>1. Alone(p) /\ p \notin Tasks
    BY <1>1, RunsAlone, SessionAssumption
  <2>2. QED
    BY <1>1, <2>1, FrameShape, BooksAre DEF CallerRole, TradeFrame
<1>2. CASE p \in Tasks
  <2>1. Tended(p) /\ p \notin Callers
    BY <1>2, RunsTended, SessionAssumption DEF Rests
  <2>2. QED
    BY <1>2, <2>1, FrameShape, BooksAre DEF TaskRole, TradeFrame, Rests
<1>3. QED
  BY <1>1, <1>2 DEF Procs

LEMMA TradeStops ==
    ASSUME PaperTrades, TradeInv, PromiseInv', NEW p \in Procs, StopReturns(p)
    PROVE  TradeInv'
<1>1. co[p].at = "stop" /\ Runs(p)
  BY DEF StopReturns
<1>2. PICK o, f, r :
          /\ o = co[p].order /\ f = [co[p] EXCEPT !.stop = o] /\ status[o] # "sent" /\ r = status[o]
          /\ \/ r = "rejected"
             \/ /\ f.legs # {} /\ SubmitsLeg(p, f, f.entry, f.legs) /\ UNCHANGED <<bracket, raised, lost>>
             \/ /\ Attaches(p, [Bare EXCEPT !.stop = o]) /\ UNCHANGED <<accountVars, meta, raised>>
  BY DEF StopReturns, Receipts, PaperTrades
<1>3. /\ Alone(p) \/ Tended(p)
      /\ p \in Callers => co[p].op = "place"
      /\ p \in Tasks => co[p].op = "attach"
      /\ o \in Legs /\ r # "rejected"
  BY <1>1, <1>2, LegRuns
<1>4. IsFrame(co[p]) /\ Opens(co[p], {o}) /\ FrameOK(co[p])
  BY <1>1, <1>2, FrameShape DEF TradeFrame, TradeInv, PromiseInv, LegsInv
<1>5. UNCHANGED <<pending, recovery, winner, tasks>>
  BY DEF StopReturns
<1>6. CASE SubmitsLeg(p, f, f.entry, f.legs) /\ UNCHANGED <<bracket, raised, lost>>
  <2>1. f.stop = o /\ f.op = co[p].op /\ f.entry = co[p].entry /\ f.legs = co[p].legs /\ IsFrame(f)
    BY <1>2, <1>4 DEF IsFrame, Idle
  <2>2. PICK e, legs : e = f.entry /\ legs = f.legs /\ SubmitsLeg(p, f, e, legs)
    BY <1>6
  <2>3. /\ e \in Orders /\ status[e] = "filled" /\ net # 0 /\ net = side[e]
        /\ LiveOrders \subseteq {f.stop}
    BY <1>4, <2>1, <2>2 DEF Opens
  <2>4. "stop" \notin legs
    BY <1>1, <1>4, <2>1, <2>2 DEF FrameOK
  <2>5. f.stop \in Legs \cup {NoOrder} /\ status[co[p].order] # "sent"
    BY <1>2, <1>3, <2>1
  <2>6. p \in Callers => f.op = "place"
    BY <1>3, <2>1
  <2>7. p \in Tasks => f.op = "attach" /\ co[p].op # "oco"
    BY <1>3, <2>1
  <2>8. UNCHANGED <<raised, lost, pending, recovery, bracket, winner, tasks>>
    BY <1>5, <1>6
  <2>9. QED
    BY <1>3, <2>1, <2>2, <2>3, <2>4, <2>5, <2>6, <2>7, <2>8, TradeSubmits
<1>7. CASE Attaches(p, [Bare EXCEPT !.stop = o]) /\ UNCHANGED <<accountVars, meta, raised>>
  <2>1. PICK b : b = [Bare EXCEPT !.stop = o] /\ Attaches(p, b)
    BY <1>7
  <2>2. b.stop = o /\ b.target = NoOrder
    BY <2>1 DEF Bare
  <2>3. LegsOf(b) = {o}
    BY <1>3, <2>2, OrderAssumption DEF LegsOf, Legs
  <2>4. LegsOf(b) \subseteq Legs /\ LiveOrders \subseteq LegsOf(b)
    BY <1>3, <1>4, <2>3 DEF Opens
  <2>5. QED
    BY <1>2, <1>3, <1>5, <1>7, <2>1, <2>4, TradeAttaches
<1>8. QED
  BY <1>2, <1>3, <1>6, <1>7

LEMMA TradeTargets ==
    ASSUME PaperTrades, TradeInv, PromiseInv', NEW p \in Procs, TargetReturns(p)
    PROVE  TradeInv'
<1>1. co[p].at = "target" /\ Runs(p)
  BY DEF TargetReturns
<1>2. PICK o, r :
          /\ o = co[p].order /\ status[o] # "sent" /\ r = status[o]
          /\ \/ r = "rejected"
             \/ Attaches(p, [stop |-> co[p].stop, target |-> o]) /\ UNCHANGED <<recovery, raised>>
  BY DEF TargetReturns, Receipts, PaperTrades
<1>3. /\ Alone(p) \/ Tended(p)
      /\ p \in Callers => co[p].op = "place"
      /\ p \in Tasks => co[p].op = "attach"
      /\ o \in Legs /\ r # "rejected"
  BY <1>1, <1>2, LegRuns
<1>4. Opens(co[p], {o, co[p].stop}) /\ co[p].stop \in Legs \cup {NoOrder}
  BY <1>1, <1>2, FrameShape DEF TradeFrame
<1>5. UNCHANGED <<accountVars, meta, pending, winner, tasks>>
  BY DEF TargetReturns
<1>6. PICK b : b = [stop |-> co[p].stop, target |-> o] /\ Attaches(p, b)
  BY <1>2, <1>3
<1>7. LegsOf(b) = {o, co[p].stop} \ {NoOrder}
  BY <1>6 DEF LegsOf
<1>8. LegsOf(b) \subseteq Legs /\ LiveOrders \subseteq LegsOf(b)
  BY <1>3, <1>4, <1>7, OrderAssumption DEF Opens, LiveOrders
<1>9. QED
  BY <1>2, <1>3, <1>5, <1>6, <1>8, TradeAttaches

\* The tasks that cancel the sibling of a leg that is over.
LEMMA TradeOco ==
    ASSUME PaperTrades, TradeInv, PromiseInv', NEW p \in Procs, OcoBegins(p) \/ OcoReturns(p)
    PROVE  TradeInv'
<1>1. Runs(p) /\ co[p].at \in {"ready", "oco"} /\ (co[p].at = "ready" => co[p].op = "oco")
  BY DEF OcoBegins, OcoReturns
<1>2. p \in Tasks /\ co[p].op = "oco"
  BY <1>1, FrameShape DEF Procs, CallerRole, TaskRole, Rests
<1>3. Tended(p)
  BY <1>1, <1>2, RunsTended DEF Rests
<1>4. /\ IsFrame(co[p]) /\ TradeFrame(co[p]) /\ co[p].order = winner
      /\ LegsOf(bracket) \cap LiveOrders \subseteq {winner}
  BY <1>2, FrameShape DEF TradeFrame
<1>5. CASE OcoBegins(p)
  <2>1. UNCHANGED <<accountVars, meta, raised, lost, recovery, bracket, pending, tasks, winner>>
    BY <1>5 DEF OcoBegins, sessionVars
  <2>2. PICK f : f = [co[p] EXCEPT !.at = "oco"] /\ Stays(p, f)
    BY <1>5 DEF OcoBegins
  <2>3. f.at = "oco" /\ f.op = "oco" /\ f.order = co[p].order
    BY <1>2, <1>4, <2>2 DEF IsFrame, Idle
  <2>4. /\ ~lost' /\ recovery' = NoOrder /\ LegsOf(bracket') \subseteq Legs
        /\ co[p].at \notin Submits /\ pending' \in {pending, NoOrder}
    BY <1>1, <2>1, BooksAre DEF Submits
  <2>5. OrdersOK' /\ Submitted' /\ LiveOrders' = LiveOrders
    BY <2>1, <2>2, <2>4, OrdersRest
  <2>6. TradeFrame(f)' /\ TaskRole(f)
    BY <1>2, <1>4, <2>1, <2>3, <2>5 DEF TradeFrame, TaskRole, Closing
  <2>7. UNCHANGED <<tasks, net, winner>>
    BY <2>1 DEF accountVars
  <2>8. QED
    BY <1>3, <2>2, <2>3, <2>5, <2>6, <2>7, TaskStep
<1>6. CASE OcoReturns(p)
  <2>1. ~Forgets(LegsOf(bracket) \ {co[p].order})
    BY <1>4, BooksAre, NothingForgotten
  <2>2. /\ UNCHANGED <<accountVars, meta, raised, recovery, pending, tasks>>
        /\ bracket' = Bare /\ winner' = NoOrder
        /\ lost' = (lost \/ Forgets(LegsOf(bracket) \ {co[p].order}))
    BY <1>6 DEF OcoReturns
  <2>3. PICK f : f = [Idle EXCEPT !.at = "done"] /\ Stays(p, f)
    BY <1>6 DEF OcoReturns
  <2>4. Rests(f)
    BY <2>3 DEF Rests, Idle
  <2>5. LegsOf(bracket') \subseteq Legs
    BY <2>2 DEF LegsOf, Bare
  <2>6. ~lost' /\ recovery' = NoOrder /\ co[p].at \notin Submits
    BY <1>1, <2>1, <2>2, BooksAre DEF Submits
  <2>7. QED
    BY <1>3, <2>2, <2>3, <2>4, <2>5, <2>6, TaskEnds
<1>7. QED
  BY <1>5, <1>6

LEMMA TradeDrains ==
    ASSUME PaperTrades, TradeInv, PromiseInv', NEW p \in Procs, DrainReturns(p)
    PROVE  TradeInv'
<1>1. /\ co[p].at = "drain" /\ Runs(p) /\ \A t \in co[p].left : co[t].at = "done"
      /\ tasks' = tasks \ co[p].left
      /\ UNCHANGED <<accountVars, meta, raised, lost, recovery, bracket, pending, winner>>
  BY DEF DrainReturns
<1>2. p \in Callers
  BY <1>1, FrameShape DEF Procs, TaskRole, Rests
<1>3. Alone(p)
  BY <1>1, <1>2, RunsAlone
<1>4. IsFrame(co[p]) /\ TradeFrame(co[p]) /\ CallerRole(co[p])
  BY <1>2, FrameShape
<1>5. /\ ~lost' /\ recovery' = NoOrder /\ LegsOf(bracket') \subseteq Legs /\ tasks' \subseteq Tasks
      /\ co[p].at \notin Submits /\ pending' \in {pending, NoOrder}
  BY <1>1, BooksAre DEF Submits
<1>6. ASSUME NEW f, Stays(p, f), f.at \in Plain, CallerRole(f), PlainFrame(f),
             f.at = "drain" => f.left \subseteq tasks'
      PROVE  TradeInv'
  BY <1>1, <1>3, <1>5, <1>6, CallerPlain
<1>7. CASE tasks' # {}
  <2>1. PICK f : f = [co[p] EXCEPT !.left = tasks'] /\ Stays(p, f)
    BY <1>7 DEF DrainReturns
  <2>2. /\ f.at = "drain" /\ f.op = co[p].op /\ f.done = co[p].done /\ f.left = tasks'
    BY <1>1, <1>4, <2>1 DEF IsFrame, Idle
  <2>3. f.at \in Plain /\ CallerRole(f)
    BY <1>1, <1>4, <2>2 DEF Plain, CallerRole
  <2>4. PlainFrame(f)
    BY <1>1, <1>4, <2>2 DEF PlainFrame, TradeFrame
  <2>5. QED
    BY <1>6, <2>1, <2>2, <2>3, <2>4
<1>8. CASE tasks' = {} /\ co[p].op = "leaving"
  <2>1. PICK f : f = Idle /\ Stays(p, f)
    BY <1>8 DEF DrainReturns
  <2>2. f.at = "idle" /\ f.op = "none"
    BY <2>1 DEF Idle
  <2>3. f.at \in Plain /\ CallerRole(f) /\ PlainFrame(f)
    BY <2>2 DEF Plain, CallerRole, PlainFrame, Closing
  <2>4. QED
    BY <1>6, <2>1, <2>2, <2>3
<1>9. CASE tasks' = {} /\ co[p].op # "leaving"
  <2>1. PICK at, op, f : /\ at = (CASE co[p].op = "bar" /\ ~co[p].done -> "risk"
                                    [] co[p].op = "stopping" -> "find"
                                    [] OTHER -> "orders")
                         /\ op = (IF co[p].op = "stopping" THEN "stop" ELSE co[p].op)
                         /\ f = [co[p] EXCEPT !.left = {}, !.at = at, !.op = op]
                         /\ Stays(p, f)
    BY <1>4, <1>9 DEF DrainReturns
  <2>2. f.at = at /\ f.op = op /\ f.done = co[p].done
    BY <1>4, <2>1 DEF IsFrame, Idle
  <2>3. \/ co[p].op = "bar" /\ at = "risk"
        \/ co[p].op = "stopping" /\ ~co[p].done /\ at = "find" /\ op = "stop"
        \/ co[p].op # "stopping" /\ at = "orders" /\ op = co[p].op
    BY <1>4, <2>1 DEF CallerRole
  <2>4. f.at \in Plain /\ CallerRole(f)
    BY <1>1, <1>4, <2>1, <2>2, <2>3 DEF Plain, CallerRole, Closing
  <2>5. PlainFrame(f)
    BY <1>1, <1>4, <2>1, <2>2, <2>3 DEF PlainFrame, TradeFrame, Closing
  <2>6. f.at # "drain"
    BY <2>2, <2>3
  <2>7. QED
    BY <1>6, <2>1, <2>4, <2>5, <2>6
<1>10. QED
  BY <1>7, <1>8, <1>9

\* What cannot happen: a task that failed, a stop to be compensated, an OCO
\* winner left to a refresh, a call that raises.
LEMMA NothingFails ==
    ASSUME PaperTrades, TradeInv, NEW p \in Procs
    PROVE  /\ ~DrainRaises(p) /\ ~UndoReturns(p) /\ ~RecoverReturns(p) /\ ~SiblingReturns(p)
           /\ ~Fails(p)
<1>1. co[p].at \notin {"undo", "recover", "sibling", "failed"}
  BY FrameShape DEF Procs, CallerRole, TaskRole, Rests
<1>2. ~DrainRaises(p)
  <2>1. SUFFICES ASSUME co[p].at = "drain", NEW t \in co[p].left, co[t].at = "failed" PROVE FALSE
    BY DEF DrainRaises
  <2>2. p \in Callers
    BY <2>1, FrameShape DEF Procs, TaskRole, Rests
  <2>3. t \in Tasks
    BY <2>1, <2>2 DEF TradeInv, OneTask
  <2>4. t \in Procs /\ TaskRole(co[t])
    BY <2>3 DEF TradeInv, Roles, Procs
  <2>5. QED
    BY <2>1, <2>4 DEF TaskRole, Rests
<1>3. ~UndoReturns(p) /\ ~RecoverReturns(p) /\ ~SiblingReturns(p)
  BY <1>1 DEF UndoReturns, RecoverReturns, SiblingReturns
<1>4. ~Fails(p)
  BY DEF PaperTrades, Fails, EntryFails, StopFails, TargetFails, UndoFails, OcoFails,
         UnlegFails, CloseFails
<1>5. QED
  BY <1>2, <1>3, <1>4

LEMMA TradeReads ==
    ASSUME PaperTrades, TradeInv, PromiseInv', NEW p \in Procs, OrdersRead(p)
    PROVE  TradeInv'
<1>1. /\ co[p].at = "orders" /\ Runs(p) /\ Settles(p, Open, recovery)
      /\ UNCHANGED <<accountVars, meta, raised, pending, tasks>>
  BY DEF OrdersRead
<1>2. p \in Callers
  BY <1>1, FrameShape DEF Procs, TaskRole, Rests
<1>3. Alone(p)
  BY <1>1, <1>2, RunsAlone
<1>4. IsFrame(co[p]) /\ TradeFrame(co[p]) /\ CallerRole(co[p])
  BY <1>2, FrameShape
<1>5. winner = NoOrder /\ recovery = NoOrder /\ winner \notin Open
  BY <1>3, AloneIs, BooksAre, OrderAssumption DEF Open
<1>6. /\ recovery' = NoOrder /\ bracket' = bracket /\ winner' = NoOrder /\ Finishes(p)
      /\ lost' = (lost \/ (bracket' = Bare /\ Forgets(LegsOf(bracket))))
  BY <1>1, <1>5 DEF Settles
<1>7. ~(bracket = Bare /\ Forgets(LegsOf(bracket)))
  BY DEF Forgets, LegsOf, Bare
<1>8. /\ ~lost' /\ LegsOf(bracket') \subseteq Legs /\ tasks' \subseteq Tasks
      /\ co[p].at \notin Submits /\ pending' \in {pending, NoOrder}
  BY <1>1, <1>6, <1>7, BooksAre DEF Submits
<1>9. ASSUME NEW f, Stays(p, f), f.at \in Plain, CallerRole(f), PlainFrame(f), f.at # "drain"
      PROVE  TradeInv'
  BY <1>1, <1>3, <1>5, <1>6, <1>8, <1>9, CallerPlain
<1>10. CASE co[p].op \in {"flatten", "stop"} /\ ~co[p].done
  <2>1. PICK f : f = [co[p] EXCEPT !.at = "open"] /\ Stays(p, f)
    BY <1>6, <1>10 DEF Finishes
  <2>2. f.at = "open" /\ f.op = co[p].op /\ ~f.done
    BY <1>4, <1>10, <2>1 DEF IsFrame, Idle
  <2>3. f.at \in Plain /\ f.at # "drain" /\ CallerRole(f)
    BY <1>10, <2>2 DEF Plain, CallerRole, Closing
  <2>4. PlainFrame(f)
    BY <1>1, <1>4, <1>10, <2>2 DEF PlainFrame, TradeFrame
  <2>5. QED
    BY <1>9, <2>1, <2>3, <2>4
<1>11. CASE ~(co[p].op \in {"flatten", "stop"} /\ ~co[p].done)
  <2>1. PICK f : f = Idle /\ Stays(p, f)
    BY <1>6, <1>11 DEF Finishes
  <2>2. f.at = "idle" /\ f.op = "none"
    BY <2>1 DEF Idle
  <2>3. f.at \in Plain /\ f.at # "drain" /\ CallerRole(f) /\ PlainFrame(f)
    BY <2>2 DEF Plain, CallerRole, PlainFrame, Closing
  <2>4. QED
    BY <1>9, <2>1, <2>3
<1>12. QED
  BY <1>10, <1>11

\* The close has filled by the time its submit returns.
LEMMA TradeClosed ==
    ASSUME PaperTrades, TradeInv, PromiseInv', NEW p \in Procs, RiskSynced(p) \/ CloseReturns(p)
    PROVE  TradeInv'
<1>1. /\ co[p].at \in {"risk", "close"} /\ Runs(p)
      /\ UNCHANGED <<accountVars, meta, raised, lost, recovery, bracket, pending, tasks, winner>>
  BY DEF RiskSynced, CloseReturns, sessionVars
<1>2. p \in Callers
  BY <1>1, FrameShape DEF Procs, TaskRole, Rests
<1>3. Alone(p)
  BY <1>1, <1>2, RunsAlone
<1>4. IsFrame(co[p]) /\ TradeFrame(co[p]) /\ CallerRole(co[p])
  BY <1>2, FrameShape
<1>5. /\ ~lost' /\ recovery' = NoOrder /\ LegsOf(bracket') \subseteq Legs /\ tasks' \subseteq Tasks
      /\ pending' \in {pending, NoOrder} /\ winner' \in {winner, NoOrder}
  BY <1>1, BooksAre
<1>6. CASE RiskSynced(p)
  <2>1. PICK f : f = Refreshing([co[p] EXCEPT !.done = (co[p].op = "bar")]) /\ Stays(p, f)
    BY <1>6 DEF RiskSynced
  <2>2. f.at = "drain" /\ f.left = tasks /\ f.op = co[p].op /\ f.done = (co[p].op = "bar")
    BY <1>4, <2>1 DEF Refreshing, IsFrame, Idle
  <2>3. co[p].at = "risk"
    BY <1>6 DEF RiskSynced
  <2>4. f.at \in Plain /\ CallerRole(f)
    BY <1>4, <2>2, <2>3 DEF Plain, CallerRole, Closing
  <2>5. PlainFrame(f)
    BY <1>4, <2>2, <2>3 DEF PlainFrame, TradeFrame, Closing
  <2>6. f.left \subseteq tasks' /\ co[p].at \notin Submits
    BY <1>1, <2>2, <2>3 DEF Submits
  <2>7. QED
    BY <1>1, <1>3, <1>5, <2>1, <2>4, <2>5, <2>6, CallerPlain
<1>7. CASE CloseReturns(p)
  <2>1. PICK f : /\ f = [co[p] EXCEPT !.at = "risk", !.order = NoOrder, !.entry = NoOrder]
                 /\ Stays(p, f)
    BY <1>7 DEF CloseReturns
  <2>2. f.at = "risk" /\ f.op = co[p].op /\ f.done = co[p].done
    BY <1>4, <2>1 DEF IsFrame, Idle
  <2>3. co[p].at = "close" /\ status[co[p].order] # "sent"
    BY <1>7 DEF CloseReturns
  <2>4. co[p].order \in Closes /\ (~Live(co[p].order) => net = 0)
    BY <1>4, <2>3 DEF TradeFrame
  <2>5. ~Live(co[p].order)
    BY <2>3, <2>4 DEF Closes, TradeInv, OrdersOK, Kinds, KindOK, LiveOrders, Live
  <2>6. f.at \in Plain /\ CallerRole(f) /\ PlainFrame(f)
    BY <1>4, <2>2, <2>3, <2>4, <2>5 DEF Plain, CallerRole, PlainFrame, Closing
  <2>7. f.at # "drain"
    BY <2>2
  <2>8. QED
    BY <1>1, <1>3, <1>5, <2>1, <2>3, <2>6, <2>7, CallerPlain
<1>8. QED
  BY <1>6, <1>7

\* push_bar and cancel_order go on to a refresh that waits for the task the
\* account's callbacks spawned meanwhile.
LEMMA TradeRefreshes ==
    ASSUME PaperTrades, TradeInv, PromiseInv', NEW p \in Procs, BarReturns(p) \/ CancelReturns(p)
    PROVE  TradeInv'
<1>1. /\ co[p].at \in {"bar", "cancel"} /\ Stays(p, Refreshing(co[p]))
      /\ UNCHANGED <<accountVars, meta, raised, lost, recovery, bracket, pending, tasks, winner>>
  BY DEF BarReturns, CancelReturns, sessionVars
<1>2. p \in Callers /\ p \notin Tasks
  BY <1>1, FrameShape, SessionAssumption DEF Procs, TaskRole, Rests
<1>3. IsFrame(co[p]) /\ CallerRole(co[p])
  BY <1>2, FrameShape
<1>4. PICK f : f = Refreshing(co[p]) /\ Stays(p, f)
  BY <1>1
<1>5. f.at = "drain" /\ f.left = tasks /\ f.op \in {"bar", "cancel"}
  BY <1>1, <1>3, <1>4 DEF Refreshing, IsFrame, Idle, CallerRole
<1>6. /\ ~lost' /\ recovery' = NoOrder /\ LegsOf(bracket') \subseteq Legs /\ tasks' \subseteq Tasks
      /\ pending' \in {pending, NoOrder} /\ winner' \in {winner, NoOrder} /\ co[p].at \notin Submits
  BY <1>1, BooksAre DEF Submits
<1>7. OrdersOK' /\ Submitted' /\ LiveOrders' = LiveOrders
  BY <1>1, <1>4, <1>6, OrdersRest
<1>8. co'[p] = f /\ \A q \in Procs \ {p} : co'[q] = co[q]
  BY <1>4 DEF TradeInv, PromiseInv, LegsInv, Shapes, Stays
<1>9. \A u \in Callers : u = p
  BY <1>2 DEF PaperTrades
<1>10. \A t \in Tasks : t \in Procs /\ co'[t] = co[t]
  BY <1>2, <1>8 DEF Procs
<1>11. OneTask'
  <2>1. \A t \in Tasks : Rests(co'[t]) \/ Awaited(t)'
    <3>1. ASSUME NEW t \in Tasks, Awaited(t) PROVE Awaited(t)'
      BY <1>1, <1>2, <1>5, <1>8, <3>1 DEF Awaited
    <3>2. QED
      BY <1>10, <3>1 DEF TradeInv, OneTask
  <2>2. \A u \in Callers : co'[u].at = "drain" => co'[u].left \subseteq tasks'
    BY <1>1, <1>5, <1>8, <1>9
  <2>3. winner' # NoOrder => \E t \in Tasks : co'[t].op = "oco"
    BY <1>1, <1>10 DEF TradeInv, OneTask
  <2>4. \A s, t \in Tasks : s = t \/ Rests(co'[s]) \/ Rests(co'[t])
    BY <1>10 DEF TradeInv, OneTask
  <2>5. QED
    BY <1>6, <2>1, <2>2, <2>3, <2>4 DEF OneTask
<1>12. Roles'
  <2>1. CallerRole(f)
    BY <1>5 DEF CallerRole, Closing
  <2>2. QED
    BY <1>8, <1>9, <1>10, <2>1 DEF TradeInv, Roles, TaskRole
<1>13. \A q \in Procs : TradeFrame(co[q])'
  <2>1. TradeFrame(co[p])'
    BY <1>5, <1>8 DEF TradeFrame, Closing
  <2>2. ASSUME NEW q \in Procs \ {p} PROVE TradeFrame(co[q])'
    <3>1. TradeFrame(co[q]) /\ co'[q] = co[q]
      BY <1>8 DEF TradeInv
    <3>2. UNCHANGED <<status, side, net, meta, bracket, winner>>
      BY <1>1 DEF accountVars
    <3>3. Legs' = Legs /\ Entries' = Entries /\ Closes' = Closes
      BY <3>2 DEF Legs, Entries, Closes
    <3>4. QED
      BY <1>7, <3>1, <3>2, <3>3 DEF TradeFrame, Opens, Live
  <2>3. QED
    BY <2>1, <2>2
<1>14. QED
  BY <1>7, <1>11, <1>12, <1>13 DEF TradeInv

-----------------------------------------------------------------------------
(* close_position and flatten, one trade at a time.                        *)

\* A set of ids has a least one, which is the one that is turned to next.
LEMMA HasLeast ==
    ASSUME NEW S, S \subseteq Orders, S # {}
    PROVE  (CHOOSE x \in S : \A y \in S : x <= y) \in S
<1>1. PICK R : R = OpToRel(<, Nat)
  OBVIOUS
<1>2. IsWellFoundedOn(R, Nat)
  BY <1>1, NatLessThanWellFounded
<1> S \subseteq Nat
  BY SessionAssumption
<1>3. PICK x \in S : \A y \in S : ~(<<y, x>> \in R)
  BY <1>2, WFMin
<1>4. ASSUME NEW y \in S PROVE x <= y
  <2>1. y < x => <<y, x>> \in R
    BY <1>1 DEF OpToRel
  <2>2. QED
    BY <1>3, <2>1
<1>5. \E z \in S : \A y \in S : z <= y
  BY <1>4
<1>6. QED
  BY <1>5

\* While nothing is submitted, what can act of a trade that is open is in the
\* bracket or in the hands of the coroutine.
LEMMA LiveLegs ==
    ASSUME PaperTrades, TradeInv, NEW p, Alone(p), co[p].at \notin Submits, net # 0
    PROVE  /\ LiveOrders \subseteq LegsOf(bracket) \cup Hands(co[p])
           /\ LiveOrders \subseteq Legs /\ \A x \in LiveOrders : status[x] = "working"
<1>1. ASSUME NEW x \in LiveOrders
      PROVE  status[x] = "working" /\ x \in Legs /\ x \in LegsOf(bracket) \cup Hands(co[p])
  <2>1. x \in Orders /\ Live(x) /\ KindOK(x)
    BY <1>1 DEF LiveOrders, TradeInv, OrdersOK, Kinds
  <2>2. status[x] # "sent"
    <3>1. \A q \in Procs : co[q].at \notin Submits
      BY DEF Alone, Rests, Submits
    <3>2. QED
      BY <2>1, <3>1 DEF TradeInv, Submitted
  <2>3. status[x] = "working"
    BY <2>1, <2>2 DEF Live
  <2>4. meta[x].kind # "entry"
    BY <1>1 DEF TradeInv, OrdersOK, OneTrade
  <2>5. x \in Legs
    BY <2>1, <2>3, <2>4 DEF KindOK, Legs
  <2>6. \A q \in Procs \ {p} : Hands(co[q]) = {}
    BY DEF Alone, Rests, Hands
  <2>7. x \in LegsOf(bracket) \/ \E q \in Procs : x \in Hands(co[q])
    BY <2>1, <2>5, BooksAre DEF TradeInv, PromiseInv, LegsInv, Owned
  <2>8. QED
    BY <2>3, <2>5, <2>6, <2>7
<1>2. QED
  BY <1>1

\* The next leg to cancel, or the close itself.
LEMMA TradeUnlegs ==
    ASSUME PaperTrades, TradeInv, PromiseInv', NEW p, Alone(p), NEW f, IsFrame(f),
           CallerRole(f), f.at \in {"find", "unleg"}, NEW legs, legs \subseteq Orders,
           NextUnleg(p, f, legs), net # 0, f.entry = net, LiveOrders \subseteq legs,
           bracket' = Bare, recovery' = NoOrder, co[p].at \notin Submits,
           UNCHANGED <<raised, lost, pending, winner, tasks>>
    PROVE  TradeInv'
<1>1. /\ ~lost' /\ LegsOf(bracket') \subseteq Legs /\ tasks' \subseteq Tasks /\ p \in Procs
      /\ pending' \in {pending, NoOrder} /\ winner' \in {winner, NoOrder}
  BY BooksAre, AloneIs DEF LegsOf, Bare
<1>2. CASE legs # {}
  <2>1. PICK o, g : /\ o = CHOOSE x \in legs : \A y \in legs : x <= y
                    /\ g = [f EXCEPT !.at = "unleg", !.order = o, !.left = legs \ {o}]
                    /\ Stays(p, g) /\ UNCHANGED <<accountVars, meta>>
    BY <1>2 DEF NextUnleg
  <2>2. o \in legs
    BY <1>2, <2>1, HasLeast
  <2>3. /\ g.at = "unleg" /\ g.order = o /\ g.left = legs \ {o} /\ g.entry = net
        /\ g.op = f.op /\ g.done = f.done
    BY <2>1 DEF IsFrame, Idle
  <2>4. OrdersOK' /\ Submitted' /\ LiveOrders' = LiveOrders
    BY <1>1, <2>1, OrdersRest
  <2>5. CallerRole(g) /\ g.op # "oco" /\ (g.op \in Closing => ~g.done)
    BY <2>3 DEF CallerRole, Closing
  <2>6. net' = net
    BY <2>1 DEF accountVars
  <2>7. TradeFrame(g)'
    BY <2>2, <2>3, <2>4, <2>5, <2>6 DEF TradeFrame
  <2>8. g.at # "drain"
    BY <2>3
  <2>9. QED
    BY <1>1, <2>1, <2>4, <2>5, <2>7, <2>8, CallerStep
<1>3. CASE legs = {}
  <2>1. PICK n, d, m, kind, none, g :
            /\ d = -f.entry /\ m = TRUE /\ kind = "close" /\ none = {}
            /\ g = [f EXCEPT !.at = "close", !.order = n, !.left = none]
            /\ Sends(n, d, m, kind, NoOrder, none) /\ Stays(p, g)
    BY <1>3 DEF NextUnleg
  <2>2. g.at = "close" /\ g.order = n /\ g.op = f.op /\ g.done = f.done
    BY <2>1 DEF IsFrame, Idle
  <2>3. SubmitsOne(p, n, kind)
    <3>1. d \in Int \ {0} /\ d = -net /\ m \in BOOLEAN
      BY <2>1 DEF TradeInv, OrdersOK, Kinds
    <3>2. g.at \in Submits /\ kind \notin {"stop", "target"} /\ kind # "entry"
      BY <2>1, <2>2 DEF Submits
    <3>3. Stays(p, g) /\ Sends(n, d, m, kind, NoOrder, none)
      BY <2>1
    <3>4. g.order = n /\ m = TRUE
      BY <2>1, <2>2
    <3>5. QED
      BY <3>1, <3>2, <3>3, <3>4 DEF SubmitsOne
  <2>4. kind \in {"entry", "stop", "target", "close"} /\ UNCHANGED <<raised, lost, pending>>
    BY <2>1
  <2>5. /\ OrdersOK' /\ Submitted' /\ n \in Orders /\ LiveOrders' = LiveOrders \cup {n}
        /\ meta'[n].kind = kind /\ status'[n] = "sent"
    BY <1>1, <2>3, <2>4, OrdersSent
  <2>6. n \in Closes' /\ LiveOrders' \subseteq {n} /\ n \in LiveOrders'
    BY <1>3, <2>1, <2>5 DEF Closes
  <2>7. Live(n)'
    BY <2>5 DEF Live
  <2>8. CallerRole(g) /\ g.op # "oco" /\ (g.op \in Closing => ~g.done)
    BY <2>2 DEF CallerRole, Closing
  <2>9. TradeFrame(g)'
    BY <2>2, <2>6, <2>7, <2>8 DEF TradeFrame, Live
  <2>10. g.at # "drain"
    BY <2>2
  <2>11. QED
    BY <1>1, <2>1, <2>5, <2>8, <2>9, <2>10, CallerStep
<1>4. QED
  BY <1>2, <1>3

LEMMA TradeFinds ==
    ASSUME PaperTrades, TradeInv, PromiseInv', NEW p \in Procs, FindReturns(p) \/ UnlegReturns(p)
    PROVE  TradeInv'
<1>1. /\ co[p].at \in {"find", "unleg"} /\ Runs(p)
      /\ UNCHANGED <<raised, lost, pending, winner, tasks>>
  BY DEF FindReturns, UnlegReturns
<1>2. p \in Callers
  BY <1>1, FrameShape DEF Procs, TaskRole, Rests
<1>3. Alone(p) /\ co[p].at \notin Submits
  BY <1>1, <1>2, RunsAlone DEF Submits
<1>4. IsFrame(co[p]) /\ TradeFrame(co[p]) /\ CallerRole(co[p])
  BY <1>2, FrameShape
<1>5. CASE FindReturns(p) /\ net = 0
  <2>1. /\ UNCHANGED <<accountVars, bracket, recovery, meta>> /\ co[p].at = "find"
        /\ Stays(p, IF co[p].op = "close" THEN Idle ELSE [co[p] EXCEPT !.at = "open"])
    BY <1>5 DEF FindReturns
  <2>2. PICK f : /\ f = IF co[p].op = "close" THEN Idle ELSE [co[p] EXCEPT !.at = "open"]
                 /\ Stays(p, f)
    BY <2>1
  <2>3. \/ f.at = "idle" /\ f.op = "none"
        \/ f.at = "open" /\ f.op = co[p].op /\ f.op # "close" /\ f.done = co[p].done
    BY <1>4, <2>2 DEF IsFrame, Idle
  <2>4. f.at \in Plain /\ CallerRole(f) /\ PlainFrame(f) /\ f.at # "drain"
    BY <1>4, <1>5, <2>1, <2>3 DEF Plain, CallerRole, PlainFrame, Closing
  <2>5. /\ ~lost' /\ recovery' = NoOrder /\ LegsOf(bracket') \subseteq Legs /\ tasks' \subseteq Tasks
        /\ pending' \in {pending, NoOrder} /\ winner' \in {winner, NoOrder}
    BY <1>1, <2>1, BooksAre
  <2>6. QED
    BY <1>1, <1>3, <2>1, <2>2, <2>4, <2>5, CallerPlain
<1>6. CASE FindReturns(p) /\ net # 0
  <2>1. PICK f, legs : /\ f = [co[p] EXCEPT !.entry = net] /\ legs = LegsOf(bracket)
                       /\ NextUnleg(p, f, legs) /\ bracket' = Bare /\ recovery' = NoOrder
    BY <1>6 DEF FindReturns
  <2>2. f.at = "find" /\ f.op = co[p].op /\ f.done = co[p].done /\ f.entry = net /\ IsFrame(f)
    BY <1>4, <1>6, <2>1 DEF IsFrame, Idle, FindReturns
  <2>3. CallerRole(f)
    BY <1>4, <1>6, <2>2 DEF CallerRole, FindReturns
  <2>4. Hands(co[p]) = {}
    BY <1>6 DEF Hands, FindReturns
  <2>5. LiveOrders \subseteq legs /\ legs \subseteq Orders
    BY <1>3, <1>6, <2>1, <2>4, LiveLegs, BooksAre
  <2>6. QED
    BY <1>1, <1>3, <1>6, <2>1, <2>2, <2>3, <2>5, TradeUnlegs
<1>7. CASE UnlegReturns(p)
  <2>1. PICK f, legs : /\ f = co[p] /\ legs = f.left /\ NextUnleg(p, f, legs)
                       /\ ~Live(f.order) /\ f.at = "unleg" /\ UNCHANGED <<bracket, recovery>>
    BY <1>7 DEF UnlegReturns
  <2>2. /\ net # 0 /\ f.entry = net /\ bracket = Bare /\ legs \subseteq Orders
        /\ LiveOrders \subseteq legs \cup {f.order}
    BY <1>4, <2>1 DEF TradeFrame
  <2>3. LiveOrders \subseteq legs
    BY <2>1, <2>2 DEF LiveOrders
  <2>4. bracket' = Bare /\ recovery' = NoOrder
    BY <2>1, <2>2, BooksAre
  <2>5. QED
    BY <1>1, <1>3, <1>4, <2>1, <2>2, <2>3, <2>4, TradeUnlegs
<1>8. QED
  BY <1>5, <1>6, <1>7

LEMMA TradeSweeps ==
    ASSUME PaperTrades, TradeInv, PromiseInv', NEW p \in Procs, OpenRead(p) \/ SweepReturns(p)
    PROVE  TradeInv'
<1>1. /\ co[p].at \in {"open", "sweep"} /\ Runs(p)
      /\ UNCHANGED <<accountVars, meta, raised, tasks>>
  BY DEF OpenRead, SweepReturns
<1>2. p \in Callers
  BY <1>1, FrameShape DEF Procs, TaskRole, Rests
<1>3. Alone(p) /\ co[p].at \notin Submits
  BY <1>1, <1>2, RunsAlone DEF Submits
<1>4. IsFrame(co[p]) /\ TradeFrame(co[p]) /\ CallerRole(co[p])
  BY <1>2, FrameShape
<1>5. co[p].op \in Closing /\ ~co[p].done /\ net = 0
  BY <1>1, <1>4 DEF CallerRole, TradeFrame, Closing
<1>6. PICK left : NextSweep(p, left) /\ left \subseteq Orders /\ LiveOrders \subseteq left
  <2>1. CASE OpenRead(p)
    <3>1. \A q \in Procs : co[q].at \notin Submits
      BY <1>3 DEF Alone, Rests, Submits
    <3>2. \A o \in Orders : status[o] # "sent"
      BY <3>1 DEF TradeInv, Submitted
    <3>3. LiveOrders \subseteq Open /\ Open \subseteq Orders
      BY <3>2 DEF LiveOrders, Live, Open
    <3>4. QED
      BY <2>1, <3>3 DEF OpenRead
  <2>2. CASE SweepReturns(p)
    <3>1. NextSweep(p, co[p].left) /\ ~Live(co[p].order) /\ co[p].at = "sweep"
      BY <2>2 DEF SweepReturns
    <3>2. co[p].left \subseteq Orders /\ LiveOrders \subseteq co[p].left \cup {co[p].order}
      BY <1>4, <3>1 DEF TradeFrame
    <3>3. LiveOrders \subseteq co[p].left
      BY <3>1, <3>2 DEF LiveOrders
    <3>4. QED
      BY <3>1, <3>2, <3>3
  <2>3. QED
    BY <2>1, <2>2
<1>7. net' = net
  BY <1>1 DEF accountVars
<1>8. CASE left # {}
  <2>1. PICK o, f : /\ o = CHOOSE x \in left : \A y \in left : x <= y
                    /\ f = [co[p] EXCEPT !.at = "sweep", !.order = o, !.left = left \ {o}]
                    /\ Stays(p, f) /\ UNCHANGED <<pending, bracket, recovery, winner, lost>>
    BY <1>6, <1>8 DEF NextSweep
  <2>2. o \in left
    BY <1>6, <1>8, <2>1, HasLeast
  <2>3. /\ f.at = "sweep" /\ f.order = o /\ f.left = left \ {o}
        /\ f.op = co[p].op /\ f.done = co[p].done
    BY <1>4, <2>1 DEF IsFrame, Idle
  <2>4. /\ ~lost' /\ recovery' = NoOrder /\ LegsOf(bracket') \subseteq Legs /\ tasks' \subseteq Tasks
        /\ pending' \in {pending, NoOrder} /\ winner' \in {winner, NoOrder}
    BY <1>1, <2>1, BooksAre
  <2>5. OrdersOK' /\ Submitted' /\ LiveOrders' = LiveOrders
    BY <1>1, <1>3, <2>1, <2>4, OrdersRest
  <2>6. CallerRole(f)
    BY <1>5, <2>3 DEF CallerRole, Closing
  <2>7. TradeFrame(f)'
    BY <1>5, <1>6, <1>7, <2>2, <2>3, <2>5 DEF TradeFrame, Closing
  <2>8. f.at # "drain"
    BY <2>3
  <2>9. QED
    BY <1>3, <2>1, <2>4, <2>5, <2>6, <2>7, <2>8, CallerStep
<1>9. CASE left = {}
  <2>1. PICK f : f = Refreshing([co[p] EXCEPT !.done = TRUE]) /\ Stays(p, f)
    BY <1>6, <1>9 DEF NextSweep
  <2>2. f.at = "drain" /\ f.left = tasks /\ f.op = co[p].op
    BY <1>4, <2>1 DEF Refreshing, IsFrame, Idle
  <2>3. PICK ids : /\ ids = LegsOf(bracket) \cup ({winner, recovery, pending} \ {NoOrder})
                   /\ lost' = (lost \/ Forgets(ids))
    BY <1>6, <1>9 DEF NextSweep
  <2>4. ids \subseteq Orders /\ LiveOrders = {}
    BY <1>3, <1>6, <1>9, <2>3, AloneIs, BooksAre
  <2>5. ~lost'
    BY <2>3, <2>4, BooksAre, NothingForgotten
  <2>6. pending' = NoOrder /\ bracket' = Bare /\ recovery' = NoOrder /\ winner' = NoOrder
    BY <1>6, <1>9 DEF NextSweep
  <2>7. LegsOf(bracket') \subseteq Legs /\ tasks' \subseteq Tasks
    BY <1>1, <2>6, BooksAre DEF LegsOf, Bare
  <2>8. f.at \in Plain /\ CallerRole(f) /\ PlainFrame(f)
    BY <1>5, <2>2, <2>4 DEF Plain, CallerRole, PlainFrame, Closing
  <2>9. f.left \subseteq tasks'
    BY <1>1, <2>2
  <2>10. QED
    BY <1>1, <1>3, <2>1, <2>5, <2>6, <2>7, <2>8, <2>9, CallerPlain
<1>10. QED
  BY <1>8, <1>9

LEMMA TradeResumes ==
    ASSUME PaperTrades, TradeInv, PromiseInv', NEW p \in Procs, Resumes(p)
    PROVE  TradeInv'
BY NothingFails, TradeEnters, TradeBegins, TradeStops, TradeTargets, TradeOco, TradeDrains,
   TradeReads, TradeClosed, TradeRefreshes, TradeFinds, TradeSweeps DEF Resumes

-----------------------------------------------------------------------------
(* The account, one trade at a time.                                       *)

OtherLeg(o) == IF o = bracket.stop THEN bracket.target ELSE bracket.stop
Attach(o) == [Idle EXCEPT !.at = "ready", !.op = "attach", !.entry = o, !.legs = meta[o].legs]
Oco(x) == [Idle EXCEPT !.at = "ready", !.op = "oco", !.order = x]
IsLeg(o) == o \in LegsOf(bracket)

\* What the callbacks of a paper account do about an order that is over.
HearsNothing(h, o, s) ==
    /\ h.bracket = bracket /\ h.winner = winner /\ h.task = Idle
    /\ s = "filled" /\ running => pending # o /\ ~IsLeg(o)
HearsFill(h, o, s) ==
    /\ s = "filled" /\ running /\ pending = o
    /\ h.bracket = bracket /\ h.winner = winner /\ h.task = Attach(o)
HearsExit(h, o, s) ==
    /\ s = "filled" /\ running /\ pending # o /\ IsLeg(o)
    /\ h.bracket = Bare /\ h.winner = NoOrder /\ h.task = Idle
HearsEnd(h, o, s) ==
    /\ s # "filled" /\ running /\ IsLeg(o) /\ winner = NoOrder
    /\ h.bracket = Bare /\ h.winner = winner /\ h.task = Idle
HearsSibling(h, o, s) ==
    /\ s # "filled" /\ running /\ IsLeg(o) /\ winner = NoOrder /\ OtherLeg(o) # NoOrder
    /\ h.bracket = bracket /\ h.winner = OtherLeg(o) /\ h.task = Oco(OtherLeg(o))

LEMMA HeardPaper ==
    ASSUME Synchronous, NEW o, NEW s, NEW h, h = Heard(o, s)
    PROVE  /\ h.pending \in {pending, NoOrder}
           /\ \/ HearsNothing(h, o, s) \/ HearsFill(h, o, s) \/ HearsExit(h, o, s)
              \/ HearsEnd(h, o, s) \/ HearsSibling(h, o, s)
<1> DEFINE b == [pending |-> IF pending = o THEN NoOrder ELSE pending,
                 bracket |-> bracket, winner |-> winner, halted |-> halted, task |-> Idle]
           leg == o \in LegsOf(bracket)
           sib == IF o = bracket.stop THEN bracket.target ELSE bracket.stop
           oco == [Idle EXCEPT !.at = "ready", !.op = "oco", !.order = sib]
           att == [Idle EXCEPT !.at = "ready", !.op = "attach", !.entry = o, !.legs = meta[o].legs]
<1> USE DEF IsLeg
<1>1. CASE ~running
  <2>1. h = [b EXCEPT !.pending = pending]
    BY <1>1 DEF Heard
  <2>2. QED
    BY <1>1, <2>1 DEF HearsNothing
<1>2. CASE running /\ s = "filled" /\ pending = o
  <2>1. h = [b EXCEPT !.task = att]
    BY <1>2 DEF Heard
  <2>2. h.task = Attach(o)
    BY <2>1 DEF Attach
  <2>3. QED
    BY <1>2, <2>1, <2>2 DEF HearsFill
<1>3. CASE running /\ s = "filled" /\ pending # o /\ leg
  <2>1. h = [b EXCEPT !.bracket = Bare, !.winner = NoOrder]
    BY <1>3 DEF Heard
  <2>2. QED
    BY <1>3, <2>1 DEF HearsExit
<1>4. CASE running /\ s # "filled" /\ leg /\ winner = NoOrder
  <2>1. h = IF sib = NoOrder
            THEN [b EXCEPT !.halted = TRUE, !.bracket = Bare]
            ELSE [b EXCEPT !.halted = TRUE, !.winner = sib, !.task = oco]
    BY <1>4 DEF Heard
  <2>2. CASE sib = NoOrder
    BY <1>4, <2>1, <2>2 DEF HearsEnd
  <2>3. CASE sib # NoOrder
    <3>1. OtherLeg(o) = sib /\ Oco(OtherLeg(o)) = oco
      BY DEF OtherLeg, Oco
    <3>2. QED
      BY <1>4, <2>1, <2>3, <3>1 DEF HearsSibling
  <2>4. QED
    BY <2>2, <2>3
<1>5. CASE running /\ (s = "filled" => pending # o /\ ~leg)
           /\ (s # "filled" => ~(leg /\ winner = NoOrder))
  <2>1. h = b
    BY <1>5 DEF Heard
  <2>2. QED
    BY <1>5, <2>1 DEF HearsNothing
<1>6. QED
  BY <1>1, <1>2, <1>3, <1>4, <1>5

\* The task that the callbacks wake was at rest.
LEMMA WokenRests ==
    ASSUME TradeInv, NEW h, Tells(h)
    PROVE  /\ pending' = h.pending /\ bracket' = h.bracket /\ winner' = h.winner
           /\ UNCHANGED <<running, recovery, meta, raised, lost>>
           /\ h.task = Idle => UNCHANGED <<co, tasks>>
           /\ h.task # Idle => \E t \in Tasks : /\ Rests(co[t]) /\ co' = [co EXCEPT ![t] = h.task]
                                                /\ tasks' = tasks \cup {t}
<1>1. ASSUME h.task # Idle
      PROVE  \E t \in Tasks : /\ Rests(co[t]) /\ co' = [co EXCEPT ![t] = h.task]
                              /\ tasks' = tasks \cup {t}
  <2>1. FreeSlots # {}
    BY <1>1 DEF Tells
  <2>2. PICK t : t = CHOOSE x \in FreeSlots : TRUE
    OBVIOUS
  <2>3. t \in FreeSlots /\ co' = [co EXCEPT ![t] = h.task] /\ tasks' = tasks \cup {t}
    BY <1>1, <2>1, <2>2 DEF Tells
  <2>4. t \in Tasks /\ co[t].at \in {"idle", "done", "failed"}
    BY <2>3 DEF FreeSlots
  <2>5. Rests(co[t])
    BY <2>4 DEF TradeInv, Roles, TaskRole, Rests
  <2>6. QED
    BY <2>3, <2>4, <2>5
<1>2. QED
  BY <1>1 DEF Tells

\* The order that goes on, and the sibling that PaperEngine cancels with it.
GoneWith(o, s) ==
    {x \in {OtherLeg(o)} \ {NoOrder} :
        /\ status[x] = "working"
        /\ Synchronous /\ running /\ s = "filled" /\ pending # o /\ IsLeg(o)}

LEMMA MovesIs ==
    ASSUME NEW o, NEW s, Moves(o, s)
    PROVE  /\ \A x \in Orders : status'[x] = IF x = o THEN s
                                             ELSE IF x \in GoneWith(o, s) THEN "canceled" ELSE status[x]
           /\ \A x \in Orders : told'[x] = IF x \in GoneWith(o, s) \cup {o} THEN Synchronous /\ s \in Done
                                           ELSE told[x]
           /\ net' = IF s = "filled" THEN net + side[o] ELSE net
           /\ UNCHANGED <<side, market>>
           /\ IF Synchronous /\ s \in Done THEN Tells(Heard(o, s))
              ELSE UNCHANGED <<sessionVars, co, starts, raised, lost>>
<1> DEFINE sib  == IF o = bracket.stop THEN bracket.target ELSE bracket.stop
           gone == IF /\ Synchronous /\ running /\ s = "filled"
                      /\ pending # o /\ o \in LegsOf(bracket)
                   THEN {x \in {sib} \ {NoOrder} : status[x] = "working"} ELSE {}
<1>1. gone = GoneWith(o, s)
  BY DEF GoneWith, OtherLeg, IsLeg
<1>2. /\ status' = [x \in Orders |-> IF x = o THEN s
                                      ELSE IF x \in gone THEN "canceled" ELSE status[x]]
      /\ told' = [x \in Orders |-> IF x \in gone \cup {o} THEN Synchronous /\ s \in Done
                                    ELSE told[x]]
      /\ net' = IF s = "filled" THEN net + side[o] ELSE net
      /\ UNCHANGED <<side, market>>
      /\ IF Synchronous /\ s \in Done THEN Tells(Heard(o, s))
         ELSE UNCHANGED <<sessionVars, co, starts, raised, lost>>
  BY DEF Moves
<1>3. QED
  BY <1>1, <1>2

\* The orders after a step of the account: what fills leaves no order behind.
LEMMA OrdersMoved ==
    ASSUME PaperTrades, TradeInv, NEW o \in LiveOrders, NEW s \in {"working", "filled", "canceled"},
           Moves(o, s), s = "working" => ~market[o],
           s = "filled" => LiveOrders' = {},
           UNCHANGED <<meta, raised, lost, recovery>>,
           LegsOf(bracket') \subseteq Legs, pending' \in {pending, NoOrder},
           \A q \in Procs : co[q].at \in Submits => co'[q] = co[q]
    PROVE  /\ OrdersOK' /\ Submitted' /\ LiveOrders' \subseteq LiveOrders
           /\ s = "working" => LiveOrders' = LiveOrders
           /\ s = "canceled" => LiveOrders' = LiveOrders \ {o}
           /\ Legs' = Legs /\ Entries' = Entries /\ Closes' = Closes
<1>1. /\ \A x \in Orders : status'[x] = IF x = o THEN s
                                        ELSE IF x \in GoneWith(o, s) THEN "canceled" ELSE status[x]
      /\ \A x \in Orders : told'[x] = IF x \in GoneWith(o, s) \cup {o} THEN Synchronous /\ s \in Done
                                      ELSE told[x]
      /\ net' = IF s = "filled" THEN net + side[o] ELSE net
      /\ UNCHANGED <<side, market>>
  BY MovesIs
<1>2. o \in Orders /\ Live(o) /\ Synchronous
  BY DEF LiveOrders, PaperTrades
<1>3. \A x \in GoneWith(o, s) : status[x] = "working" /\ s = "filled"
  BY DEF GoneWith
<1>4. Legs' = Legs /\ Entries' = Entries /\ Closes' = Closes
  BY DEF Legs, Entries, Closes
<1>5. LiveOrders' \subseteq LiveOrders
  BY <1>1, <1>2 DEF LiveOrders, Live
<1>6. s = "working" => LiveOrders' = LiveOrders
  BY <1>1, <1>2, <1>3 DEF LiveOrders, Live
<1>7. s = "canceled" => LiveOrders' = LiveOrders \ {o}
  BY <1>1, <1>2, <1>3 DEF LiveOrders, Live
<1>8. Clean'
  <2>1. ~raised' /\ ~lost' /\ recovery' = NoOrder
    BY BooksAre
  <2>2. ASSUME NEW x \in Orders
        PROVE  status'[x] # "rejected" /\ (status'[x] \in Done => told'[x])
    <3>1. CASE x = o
      BY <1>1, <1>2, <3>1
    <3>2. CASE x # o /\ x \in GoneWith(o, s)
      BY <1>1, <1>2, <1>3, <3>2 DEF Done
    <3>3. CASE x # o /\ x \notin GoneWith(o, s)
      BY <1>1, <3>3 DEF TradeInv, OrdersOK, Clean
    <3>4. QED
      BY <3>1, <3>2, <3>3
  <2>3. QED
    BY <2>1, <2>2 DEF Clean
<1>9. ASSUME NEW x \in LiveOrders' PROVE KindOK(x)'
  <2>1. x \in LiveOrders /\ x \in Orders /\ KindOK(x)
    BY <1>5 DEF LiveOrders, TradeInv, OrdersOK, Kinds
  <2>2. market[x] => status'[x] # "working"
    BY <1>1, <1>3, <2>1 DEF KindOK
  <2>3. QED
    BY <1>1, <2>1, <2>2 DEF KindOK
<1>10. pending' # NoOrder => pending' \in Entries' /\ status'[pending'] # "sent"
  <2>1. pending' # NoOrder => pending' = pending /\ pending \in Entries /\ status[pending] # "sent"
    BY DEF TradeInv, OrdersOK, Kinds
  <2>2. Entries \subseteq Orders
    BY DEF Entries
  <2>3. QED
    BY <1>1, <1>4, <2>1, <2>2
<1>11. Kinds'
  <2>1. net' \in Int
    BY <1>1, <1>2 DEF TradeInv, OrdersOK, Kinds
  <2>2. side' \in [Orders -> Int] /\ DOMAIN market' = Orders
    BY <1>1 DEF TradeInv, OrdersOK, Kinds
  <2>3. QED
    BY <1>4, <1>9, <1>10, <2>1, <2>2 DEF Kinds
<1>12. ASSUME NEW x \in LiveOrders'
       PROVE  IF meta'[x].kind = "entry" THEN net' = 0 /\ LiveOrders' = {x}
              ELSE net' # 0 /\ side'[x] = -net'
  <2>1. s # "filled" /\ net' = net
    BY <1>1, <1>12
  <2>2. x \in LiveOrders
    BY <1>5
  <2>3. QED
    BY <1>1, <1>5, <2>1, <2>2 DEF TradeInv, OrdersOK, OneTrade
<1>13. OneTrade'
  BY <1>12 DEF OneTrade
<1>14. Submitted'
  BY <1>1 DEF TradeInv, Submitted
<1>15. QED
  BY <1>4, <1>5, <1>6, <1>7, <1>8, <1>11, <1>13, <1>14 DEF OrdersOK

\* No task is woken.
LEMMA AccountStays ==
    ASSUME TradeInv, PromiseInv', UNCHANGED <<co, tasks>>, OrdersOK', Submitted',
           winner' \in {winner, NoOrder}, \A p \in Procs : TradeFrame(co[p])'
    PROVE  TradeInv'
<1>1. OneTask'
  BY DEF TradeInv, OneTask, Awaited, Rests
<1>2. Roles'
  BY DEF TradeInv, Roles, CallerRole, TaskRole, Rests
<1>3. QED
  BY <1>1, <1>2 DEF TradeInv

\* A task is woken, which the user goes on to wait for.
LEMMA AccountWakes ==
    ASSUME PaperTrades, TradeInv, PromiseInv', NEW u, Alone(u), NEW t \in Tasks, NEW f,
           co' = [co EXCEPT ![t] = f], tasks' = tasks \cup {t},
           \/ co[u].at = "bar" /\ f.op = "attach"
           \/ co[u].at = "cancel" /\ f.op = "oco",
           f.at = "ready", OrdersOK', Submitted', TradeFrame(f)', TradeFrame(co[u])',
           winner' = NoOrder \/ f.op = "oco"
    PROVE  TradeInv'
<1>1. u \in Callers /\ u \in Procs /\ t \in Procs /\ t # u /\ \A v \in Callers : v = u /\ v \notin Tasks
  BY SessionAssumption DEF Alone, Procs, PaperTrades
<1>2. co'[t] = f /\ \A q \in Procs \ {t} : co'[q] = co[q]
  BY <1>1 DEF TradeInv, PromiseInv, LegsInv, Shapes
<1>3. \A q \in Procs \ {t, u} : Rests(co'[q])
  BY <1>2 DEF Alone
<1>4. OneTask'
  <2>1. Awaited(t)'
    BY <1>1, <1>2 DEF Awaited
  <2>2. \A q \in Tasks \ {t} : Rests(co'[q])
    BY <1>1, <1>3 DEF Procs
  <2>3. \A v \in Callers : co'[v].at # "drain"
    BY <1>1, <1>2
  <2>4. tasks' \subseteq Tasks
    BY BooksAre
  <2>5. winner' # NoOrder => co'[t].op = "oco"
    BY <1>2
  <2>6. QED
    BY <2>1, <2>2, <2>3, <2>4, <2>5 DEF OneTask
<1>5. Roles'
  <2>1. TaskRole(f)
    BY DEF TaskRole
  <2>2. QED
    BY <1>1, <1>2, <2>1 DEF TradeInv, Roles, CallerRole, TaskRole, Procs
<1>6. \A q \in Procs : TradeFrame(co[q])'
  <2>1. ASSUME NEW q \in Procs \ {t, u} PROVE TradeFrame(co[q])'
    <3>1. PICK g : g = co'[q]
      OBVIOUS
    <3>2. TradeFrame(g)'
      BY <1>3, <3>1, RestsFrame
    <3>3. QED
      BY <3>1, <3>2 DEF TradeFrame, Opens
  <2>2. TradeFrame(co[t])'
    BY <1>2 DEF TradeFrame, Opens
  <2>3. QED
    BY <2>1, <2>2
<1>7. QED
  BY <1>4, <1>5, <1>6 DEF TradeInv

\* A resting order has been accepted.
LEMMA TradeRested ==
    ASSUME PaperTrades, TradeInv, PromiseInv', NEW o \in LiveOrders, ~market[o],
           NEW s, s = "working", Moves(o, s)
    PROVE  TradeInv'
<1>1. /\ \A x \in Orders : status'[x] = IF x = o THEN s
                                        ELSE IF x \in GoneWith(o, s) THEN "canceled" ELSE status[x]
      /\ net' = net /\ UNCHANGED <<side, market>>
      /\ UNCHANGED <<sessionVars, co, starts, raised, lost>>
  BY MovesIs DEF Done
<1>2. UNCHANGED <<meta, recovery, bracket, pending, winner, tasks>>
  BY <1>1 DEF sessionVars
<1>3. GoneWith(o, s) = {}
  BY DEF GoneWith
<1>4. LegsOf(bracket') \subseteq Legs /\ s \in {"working", "filled", "canceled"}
  BY <1>2, BooksAre
<1>5. /\ OrdersOK' /\ Submitted' /\ LiveOrders' = LiveOrders
      /\ Legs' = Legs /\ Entries' = Entries /\ Closes' = Closes
  BY <1>1, <1>2, <1>4, OrdersMoved
<1>6. /\ \A x \in Orders : status'[x] = "filled" <=> status[x] = "filled"
      /\ \A x \in Orders : Live(x)' <=> Live(x)
  BY <1>1, <1>3 DEF LiveOrders, Live
<1>7. ASSUME NEW p \in Procs PROVE TradeFrame(co[p])'
  <2>1. TradeFrame(co[p]) /\ co'[p] = co[p]
    BY <1>1 DEF TradeInv
  <2>2. Entries \subseteq Orders /\ Closes \subseteq Orders
    BY DEF Entries, Closes
  <2>3. QED
    BY <1>1, <1>2, <1>5, <1>6, <2>1, <2>2 DEF TradeFrame, Opens
<1>8. QED
  BY <1>1, <1>2, <1>5, <1>7, AccountStays

\* A market order fills inside its submit: the entry, or the close.
LEMMA TradeAnswered ==
    ASSUME PaperTrades, TradeInv, PromiseInv', NEW o \in LiveOrders, market[o],
           status[o] = "sent", NEW s, s = "filled", Moves(o, s)
    PROVE  TradeInv'
<1>1. /\ \A x \in Orders : status'[x] = IF x = o THEN s
                                        ELSE IF x \in GoneWith(o, s) THEN "canceled" ELSE status[x]
      /\ net' = net + side[o] /\ UNCHANGED <<side, market>>
      /\ Tells(Heard(o, s))
  BY MovesIs DEF Done, PaperTrades
<1>2. /\ o \in Orders /\ KindOK(o) /\ meta[o].kind \in {"entry", "close"}
  BY DEF LiveOrders, TradeInv, OrdersOK, Kinds, KindOK
<1>3. PICK p \in Procs : co[p].at \in Submits /\ co[p].order = o
  BY <1>2 DEF TradeInv, Submitted
<1>4. co[p].at \in {"entry", "close"} /\ TradeFrame(co[p])
  BY <1>2, <1>3, FrameShape DEF Submits, TradeFrame, Legs
<1>5. Alone(p) /\ p \in Callers
  <2>1. p \in Callers
    BY <1>4, FrameShape DEF Procs, TaskRole, Rests
  <2>2. Runs(p)
    BY <1>4 DEF TradeInv, PromiseInv, OneRuns, Runs, Suspended
  <2>3. QED
    BY <1>4, <2>1, <2>2, RunsAlone
<1>6. LiveOrders = {o} /\ ~IsLeg(o) /\ pending # o
  <2>1. LiveOrders \subseteq {o}
    BY <1>3, <1>4 DEF TradeFrame
  <2>2. ~IsLeg(o)
    BY <1>2, BooksAre DEF IsLeg, Legs
  <2>3. pending # o
    BY <1>2, OrderAssumption DEF TradeInv, OrdersOK, Kinds
  <2>4. QED
    BY <2>1, <2>2, <2>3
<1>7. GoneWith(o, s) = {}
  BY <1>6 DEF GoneWith
<1>8. LiveOrders' = {}
  BY <1>1, <1>6, <1>7 DEF LiveOrders, Live
<1>9. PICK h : h = Heard(o, s) /\ Tells(h)
  BY <1>1
<1>10. HearsNothing(h, o, s) /\ h.pending \in {pending, NoOrder}
  BY <1>6, <1>9, HeardPaper DEF PaperTrades, HearsFill, HearsExit, HearsEnd, HearsSibling
<1>11. /\ UNCHANGED <<co, tasks, bracket, winner, recovery, meta, raised, lost>>
       /\ pending' \in {pending, NoOrder}
  BY <1>9, <1>10, WokenRests DEF HearsNothing
<1>12. LegsOf(bracket') \subseteq Legs /\ s \in {"working", "filled", "canceled"} /\ s # "working"
  BY <1>11, BooksAre
<1>13. OrdersOK' /\ Submitted' /\ Legs' = Legs /\ Entries' = Entries /\ Closes' = Closes
  BY <1>8, <1>11, <1>12, OrdersMoved
<1>14. /\ meta[o].kind = "entry" => net' # 0 /\ net' = side[o]
       /\ meta[o].kind = "close" => net' = 0
  BY <1>1, <1>2, <1>6 DEF TradeInv, OrdersOK, OneTrade, Kinds, KindOK
<1>15. TradeFrame(co[p])'
  <2>1. PICK f : f = co[p]
    OBVIOUS
  <2>2. f.at = "entry" => f.order \in Entries /\ f.stop = NoOrder /\ f.op = "place"
    BY <1>3, <1>4, <1>5, <2>1, FrameShape DEF TradeFrame, CallerRole
  <2>3. f.at = "close" => f.order \in Closes /\ f.op \in Closing \cup {"close"} /\ ~(f.op \in Closing /\ f.done)
    BY <1>3, <1>4, <1>5, <2>1, FrameShape DEF TradeFrame, CallerRole
  <2>4. f.at = "entry" => net' # 0 /\ net' = side'[f.order]
    BY <1>1, <1>3, <1>14, <2>1, <2>2 DEF Entries
  <2>5. f.at = "close" => net' = 0
    BY <1>3, <1>14, <2>1, <2>3 DEF Closes
  <2>6. f.at \in {"entry", "close"}
    BY <1>4, <2>1
  <2>7. TradeFrame(f)'
    BY <1>8, <1>13, <2>2, <2>3, <2>4, <2>5, <2>6 DEF TradeFrame, Closing
  <2>8. QED
    BY <1>11, <2>1, <2>7 DEF TradeFrame, Opens
<1>16. ASSUME NEW q \in Procs \ {p} PROVE TradeFrame(co[q])'
  <2>1. PICK f : f = co[q] /\ Rests(f)
    BY <1>5 DEF Alone
  <2>2. TradeFrame(f)'
    BY <2>1, RestsFrame
  <2>3. QED
    BY <1>11, <2>1, <2>2 DEF TradeFrame, Opens
<1>17. QED
  BY <1>11, <1>13, <1>15, <1>16, AccountStays

LEMMA TradeAnswers ==
    ASSUME PaperTrades, TradeInv, PromiseInv', NEW o \in Orders, AccountAnswers(o)
    PROVE  TradeInv'
<1>1. status[o] = "sent" /\ o \in LiveOrders
  BY DEF AccountAnswers, LiveOrders, Live
<1>2. PICK s : s \in Answers(o) /\ s # "rejected" /\ Moves(o, s)
  BY DEF AccountAnswers, PaperTrades
<1>3. (market[o] /\ s = "filled") \/ (~market[o] /\ s = "working")
  BY <1>2 DEF Answers, PaperTrades
<1>4. QED
  BY <1>1, <1>2, <1>3, TradeRested, TradeAnswered

\* A bar is pushed to nobody's books but those at rest.
LEMMA BarAlone ==
    ASSUME PaperTrades, TradeInv, NEW o \in LiveOrders, NEW u \in Callers, co[u].at = "bar"
    PROVE  /\ Alone(u) /\ running /\ winner = NoOrder /\ co[u].op = "bar" /\ Hands(co[u]) = {}
<1>1. running /\ \A q \in Procs \ {u} : Suspended(co[q])
  BY DEF TradeInv, PromiseInv, OneRuns, Suspended, Procs, PaperTrades
<1>2. ASSUME NEW t \in Tasks PROVE Rests(co[t])
  <2>1. SUFFICES ASSUME Awaited(t), ~Rests(co[t]) PROVE FALSE
    BY DEF TradeInv, OneTask
  <2>2. co[t].op = "attach" /\ t \in Procs
    BY <2>1 DEF Awaited, PaperTrades, Procs
  <2>3. co[t].at \in {"ready", "stop", "target"} /\ t # u
    BY <2>1, <2>2, SessionAssumption DEF TradeInv, Roles, TaskRole
  <2>4. co[t].at = "ready"
    BY <1>1, <2>2, <2>3 DEF Suspended
  <2>5. LiveOrders \subseteq {}
    BY <2>2, <2>4 DEF TradeInv, TradeFrame, Opens
  <2>6. QED
    BY <2>5
<1>3. Alone(u)
  BY <1>2 DEF Alone, Procs, PaperTrades
<1>4. winner = NoOrder
  BY <1>3, AloneIs
<1>5. co[u].op = "bar" /\ Hands(co[u]) = {}
  BY DEF TradeInv, Roles, CallerRole, Hands
<1>6. QED
  BY <1>1, <1>3, <1>4, <1>5

\* A resting order fills on the bar: the entry, whose bracket a task is to
\* attach, or a leg, whose sibling goes with it.
LEMMA TradeMatched ==
    ASSUME PaperTrades, TradeInv, PromiseInv', NEW o \in Orders, AccountFills(o)
    PROVE  TradeInv'
<1>1. status[o] = "working" /\ o \in LiveOrders
  BY DEF AccountFills, LiveOrders, Live
<1>2. PICK u \in Callers : co[u].at = "bar"
  BY DEF AccountFills, PaperTrades
<1>3. Alone(u) /\ running /\ winner = NoOrder /\ co[u].op = "bar" /\ Hands(co[u]) = {}
  BY <1>1, <1>2, BarAlone
<1>4. PICK s : s = "filled" /\ Moves(o, s)
  BY DEF AccountFills
<1>5. /\ \A x \in Orders : status'[x] = IF x = o THEN s
                                        ELSE IF x \in GoneWith(o, s) THEN "canceled" ELSE status[x]
      /\ net' = net + side[o] /\ UNCHANGED <<side, market>>
      /\ Tells(Heard(o, s))
  BY <1>4, MovesIs DEF Done, PaperTrades
<1>6. PICK h : h = Heard(o, s) /\ Tells(h)
  BY <1>5
<1>7. /\ h.pending \in {pending, NoOrder}
      /\ \/ HearsNothing(h, o, s) \/ HearsFill(h, o, s) \/ HearsExit(h, o, s)
  BY <1>4, <1>6, HeardPaper DEF PaperTrades, HearsEnd, HearsSibling
<1>8. /\ pending' = h.pending /\ bracket' = h.bracket /\ winner' = h.winner
      /\ UNCHANGED <<running, recovery, meta, raised, lost>>
      /\ h.task = Idle => UNCHANGED <<co, tasks>>
      /\ h.task # Idle => \E t \in Tasks : /\ Rests(co[t]) /\ co' = [co EXCEPT ![t] = h.task]
                                           /\ tasks' = tasks \cup {t}
  BY <1>6, WokenRests
<1>9. KindOK(o) /\ side[o] \in Int /\ net \in Int
  BY <1>1 DEF TradeInv, OrdersOK, Kinds
<1>10. LiveOrders' = {}
  <2>1. CASE meta[o].kind = "entry"
    <3>1. LiveOrders = {o}
      BY <1>1, <2>1 DEF TradeInv, OrdersOK, OneTrade
    <3>2. \A x \in GoneWith(o, s) : status[x] = "working"
      BY DEF GoneWith
    <3>3. QED
      BY <1>4, <1>5, <3>1, <3>2 DEF LiveOrders, Live
  <2>2. CASE meta[o].kind # "entry"
    <3>1. net # 0
      BY <1>1, <2>2 DEF TradeInv, OrdersOK, OneTrade
    <3>2. co[u].at \notin Submits
      BY <1>2 DEF Submits
    <3>3. /\ LiveOrders \subseteq LegsOf(bracket) /\ o \in Legs
          /\ \A x \in LiveOrders : status[x] = "working"
      BY <1>1, <1>3, <3>1, <3>2, LiveLegs
    <3>4. pending # o
      BY <3>3, OrderAssumption DEF TradeInv, OrdersOK, Kinds, Legs, Entries
    <3>5. ASSUME NEW x \in LiveOrders, x # o PROVE x \in GoneWith(o, s)
      <4>1. IsLeg(o) /\ x = OtherLeg(o) /\ x # NoOrder
        BY <1>1, <3>3, <3>5 DEF IsLeg, OtherLeg, LegsOf
      <4>2. QED
        BY <1>3, <1>4, <3>3, <3>4, <3>5, <4>1 DEF GoneWith, PaperTrades
    <3>6. QED
      BY <1>4, <1>5, <3>5 DEF LiveOrders, Live
  <2>3. QED
    BY <2>1, <2>2
<1>11. /\ LegsOf(bracket') \subseteq Legs /\ s \in {"working", "filled", "canceled"}
       /\ pending' \in {pending, NoOrder}
  <2>1. LegsOf(Bare) = {}
    BY DEF LegsOf, Bare
  <2>2. QED
    BY <1>4, <1>7, <1>8, <2>1, BooksAre DEF HearsNothing, HearsFill, HearsExit
<1>12. \A q \in Procs : co[q].at \notin Submits
  BY <1>2, <1>3 DEF Alone, Rests, Submits
<1>13. OrdersOK' /\ Submitted' /\ Legs' = Legs /\ Entries' = Entries /\ Closes' = Closes
  BY <1>1, <1>4, <1>8, <1>10, <1>11, <1>12, OrdersMoved
<1>14. CASE h.task = Idle
  <2>1. UNCHANGED <<co, tasks>> /\ winner' \in {winner, NoOrder}
    BY <1>7, <1>8, <1>14 DEF HearsNothing, HearsFill, HearsExit
  <2>2. ASSUME NEW q \in Procs PROVE TradeFrame(co[q])'
    <3>1. PICK f : f = co[q] /\ (Rests(f) \/ (f.at = "bar" /\ f.op = "bar"))
      BY <1>2, <1>3 DEF Alone
    <3>2. TradeFrame(f)'
      BY <3>1, RestsFrame DEF TradeFrame, Closing
    <3>3. QED
      BY <2>1, <3>1, <3>2 DEF TradeFrame, Opens
  <2>3. QED
    BY <1>13, <2>1, <2>2, AccountStays
<1>15. CASE h.task # Idle
  <2>1. h.task = Attach(o) /\ winner' = NoOrder /\ pending = o
    BY <1>3, <1>7, <1>8, <1>15 DEF HearsNothing, HearsFill, HearsExit
  <2>2. PICK f : f = Attach(o)
    OBVIOUS
  <2>3. /\ f.at = "ready" /\ f.op = "attach" /\ f.entry = o /\ f.stop = NoOrder /\ f.done = FALSE
    BY <2>2 DEF Attach, Idle
  <2>4. PICK t \in Tasks : co' = [co EXCEPT ![t] = f] /\ tasks' = tasks \cup {t}
    BY <1>8, <1>15, <2>1, <2>2
  <2>5. meta[o].kind = "entry"
    BY <2>1, OrderAssumption DEF TradeInv, OrdersOK, Kinds, Entries
  <2>6. net' # 0 /\ net' = side'[o] /\ status'[o] = "filled"
    BY <1>1, <1>4, <1>5, <1>9, <2>5 DEF TradeInv, OrdersOK, OneTrade, KindOK
  <2>7. TradeFrame(f)'
    BY <1>10, <2>3, <2>6 DEF TradeFrame, Opens, Closing
  <2>8. TradeFrame(co[u])'
    <3>1. PICK g : g = co[u]
      OBVIOUS
    <3>2. g.at = "bar" /\ g.op = "bar"
      BY <1>2, <1>3, <3>1
    <3>3. TradeFrame(g)'
      BY <3>2 DEF TradeFrame, Closing
    <3>4. u \in Procs /\ u # t
      BY SessionAssumption DEF Procs
    <3>5. co'[u] = co[u]
      BY <2>4, <3>4 DEF TradeInv, PromiseInv, LegsInv, Shapes
    <3>6. QED
      BY <3>1, <3>3, <3>5 DEF TradeFrame, Opens
  <2>9. QED
    BY <1>2, <1>3, <1>13, <2>1, <2>3, <2>4, <2>7, <2>8, AccountWakes
<1>16. QED
  BY <1>14, <1>15

\* Fewer orders that can act, and fewer legs in the books.
LEMMA ShrinksFrame ==
    ASSUME NEW f, TradeFrame(f), f.at \notin Submits, UNCHANGED <<net, side>>,
           LiveOrders' \subseteq LiveOrders, Legs' = Legs, Entries' = Entries, Closes' = Closes,
           \A x \in Orders : status[x] = "filled" => status'[x] = "filled",
           bracket' \in {bracket, Bare}, winner' = winner \/ f.op # "oco"
    PROVE  TradeFrame(f)'
<1>1. LegsOf(bracket') \subseteq LegsOf(bracket)
  BY DEF LegsOf, Bare
<1>2. f.at \notin {"entry", "stop", "target", "close"}
  BY DEF Submits
<1>3. f.at = "ready" /\ f.op = "attach" => Opens(f, {})' /\ f.stop = NoOrder
  BY DEF TradeFrame, Opens
<1>4. f.at = "unleg" => net' # 0 /\ f.entry = net' /\ bracket' = Bare
  BY DEF TradeFrame
<1>5. f.at \in {"unleg", "sweep"} => f.left \subseteq Orders /\ LiveOrders' \subseteq f.left \cup {f.order}
  BY DEF TradeFrame
<1>6. f.op = "oco" => /\ winner' # NoOrder /\ f.order = winner'
                      /\ LegsOf(bracket') \cap LiveOrders' \subseteq {winner'}
  BY <1>1 DEF TradeFrame
<1>7. /\ f.at \in {"unleg", "sweep", "cancel"} \/ f.op = "oco" => f.order \in Orders
      /\ f.op \in Closing /\ f.at \in {"risk", "drain", "orders", "open", "sweep"} => net' = 0
      /\ f.op \in Closing /\ f.done => LiveOrders' = {}
  BY DEF TradeFrame
<1>8. QED
  BY <1>2, <1>3, <1>4, <1>5, <1>6, <1>7 DEF TradeFrame

\* An order is canceled: the user's own, one of a close or a sweep, or the
\* sibling that a task cancels.
LEMMA TradeCancels ==
    ASSUME PaperTrades, TradeInv, PromiseInv', NEW p \in Procs, CancelActs(p)
    PROVE  TradeInv'
<1>1. PICK o : o = co[p].order
  OBVIOUS
<1>2. PICK s : s = "canceled" /\ Moves(o, s)
  BY <1>1 DEF CancelActs
<1>3. /\ status[o] = "working" /\ TradeFrame(co[p]) /\ o \in Orders
      /\ \/ p \in Callers /\ co[p].at \in {"unleg", "sweep", "cancel"}
         \/ p \in Tasks /\ co[p].at = "oco" /\ co[p].op = "oco"
  <2>1. status[o] = "working" /\ TradeFrame(co[p]) /\ co[p].at \in Cancels
    BY <1>1 DEF CancelActs, TradeInv
  <2>2. \/ p \in Callers /\ co[p].at \in {"unleg", "sweep", "cancel"}
        \/ p \in Tasks /\ co[p].at = "oco" /\ co[p].op = "oco"
    BY <2>1 DEF TradeInv, Roles, CallerRole, TaskRole, Rests, Cancels, Procs
  <2>3. QED
    BY <1>1, <2>1, <2>2 DEF TradeFrame
<1>4. o \in LiveOrders
  BY <1>3 DEF LiveOrders, Live
<1>5. /\ \A q \in Procs \ {p} : Suspended(co[q])
      /\ \A q \in Procs : co[q].at \notin Submits
  <2>1. ~Suspended(co[p]) /\ co[p].at \notin Submits
    BY <1>3 DEF Suspended, Submits
  <2>2. \A q \in Procs \ {p} : Suspended(co[q])
    BY <2>1 DEF TradeInv, PromiseInv, OneRuns, PaperTrades
  <2>3. QED
    BY <2>1, <2>2 DEF Suspended, Submits
<1>6. /\ \A x \in Orders : status'[x] = IF x = o THEN s
                                        ELSE IF x \in GoneWith(o, s) THEN "canceled" ELSE status[x]
      /\ net' = net /\ UNCHANGED <<side, market>>
      /\ Tells(Heard(o, s))
  BY <1>2, MovesIs DEF Done, PaperTrades
<1>7. PICK h : h = Heard(o, s) /\ Tells(h)
  BY <1>6
<1>8. /\ h.pending \in {pending, NoOrder}
      /\ \/ HearsNothing(h, o, s) \/ HearsEnd(h, o, s) \/ HearsSibling(h, o, s)
  BY <1>2, <1>7, HeardPaper DEF PaperTrades, HearsFill, HearsExit
<1>9. /\ pending' = h.pending /\ bracket' = h.bracket /\ winner' = h.winner
      /\ UNCHANGED <<running, recovery, meta, raised, lost>>
      /\ h.task = Idle => UNCHANGED <<co, tasks>>
      /\ h.task # Idle => \E t \in Tasks : /\ Rests(co[t]) /\ co' = [co EXCEPT ![t] = h.task]
                                           /\ tasks' = tasks \cup {t}
  BY <1>7, WokenRests
<1>10. /\ bracket' \in {bracket, Bare} /\ LegsOf(bracket') \subseteq Legs
       /\ pending' \in {pending, NoOrder} /\ s \in {"working", "filled", "canceled"}
  <2>1. LegsOf(Bare) = {}
    BY DEF LegsOf, Bare
  <2>2. bracket' \in {bracket, Bare}
    BY <1>8, <1>9 DEF HearsNothing, HearsEnd, HearsSibling
  <2>3. QED
    BY <1>2, <1>8, <1>9, <2>1, <2>2, BooksAre
<1>11. /\ OrdersOK' /\ Submitted' /\ LiveOrders' = LiveOrders \ {o}
       /\ Legs' = Legs /\ Entries' = Entries /\ Closes' = Closes
  <2>1. s # "working" /\ s # "filled"
    BY <1>2
  <2>2. QED
    BY <1>2, <1>4, <1>5, <1>9, <1>10, <2>1, OrdersMoved
<1>12. \A x \in Orders : status[x] = "filled" => status'[x] = "filled"
  <2>1. \A x \in GoneWith(o, s) : status[x] = "working"
    BY DEF GoneWith
  <2>2. QED
    BY <1>3, <1>6, <2>1
<1>13. ASSUME NEW f, TradeFrame(f), f.at \notin Submits, winner' = winner \/ f.op # "oco"
       PROVE  TradeFrame(f)'
  BY <1>6, <1>10, <1>11, <1>12, <1>13, ShrinksFrame
<1>14. CASE HearsNothing(h, o, s) \/ HearsEnd(h, o, s)
  <2>1. UNCHANGED <<co, tasks>> /\ winner' = winner
    BY <1>9, <1>14 DEF HearsNothing, HearsEnd
  <2>2. ASSUME NEW q \in Procs PROVE TradeFrame(co[q])'
    <3>1. PICK f : f = co[q]
      OBVIOUS
    <3>2. TradeFrame(f) /\ f.at \notin Submits
      BY <1>5, <3>1 DEF TradeInv
    <3>3. TradeFrame(f)'
      BY <1>13, <2>1, <3>2
    <3>4. QED
      BY <2>1, <3>1, <3>3 DEF TradeFrame, Opens
  <2>3. QED
    BY <1>11, <2>1, <2>2, AccountStays
<1>15. CASE HearsSibling(h, o, s)
  <2>1. /\ IsLeg(o) /\ winner = NoOrder /\ OtherLeg(o) # NoOrder
        /\ h.bracket = bracket /\ h.winner = OtherLeg(o) /\ h.task = Oco(OtherLeg(o))
    BY <1>15 DEF HearsSibling
  <2>2. \A q \in Procs : co[q].op # "oco"
    BY <2>1 DEF TradeInv, TradeFrame
  <2>3. p \in Callers /\ co[p].at = "cancel" /\ co[p].op = "cancel"
    <3>1. co[p].at # "unleg"
      BY <1>3, <2>1 DEF TradeFrame, IsLeg, LegsOf, Bare
    <3>2. co[p].at # "sweep"
      <4>1. ASSUME co[p].at = "sweep" PROVE FALSE
        <5>1. p \in Callers /\ co[p].op \in Closing
          BY <1>3, <4>1 DEF TradeInv, Roles, CallerRole
        <5>2. net = 0
          BY <1>3, <4>1, <5>1 DEF TradeFrame
        <5>3. o \in Legs
          BY <2>1, BooksAre DEF IsLeg
        <5>4. meta[o].kind # "entry"
          BY <5>3 DEF Legs
        <5>5. QED
          BY <1>4, <5>2, <5>4 DEF TradeInv, OrdersOK, OneTrade
      <4>2. QED
        BY <4>1
    <3>3. QED
      BY <1>3, <2>2, <3>1, <3>2 DEF TradeInv, Roles, CallerRole
  <2>4. Alone(p)
    <3>1. ASSUME NEW t \in Tasks PROVE Rests(co[t])
      <4>1. SUFFICES ASSUME Awaited(t) PROVE Rests(co[t])
        BY DEF TradeInv, OneTask
      <4>2. co[t].op = "oco"
        BY <2>3, <4>1 DEF Awaited, PaperTrades
      <4>3. QED
        BY <2>2, <4>2 DEF Procs
    <3>2. QED
      BY <2>3, <3>1 DEF Alone, Procs, PaperTrades
  <2>5. PICK x : x = OtherLeg(o)
    OBVIOUS
  <2>6. x \in Orders /\ LegsOf(bracket) \subseteq {o, x}
    <3>1. x \in LegsOf(bracket) /\ LegsOf(bracket) \subseteq {o, x}
      BY <2>1, <2>5 DEF IsLeg, OtherLeg, LegsOf
    <3>2. QED
      BY <3>1, BooksAre
  <2>7. PICK f : f = Oco(x)
    OBVIOUS
  <2>8. f.at = "ready" /\ f.op = "oco" /\ f.order = x /\ f.done = FALSE
    BY <2>7 DEF Oco, Idle
  <2>9. h.task # Idle
    <3>1. h.task = f
      BY <2>1, <2>5, <2>7
    <3>2. Idle.at # "ready"
      BY DEF Idle
    <3>3. QED
      BY <2>8, <3>1, <3>2
  <2>10. PICK t \in Tasks : co' = [co EXCEPT ![t] = f] /\ tasks' = tasks \cup {t}
    BY <1>9, <2>1, <2>5, <2>7, <2>9
  <2>11. winner' = x /\ bracket' = bracket /\ x # NoOrder
    BY <1>9, <2>1, <2>5
  <2>12. TradeFrame(f)'
    BY <1>11, <2>6, <2>8, <2>11 DEF TradeFrame, Closing
  <2>13. TradeFrame(co[p])'
    <3>1. PICK g : g = co[p]
      OBVIOUS
    <3>2. TradeFrame(g) /\ g.at \notin Submits /\ g.op # "oco"
      BY <1>3, <2>3, <3>1 DEF Submits
    <3>3. TradeFrame(g)'
      BY <1>13, <3>2
    <3>4. p # t
      BY <2>3, SessionAssumption
    <3>5. co'[p] = co[p]
      BY <2>10, <3>4 DEF TradeInv, PromiseInv, LegsInv, Shapes
    <3>6. QED
      BY <3>1, <3>3, <3>5 DEF TradeFrame, Opens
  <2>14. QED
    BY <1>11, <2>3, <2>4, <2>8, <2>10, <2>12, <2>13, AccountWakes
<1>16. QED
  BY <1>8, <1>14, <1>15

-----------------------------------------------------------------------------
(* The trade from its start to its end.                                    *)

LEMMA TradeInvStarts ==
    Init => TradeInv
<1> SUFFICES ASSUME Init PROVE TradeInv
  OBVIOUS
<1>1. PromiseInv
  BY PromiseInvStarts
<1>2. /\ \A o \in Orders : status[o] = "none"
      /\ net = 0 /\ side \in [Orders -> Int] /\ DOMAIN market = Orders
      /\ ~raised /\ ~lost /\ recovery = NoOrder /\ pending = NoOrder /\ winner = NoOrder
      /\ LegsOf(bracket) = {} /\ tasks = {}
  BY DEF Init, AccountInit, LegsOf, Bare
<1>3. LiveOrders = {}
  BY <1>2 DEF LiveOrders, Live
<1>4. OrdersOK /\ Submitted
  BY <1>2, <1>3 DEF OrdersOK, Clean, Kinds, OneTrade, Submitted, Done
<1>5. \A p \in Procs : co[p].at = "idle" /\ co[p].op = "none"
  BY DEF Init, Idle
<1>6. \A p \in Procs : Rests(co[p]) /\ CallerRole(co[p]) /\ TaskRole(co[p])
  BY <1>5 DEF Rests, CallerRole, TaskRole, Closing
<1>7. OneTask /\ Roles
  BY <1>2, <1>5, <1>6 DEF OneTask, Roles, Procs
<1>8. ASSUME NEW p \in Procs PROVE TradeFrame(co[p])
  BY <1>5 DEF TradeFrame, Closing
<1>9. QED
  BY <1>1, <1>4, <1>7, <1>8 DEF TradeInv

LEMMA TradeInvHolds ==
    ASSUME PaperTrades
    PROVE  TradeInv /\ [Next]_vars => TradeInv'
<1> SUFFICES ASSUME TradeInv, [Next]_vars PROVE TradeInv'
  OBVIOUS
<1>1. PromiseInv'
  BY PromiseInvHolds DEF TradeInv, PaperTrades
<1>2. CASE UNCHANGED vars
  <2>1. UNCHANGED <<accountVars, bracket, pending, recovery, winner, meta, tasks, co, raised, lost>>
    BY <1>2 DEF vars, sessionVars
  <2>2. UNCHANGED <<status, side, market, told, net>>
    BY <2>1 DEF accountVars
  <2>3. LiveOrders' = LiveOrders /\ Legs' = Legs /\ Entries' = Entries /\ Closes' = Closes
    BY <2>1, <2>2 DEF LiveOrders, Live, Legs, Entries, Closes
  <2>4. Clean' /\ Kinds' /\ OneTrade' /\ Submitted'
    BY <2>1, <2>2, <2>3 DEF TradeInv, OrdersOK, Clean, Kinds, KindOK, OneTrade, Submitted
  <2>5. ASSUME NEW p \in Procs PROVE TradeFrame(co[p])'
    <3>1. PICK f : f = co[p] /\ TradeFrame(f)
      BY DEF TradeInv
    <3>2. \A e, orders : Opens(e, orders) => Opens(e, orders)'
      BY <2>2, <2>3 DEF Opens
    <3>3. TradeFrame(f)'
      <4>1. UNCHANGED <<status, net, side, bracket, winner, LiveOrders, Legs, Entries, Closes>>
        BY <2>1, <2>2, <2>3
      <4>2. CASE f.at \notin Submits
        BY <3>1, <4>1, <4>2, ShrinksFrame
      <4>3. CASE f.at \in Submits
        <5>1. f.at \in {"entry", "stop", "target", "close"}
          BY <4>3 DEF Submits
        <5>2. /\ Opens(f, {f.order}) => Opens(f, {f.order})'
              /\ Opens(f, {f.order, f.stop}) => Opens(f, {f.order, f.stop})'
          BY <3>2
        <5>3. QED
          BY <3>1, <4>1, <5>1, <5>2 DEF TradeFrame, Live
      <4>4. QED
        BY <4>2, <4>3
    <3>4. QED
      BY <2>1, <3>1, <3>3 DEF TradeFrame, Opens
  <2>6. QED
    BY <1>1, <2>1, <2>4, <2>5, AccountStays DEF OrdersOK
<1>3. ASSUME NEW p \in Callers, Calls(p) PROVE TradeInv'
  BY <1>1, <1>3, TradePlaces, TradeCalls DEF Calls
<1>4. ASSUME NEW p \in Procs, Resumes(p) \/ Fails(p) \/ CancelActs(p) PROVE TradeInv'
  BY <1>1, <1>4, TradeResumes, TradeCancels, NothingFails
<1>5. ASSUME NEW o \in Orders,
             AccountAnswers(o) \/ AccountFills(o) \/ AccountDrops(o) \/ AccountTells(o)
      PROVE  TradeInv'
  BY <1>1, <1>5, TradeAnswers, TradeMatched DEF AccountDrops, AccountTells, Tell, PaperTrades
<1>6. QED
  BY <1>2, <1>3, <1>4, <1>5 DEF Next

\* A coroutine that goes on is the only one that does, and fills no order.
LEMMA CallsFillNothing ==
    ASSUME TradeInv, NEW p \in Callers, Calls(p)
    PROVE  co[p].at = "idle" /\ \A o \in Orders : status'[o] = "filled" => status[o] = "filled"
<1>1. CASE PlaceOrder(p)
  <2>1. co[p].at = "idle" /\ \E o, d, m : Send(o, d, m)
    BY <1>1 DEF PlaceOrder, Sends
  <2>2. QED
    BY <2>1 DEF Send, TradeInv, PromiseInv, LegsInv, Shapes
<1>2. CASE \/ Refresh(p) \/ PushBar(p) \/ ClosePosition(p) \/ Flatten(p) \/ Stop(p)
           \/ CancelOrder(p) \/ Start(p)
  BY <1>2 DEF Refresh, PushBar, ClosePosition, Flatten, Stop, Begins, CancelOrder, Start, accountVars
<1>3. QED
  BY <1>1, <1>2 DEF Calls

LEMMA ResumesFillNothing ==
    ASSUME TradeInv, NEW p \in Procs, Resumes(p)
    PROVE  /\ \E f : Stays(p, f)
           /\ \A o \in Orders : status'[o] = "filled" => status[o] = "filled"
<1>1. UNCHANGED status \/ \E o, d, m : Send(o, d, m)
  <2>1. EntryReturns(p) \/ AttachBegins(p) \/ StopReturns(p) => UNCHANGED status \/ \E o, d, m : Send(o, d, m)
    BY DEF EntryReturns, AttachBegins, StopReturns, SubmitsLeg, Sends, accountVars
  <2>2. FindReturns(p) \/ UnlegReturns(p) => UNCHANGED status \/ \E o, d, m : Send(o, d, m)
    BY DEF FindReturns, UnlegReturns, NextUnleg, Sends, accountVars
  <2>3. TargetReturns(p) \/ UndoReturns(p) \/ OcoBegins(p) \/ OcoReturns(p)
        \/ DrainReturns(p) \/ DrainRaises(p) \/ OrdersRead(p) => UNCHANGED status
    BY DEF TargetReturns, UndoReturns, OcoBegins, OcoReturns, DrainReturns, DrainRaises,
           OrdersRead, accountVars
  <2>4. RecoverReturns(p) \/ SiblingReturns(p) \/ BarReturns(p) \/ RiskSynced(p) \/ CloseReturns(p)
        \/ OpenRead(p) \/ SweepReturns(p) \/ CancelReturns(p) => UNCHANGED status
    BY DEF RecoverReturns, SiblingReturns, BarReturns, RiskSynced, CloseReturns, OpenRead,
           SweepReturns, CancelReturns, accountVars
  <2>5. QED
    BY <2>1, <2>2, <2>3, <2>4 DEF Resumes
<1>2. \A o \in Orders : status'[o] = "filled" => status[o] = "filled"
  BY <1>1 DEF Send, TradeInv, PromiseInv, LegsInv, Shapes
<1>3. \E f : Stays(p, f)
  <2>1. EntryReturns(p) \/ AttachBegins(p) => \E f : Stays(p, f)
    BY DEF EntryReturns, AttachBegins, SubmitsLeg
  <2>2. StopReturns(p) => \E f : Stays(p, f)
    BY DEF StopReturns, SubmitsLeg, Raises, Attaches
  <2>3. TargetReturns(p) \/ UndoReturns(p) => \E f : Stays(p, f)
    BY DEF TargetReturns, UndoReturns, Compensates, Raises, Attaches
  <2>4. OcoBegins(p) \/ OcoReturns(p) \/ DrainReturns(p) \/ DrainRaises(p) => \E f : Stays(p, f)
    BY DEF OcoBegins, OcoReturns, DrainReturns, DrainRaises
  <2>5. OrdersRead(p) \/ RecoverReturns(p) \/ SiblingReturns(p) => \E f : Stays(p, f)
    BY DEF OrdersRead, RecoverReturns, SiblingReturns, Settles, Finishes
  <2>6. BarReturns(p) \/ RiskSynced(p) \/ CloseReturns(p) \/ CancelReturns(p) => \E f : Stays(p, f)
    BY DEF BarReturns, RiskSynced, CloseReturns, CancelReturns
  <2>7. FindReturns(p) \/ UnlegReturns(p) => \E f : Stays(p, f)
    BY DEF FindReturns, UnlegReturns, NextUnleg
  <2>8. OpenRead(p) \/ SweepReturns(p) => \E f : Stays(p, f)
    BY DEF OpenRead, SweepReturns, NextSweep
  <2>9. QED
    BY <2>1, <2>2, <2>3, <2>4, <2>5, <2>6, <2>7, <2>8 DEF Resumes
<1>4. QED
  BY <1>2, <1>3

\* What fills by a step of the account is the order it is about.
LEMMA MovesFill ==
    ASSUME TradeInv, NEW q \in LiveOrders, NEW s, Moves(q, s),
           NEW o \in Legs \cup Closes, status[o] # "filled", status'[o] = "filled"
    PROVE  Abs(net') < Abs(net)
<1>1. /\ \A x \in Orders : status'[x] = IF x = q THEN s
                                        ELSE IF x \in GoneWith(q, s) THEN "canceled" ELSE status[x]
      /\ net' = IF s = "filled" THEN net + side[q] ELSE net
  BY MovesIs
<1>2. o \in Orders /\ meta[o].kind # "entry"
  BY DEF Legs, Closes
<1>3. o = q /\ s = "filled"
  BY <1>1, <1>2
<1>4. net \in Int /\ net # 0 /\ side[q] = -net
  BY <1>2, <1>3 DEF TradeInv, OrdersOK, OneTrade, Kinds
<1>5. net' = 0
  BY <1>1, <1>3, <1>4
<1>6. QED
  BY <1>4, <1>5 DEF Abs

LEMMA TradeReduces ==
    ASSUME PaperTrades, TradeInv, [Next]_vars
    PROVE  ExitReduces
<1> SUFFICES ASSUME NEW o \in Legs \cup Closes, status[o] # "filled", status'[o] = "filled"
             PROVE  Abs(net') < Abs(net)
  BY DEF ExitReduces
<1>1. o \in Orders
  BY DEF Legs, Closes
<1>2. ~UNCHANGED vars
  BY DEF vars, accountVars
<1>3. \A p \in Callers : ~Calls(p)
  BY <1>1, CallsFillNothing
<1>4. \A p \in Procs : ~Resumes(p) /\ ~Fails(p)
  BY <1>1, ResumesFillNothing, NothingFails
<1>5. \E q \in LiveOrders : \E s : Moves(q, s)
  <2>1. ASSUME NEW p \in Procs, CancelActs(p) PROVE \E q \in LiveOrders : \E s : Moves(q, s)
    <3>1. co[p].order \in Orders
      BY <2>1, FrameShape DEF CancelActs, Cancels, TradeFrame, CallerRole, TaskRole, Rests, Procs
    <3>2. QED
      BY <2>1, <3>1 DEF CancelActs, LiveOrders, Live
  <2>2. ASSUME NEW x \in Orders,
               AccountAnswers(x) \/ AccountFills(x) \/ AccountDrops(x) \/ AccountTells(x)
        PROVE  \E q \in LiveOrders : \E s : Moves(q, s)
    BY <2>2 DEF AccountAnswers, AccountFills, AccountDrops, AccountTells, Tell, PaperTrades,
                LiveOrders, Live
  <2>3. QED
    BY <1>2, <1>3, <1>4, <2>1, <2>2 DEF Next
<1>6. QED
  BY <1>5, MovesFill

LEMMA TradeClears ==
    ASSUME PaperTrades, TradeInv, [Next]_vars
    PROVE  FlattenClears
<1> SUFFICES ASSUME NEW p \in Callers, co[p].op \in {"flatten", "stop"}, co[p].done,
                    co'[p] = Idle
             PROVE  net' = 0 /\ \A o \in Orders : status'[o] \notin {"sent", "working"}
  BY DEF FlattenClears
<1>1. p \in Procs /\ p \notin Tasks /\ \A q \in Callers : q = p
  BY SessionAssumption DEF Procs, PaperTrades
<1>2. co[p].at \in {"drain", "orders"}
  BY DEF TradeInv, Roles, CallerRole, Closing
<1>3. net = 0 /\ LiveOrders = {}
  BY <1>1, <1>2 DEF TradeInv, TradeFrame, Closing
<1>4. co'[p] # co[p]
  BY DEF Idle
<1>5. \A o \in Orders : ~Live(o)
  BY <1>3 DEF LiveOrders
<1>6. UNCHANGED accountVars
  <2>1. UNCHANGED vars => UNCHANGED accountVars
    BY DEF vars
  <2>2. \A q \in Callers : ~Calls(q)
    BY <1>1, <1>2, CallsFillNothing
  <2>3. ASSUME NEW q \in Procs, Resumes(q) PROVE UNCHANGED accountVars
    <3>1. CASE q # p
      <4>1. PICK f : Stays(q, f)
        BY <2>3, ResumesFillNothing
      <4>2. co'[p] = co[p]
        BY <1>1, <3>1, <4>1 DEF Stays, TradeInv, PromiseInv, LegsInv, Shapes
      <4>3. QED
        BY <1>4, <4>2
    <3>2. CASE q = p
      <4>1. DrainReturns(p) \/ DrainRaises(p) \/ OrdersRead(p)
        BY <1>2, <2>3, <3>2 DEF Resumes, EntryReturns, AttachBegins, StopReturns, TargetReturns,
           UndoReturns, OcoBegins, OcoReturns, RecoverReturns, SiblingReturns, BarReturns,
           RiskSynced, FindReturns, UnlegReturns, CloseReturns, OpenRead, SweepReturns,
           CancelReturns
      <4>2. QED
        BY <4>1 DEF DrainReturns, DrainRaises, OrdersRead
    <3>3. QED
      BY <3>1, <3>2
  <2>4. \A q \in Procs : ~Fails(q)
    BY NothingFails
  <2>5. ASSUME NEW q \in Procs PROVE ~CancelActs(q)
    <3>1. SUFFICES ASSUME CancelActs(q) PROVE FALSE
      OBVIOUS
    <3>2. co[q].order \in Orders
      BY <3>1, FrameShape DEF CancelActs, Cancels, TradeFrame, CallerRole, TaskRole, Rests, Procs
    <3>3. QED
      BY <1>5, <3>1, <3>2 DEF CancelActs, Live
  <2>6. \A o \in Orders : ~AccountAnswers(o) /\ ~AccountFills(o) /\ ~AccountDrops(o) /\ ~AccountTells(o)
    BY <1>5 DEF AccountAnswers, AccountFills, AccountDrops, AccountTells, Tell, Live, PaperTrades
  <2>7. QED
    BY <2>1, <2>2, <2>3, <2>4, <2>5, <2>6 DEF Next
<1>7. QED
  BY <1>3, <1>5, <1>6 DEF accountVars, Live

\* One entry of a trade has exactly one exit: for a user who does not enter
\* again before a trade is over and a paper account that refuses no order, a
\* leg or a close that fills takes the position to zero, whichever of the
\* bracket, close_position, flatten and the user's own cancel came first
\* (session.py:384-420, 755-797).  TLC refutes the property with pyramiding and
\* with two callers; when the account refuses orders it finds no counterexample,
\* but the invariant does not follow the compensation of a refused leg.
THEOREM EveryExitReduces ==
    ASSUME PaperTrades
    PROVE  Spec => ExitsReduce
<1>1. Init => TradeInv
  BY TradeInvStarts
<1>2. TradeInv /\ [Next]_vars => TradeInv'
  BY TradeInvHolds
<1>3. TradeInv /\ [Next]_vars => [ExitReduces]_vars
  BY TradeReduces
<1>4. QED
  BY <1>1, <1>2, <1>3, PTL DEF Spec, ExitsReduce

\* Under the same hypotheses, when flatten, or stop with flatten, returns,
\* there is neither a position nor an order that could open one
\* (session.py:788-797): what the close leaves at the broker the sweep cancels,
\* and no task spawned meanwhile submits anything.  TLC refutes the property
\* with two callers and when the account refuses the close.
THEOREM FlattenClearsAll ==
    ASSUME PaperTrades
    PROVE  Spec => FlattenLeavesNothing
<1>1. Init => TradeInv
  BY TradeInvStarts
<1>2. TradeInv /\ [Next]_vars => TradeInv'
  BY TradeInvHolds
<1>3. TradeInv /\ [Next]_vars => [FlattenClears]_vars
  BY TradeClears
<1>4. QED
  BY <1>1, <1>2, <1>3, PTL DEF Spec, FlattenLeavesNothing
=============================================================================
