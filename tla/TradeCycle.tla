----------------------------- MODULE TradeCycle -----------------------------
(***************************************************************************)
(* What the live engine (live/engine.py) promises of the account it trades *)
(* on: one order at a time.  A trade is entered from flat, and left by an  *)
(* order for the whole of the position, over and over.                     *)
(*                                                                         *)
(* The promise ends when the engine forgets an order that may still act.   *)
(***************************************************************************)
EXTENDS Integers

CONSTANT Orders

VARIABLES
    position,      \* the account's
    working,       \* <<order, side>> of the orders that may still fill
    forgotten      \* the engine has lost an order

cycleVars == <<position, working, forgotten>>

CycleInit == position = 0 /\ working = {} /\ forgotten = FALSE

Enter(o) ==
    /\ position = 0 /\ working = {}
    /\ \E d \in {-1, 1} : working' = {<<o, d>>}
    /\ UNCHANGED <<position, forgotten>>

\* An exit that was canceled is replaced by the next in one step.
Leave(o) ==
    /\ position # 0 /\ working \subseteq {<<p, -position>> : p \in Orders \ {o}}
    /\ working' = {<<o, -position>>}
    /\ UNCHANGED <<position, forgotten>>

\* The order fills, or it is canceled, rejected or never arrives.
Finish(w) ==
    /\ working = {w} /\ working' = {}
    /\ position' \in {position, position + w[2]}
    /\ UNCHANGED forgotten

Forget == forgotten'

CycleNext ==
    \/ Forget
    \/ \E o \in Orders : Enter(o) \/ Leave(o)
    \/ \E w \in working : Finish(w)

CycleSpec == CycleInit /\ [][CycleNext]_cycleVars
=============================================================================
