-------------------------- MODULE LiveEngine_proofs --------------------------
(***************************************************************************)
(* Proofs about LiveEngine, for every set of orders, every kind of         *)
(* account, every set of faults and every number of restarts.              *)
(***************************************************************************)
EXTENDS LiveEngine, TLAPS

-------------------------------------------------------------------------------
(* Types.                                                                  *)

MemoryOK ==
    /\ pos \in Slot /\ pend \in Slot
    /\ halted \in BOOLEAN /\ lost \in BOOLEAN

\* One more write asked for, and the first of those asked for.
LEMMA AsksType ==
    ASSUME NEW s \in Seq(Jobs), NEW by \in {"bar", "life", "task", "trade"},
           NEW p \in Slot, NEW q \in Slot
    PROVE  Append(s, Job(by, p, q)) \in Seq(Jobs)
<1>1. Job(by, p, q) \in Jobs
  BY DEF Job, Jobs, Stored
<1>2. QED
  BY <1>1

LEMMA HeadType ==
    ASSUME NEW s \in Seq(Jobs), s # <<>>
    PROVE  Head(s).state \in Stored /\ Tail(s) \in Seq(Jobs)
<1>1. Head(s) \in Jobs /\ Tail(s) \in Seq(Jobs)
  OBVIOUS
<1>2. QED
  BY <1>1 DEF Jobs

\* A broker callback leaves the engine's memory well typed.
LEMMA HearsType ==
    ASSUME TypeOK, NEW o \in OrderIds, NEW s, NEW p \in Slot,
           Filled(p, o) \/ Refused(o) \/ Hears(o, s)
    PROVE  MemoryOK'
<1>1. None \in Slot /\ (pend.dir \in {-1, 0, 1})
  BY DEF TypeOK, None, Slot, OrderIds
<1>2. CASE Filled(p, o)
  <2>1. [dir |-> pend.dir, client |-> NoOrder, id |-> NoOrder] \in Slot
    BY <1>1 DEF Slot, OrderIds
  <2>2. QED
    BY <1>1, <1>2, <2>1 DEF Filled, Opened, MemoryOK, RiskAfter, TypeOK
<1>3. CASE Refused(o)
  BY <1>1, <1>3 DEF Refused, MemoryOK, TypeOK
<1>4. CASE Hears(o, s)
  <2>1. CASE Filled(pos, o)
    <3>1. [dir |-> pend.dir, client |-> NoOrder, id |-> NoOrder] \in Slot
      BY <1>1 DEF Slot, OrderIds
    <3>2. QED
      BY <1>1, <2>1, <3>1 DEF Filled, Opened, MemoryOK, RiskAfter, TypeOK
  <2>2. CASE Refused(o)
    BY <1>1, <2>2 DEF Refused, MemoryOK, TypeOK
  <2>3. CASE UNCHANGED memory
    BY <2>3 DEF memory, MemoryOK, TypeOK
  <2>4. QED
    BY <1>4, <2>1, <2>2, <2>3 DEF Hears
<1>5. QED
  BY <1>2, <1>3, <1>4

\* The tail of a bar leaves the handler well typed.
LEMMA GateType ==
    ASSUME NEW p, NEW q \in Slot, NEW h \in BOOLEAN, NEW l \in BOOLEAN, Gate(p, q, h, l)
    PROVE  /\ at' \in Ats /\ call' \in OrderIds
           /\ pend' \in Slot /\ lost' \in BOOLEAN
<1>1. None \in Slot /\ q.id \in OrderIds /\ NoOrder \in OrderIds
  BY DEF None, Slot, OrderIds
<1>2. (l \/ Forgets(status, q)) \in BOOLEAN
  OBVIOUS
<1>3. PICK inSession \in BOOLEAN :
        LET ok == ~h /\ inSession IN
        \/ at' = "signal" /\ pend' = q /\ lost' = l /\ call' = NoOrder
        \/ at' = "idle" /\ pend' = q /\ lost' = l /\ call' = NoOrder
        \/ at' = "veto" /\ call' = q.id /\ pend' = q /\ lost' = l
        \/ /\ at' = "vetoSave" /\ call' = NoOrder
           /\ pend' = None /\ lost' = (l \/ Forgets(status, q))
  BY DEF Gate
<1>4. QED
  BY <1>1, <1>2, <1>3 DEF Ats

\* The account's own operations.
LEMMA SendType ==
    ASSUME AccountTypeOK, NEW o, NEW d \in {-1, 1}, NEW m \in BOOLEAN, Send(o, d, m)
    PROVE  AccountTypeOK'
  BY DEF Send, AccountTypeOK, OrderStatus

LEMMA ReachType ==
    ASSUME AccountTypeOK, NEW o, NEW s \in OrderStatus, Reach(o, s),
           s # "filled" \/ o \in Orders
    PROVE  AccountTypeOK'
<1>1. (Synchronous /\ s \in Done) \in BOOLEAN
  OBVIOUS
<1>2. net' \in Int
  BY DEF Reach, AccountTypeOK
<1>3. QED
  BY <1>1, <1>2 DEF Reach, AccountTypeOK

LEMMA AccountType ==
    ASSUME AccountTypeOK, NEW o, NeverArrives(o) \/ Tell(o) \/ UNCHANGED accountVars
    PROVE  AccountTypeOK'
  BY DEF NeverArrives, Tell, accountVars, AccountTypeOK, OrderStatus, Done

\* A cancel call, whichever way it ends.
LEMMA CancelType ==
    ASSUME AccountTypeOK, NEW o, CancelWorks(o) \/ CancelRaises(o) \/ CancelIsVoid(o)
    PROVE  AccountTypeOK'
<1>1. "canceled" \in OrderStatus
  BY DEF OrderStatus, Done
<1>2. QED
  BY <1>1, ReachType, AccountType DEF CancelWorks, CancelRaises, CancelIsVoid

\* Naming an order in a slot, and the opposite side, keep to their types.
LEMMA SlotType ==
    ASSUME NEW slot \in Slot, NEW o \in OrderIds, NEW i \in OrderIds
    PROVE  /\ [slot EXCEPT !.client = o] \in Slot
           /\ [slot EXCEPT !.id = o] \in Slot
           /\ [slot EXCEPT !.client = o, !.id = i] \in Slot
           /\ slot.dir # 0 => -slot.dir \in {-1, 1}
           /\ slot.client \in OrderIds /\ slot.id \in OrderIds
           /\ None \in Slot /\ NoOrder \in OrderIds
<1>1. /\ slot.dir \in {-1, 0, 1} /\ slot.client \in OrderIds /\ slot.id \in OrderIds
      /\ NoOrder \in OrderIds
  BY DEF Slot, OrderIds
<1>2. [slot EXCEPT !.client = o] \in Slot
  BY <1>1 DEF Slot
<1>3. [slot EXCEPT !.id = o] \in Slot
  BY <1>1 DEF Slot
<1>4. [slot EXCEPT !.client = o, !.id = i] \in Slot
  BY <1>1 DEF Slot
<1>5. None \in Slot
  BY <1>1 DEF Slot, None
<1>6. slot.dir # 0 => -slot.dir \in {-1, 1}
  BY <1>1
<1>7. QED
  BY <1>1, <1>2, <1>3, <1>4, <1>5, <1>6

\* The receipt of an exit and an exit that raises.
LEMMA ExitType ==
    ASSUME TypeOK, NEW o \in OrderIds, NEW p \in {pos, ExitNamed(o)}, NEW by, NEW said,
           ExitReceipt(p, o, by, said) \/ ExitHeard(o) \/ ExitRaises(o, by)
    PROVE  AccountTypeOK' /\ MemoryOK'
<1>0. ExitNamed(o) \in Slot /\ p \in Slot
  BY SlotType DEF TypeOK, ExitNamed
<1>1. CASE ExitReceipt(p, o, by, said)
  <2>1. AccountTypeOK'
    BY <1>1, AccountType DEF ExitReceipt, TypeOK
  <2>2. CASE Filled(p, o)
    BY <1>0, <2>1, <2>2, HearsType
  <2>3. CASE /\ pos' = p
             /\ halted' = (halted \/ status[o] = "rejected")
             /\ UNCHANGED <<pend, lost>>
    BY <1>0, <2>1, <2>3 DEF MemoryOK, TypeOK
  <2>4. QED
    BY <1>1, <2>1, <2>2, <2>3 DEF ExitReceipt
<1>2. CASE ExitRaises(o, by)
  <2>1. AccountTypeOK'
    BY <1>2, AccountType DEF ExitRaises, TypeOK
  <2>2. QED
    BY <1>2, <2>1 DEF ExitRaises, MemoryOK, TypeOK
<1>3. CASE ExitHeard(o)
  BY <1>0, <1>3, AccountType DEF ExitHeard, MemoryOK, TypeOK
<1>4. QED
  BY <1>1, <1>2, <1>3


\* The rest of the types.
ProcessOK ==
    /\ life \in Lives /\ flat \in BOOLEAN /\ feed \in Feeds /\ starts \in Nat
    /\ at \in Ats /\ call \in OrderIds /\ stopCall \in OrderIds
    /\ disk \in Stored
    /\ boot \in [pos: Slot, net: Int]

\* TypeOK but for the writes asked for.
CoreOK == AccountTypeOK /\ MemoryOK /\ ProcessOK

\* The steps of the account.
LEMMA AccountStepType ==
    ASSUME TypeOK, NEW o \in Orders,
           \/ AccountAnswers(o) \/ AccountFills(o)
           \/ AccountDrops(o) \/ AccountTells(o)
    PROVE  CoreOK'
<1> USE DEF MemoryOK, CoreOK
<1>1. ProcessOK'
  BY DEF AccountAnswers, AccountFills, AccountDrops, AccountTells, process, ProcessOK, TypeOK
<1>2. o \in OrderIds
  BY DEF OrderIds
<1>3. ASSUME NEW s \in OrderStatus, AccountMoves(o, s)
      PROVE  AccountTypeOK' /\ MemoryOK'
  <2>1. AccountTypeOK'
    BY <1>3, ReachType DEF AccountMoves, TypeOK
  <2>2. MemoryOK'
    BY <1>2, <1>3, HearsType DEF AccountMoves, TypeOK, memory
  <2>3. QED
    BY <2>1, <2>2
<1>4. Answers(o) \subseteq OrderStatus /\ {"filled", "canceled"} \subseteq OrderStatus
  BY DEF Answers, OrderStatus, Done
<1>5. CASE AccountTells(o)
  <2>1. AccountTypeOK'
    BY <1>5, AccountType DEF AccountTells, TypeOK
  <2>2. MemoryOK'
    BY <1>2, <1>5, HearsType DEF AccountTells, TypeOK
  <2>3. QED
    BY <1>1, <2>1, <2>2 DEF TypeOK, ProcessOK
<1>6. AccountTypeOK' /\ MemoryOK'
  BY <1>3, <1>4, <1>5 DEF AccountAnswers, AccountFills, AccountDrops, TypeOK, ProcessOK
<1>7. QED
  BY <1>1, <1>6 DEF TypeOK, ProcessOK

\* The steps of the handler and of start and stop.
LEMMA EngineStepType ==
    ASSUME TypeOK,
           \/ Writes \/ StartLoads \/ StartReads \/ StartRuns
           \/ StartSaved \/ StartFails \/ StopPlain \/ Crash
           \/ FlatDrained \/ StopUnpolled \/ StopSaves \/ StopReturns \/ ExitDrained
           \/ SignalDeclines \/ EntryFails \/ HandlerEnds
    PROVE  CoreOK'
<1> USE DEF CoreOK, MemoryOK, ProcessOK
<1>0. Snapshot \in Stored /\ disk.pos \in Slot /\ disk.pend \in Slot
      /\ boot.pos \in Slot /\ boot.net \in Int
      /\ FeedKinds \subseteq Feeds /\ "off" \in Feeds
      /\ (LetsGo => feed' \in Feeds /\ life' \in Lives)
  BY EngineAssumption DEF Snapshot, Stored, TypeOK, LetsGo, Feeds, Lives
<1>1. CASE Writes
  <2>1. disk' \in Stored
    BY <1>1, HeadType DEF Writes, TypeOK
  <2>2. QED
    BY <1>1, <2>1, AccountType DEF Writes, TypeOK
<1>2. CASE StartLoads
  <2>1. boot' \in [pos: Slot, net: Int]
    BY <1>0, <1>2 DEF StartLoads
  <2>2. lost' \in BOOLEAN
    BY <1>2 DEF StartLoads
  <2>3. AccountTypeOK'
    BY <1>2, AccountType DEF StartLoads, TypeOK
  <2>4. life' \in Lives /\ starts' \in Nat /\ flat' \in BOOLEAN
    <3>1. starts \in Nat /\ starts' = starts + 1
      BY <1>2 DEF StartLoads, TypeOK
    <3>2. starts' \in Nat
      BY <3>1
    <3>3. life' \in Lives /\ flat' \in BOOLEAN
      BY <1>2 DEF StartLoads, Lives
    <3>4. QED
      BY <3>2, <3>3
  <2>5. QED
    BY <1>0, <1>2, <2>1, <2>2, <2>3, <2>4 DEF StartLoads, TypeOK
<1>3. CASE StartReads
  <2>1. boot' \in [pos: Slot, net: Int]
    BY <1>0, <1>3 DEF StartReads, TypeOK, AccountTypeOK
  <2>2. QED
    BY <1>3, <2>1, AccountType DEF StartReads, TypeOK, Lives, memory
<1>4. CASE StartRuns
  <2>1. (Mismatch \/ ExitMissing) \in BOOLEAN /\ TRUE \in BOOLEAN
    OBVIOUS
  <2>2. QED
    BY <1>0, <1>4, <2>1, AccountType DEF StartRuns, TypeOK, Lives
<1>5. CASE StartSaved
  BY <1>0, <1>5, AccountType DEF StartSaved, TypeOK, Lives, memory
<1>6. CASE StartFails
  BY <1>0, <1>6, AccountType DEF StartFails, TypeOK, Lives, memory
<1>7. CASE StopPlain
  BY <1>0, <1>7, AccountType DEF StopPlain, TypeOK, Lives, memory
<1>8. CASE Crash
  BY <1>0, <1>8, AccountType DEF Crash, TypeOK, Lives, Ats, OrderIds
<1>9. CASE StopSaves
  BY <1>0, <1>9, AccountType DEF StopSaves, TypeOK, Lives, memory
<1>10. CASE StopReturns
  BY <1>0, <1>10, AccountType DEF StopReturns, TypeOK, Lives, memory, OrderIds
<1>11. CASE SignalDeclines
  BY <1>11, AccountType DEF SignalDeclines, TypeOK, Ats, memory
<1>12. CASE EntryFails
  BY <1>12, AccountType DEF EntryFails, TypeOK, Ats, memory, OrderIds
<1>13. CASE HandlerEnds
  BY <1>0, <1>13, AccountType DEF HandlerEnds, TypeOK, Ats, memory
<1>14. CASE ExitDrained
  BY <1>14, AccountType DEF ExitDrained, TypeOK, Ats
<1>15. CASE FlatDrained
  BY <1>15, AccountType DEF FlatDrained, TypeOK, Lives
<1>16. CASE StopUnpolled
  BY <1>0, <1>16, AccountType DEF StopUnpolled, TypeOK, Lives
<1>17. QED
  BY <1>14, <1>15, <1>16, <1>1, <1>2, <1>3, <1>4, <1>5, <1>6, <1>7, <1>8, <1>9, <1>10, <1>11,
     <1>12, <1>13

\* The steps that begin a bar, or carry it from one await to the next.
LEMMA BarStepType ==
    ASSUME TypeOK,
           \/ BarPasses \/ BarExits \/ BarExpires \/ BarChases
           \/ ExpireReturns \/ VetoReturns \/ ChaseReturns
           \/ HandlerSaved
    PROVE  CoreOK'
<1> USE DEF CoreOK, MemoryOK, ProcessOK
<1>0. /\ Snapshot \in Stored
      /\ pos \in Slot /\ pend \in Slot /\ lost \in BOOLEAN /\ halted \in BOOLEAN
      /\ None \in Slot /\ NoOrder \in OrderIds /\ pend.id \in OrderIds
  BY DEF Snapshot, Stored, TypeOK, None, Slot, OrderIds
<1>1. BarBegins => halted' \in BOOLEAN /\ feed' \in Feeds
  BY DEF BarBegins, RiskAfter, TypeOK, Feeds
<1>2. CASE BarPasses
  <2>1. /\ at' \in Ats /\ call' \in OrderIds
        /\ pend' \in Slot /\ lost' \in BOOLEAN
    BY <1>0, <1>1, <1>2, GateType DEF BarPasses
  <2>2. QED
    BY <1>1, <1>2, <2>1, AccountType DEF BarPasses, TypeOK
<1>3. CASE BarExits
  <2>1. PICK o \in Orders, m \in BOOLEAN :
          Send(o, -pos.dir, m) /\ pos' = [pos EXCEPT !.client = o] /\ call' = o
    BY <1>3 DEF BarExits
  <2>2. o \in OrderIds /\ -pos.dir \in {-1, 1}
    BY <1>0, <1>3, <2>1, SlotType DEF BarExits, OrderIds
  <2>3. AccountTypeOK'
    BY <2>1, <2>2, SendType DEF TypeOK
  <2>4. pos' \in Slot
    BY <1>0, <2>1, <2>2, SlotType
  <2>5. QED
    BY <1>1, <1>3, <2>1, <2>2, <2>3, <2>4 DEF BarExits, TypeOK, Ats
<1>4. CASE BarExpires
  <2>1. pend' \in Slot /\ call' \in OrderIds /\ at' \in Ats
    BY <1>0, <1>4 DEF BarExpires, Ats
  <2>2. lost' \in BOOLEAN
    BY <1>0, <1>4 DEF BarExpires
  <2>3. QED
    BY <1>1, <1>4, <2>1, <2>2, AccountType DEF BarExpires, TypeOK
<1>5. CASE BarChases
  <2>1. call' \in OrderIds
    BY <1>0, <1>5 DEF BarChases
  <2>2. QED
    BY <1>1, <1>5, <2>1, AccountType DEF BarChases, TypeOK, Ats
<1>6. CASE ExpireReturns
  <2>1. AccountTypeOK'
    BY <1>6, CancelType DEF ExpireReturns, TypeOK
  <2>2. CASE Gate(pos, pend, halted, lost)
    <3>1. /\ at' \in Ats /\ call' \in OrderIds
          /\ pend' \in Slot /\ lost' \in BOOLEAN
      BY <1>0, <2>2, GateType
    <3>2. QED
      BY <1>6, <2>1, <3>1 DEF ExpireReturns, TypeOK
  <2>3. CASE /\ pend' = None
             /\ lost' = (lost \/ Forgets(status', pend))
             /\ at' = "expireSave" /\ call' = NoOrder
    <3>1. pend' \in Slot /\ call' \in OrderIds /\ at' \in Ats
      BY <1>0, <2>3 DEF Ats
    <3>2. lost' \in BOOLEAN
      BY <2>3
    <3>3. QED
      BY <1>6, <2>1, <3>1, <3>2 DEF ExpireReturns, TypeOK
  <2>4. QED
    BY <1>6, <2>2, <2>3 DEF ExpireReturns
<1>7. CASE VetoReturns
  <2>1. AccountTypeOK'
    BY <1>7, CancelType DEF VetoReturns, TypeOK
  <2>2. pend' \in Slot /\ call' \in OrderIds /\ at' \in Ats
    BY <1>0, <1>7 DEF VetoReturns, Ats
  <2>3. lost' \in BOOLEAN
    BY <1>7 DEF VetoReturns
  <2>4. QED
    BY <1>7, <2>1, <2>2, <2>3 DEF VetoReturns, TypeOK
<1>8. CASE ChaseReturns
  <2>1. /\ at' \in Ats /\ call' \in OrderIds
        /\ pend' \in Slot /\ lost' \in BOOLEAN
    BY <1>0, <1>8, GateType DEF ChaseReturns, Ats
  <2>2. QED
    BY <1>8, <2>1, AccountType DEF ChaseReturns, TypeOK
<1>9. CASE HandlerSaved
  <2>1. /\ at' \in Ats /\ call' \in OrderIds
        /\ pend' \in Slot /\ lost' \in BOOLEAN
    BY <1>0, <1>9, GateType DEF HandlerSaved
  <2>2. QED
    BY <1>0, <1>9, <2>1, AccountType DEF HandlerSaved, TypeOK
<1>10. QED
  BY <1>2, <1>3, <1>4, <1>5, <1>6, <1>7, <1>8, <1>9

\* The steps that send an order or take the answer to one.
LEMMA OrderStepType ==
    ASSUME TypeOK,
           \/ ExitReturns \/ ExitResumes \/ ExitFails
           \/ SignalEnters \/ EntryReturns \/ EntryResumes \/ EntrySaved
           \/ StopFlattens \/ FlatCancelFails \/ FlatCancelReturns
           \/ FlatExitReturns \/ FlatResumes \/ FlatExitFails \/ PollEnds
    PROVE  CoreOK'
<1> USE DEF CoreOK, MemoryOK, ProcessOK
<1>0. /\ Snapshot \in Stored
      /\ pos \in Slot /\ pend \in Slot /\ lost \in BOOLEAN /\ halted \in BOOLEAN
      /\ None \in Slot /\ NoOrder \in OrderIds
      /\ call \in OrderIds /\ stopCall \in OrderIds /\ pos.id \in OrderIds
      /\ Orders \subseteq OrderIds
  BY DEF Snapshot, Stored, TypeOK, None, Slot, OrderIds
<1>1. CASE ExitReturns \/ ExitResumes \/ ExitFails
  <2>1. AccountTypeOK' /\ MemoryOK'
    BY <1>0, <1>1, ExitType DEF ExitReturns, ExitResumes, ExitRead, ExitFails
  <2>2. at' \in Ats /\ call' \in OrderIds
    BY <1>0, <1>1 DEF ExitReturns, ExitResumes, ExitRead, ExitFails, Ats
  <2>3. QED
    BY <1>1, <2>1, <2>2 DEF ExitReturns, ExitResumes, ExitFails, TypeOK, MemoryOK
<1>2. CASE FlatExitReturns \/ FlatResumes \/ FlatExitFails
  <2>1. AccountTypeOK' /\ MemoryOK'
    BY <1>0, <1>2, ExitType DEF FlatExitReturns, FlatResumes, FlatRead, FlatExitFails
  <2>2. life' \in Lives
    BY <1>2 DEF FlatExitReturns, FlatResumes, FlatRead, FlatExitFails, Lives
  <2>3. QED
    BY <1>2, <2>1, <2>2 DEF FlatExitReturns, FlatResumes, FlatExitFails, TypeOK, MemoryOK
<1>3. CASE SignalEnters
  <2>1. PICK o \in Orders, d \in Dirs, m \in BOOLEAN :
          /\ Send(o, d, m)
          /\ pend' = [dir |-> d, client |-> o, id |-> NoOrder]
          /\ call' = o
    BY <1>3 DEF SignalEnters
  <2>2. d \in {-1, 1}
    BY <2>1, EngineAssumption
  <2>3. AccountTypeOK'
    BY <2>1, <2>2, SendType DEF TypeOK
  <2>4. pend' \in Slot /\ call' \in OrderIds
    BY <1>0, <2>1, <2>2 DEF Slot
  <2>5. QED
    BY <1>3, <2>3, <2>4 DEF SignalEnters, TypeOK, Ats
<1>4. CASE EntryReturns \/ EntryResumes
  <2>1. CASE EntryRead
    <3>1. pend' \in Slot
      <4>1. [pend EXCEPT !.client = call, !.id = call] \in Slot
        BY <1>0, SlotType
      <4>2. QED
        BY <1>0, <2>1, <4>1 DEF EntryRead
    <3>2. at' \in Ats /\ call' \in OrderIds
      BY <1>0, <2>1 DEF EntryRead, Ats
    <3>3. QED
      BY <2>1, <3>1, <3>2, AccountType DEF EntryRead, TypeOK
  <2>2. CASE /\ at' = "entryHeard"
             /\ UNCHANGED <<accountVars, memory, life, flat, feed, starts,
                            call, stopCall, disk, boot>>
    BY <2>2, AccountType DEF TypeOK, Ats, memory
  <2>3. QED
    BY <1>4, <2>1, <2>2 DEF EntryReturns, EntryResumes
<1>5. CASE EntrySaved
  <2>1. CASE Filled(pos, call)
    <3>1. MemoryOK'
      BY <1>0, <2>1, HearsType
    <3>2. QED
      BY <1>0, <1>5, <3>1, AccountType DEF EntrySaved, TypeOK, MemoryOK, Ats
  <2>2. CASE UNCHANGED memory
    BY <1>0, <1>5, <2>2, AccountType DEF EntrySaved, TypeOK, memory, Ats
  <2>3. QED
    BY <1>5, <2>1, <2>2 DEF EntrySaved
<1>6. CASE StopFlattens
  <2>0. feed' \in Feeds
    BY <1>6 DEF StopFlattens, LetsGo, Feeds, TypeOK
  <2>1. ASSUME UNCHANGED <<accountVars, pos>>,
               life' \in {"unpolling", "closing", "leaving", "flatCancel"},
               flat' \in BOOLEAN, stopCall' \in {stopCall, pos.id}
        PROVE  CoreOK'
    BY <1>0, <1>6, <2>0, <2>1, AccountType DEF StopFlattens, TypeOK, Lives
  <2>2. ASSUME NEW o \in Orders, Send(o, -pos.dir, TRUE), pos.dir # 0,
               pos' = [pos EXCEPT !.client = o], stopCall' = o,
               life' = "flatExit" /\ flat' = TRUE
        PROVE  CoreOK'
    <3>1. o \in OrderIds /\ -pos.dir \in {-1, 1} /\ TRUE \in BOOLEAN
      BY <1>0, <2>2, SlotType
    <3>2. AccountTypeOK'
      BY <2>2, <3>1, SendType DEF TypeOK
    <3>3. pos' \in Slot
      BY <1>0, <2>2, <3>1, SlotType
    <3>4. QED
      BY <1>6, <2>0, <2>2, <3>1, <3>2, <3>3 DEF StopFlattens, TypeOK, Lives
  <2>3. QED
    BY <1>6, <2>1, <2>2 DEF StopFlattens, LetsGo, TypeOK
<1>7. CASE FlatCancelFails
  <2>1. AccountTypeOK'
    BY <1>7, CancelType DEF FlatCancelFails, TypeOK
  <2>2. QED
    BY <1>7, <2>1 DEF FlatCancelFails, TypeOK, memory, Lives
<1>8. CASE FlatCancelReturns
  <2> DEFINE works == status[stopCall] = "working"
             after == IF works THEN [status EXCEPT ![stopCall] = "canceled"] ELSE status
  <2>1. PICK o \in Orders :
          /\ status[o] = "none"
          /\ status' = [after EXCEPT ![o] = "sent"]
          /\ side' = [side EXCEPT ![o] = -pos.dir]
          /\ market' = [market EXCEPT ![o] = TRUE]
          /\ pos' = [pos EXCEPT !.client = o, !.id = NoOrder]
          /\ stopCall' = o
    BY <1>8 DEF FlatCancelReturns
  <2>2. told' = [told EXCEPT ![stopCall] = IF works THEN Synchronous ELSE @]
        /\ lost' = (lost \/ Forgets(after, pos))
        /\ net' = net
    BY <1>8 DEF FlatCancelReturns
  <2>3. after \in [Orders -> OrderStatus]
    BY DEF TypeOK, AccountTypeOK, OrderStatus, Done
  <2>4. status' \in [Orders -> OrderStatus]
    <3>1. "sent" \in OrderStatus
      BY DEF OrderStatus
    <3>2. QED
      BY <2>1, <2>3, <3>1
  <2>5. side' \in [Orders -> {-1, 1}]
    <3>1. -pos.dir \in {-1, 1}
      BY <1>0, <1>8, SlotType DEF FlatCancelReturns
    <3>2. QED
      BY <2>1, <3>1 DEF TypeOK, AccountTypeOK
  <2>6. market' \in [Orders -> BOOLEAN]
    BY <2>1 DEF TypeOK, AccountTypeOK
  <2>7. told' \in [Orders -> BOOLEAN]
    BY <2>2, OrderAssumption DEF TypeOK, AccountTypeOK
  <2>8. AccountTypeOK'
    BY <2>2, <2>4, <2>5, <2>6, <2>7 DEF TypeOK, AccountTypeOK
  <2>9. pos' \in Slot /\ stopCall' \in OrderIds
    BY <1>0, <2>1, SlotType
  <2>10. halted' \in BOOLEAN /\ lost' \in BOOLEAN
    BY <1>8, <2>2 DEF FlatCancelReturns
  <2>11. QED
    BY <1>8, <2>8, <2>9, <2>10 DEF FlatCancelReturns, TypeOK, Lives
<1>9. CASE PollEnds
  <2>1. AccountTypeOK' /\ MemoryOK'
    <3>1. CASE ExitRaises(call, "bar")
      BY <1>0, <3>1, ExitType
    <3>2. CASE /\ UNCHANGED accountVars \/ NeverArrives(call)
               /\ UNCHANGED <<pos, pend, halted, lost>>
      BY <3>2, AccountType DEF TypeOK
    <3>3. QED
      BY <1>9, <3>1, <3>2 DEF PollEnds
  <2>2. feed' \in Feeds /\ at' \in Ats /\ call' \in OrderIds
    BY <1>0, <1>9 DEF PollEnds, Feeds, Ats
  <2>3. QED
    BY <1>9, <2>1, <2>2 DEF PollEnds, TypeOK
<1>10. QED
  BY <1>1, <1>2, <1>3, <1>4, <1>5, <1>6, <1>7, <1>8, <1>9

\* Writes that are given up stay writes.
LEMMA VoidType ==
    ASSUME saves \in Seq(Jobs), Abandons
    PROVE  saves' \in Seq(Jobs)
<1>1. ASSUME NEW j \in Jobs PROVE [j EXCEPT !.by = "void"] \in Jobs
  BY DEF Jobs
<1>2. \A i \in 1 .. Len(saves) : saves[i] \in Jobs
  OBVIOUS
<1>3. /\ Len(saves) \in Nat
      /\ saves' \in [1 .. Len(saves) -> Jobs]
  BY <1>1, <1>2 DEF Abandons
<1>4. QED
  BY <1>3

\* What is asked for at a step is a write of a position and an entry.
LEMMA SavesType ==
    ASSUME TypeOK, CoreOK', Next
    PROVE  saves' \in Seq(Jobs)
<1>0. /\ pos \in Slot /\ pend \in Slot /\ pos' \in Slot /\ pend' \in Slot
      /\ None \in Slot /\ saves \in Seq(Jobs)
  BY DEF TypeOK, CoreOK, MemoryOK, None, Slot, OrderIds
<1>1. ASSUME NEW by \in {"bar", "life", "task", "trade"}, NEW p \in Slot, NEW q \in Slot,
             NEW s \in Seq(Jobs)
      PROVE  Append(s, Job(by, p, q)) \in Seq(Jobs)
  BY <1>1, AsksType
<1>2. ASSUME NEW by \in {"bar", "life", "task", "trade"}, NEW p \in Slot, NEW q \in Slot,
             Asks(by, p, q) \/ UNCHANGED saves
      PROVE  saves' \in Seq(Jobs)
  BY <1>0, <1>1, <1>2 DEF Asks
<1>3. ASSUME NEW o, NEW p, Filled(p, o) \/ Refused(o) \/ UNCHANGED memory
      PROVE  saves' \in Seq(Jobs)
  <2>1. Opened \in Slot
    BY <1>0 DEF Opened, Slot, OrderIds
  <2>2. QED
    BY <1>0, <1>2, <1>3, <2>1 DEF Filled, Refused, memory
<1>4. ASSUME NEW q, NEW h, NEW l, Gate(pos, q, h, l)
      PROVE  saves' \in Seq(Jobs)
  BY <1>0, <1>2, <1>4 DEF Gate
<1>5. ASSUME NEW o, NEW p \in Slot, NEW q \in Slot
      PROVE  AfterCancel(o, p, q) \in Seq(Jobs)
  BY <1>0, <1>1 DEF AfterCancel
<1>6. ASSUME NEW o, NEW p, NEW by \in {"bar", "life", "task", "trade"}, NEW said,
             p \in Slot \/ p = ExitNamed(o),
             ExitReceipt(p, o, by, said) \/ ExitHeard(o) \/ ExitRaises(o, by)
      PROVE  saves' \in Seq(Jobs)
  <2>1. CASE ExitRaises(o, by)
    BY <1>0, <1>2, <2>1 DEF ExitRaises
  <2>2. CASE Filled(p, o)
    BY <1>3, <2>2
  <2>3. CASE pos' = p /\ Asks(by, p, pend)
    BY <1>0, <1>2, <2>3
  <2>4. CASE ExitHeard(o)
    BY <1>0, <2>4 DEF ExitHeard
  <2>5. QED
    BY <1>6, <2>1, <2>2, <2>3, <2>4 DEF ExitReceipt
<1>7. CASE AccountNext \/ \E o \in Orders : AccountAnswers(o)
  BY <1>3, <1>7 DEF AccountNext, AccountAnswers, AccountFills, AccountDrops,
     AccountTells, AccountMoves, Hears
<1>8. CASE BarCallNext \/ FlatCancelFails \/ FlatCancelReturns
  <2>1. CASE ExpireReturns \/ VetoReturns
    BY <1>0, <1>1, <1>4, <1>5, <2>1 DEF ExpireReturns, VetoReturns
  <2>2. CASE ChaseReturns
    BY <1>0, <1>2, <1>4, <2>2 DEF ChaseReturns
  <2>3. CASE FlatCancelFails
    BY <1>0, <2>3 DEF FlatCancelFails, memory
  <2>4. CASE FlatCancelReturns
    BY <1>0, <1>5, <2>4 DEF FlatCancelReturns
  <2>5. CASE ExitReturns
    BY <1>6, <2>5 DEF ExitReturns, ExitRead
  <2>6. CASE EntryReturns
    BY <1>0, <1>2, <2>6 DEF EntryReturns, EntryRead, memory
  <2>7. QED
    BY <1>8, <2>1, <2>2, <2>3, <2>4, <2>5, <2>6 DEF BarCallNext
<1>9. CASE Writes
  <2>1. Tail(saves) \in Seq(Jobs)
    BY <1>0, <1>9, HeadType DEF Writes
  <2>2. QED
    BY <1>0, <1>1, <1>9, <2>1 DEF Writes
<1>10. CASE BarNext
  BY <1>0, <1>2, <1>4, <1>10 DEF BarNext, BarPasses, BarExits, BarExpires, BarChases
<1>11. CASE HandlerNext
  <2>1. CASE ExitResumes
    BY <1>0, <1>6, <2>1 DEF ExitResumes, ExitRead
  <2>2. CASE EntryResumes
    BY <1>0, <1>2, <2>2 DEF EntryResumes, EntryRead
  <2>3. CASE EntrySaved
    BY <1>3, <2>3 DEF EntrySaved
  <2>4. CASE HandlerSaved
    BY <1>4, <2>4 DEF HandlerSaved
  <2>5. CASE ExitDrained \/ SignalDeclines \/ SignalEnters \/ HandlerEnds
    BY <1>0, <1>2, <2>5 DEF ExitDrained, SignalDeclines, SignalEnters, HandlerEnds, memory
  <2>6. QED
    BY <1>11, <2>1, <2>2, <2>3, <2>4, <2>5 DEF HandlerNext
<1>12. CASE StartLoads \/ StartNext \/ StartFails
  BY <1>0, <1>2, <1>12 DEF StartLoads, StartNext, StartReads, StartRuns, StartSaved,
     StartFails, memory
<1>13. CASE \/ StopPlain \/ StopFlattens \/ FlatDrained \/ PollEnds \/ StopUnpolled
             \/ StopSaves \/ StopReturns
  <2>1. CASE PollEnds
    <3>1. CASE ExitRaises(call, "bar")
      BY <1>6, <3>1
    <3>2. CASE Abandons
      BY <1>0, <3>2, VoidType
    <3>3. QED
      BY <2>1, <3>1, <3>2 DEF PollEnds
  <2>2. CASE StopPlain \/ StopFlattens \/ FlatDrained \/ StopUnpolled \/ StopSaves
    BY <1>0, <1>2, <2>2 DEF StopPlain, StopFlattens, FlatDrained, StopUnpolled, StopSaves, LetsGo
  <2>3. CASE StopReturns
    BY <1>0, <2>3 DEF StopReturns, memory
  <2>4. QED
    BY <1>13, <2>1, <2>2, <2>3
<1>14. CASE ExitFails \/ EntryFails \/ FlatExitFails \/ FlatExitReturns \/ FlatResumes
  BY <1>0, <1>6, <1>14 DEF ExitFails, EntryFails, FlatExitFails, FlatExitReturns,
     FlatResumes, FlatRead, memory
<1>15. CASE Crash
  BY <1>15 DEF Crash
<1>16. QED
  BY <1>7, <1>8, <1>9, <1>10, <1>11, <1>12, <1>13, <1>14, <1>15
     DEF Next, StopNext, StopCallNext

\* Every step keeps every variable well typed.
LEMMA StepType ==
    ASSUME TypeOK, [Next]_vars
    PROVE  TypeOK'
<1>1. CASE UNCHANGED vars
  BY <1>1, AccountType DEF vars, memory, process, TypeOK
<1>2. ASSUME Next PROVE CoreOK'
  <2>1. CASE \E o \in Orders : AccountAnswers(o)
    BY <2>1, AccountStepType
  <2>2. CASE BarCallNext \/ StopCallNext
    BY <2>2, BarStepType, OrderStepType DEF BarCallNext, StopCallNext
  <2>3. CASE AccountNext
    BY <2>3, AccountStepType DEF AccountNext
  <2>4. CASE BarNext \/ HandlerNext
    BY <2>4, BarStepType, OrderStepType, EngineStepType DEF BarNext, HandlerNext
  <2>5. CASE \/ Writes \/ StartLoads \/ StartNext \/ StopPlain
             \/ StopFlattens \/ StopNext \/ Crash
             \/ ExitFails \/ EntryFails \/ FlatExitFails \/ StartFails
    BY <2>5, OrderStepType, EngineStepType DEF StartNext, StopNext
  <2>6. QED
    BY <1>2, <2>1, <2>2, <2>3, <2>4, <2>5 DEF Next
<1>3. CASE Next
  BY <1>2, <1>3, SavesType DEF TypeOK, CoreOK, MemoryOK, ProcessOK
<1>4. QED
  BY <1>1, <1>3

\* LiveEngine.__init__ leaves every variable well typed.
LEMMA InitType == Init => TypeOK
<1> SUFFICES ASSUME Init PROVE TypeOK
  OBVIOUS
<1>1. None \in Slot /\ NoOrder \in OrderIds
  BY DEF None, Slot, OrderIds
<1>2. AccountTypeOK
  BY DEF Init, AccountInit, AccountTypeOK, OrderStatus
<1>3. life \in Lives /\ at \in Ats /\ feed \in Feeds /\ starts \in Nat
  BY DEF Init, Lives, Ats, Feeds
<1>4. disk \in Stored /\ saves \in Seq(Jobs) /\ boot \in [pos: Slot, net: Int]
  BY <1>1 DEF Init, Stored
<1>5. QED
  BY <1>1, <1>2, <1>3, <1>4 DEF Init, TypeOK

\* Every variable of the engine, of its stored state and of the account always
\* has its type, in every interleaving of the handler, callbacks, start and stop.
THEOREM TypeInvariant == Spec => []TypeOK
<1>1. Init => TypeOK
  BY InitType
<1>2. TypeOK /\ [Next]_vars => TypeOK'
  BY StepType
<1>3. QED
  BY <1>1, <1>2, PTL DEF Spec

-------------------------------------------------------------------------------
(* The book.  Book says of any statuses, sides and net position, and any   *)
(* open position p and pending entry q, what EngineInv says of the         *)
(* engine's: the lemmas below are about values, and have no primes.        *)

Due(st, slot) ==
    IF slot.dir # 0 /\ slot.client # NoOrder /\ st[slot.client] = "filled"
    THEN slot.dir ELSE 0

Book(st, sd, n, p, q) ==
    /\ q.dir # 0 => /\ q.client \in Orders
                    /\ q.id \in {NoOrder, q.client}
                    /\ sd[q.client] = q.dir
    /\ p.dir # 0 /\ p.client # NoOrder => sd[p.client] = -p.dir
    /\ ~(p.dir # 0 /\ q.dir # 0)
    /\ \A o \in Orders : st[o] \in {"sent", "working"} =>
            \/ q.dir # 0 /\ q.client = o
            \/ p.dir # 0 /\ p.client = o
    /\ n = p.dir + Due(st, q) - Due(st, p)

\* What the handler knows at the awaits where it is about to send an entry,
\* or has one out.
AtOK ==
    /\ at = "signal" => pos.dir = 0 /\ pend.dir = 0
    /\ at \in {"entry", "entryHeard", "entrySave"} /\ pend.dir # 0 => pend.client = call

BookOK == Book(status, side, net, pos, pend)

\* EngineInv in the words of this section.
LEMMA EngineInvIs == EngineInv <=> TypeOK /\ CallOK /\ (~lost => BookOK /\ AtOK)
  BY DEF EngineInv, BookOK, Book, Due, AtOK, SlotsOK, NoStrayOrder, BookAgrees,
         Unbooked, Live

Account(st, sd, n) ==
    /\ st \in [Orders -> OrderStatus]
    /\ sd \in [Orders -> {-1, 1}]
    /\ n \in Int

\* Whatever becomes of an order that may still fill, the book holds: it is the
\* one the engine names, and no other can fill.
LEMMA MoveBook ==
    ASSUME NEW st, NEW sd, NEW n, Account(st, sd, n),
           NEW p \in Slot, NEW q \in Slot, Book(st, sd, n, p, q),
           NEW o \in Orders, st[o] \in {"sent", "working"},
           NEW s \in OrderStatus \ {"none", "sent"}
    PROVE  Book([st EXCEPT ![o] = s], sd, IF s = "filled" THEN n + sd[o] ELSE n, p, q)
<1> DEFINE new == [st EXCEPT ![o] = s]
<1>0. /\ p.dir \in {-1, 0, 1} /\ q.dir \in {-1, 0, 1} /\ n \in Int
      /\ p.client \in OrderIds /\ sd[o] \in {-1, 1}
  BY DEF Slot, Account
<1>1. \A x \in Orders : new[x] = IF x = o THEN s ELSE st[x]
  BY DEF Account
<1>2. \A x \in Orders : new[x] \in {"sent", "working"} => st[x] \in {"sent", "working"}
  BY <1>1
<1>3. CASE q.dir # 0 /\ q.client = o
  <2>1. p.dir = 0 /\ Due(st, p) = 0 /\ Due(new, p) = 0
    BY <1>3 DEF Book, Due
  <2>2. Due(st, q) = 0 /\ Due(new, q) = IF s = "filled" THEN q.dir ELSE 0
    BY <1>1, <1>3, OrderAssumption DEF Due
  <2>3. sd[o] = q.dir
    BY <1>3 DEF Book
  <2>4. (IF s = "filled" THEN n + sd[o] ELSE n) = p.dir + Due(new, q) - Due(new, p)
    BY <1>0, <2>1, <2>2, <2>3 DEF Book
  <2>5. QED
    BY <1>2, <2>4 DEF Book
<1>4. CASE p.dir # 0 /\ p.client = o
  <2>1. q.dir = 0 /\ Due(st, q) = 0 /\ Due(new, q) = 0
    BY <1>4 DEF Book, Due
  <2>2. Due(st, p) = 0 /\ Due(new, p) = IF s = "filled" THEN p.dir ELSE 0
    BY <1>1, <1>4, OrderAssumption DEF Due
  <2>3. sd[o] = -p.dir
    BY <1>4, OrderAssumption DEF Book
  <2>4. (IF s = "filled" THEN n + sd[o] ELSE n) = p.dir + Due(new, q) - Due(new, p)
    BY <1>0, <2>1, <2>2, <2>3 DEF Book
  <2>5. QED
    BY <1>2, <2>4 DEF Book
<1>5. QED
  BY <1>3, <1>4 DEF Book

\* Booking the fill of the entry, or of the exit, the engine names.
LEMMA FillBook ==
    ASSUME NEW st, NEW sd, NEW n, Account(st, sd, n),
           NEW p \in Slot, NEW q \in Slot, Book(st, sd, n, p, q),
           NEW o \in Orders, st[o] = "filled"
    PROVE  /\ q.dir # 0 /\ o \in {q.client, q.id} =>
                Book(st, sd, n, [dir |-> q.dir, client |-> NoOrder, id |-> NoOrder], None)
           /\ p.dir # 0 /\ p.client = o => Book(st, sd, n, None, q)
<1>0. p.dir \in {-1, 0, 1} /\ q.dir \in {-1, 0, 1} /\ n \in Int /\ NoOrder \notin Orders
  BY OrderAssumption DEF Slot, Account
<1>1. ASSUME q.dir # 0, o \in {q.client, q.id}
      PROVE  Book(st, sd, n, [dir |-> q.dir, client |-> NoOrder, id |-> NoOrder], None)
  <2> DEFINE new == [dir |-> q.dir, client |-> NoOrder, id |-> NoOrder]
  <2>1. q.client = o /\ p.dir = 0
    BY <1>0, <1>1 DEF Book
  <2>2. Due(st, q) = q.dir /\ Due(st, p) = 0 /\ Due(st, new) = 0 /\ Due(st, None) = 0
    BY <1>0, <1>1, <2>1 DEF Due, None
  <2>3. n = new.dir + Due(st, None) - Due(st, new)
    BY <1>0, <2>1, <2>2 DEF Book
  <2>4. \A x \in Orders : st[x] \notin {"sent", "working"}
    BY <2>1 DEF Book
  <2>5. QED
    BY <2>3, <2>4 DEF Book, None
<1>2. ASSUME p.dir # 0, p.client = o
      PROVE  Book(st, sd, n, None, q)
  <2>1. q.dir = 0 /\ Due(st, q) = 0 /\ Due(st, p) = p.dir /\ Due(st, None) = 0
    BY <1>0, <1>2 DEF Book, Due, None
  <2>2. n = None.dir + Due(st, q) - Due(st, None)
    BY <1>0, <2>1 DEF Book, None
  <2>3. \A x \in Orders : st[x] \notin {"sent", "working"}
    BY <1>2, <2>1 DEF Book
  <2>4. QED
    BY <2>1, <2>2, <2>3 DEF Book, None
<1>3. QED
  BY <1>1, <1>2

\* Dropping the entry, or the name of the exit, of an order that cannot act.
LEMMA DropBook ==
    ASSUME NEW st, NEW sd, NEW n, Account(st, sd, n),
           NEW p \in Slot, NEW q \in Slot, Book(st, sd, n, p, q),
           q.dir # 0 => ~MayAct(st, q.client)
    PROVE  Book(st, sd, n, p, None)
<1>0. p.dir \in {-1, 0, 1} /\ n \in Int
  BY DEF Slot, Account
<1>1. Due(st, q) = 0 /\ Due(st, None) = 0
  BY DEF Due, None, MayAct, Book
<1>2. \A x \in Orders : st[x] \in {"sent", "working"} => p.dir # 0 /\ p.client = x
  BY DEF Book, MayAct
<1>3. n = p.dir + Due(st, None) - Due(st, p)
  BY <1>0, <1>1 DEF Book
<1>4. QED
  BY <1>2, <1>3 DEF Book, None

\* Sending the exit of a position that has none that may act.
LEMMA ExitBook ==
    ASSUME NEW st, NEW sd, NEW n, Account(st, sd, n),
           NEW p \in Slot, NEW q \in Slot, Book(st, sd, n, p, q),
           p.dir # 0, ~MayAct(st, p.client),
           NEW o \in Orders, st[o] = "none", NEW i
    PROVE  LET new == [dir |-> p.dir, client |-> o, id |-> i] IN
           Book([st EXCEPT ![o] = "sent"], [sd EXCEPT ![o] = -p.dir], n, new, q)
<1> DEFINE new == [dir |-> p.dir, client |-> o, id |-> i]
           st1 == [st EXCEPT ![o] = "sent"]
           sd1 == [sd EXCEPT ![o] = -p.dir]
<1>0. /\ p.dir \in {-1, 0, 1} /\ n \in Int /\ p.client \in OrderIds /\ NoOrder \notin Orders
      /\ q.dir = 0
  BY OrderAssumption DEF Slot, Account, Book
<1>1. st1[o] = "sent" /\ sd1[o] = -p.dir /\ \A x \in Orders : x # o => st1[x] = st[x]
  BY DEF Account
<1>2. Due(st, p) = 0 /\ Due(st, q) = 0 /\ Due(st1, new) = 0 /\ Due(st1, q) = 0
  BY <1>0, <1>1 DEF Due, MayAct, OrderIds
<1>3. \A x \in Orders : st[x] \notin {"sent", "working"}
  BY <1>0 DEF Book, MayAct
<1>4. n = new.dir + Due(st1, q) - Due(st1, new)
  BY <1>0, <1>2 DEF Book
<1>5. \A x \in Orders : st1[x] \in {"sent", "working"} => new.dir # 0 /\ new.client = x
  BY <1>1, <1>3
<1>6. QED
  BY <1>0, <1>1, <1>4, <1>5 DEF Book

\* Sending an entry when there is neither a position nor an entry.
LEMMA EntryBook ==
    ASSUME NEW st, NEW sd, NEW n, Account(st, sd, n),
           NEW p \in Slot, NEW q \in Slot, Book(st, sd, n, p, q),
           p.dir = 0, q.dir = 0,
           NEW o \in Orders, st[o] = "none", NEW d \in {-1, 1}
    PROVE  Book([st EXCEPT ![o] = "sent"], [sd EXCEPT ![o] = d], n,
                p, [dir |-> d, client |-> o, id |-> NoOrder])
<1> DEFINE new == [dir |-> d, client |-> o, id |-> NoOrder]
           st1 == [st EXCEPT ![o] = "sent"]
           sd1 == [sd EXCEPT ![o] = d]
<1>0. n \in Int /\ NoOrder \notin Orders
  BY OrderAssumption DEF Account
<1>1. st1[o] = "sent" /\ sd1[o] = d /\ \A x \in Orders : x # o => st1[x] = st[x]
  BY DEF Account
<1>2. Due(st, p) = 0 /\ Due(st, q) = 0 /\ Due(st1, new) = 0 /\ Due(st1, p) = 0
  BY <1>0, <1>1 DEF Due
<1>3. n = p.dir + Due(st1, new) - Due(st1, p)
  BY <1>0, <1>2 DEF Book
<1>4. \A x \in Orders : st1[x] \in {"sent", "working"} => new.dir # 0 /\ new.client = x
  BY <1>1 DEF Book
<1>5. QED
  BY <1>1, <1>3, <1>4 DEF Book

-------------------------------------------------------------------------------
(* The steps keep the book.                                                *)

LEMMA AccountIs == TypeOK => Account(status, side, net) /\ pos \in Slot /\ pend \in Slot
  BY DEF TypeOK, AccountTypeOK, Account

\* What is lost stays lost.
LEMMA LostStays ==
    ASSUME TypeOK, [Next]_vars, lost
    PROVE  lost'
  BY DEF Next, vars, memory, BarCallNext, StopCallNext, AccountNext, BarNext, HandlerNext, StartNext,
     StopNext, AccountAnswers, AccountFills, AccountDrops, AccountTells, AccountMoves,
     Hears, Filled, Refused, Writes, BarPasses, BarExits, BarExpires, BarChases,
     ExpireReturns, VetoReturns, ChaseReturns, Gate, ExitReturns, ExitResumes, ExitRead, ExitHeard,
     ExitFails, ExitReceipt, ExitDrained, FlatDrained, ExitRaises, SignalDeclines,
     PollEnds, StopUnpolled,
     SignalEnters, EntryReturns, EntryResumes, EntryRead, EntryFails, EntrySaved,
     HandlerSaved, HandlerEnds, StartLoads, StartReads, StartRuns, StartSaved, StartFails,
     StopPlain, StopFlattens, FlatCancelFails, FlatCancelReturns, FlatExitReturns,
     FlatResumes, FlatRead, FlatExitFails, StopSaves, StopReturns, Crash

\* _on_order_filled keeps the book of the account whose order o has filled.
LEMMA FilledKeeps ==
    ASSUME NEW st, NEW n, NEW p \in Slot, pend \in Slot, Account(st, side, n),
           Book(st, side, n, p, pend), NEW o \in Orders, st[o] = "filled",
           Filled(p, o), ~lost'
    PROVE  /\ Book(st, side, n, pos', pend')
           /\ pend' \in {pend, None}
           /\ p.dir = 0 /\ pend.dir = 0 => pos'.dir = 0 /\ pend'.dir = 0
<1>1. CASE /\ Names(pend, o)
           /\ pos' = [dir |-> pend.dir, client |-> NoOrder, id |-> NoOrder]
           /\ pend' = None
  BY <1>1, FillBook DEF Names
<1>2. CASE /\ p.dir # 0 /\ pos' = None /\ pend' = pend
           /\ lost' = (lost \/ p.client # o)
  <2>1. p.client = o
    BY <1>2
  <2>2. QED
    BY <1>2, <2>1, FillBook DEF None
<1>3. CASE pos' = p /\ pend' = pend
  BY <1>3
<1>4. QED
  BY <1>1, <1>2, <1>3 DEF Filled, Opened

\* _on_order_terminal keeps the book of the account whose order o is over.
LEMMA RefusedKeeps ==
    ASSUME NEW st, NEW n, pos \in Slot, pend \in Slot, Account(st, side, n),
           Book(st, side, n, pos, pend), NEW o \in Orders,
           st[o] \in {"canceled", "rejected"}, Refused(o)
    PROVE  /\ Book(st, side, n, pos', pend')
           /\ pend' \in {pend, None} /\ pos' = pos
<1>1. CASE Names(pend, o)
  <2>1. pend.client = o
    BY <1>1, OrderAssumption DEF Names, Book
  <2>2. ~MayAct(st, pend.client)
    BY <2>1 DEF MayAct
  <2>3. QED
    BY <1>1, <2>2, DropBook DEF Refused
<1>2. CASE ~Names(pend, o)
  BY <1>2 DEF Refused
<1>3. QED
  BY <1>1, <1>2

\* An update heard with the account already in its new state.
LEMMA HearsKeeps ==
    ASSUME TypeOK, TypeOK', AtOK, ~lost', NEW o \in Orders, NEW s \in Done,
           Book(status', side, net', pos, pend), status'[o] = s,
           UNCHANGED <<side, at, call>>, Hears(o, s)
    PROVE  BookOK' /\ AtOK'
<1>0. /\ Account(status', side, net') /\ pos \in Slot /\ pend \in Slot
      /\ UNCHANGED side
  BY DEF TypeOK, AccountTypeOK, Account
<1>1. CASE UNCHANGED memory
  BY <1>1 DEF memory, BookOK, AtOK
<1>2. CASE s = "filled" /\ Filled(pos, o)
  <2>1. /\ Book(status', side, net', pos', pend')
        /\ pend' \in {pend, None}
        /\ pos.dir = 0 /\ pend.dir = 0 => pos'.dir = 0 /\ pend'.dir = 0
    BY <1>0, <1>2, FilledKeeps
  <2>2. QED
    BY <2>1 DEF BookOK, AtOK, None
<1>3. CASE s # "filled" /\ Refused(o)
  <2>1. status'[o] \in {"canceled", "rejected"}
    BY <1>3 DEF Done
  <2>2. /\ Book(status', side, net', pos', pend')
        /\ pend' \in {pend, None} /\ pos' = pos
    BY <1>0, <1>3, <2>1, RefusedKeeps
  <2>3. QED
    BY <2>2 DEF BookOK, AtOK, None
<1>4. QED
  BY <1>1, <1>2, <1>3 DEF Hears

\* The move of a live order by the account.
LEMMA ReachKeeps ==
    ASSUME TypeOK, BookOK, NEW o \in Orders, status[o] \in {"sent", "working"},
           NEW s \in OrderStatus \ {"none", "sent"}, Reach(o, s)
    PROVE  Book(status', side, net', pos, pend) /\ status'[o] = s /\ UNCHANGED side
<1>1. status' = [status EXCEPT ![o] = s]
      /\ net' = (IF s = "filled" THEN net + side[o] ELSE net)
  BY DEF Reach
<1>2. Book(status', side, net', pos, pend)
  BY <1>1, AccountIs, MoveBook DEF BookOK
<1>3. QED
  BY <1>1, <1>2 DEF Reach, TypeOK, AccountTypeOK

\* The account's steps: answers, fills, cancellations and reports.
LEMMA AccountStepBook ==
    ASSUME TypeOK, TypeOK', BookOK, AtOK, ~lost', NEW o \in Orders,
           \/ AccountAnswers(o) \/ AccountFills(o)
           \/ AccountDrops(o) \/ AccountTells(o)
    PROVE  BookOK' /\ AtOK'
<1>0. UNCHANGED <<at, call>>
  BY DEF AccountAnswers, AccountFills, AccountDrops, AccountTells, process
<1>1. ASSUME NEW s \in OrderStatus \ {"none", "sent"}, AccountMoves(o, s),
             status[o] \in {"sent", "working"}
      PROVE  BookOK' /\ AtOK'
  <2>1. Book(status', side, net', pos, pend) /\ status'[o] = s /\ UNCHANGED side
    BY <1>1, ReachKeeps DEF AccountMoves
  <2>2. CASE Synchronous /\ s \in Done
    BY <1>0, <1>1, <2>1, <2>2, HearsKeeps DEF AccountMoves
  <2>3. CASE ~(Synchronous /\ s \in Done)
    BY <1>0, <1>1, <2>1, <2>3 DEF AccountMoves, memory, BookOK, AtOK
  <2>4. QED
    BY <2>2, <2>3
<1>2. Answers(o) \subseteq OrderStatus \ {"none", "sent"}
      /\ {"filled", "canceled"} \subseteq OrderStatus \ {"none", "sent"}
  BY DEF Answers, OrderStatus, Done
<1>3. CASE AccountTells(o)
  <2>1. status[o] \in Done /\ UNCHANGED <<status, side, net>>
    BY <1>3 DEF AccountTells, Tell
  <2>2. QED
    BY <1>0, <1>3, <2>1, HearsKeeps DEF AccountTells, BookOK
<1>4. QED
  BY <1>1, <1>2, <1>3 DEF AccountAnswers, AccountFills, AccountDrops

\* The tail of a bar, when the account and the position stay as they are.
LEMMA GateKeeps ==
    ASSUME TypeOK, BookOK, ~lost', NEW h \in BOOLEAN, Gate(pos, pend, h, lost),
           UNCHANGED <<status, side, net, pos>>
    PROVE  BookOK' /\ AtOK'
<1>1. CASE pend' = pend /\ (at' = "signal" => pos.dir = 0 /\ pend.dir = 0)
           /\ at' \in {"signal", "idle", "veto"}
  BY <1>1 DEF BookOK, AtOK
<1>2. CASE pend' = None /\ at' = "vetoSave" /\ lost' = (lost \/ Forgets(status, pend))
  <2>1. pend.dir # 0 => ~MayAct(status, pend.client)
    BY <1>2 DEF Forgets
  <2>2. Book(status, side, net, pos, None)
    BY <2>1, AccountIs, DropBook DEF BookOK
  <2>3. QED
    BY <1>2, <2>2 DEF BookOK, AtOK
<1>3. QED
  BY <1>1, <1>2 DEF Gate

\* A cancel that ends before the pending entry is dropped.
LEMMA CancelKeeps ==
    ASSUME TypeOK, BookOK, call \in Orders, ~lost',
           CancelWorks(call) \/ CancelIsVoid(call) \/ CancelRaises(call),
           TypeOK', pend' = None, pos' = pos, lost' = (lost \/ Forgets(status', pend)),
           at' \in {"expireSave", "vetoSave"}
    PROVE  BookOK' /\ AtOK'
<1>1. Book(status', side, net', pos, pend) /\ UNCHANGED side
  <2>1. "canceled" \in OrderStatus \ {"none", "sent"}
    BY DEF OrderStatus, Done
  <2>2. CASE CancelWorks(call)
    BY <2>1, <2>2, ReachKeeps DEF CancelWorks
  <2>3. CASE UNCHANGED accountVars
    BY <2>3 DEF accountVars, BookOK
  <2>4. QED
    BY <2>2, <2>3 DEF CancelIsVoid, CancelRaises
<1>2. Account(status', side, net') /\ pos \in Slot /\ pend \in Slot
  BY <1>1 DEF TypeOK, AccountTypeOK, Account
<1>3. pend.dir # 0 => ~MayAct(status', pend.client)
  BY DEF Forgets
<1>4. Book(status', side, net', pos, None)
  BY <1>1, <1>2, <1>3, DropBook
<1>5. QED
  BY <1>1, <1>4 DEF BookOK, AtOK

\* An exit order is sent for a position that has none that may act.
LEMMA SendKeeps ==
    ASSUME TypeOK, BookOK, AtOK, NEW o \in Orders, status[o] = "none",
           pos.dir # 0, ~MayAct(status, pos.client), NEW i,
           status' = [status EXCEPT ![o] = "sent"],
           side' = [side EXCEPT ![o] = -pos.dir],
           pos' = [dir |-> pos.dir, client |-> o, id |-> i],
           UNCHANGED <<net, pend>>
    PROVE  BookOK' /\ (UNCHANGED <<at, call>> \/ at' = "exit" => AtOK')
<1>1. Book(status', side', net, pos', pend)
  BY AccountIs, ExitBook DEF BookOK
<1>2. QED
  BY <1>1 DEF BookOK, AtOK

\* The receipt of an exit.
LEMMA ReceiptKeeps ==
    ASSUME TypeOK, TypeOK', BookOK, AtOK, ~lost', NEW o \in Orders, NEW by,
           NEW p \in {pos, ExitNamed(o)}, NEW said,
           ExitReceipt(p, o, by, said) \/ ExitHeard(o) \/ ExitRaises(o, by)
    PROVE  /\ BookOK'
           /\ UNCHANGED <<at, call>>
                \/ at' \in {"exitHeard", "exitDrain", "exitSave", "raiseSave"} => AtOK'
<1>0. /\ p \in Slot /\ p.dir = pos.dir /\ p.client = pos.client
      /\ Orders \subseteq OrderIds
  BY AccountIs DEF ExitNamed, Slot, OrderIds
<1>1. Book(status, side, net, p, pend)
  BY <1>0 DEF BookOK, Book, Due
<1>2. CASE ExitRaises(o, by)
  <2>1. CASE NeverArrives(o)
    <3>1. "rejected" \in OrderStatus \ {"none", "sent"}
      BY DEF OrderStatus, Done
    <3>2. Book([status EXCEPT ![o] = "rejected"], side, net, pos, pend)
      BY <2>1, <3>1, AccountIs, MoveBook DEF BookOK, NeverArrives
    <3>3. QED
      BY <1>2, <2>1, <3>2 DEF ExitRaises, NeverArrives, BookOK, AtOK
  <2>2. CASE UNCHANGED accountVars
    BY <1>2, <2>2 DEF ExitRaises, accountVars, BookOK, AtOK
  <2>3. QED
    BY <1>2, <2>1, <2>2 DEF ExitRaises
<1>3. CASE ExitReceipt(p, o, by, said)
  <2>1. UNCHANGED <<status, side, net>>
    BY <1>3 DEF ExitReceipt, accountVars
  <2>2. CASE status[o] = "filled" /\ Filled(p, o)
    <3>1. /\ Book(status, side, net, pos', pend')
          /\ pend' \in {pend, None}
          /\ p.dir = 0 /\ pend.dir = 0 => pos'.dir = 0 /\ pend'.dir = 0
      BY <1>0, <1>1, <2>2, AccountIs, FilledKeeps
    <3>2. QED
      BY <1>0, <2>1, <3>1 DEF BookOK, AtOK, None
  <2>3. CASE pos' = p /\ UNCHANGED pend
    BY <1>0, <1>1, <2>1, <2>3 DEF BookOK, AtOK
  <2>4. said \in SaidFilled(o) /\ said => status[o] = "filled"
    BY DEF SaidFilled
  <2>5. QED
    BY <1>3, <2>2, <2>3, <2>4 DEF ExitReceipt
<1>4. CASE ExitHeard(o)
  <2>1. Book(status, side, net, ExitNamed(o), pend) /\ ExitNamed(o).dir = pos.dir
    BY AccountIs DEF ExitNamed, Slot, OrderIds, BookOK, Book, Due
  <2>2. QED
    BY <1>4, <2>1 DEF ExitHeard, accountVars, BookOK, AtOK
<1>5. QED
  BY <1>2, <1>3, <1>4

\* The handler's steps up to the end of a bar's management of its orders.
LEMMA BarStepBook ==
    ASSUME TypeOK, TypeOK', CallOK, BookOK, AtOK, ~lost',
           \/ BarPasses \/ BarExits \/ BarExpires \/ BarChases
           \/ ExpireReturns \/ VetoReturns \/ ChaseReturns
           \/ HandlerSaved
    PROVE  BookOK' /\ AtOK'
<1>1. CASE BarPasses
  <2>1. halted' \in BOOLEAN
    BY DEF TypeOK
  <2>2. QED
    BY <1>1, <2>1, GateKeeps DEF BarPasses, accountVars
<1>2. CASE BarExits
  <2>1. PICK o \in Orders, m \in BOOLEAN :
          Send(o, -pos.dir, m) /\ pos' = [pos EXCEPT !.client = o] /\ call' = o
    BY <1>2 DEF BarExits
  <2>2. pos' = [dir |-> pos.dir, client |-> o, id |-> pos.id]
    BY <2>1, AccountIs DEF Slot
  <2>3. ~MayAct(status, pos.client)
    BY <1>2, OrderAssumption DEF BarExits, MayAct
  <2>4. QED
    BY <1>2, <2>1, <2>2, <2>3, SendKeeps DEF BarExits, Send
<1>3. CASE BarExpires
  <2>1. CASE UNCHANGED pend
    BY <1>3, <2>1 DEF BarExpires, accountVars, BookOK, AtOK
  <2>2. CASE pend' = None /\ lost' = (lost \/ Forgets(status, pend))
    <3>1. pend.dir # 0 => ~MayAct(status, pend.client)
      BY <2>2 DEF Forgets
    <3>2. Book(status, side, net, pos, None)
      BY <3>1, AccountIs, DropBook DEF BookOK
    <3>3. QED
      BY <1>3, <2>2, <3>2 DEF BarExpires, accountVars, BookOK, AtOK
  <2>3. QED
    BY <1>3, <2>1, <2>2 DEF BarExpires
<1>4. CASE BarChases
  BY <1>4 DEF BarChases, accountVars, BookOK, AtOK
<1>5. CASE ExpireReturns
  <2>1. call \in Orders
    BY <1>5 DEF ExpireReturns, CallOK
  <2>2. CASE Gate(pos, pend, halted, lost) /\ UNCHANGED accountVars
    BY <1>5, <2>2, GateKeeps DEF ExpireReturns, accountVars, TypeOK
  <2>3. CASE /\ CancelWorks(call) \/ CancelIsVoid(call)
             /\ pend' = None
             /\ lost' = (lost \/ Forgets(status', pend))
             /\ at' = "expireSave"
    BY <1>5, <2>1, <2>3, CancelKeeps DEF ExpireReturns
  <2>4. QED
    BY <1>5, <2>2, <2>3 DEF ExpireReturns, CancelRaises
<1>6. CASE VetoReturns
  <2>1. call \in Orders
    BY <1>6 DEF VetoReturns, CallOK
  <2>2. QED
    BY <1>6, <2>1, CancelKeeps DEF VetoReturns
<1>7. CASE ChaseReturns
  <2>1. CASE Gate(pos, pend, halted, lost)
    BY <1>7, <2>1, GateKeeps DEF ChaseReturns, accountVars, TypeOK
  <2>2. CASE at' \in {"idle", "chaseSave"} /\ UNCHANGED pend
    BY <1>7, <2>2 DEF ChaseReturns, accountVars, BookOK, AtOK
  <2>3. QED
    BY <1>7, <2>1, <2>2 DEF ChaseReturns
<1>8. CASE HandlerSaved
  BY <1>8, GateKeeps DEF HandlerSaved, accountVars, TypeOK
<1>9. QED
  BY <1>1, <1>2, <1>3, <1>4, <1>5, <1>6, <1>7, <1>8

\* The handler's steps around the entry and the exit it has out.
LEMMA OrderStepBook ==
    ASSUME TypeOK, TypeOK', CallOK, BookOK, AtOK, ~lost',
           \/ ExitReturns \/ ExitResumes \/ ExitFails \/ SignalDeclines \/ SignalEnters
           \/ EntryReturns \/ EntryResumes \/ EntryFails \/ EntrySaved
           \/ HandlerEnds \/ ExitDrained
    PROVE  BookOK' /\ AtOK'
<1>1. CASE ExitReturns \/ ExitResumes \/ ExitFails
  <2>1. call \in Orders /\ at' \in {"exitHeard", "exitDrain", "exitSave", "raiseSave"}
    BY <1>1 DEF ExitReturns, ExitResumes, ExitRead, ExitFails, CallOK
  <2>2. QED
    BY <1>1, <2>1, ReceiptKeeps DEF ExitReturns, ExitResumes, ExitRead, ExitFails
<1>2. CASE SignalDeclines
  BY <1>2 DEF SignalDeclines, accountVars, memory, BookOK, AtOK
<1>3. CASE SignalEnters
  <2>1. PICK o \in Orders, d \in Dirs, m \in BOOLEAN :
          /\ Send(o, d, m)
          /\ pend' = [dir |-> d, client |-> o, id |-> NoOrder]
          /\ call' = o
    BY <1>3 DEF SignalEnters
  <2>2. d \in {-1, 1} /\ pos.dir = 0 /\ pend.dir = 0
    BY <1>3, <2>1, EngineAssumption DEF AtOK, SignalEnters
  <2>3. Book(status', side', net, pos, pend')
    BY <2>1, <2>2, AccountIs, EntryBook DEF Send, BookOK
  <2>4. QED
    BY <1>3, <2>1, <2>3 DEF SignalEnters, Send, BookOK, AtOK
<1>4. CASE EntryReturns \/ EntryResumes
  <2>0. /\ UNCHANGED <<accountVars, pos>>
        /\ at' \in {"idle", "entryHeard", "entrySave"}
        /\ at \in {"entry", "entryHeard"}
    BY <1>4 DEF EntryReturns, EntryResumes, EntryRead, memory
  <2>1. CASE UNCHANGED pend /\ (at' = "idle" \/ UNCHANGED call)
    BY <2>0, <2>1 DEF accountVars, BookOK, AtOK
  <2>2. CASE /\ pend.dir # 0
             /\ pend' = [pend EXCEPT !.client = call, !.id = call]
             /\ at' = "entrySave" /\ UNCHANGED call
    <3>1. pend.client = call
      BY <2>0, <2>2 DEF AtOK
    <3>2. pend'.dir = pend.dir /\ pend'.client = call /\ pend'.id = call
      BY <2>2, AccountIs DEF Slot
    <3>3. Book(status, side, net, pos, pend')
      BY <3>1, <3>2 DEF BookOK, Book, Due
    <3>4. QED
      BY <2>0, <2>2, <3>2, <3>3 DEF accountVars, BookOK, AtOK
  <2>3. QED
    BY <1>4, <2>1, <2>2 DEF EntryReturns, EntryResumes, EntryRead, memory
<1>5. CASE EntryFails
  <2>1. CASE NeverArrives(call)
    <3>1. "rejected" \in OrderStatus \ {"none", "sent"} /\ call \in Orders
      BY <1>5 DEF OrderStatus, Done, EntryFails, CallOK
    <3>2. Book([status EXCEPT ![call] = "rejected"], side, net, pos, pend)
      BY <2>1, <3>1, AccountIs, MoveBook DEF BookOK, NeverArrives
    <3>3. QED
      BY <1>5, <2>1, <3>2 DEF EntryFails, NeverArrives, memory, BookOK, AtOK
  <2>2. CASE UNCHANGED accountVars
    BY <1>5, <2>2 DEF EntryFails, accountVars, memory, BookOK, AtOK
  <2>3. QED
    BY <1>5, <2>1, <2>2 DEF EntryFails
<1>6. CASE EntrySaved
  <2>1. UNCHANGED <<status, side, net>> /\ call \in Orders /\ at' = "idle"
    BY <1>6 DEF EntrySaved, accountVars, CallOK
  <2>2. CASE status[call] = "filled" /\ Filled(pos, call)
    <3>1. Book(status, side, net, pos', pend')
      BY <2>1, <2>2, AccountIs, FilledKeeps DEF BookOK
    <3>2. QED
      BY <2>1, <3>1 DEF BookOK, AtOK
  <2>3. CASE UNCHANGED memory
    BY <2>1, <2>3 DEF memory, BookOK, AtOK
  <2>4. \A said \in SaidFilled(call) : said => status[call] = "filled"
    BY DEF SaidFilled
  <2>5. QED
    BY <1>6, <2>2, <2>3, <2>4 DEF EntrySaved
<1>7. CASE HandlerEnds
  BY <1>7 DEF HandlerEnds, accountVars, memory, BookOK, AtOK
<1>8. CASE ExitDrained
  BY <1>8 DEF ExitDrained, accountVars, BookOK, AtOK
<1>9. QED
  BY <1>8, <1>1, <1>2, <1>3, <1>4, <1>5, <1>6, <1>7

\* The steps of start and stop, the writes and the crash.
LEMMA LifeStepBook ==
    ASSUME TypeOK, TypeOK', CallOK, BookOK, AtOK, ~lost',
           \/ Writes \/ StartLoads \/ StartReads \/ StartRuns \/ StartSaved
           \/ StartFails \/ StopPlain \/ StopFlattens \/ FlatCancelFails
           \/ FlatCancelReturns \/ FlatExitReturns \/ FlatResumes \/ FlatExitFails
           \/ FlatDrained \/ PollEnds \/ StopUnpolled
           \/ StopSaves \/ StopReturns \/ Crash
    PROVE  BookOK' /\ AtOK'
<1>1. CASE \/ StartReads \/ StartSaved \/ StartFails \/ StopPlain
           \/ FlatDrained \/ StopUnpolled \/ StopSaves \/ StopReturns
  BY <1>1 DEF FlatDrained, StartReads, StartSaved, StartFails, StopPlain, StopUnpolled,
     StopSaves, StopReturns, accountVars, memory, BookOK, AtOK
<1>2. CASE Writes
  BY <1>2 DEF Writes, accountVars, BookOK, AtOK
<1>3. CASE StartLoads
  <2>1. Snapshot = disk
    BY <1>3 DEF StartLoads
  <2>2. pos' = pos /\ pend' = pend
    BY <1>3, <2>1 DEF StartLoads, Snapshot
  <2>3. QED
    BY <1>3, <2>2 DEF StartLoads, accountVars, BookOK, AtOK
<1>4. CASE Crash
  <2>1. Snapshot = disk
    BY <1>4 DEF Crash
  <2>2. pos' = pos /\ pend' = pend
    BY <1>4, <2>1 DEF Crash, Snapshot
  <2>3. QED
    BY <1>4, <2>2 DEF Crash, accountVars, BookOK, AtOK
<1>5. CASE StartRuns
  BY <1>5 DEF StartRuns, accountVars, BookOK, AtOK
<1>6. CASE StopFlattens
  <2>1. CASE UNCHANGED <<accountVars, pos>>
    BY <1>6, <2>1 DEF StopFlattens, accountVars, BookOK, AtOK
  <2>2. ASSUME NEW o \in Orders, Send(o, -pos.dir, TRUE), pos.dir # 0,
               pos.client = NoOrder, pos' = [pos EXCEPT !.client = o]
        PROVE  BookOK' /\ AtOK'
    <3>1. pos' = [dir |-> pos.dir, client |-> o, id |-> pos.id]
      BY <2>2, AccountIs DEF Slot
    <3>2. ~MayAct(status, pos.client)
      BY <2>2, OrderAssumption DEF MayAct
    <3>3. QED
      BY <1>6, <2>2, <3>1, <3>2, SendKeeps DEF StopFlattens, Send
  <2>3. QED
    BY <1>6, <2>1, <2>2 DEF StopFlattens
<1>7. CASE FlatCancelFails
  <2>1. stopCall \in Orders
    BY <1>7 DEF FlatCancelFails, CallOK
  <2>2. CASE CancelWorks(stopCall)
    <3>1. "canceled" \in OrderStatus \ {"none", "sent"}
      BY DEF OrderStatus, Done
    <3>2. Book(status', side, net', pos, pend) /\ UNCHANGED side
      BY <2>1, <2>2, <3>1, ReachKeeps DEF CancelWorks
    <3>3. QED
      BY <1>7, <3>2 DEF FlatCancelFails, memory, BookOK, AtOK
  <2>3. CASE UNCHANGED accountVars
    BY <1>7, <2>3 DEF FlatCancelFails, accountVars, memory, BookOK, AtOK
  <2>4. QED
    BY <1>7, <2>2, <2>3 DEF FlatCancelFails, CancelRaises, CancelIsVoid
<1>8. CASE FlatCancelReturns
  <2> DEFINE works == status[stopCall] = "working"
             after == IF works THEN [status EXCEPT ![stopCall] = "canceled"] ELSE status
  <2>1. PICK o \in Orders :
          /\ status[o] = "none"
          /\ status' = [after EXCEPT ![o] = "sent"]
          /\ side' = [side EXCEPT ![o] = -pos.dir]
          /\ pos' = [pos EXCEPT !.client = o, !.id = NoOrder]
    BY <1>8 DEF FlatCancelReturns
  <2>2. stopCall \in Orders /\ lost' = (lost \/ Forgets(after, pos))
        /\ pos.dir # 0 /\ UNCHANGED <<net, pend, at, call>>
    BY <1>8 DEF FlatCancelReturns, CallOK
  <2>3. Book(after, side, net, pos, pend)
    <3>1. "canceled" \in OrderStatus \ {"none", "sent"}
      BY DEF OrderStatus, Done
    <3>2. CASE works
      BY <2>2, <3>1, <3>2, AccountIs, MoveBook DEF BookOK
    <3>3. CASE ~works
      BY <3>3 DEF BookOK
    <3>4. QED
      BY <3>2, <3>3
  <2>4. Account(after, side, net) /\ pos \in Slot /\ pend \in Slot
    BY AccountIs DEF Account, OrderStatus, Done
  <2>5. after[o] = "none"
    BY <2>1, AccountIs DEF Account
  <2>6. ~MayAct(after, pos.client)
    BY <2>2 DEF Forgets
  <2>7. pos' = [dir |-> pos.dir, client |-> o, id |-> NoOrder]
    BY <2>1, <2>4 DEF Slot
  <2>8. Book(status', side', net, pos', pend)
    <3> HIDE DEF after
    <3>1. Book([after EXCEPT ![o] = "sent"], [side EXCEPT ![o] = -pos.dir], net,
               [dir |-> pos.dir, client |-> o, id |-> NoOrder], pend)
      BY <2>2, <2>3, <2>4, <2>5, <2>6, ExitBook
    <3>2. QED
      BY <2>1, <2>7, <3>1
  <2>9. QED
    BY <2>2, <2>7, <2>8 DEF BookOK, AtOK
<1>9. CASE FlatExitReturns \/ FlatResumes \/ FlatExitFails
  <2>1. stopCall \in Orders /\ UNCHANGED <<at, call>>
    BY <1>9 DEF FlatExitReturns, FlatResumes, FlatExitFails, CallOK
  <2>2. QED
    BY <1>9, <2>1, ReceiptKeeps DEF FlatExitReturns, FlatResumes, FlatRead, FlatExitFails
<1>10. CASE PollEnds
  <2>1. CASE at = "exit" /\ ExitRaises(call, "bar") /\ at' = "raiseSave"
    BY <2>1, ReceiptKeeps DEF CallOK
  <2>2. CASE /\ at' = "idle"
             /\ at = "entry" /\ NeverArrives(call)
             /\ UNCHANGED <<pos, pend, halted, lost>>
    <3>1. "rejected" \in OrderStatus \ {"none", "sent"} /\ call \in Orders
      BY <2>2 DEF OrderStatus, Done, CallOK
    <3>2. Book([status EXCEPT ![call] = "rejected"], side, net, pos, pend)
      BY <2>2, <3>1, AccountIs, MoveBook DEF BookOK, NeverArrives
    <3>3. QED
      BY <2>2, <3>2 DEF NeverArrives, BookOK, AtOK
  <2>3. CASE at' = "idle" /\ UNCHANGED <<accountVars, pos, pend, halted, lost>>
    BY <2>3 DEF accountVars, BookOK, AtOK
  <2>4. QED
    BY <1>10, <2>1, <2>2, <2>3 DEF PollEnds
<1>11. QED
  BY <1>1, <1>2, <1>3, <1>4, <1>5, <1>6, <1>7, <1>8, <1>9, <1>10

\* The calls the handler and stop() have out stay calls for orders.
LEMMA StepCall ==
    ASSUME TypeOK, TypeOK', CallOK, [Next]_vars
    PROVE  CallOK'
<1>1. CASE UNCHANGED <<at, call, life, stopCall>>
  BY <1>1 DEF CallOK
<1>2. CASE Next
  <2>0. pend.id \in OrderIds /\ pos.id \in OrderIds
    BY AccountIs DEF Slot
  <2>1. ASSUME NEW q \in Slot, NEW h, Gate(pos, q, h, lost), UNCHANGED <<life, stopCall>>
        PROVE  CallOK'
    BY <2>1 DEF Gate, CallOK, Slot, OrderIds
  <2>2. CASE BarCallNext \/ StopCallNext
    BY <2>1, <2>2, AccountIs DEF BarCallNext, StopCallNext, ExpireReturns, VetoReturns,
       ChaseReturns, ExitReturns, ExitRead, EntryReturns, EntryRead,
       FlatCancelFails, FlatCancelReturns, FlatExitReturns, FlatRead, CallOK
  <2>3. CASE BarNext
    BY <2>0, <2>1, <2>3, AccountIs
       DEF BarNext, BarPasses, BarExits, BarExpires, BarChases, CallOK, OrderIds
  <2>4. CASE HandlerNext
    BY <2>1, <2>4, AccountIs DEF HandlerNext, ExitResumes, ExitRead, ExitDrained,
       SignalDeclines, SignalEnters, EntryResumes, EntryRead, EntrySaved, HandlerSaved, HandlerEnds, CallOK
  <2>5. CASE StopFlattens
    BY <2>0, <2>5 DEF StopFlattens, LetsGo, CallOK, OrderIds
  <2>6. CASE \/ ExitFails \/ EntryFails \/ FlatExitFails \/ StartFails
             \/ StopNext \/ StopPlain \/ Crash
    BY <2>6 DEF ExitFails, EntryFails, FlatExitFails, StartFails, StopNext, StopPlain, LetsGo,
       FlatResumes, FlatRead, FlatDrained, PollEnds, StopUnpolled, StopSaves, StopReturns,
       Crash, CallOK
  <2>7. CASE StartLoads \/ StartNext \/ Writes
    BY <2>7 DEF StartLoads, StartNext, StartReads, StartRuns, StartSaved, Writes, CallOK
  <2>8. CASE AccountNext \/ \E o \in Orders : AccountAnswers(o)
    BY <2>8, <1>1 DEF AccountNext, AccountAnswers, AccountFills, AccountDrops,
       AccountTells, process
  <2>9. QED
    BY <1>2, <2>2, <2>3, <2>4, <2>5, <2>6, <2>7, <2>8 DEF Next
<1>3. QED
  BY <1>1, <1>2 DEF vars, process

\* EngineInv is inductive.
LEMMA InitInv == Init => EngineInv
<1> SUFFICES ASSUME Init PROVE EngineInv
  OBVIOUS
<1>1. TypeOK
  BY InitType
<1>2. CallOK /\ AtOK
  BY DEF Init, CallOK, AtOK
<1>3. BookOK
  BY DEF Init, AccountInit, BookOK, Book, Due, None
<1>4. QED
  BY <1>1, <1>2, <1>3, EngineInvIs

LEMMA StepInv ==
    ASSUME EngineInv, [Next]_vars
    PROVE  EngineInv'
<1>1. TypeOK /\ TypeOK' /\ CallOK /\ CallOK'
  BY StepType, StepCall, EngineInvIs
<1>2. ASSUME ~lost' PROVE BookOK' /\ AtOK'
  <2>1. BookOK /\ AtOK
    BY <1>1, <1>2, LostStays, EngineInvIs
  <2>2. CASE UNCHANGED vars
    BY <2>1, <2>2 DEF vars, accountVars, memory, process, BookOK, AtOK
  <2>3. CASE Next
    <3>1. CASE AccountNext \/ \E o \in Orders : AccountAnswers(o)
      BY <1>1, <1>2, <2>1, <3>1, AccountStepBook DEF AccountNext
    <3>2. CASE BarNext \/ ExpireReturns \/ VetoReturns \/ ChaseReturns \/ HandlerSaved
      BY <1>1, <1>2, <2>1, <3>2, BarStepBook DEF BarNext
    <3>3. CASE \/ ExitReturns \/ ExitResumes \/ ExitFails \/ SignalDeclines \/ SignalEnters
               \/ EntryReturns \/ EntryResumes \/ EntryFails \/ EntrySaved
               \/ HandlerEnds \/ ExitDrained
      BY <1>1, <1>2, <2>1, <3>3, OrderStepBook
    <3>4. CASE \/ Writes \/ StartLoads \/ StartNext \/ StartFails \/ StopPlain
               \/ StopFlattens \/ StopCallNext \/ StopNext
               \/ FlatExitFails \/ Crash
      BY <1>1, <1>2, <2>1, <3>4, LifeStepBook DEF StartNext, StopNext, StopCallNext
    <3>5. QED
      BY <2>3, <3>1, <3>2, <3>3, <3>4 DEF Next, BarCallNext, HandlerNext
  <2>4. QED
    BY <2>2, <2>3
<1>3. EngineInv' <=> TypeOK' /\ CallOK' /\ (~lost' => BookOK' /\ AtOK')
  BY EngineInvIs, PTL
<1>4. QED
  BY <1>1, <1>2, <1>3

\* EngineInv holds in every state, for every set of orders, both kinds of
\* account, every set of faults and any number of restarts.
THEOREM Inductive == Spec => []EngineInv
<1>1. Init => EngineInv
  BY InitInv
<1>2. EngineInv /\ [Next]_vars => EngineInv'
  BY StepInv
<1>3. QED
  BY <1>1, <1>2, PTL DEF Spec

\* Unless the engine forgot an order that may act, the account's position is
\* the engine's, plus the fills of the orders it still names: callbacks,
\* receipts and cancels in any order lose no fill and book none twice.
THEOREM BookAlwaysAgrees == Spec => []BookAgrees
<1>1. EngineInv => BookAgrees
  BY DEF EngineInv
<1>2. QED
  BY <1>1, Inductive, PTL

\* Unless the engine forgot one, the only order that may still fill is the
\* pending entry or the pending exit, and there is never both.
THEOREM NeverStray == Spec => []NoStrayOrder
<1>1. EngineInv => NoStrayOrder
  BY DEF EngineInv
<1>2. QED
  BY <1>1, Inductive, PTL

-------------------------------------------------------------------------------
(* The cycle of trades: what a step of the engine does to the account.     *)

WorkingOf(st, sd) == {<<o, sd[o]>> : o \in {p \in Orders : st[p] \in {"sent", "working"}}}

\* Order o goes on: it fills, or it is over without.
Moves(o) ==
    /\ status[o] \in {"sent", "working"}
    /\ \E s \in OrderStatus \ {"none", "sent"} :
          /\ status' = [status EXCEPT ![o] = s]
          /\ net' = IF s = "filled" THEN net + side[o] ELSE net
    /\ side' = side

\* Order o is sent, after c was canceled, if that is another.
Sends(c, o) ==
    /\ status[o] = "none" /\ net' = net
    /\ LET after == IF c = o THEN status ELSE [status EXCEPT ![c] = "canceled"]
       IN  /\ c # o => status[c] = "working" /\ pos.dir # 0
           /\ status' = [after EXCEPT ![o] = "sent"]
           /\ \E d \in {-1, 1} :
                /\ side' = [side EXCEPT ![o] = d]
                /\ \/ pos.dir = 0 /\ pend.dir = 0
                   \/ pos.dir # 0 /\ d = -pos.dir /\ ~MayAct(after, pos.client)

Still == UNCHANGED <<status, side, net>>
AccountDoes == Still \/ (\E o \in Orders : Moves(o)) \/ (\E c, o \in Orders : Sends(c, o))

LEMMA ReachMoves ==
    ASSUME NEW o \in Orders, NEW s \in OrderStatus \ {"none", "sent"}, Reach(o, s),
           status[o] \in {"sent", "working"}
    PROVE  AccountDoes
  BY DEF Reach, Moves, AccountDoes

LEMMA CancelMoves ==
    ASSUME NEW o \in Orders, CancelWorks(o) \/ CancelIsVoid(o) \/ CancelRaises(o)
    PROVE  AccountDoes
<1>1. CASE CancelWorks(o)
  BY <1>1, ReachMoves DEF CancelWorks, OrderStatus, Done
<1>2. CASE CancelIsVoid(o) \/ CancelRaises(o)
  BY <1>2 DEF CancelIsVoid, CancelRaises, accountVars, AccountDoes, Still
<1>3. QED
  BY <1>1, <1>2

LEMMA NeverMoves ==
    ASSUME NEW o \in Orders, UNCHANGED accountVars \/ NeverArrives(o)
    PROVE  AccountDoes
  BY DEF NeverArrives, accountVars, Moves, AccountDoes, Still, OrderStatus, Done

LEMMA SendSends ==
    ASSUME NEW o \in Orders, NEW d \in {-1, 1}, NEW m, Send(o, d, m),
           \/ pos.dir = 0 /\ pend.dir = 0
           \/ pos.dir # 0 /\ d = -pos.dir /\ ~MayAct(status, pos.client)
    PROVE  AccountDoes
<1>1. Sends(o, o)
  BY DEF Send, Sends
<1>2. QED
  BY <1>1 DEF AccountDoes

\* What the account does in a step of the account.
LEMMA AccountMovesDoes ==
    ASSUME NEW o \in Orders,
           AccountAnswers(o) \/ AccountFills(o) \/ AccountDrops(o) \/ AccountTells(o)
    PROVE  AccountDoes
<1>1. CASE AccountAnswers(o)
  <2>1. PICK s \in Answers(o) : Reach(o, s) /\ status[o] = "sent"
    BY <1>1 DEF AccountAnswers, AccountMoves
  <2>2. s \in OrderStatus \ {"none", "sent"}
    BY <2>1 DEF Answers, OrderStatus, Done
  <2>3. QED
    BY <2>1, <2>2, ReachMoves
<1>2. CASE AccountFills(o)
  BY <1>2, ReachMoves DEF AccountFills, AccountMoves, OrderStatus, Done
<1>3. CASE AccountDrops(o)
  BY <1>3, ReachMoves DEF AccountDrops, AccountMoves, OrderStatus, Done
<1>4. CASE AccountTells(o)
  BY <1>4 DEF AccountTells, Tell, AccountDoes, Still
<1>5. QED
  BY <1>1, <1>2, <1>3, <1>4

\* What the account does in a step of the handler.
LEMMA HandlerDoes ==
    ASSUME TypeOK, CallOK, BookOK, AtOK,
           BarNext \/ BarCallNext \/ HandlerNext \/ ExitFails \/ EntryFails
    PROVE  AccountDoes
<1>0. /\ at \in {"exit", "entry", "expire", "veto"} => call \in Orders
      /\ pos.dir \in {-1, 0, 1} /\ NoOrder \notin Orders
  BY OrderAssumption DEF CallOK, TypeOK, Slot
<1>1. CASE BarExits
  <2>1. PICK o \in Orders, m \in BOOLEAN : Send(o, -pos.dir, m)
    BY <1>1 DEF BarExits
  <2>2. pos.dir # 0 /\ -pos.dir \in {-1, 1} /\ ~MayAct(status, pos.client)
    BY <1>0, <1>1 DEF BarExits, MayAct
  <2>3. QED
    BY <2>1, <2>2, SendSends
<1>2. CASE SignalEnters
  <2>1. PICK o \in Orders, d \in Dirs, m \in BOOLEAN : Send(o, d, m)
    BY <1>2 DEF SignalEnters
  <2>2. d \in {-1, 1} /\ pos.dir = 0 /\ pend.dir = 0
    BY <1>2, EngineAssumption DEF SignalEnters, AtOK
  <2>3. QED
    BY <2>1, <2>2, SendSends
<1>3. CASE ExpireReturns \/ VetoReturns
  <2>1. call \in Orders /\ \/ CancelWorks(call) \/ CancelIsVoid(call) \/ CancelRaises(call)
    BY <1>0, <1>3 DEF ExpireReturns, VetoReturns
  <2>2. QED
    BY <2>1, CancelMoves
<1>4. CASE ExitFails \/ EntryFails
  <2>1. call \in Orders /\ (UNCHANGED accountVars \/ NeverArrives(call))
    BY <1>0, <1>4 DEF ExitFails, ExitRaises, EntryFails
  <2>2. QED
    BY <2>1, NeverMoves
<1>5. CASE \/ BarPasses \/ BarExpires \/ BarChases \/ ChaseReturns \/ ExitReturns \/ ExitResumes
           \/ EntryReturns \/ EntryResumes \/ EntrySaved \/ ExitDrained \/ SignalDeclines
           \/ HandlerSaved \/ HandlerEnds
  BY <1>5 DEF BarPasses, BarExpires, BarChases, ChaseReturns, ExitReturns, ExitResumes, ExitRead,
     ExitReceipt, ExitHeard, EntryReturns, EntryResumes, EntryRead, EntrySaved, ExitDrained,
     SignalDeclines, HandlerSaved, HandlerEnds, accountVars, AccountDoes, Still
<1>6. QED
  BY <1>1, <1>2, <1>3, <1>4, <1>5 DEF BarNext, BarCallNext, HandlerNext

\* What the account does when stop() sends an exit in place of the one it
\* canceled: unless that may act yet, the engine still has no exit out.
LEMMA FlatDoes ==
    ASSUME TypeOK, CallOK, BookOK, FlatCancelReturns, ~lost'
    PROVE  AccountDoes
<1> DEFINE works == status[stopCall] = "working"
           after == IF works THEN [status EXCEPT ![stopCall] = "canceled"] ELSE status
<1>1. PICK o \in Orders : /\ status[o] = "none"
                          /\ status' = [after EXCEPT ![o] = "sent"]
                          /\ side' = [side EXCEPT ![o] = -pos.dir]
  BY DEF FlatCancelReturns
<1>2. /\ stopCall \in Orders /\ pos.dir # 0 /\ net' = net /\ -pos.dir \in {-1, 1}
      /\ ~MayAct(after, pos.client)
  <2>1. stopCall \in Orders /\ pos.dir # 0 /\ net' = net /\ pos.dir \in {-1, 0, 1}
    BY DEF FlatCancelReturns, CallOK, TypeOK, Slot
  <2>2. lost' = (lost \/ Forgets(after, pos))
    BY DEF FlatCancelReturns
  <2>3. ~Forgets(after, pos)
    BY <2>2
  <2>4. QED
    BY <2>1, <2>3 DEF Forgets
<1>3. CASE works
  <2>1. stopCall # o
    BY <1>1, <1>3
  <2>2. after = [status EXCEPT ![stopCall] = "canceled"]
    BY <1>3
  <2>3. Sends(stopCall, o)
    BY <1>1, <1>2, <1>3, <2>1, <2>2 DEF Sends
  <2>4. QED
    BY <1>2, <2>3 DEF AccountDoes
<1>4. CASE ~works
  <2>1. Sends(o, o)
    BY <1>1, <1>2, <1>4 DEF Sends
  <2>2. QED
    BY <2>1 DEF AccountDoes
<1>5. QED
  BY <1>3, <1>4

\* What the account does in a step of start(), stop() or the storage.
LEMMA LifeDoes ==
    ASSUME TypeOK, CallOK, BookOK, ~lost',
           \/ Writes \/ StartLoads \/ StartNext \/ StartFails \/ StopPlain
           \/ StopFlattens \/ StopCallNext \/ StopNext \/ FlatExitFails \/ Crash
    PROVE  AccountDoes
<1>0. /\ at = "exit" \/ at = "entry" => call \in Orders
      /\ life = "flatExit" \/ life = "flatCancel" => stopCall \in Orders
      /\ pos.dir \in {-1, 0, 1} /\ NoOrder \notin Orders
  BY OrderAssumption DEF CallOK, TypeOK, Slot
<1>1. CASE StopFlattens
  <2>1. CASE UNCHANGED accountVars
    BY <2>1 DEF accountVars, AccountDoes, Still
  <2>2. CASE pos.dir # 0 /\ pos.client = NoOrder /\ \E o \in Orders : Send(o, -pos.dir, TRUE)
    <3>1. PICK o \in Orders : Send(o, -pos.dir, TRUE)
      BY <2>2
    <3>2. -pos.dir \in {-1, 1} /\ ~MayAct(status, pos.client)
      BY <1>0, <2>2 DEF MayAct
    <3>3. QED
      BY <2>2, <3>1, <3>2, SendSends
  <2>3. QED
    BY <1>1, <2>1, <2>2 DEF StopFlattens
<1>2. CASE PollEnds
  <2>1. UNCHANGED accountVars \/ (call \in Orders /\ NeverArrives(call))
    BY <1>0, <1>2 DEF PollEnds, ExitRaises
  <2>2. CASE UNCHANGED accountVars
    BY <2>2 DEF accountVars, AccountDoes, Still
  <2>3. QED
    BY <2>1, <2>2, NeverMoves
<1>3. CASE FlatCancelFails
  <2>1. /\ stopCall \in Orders
        /\ CancelWorks(stopCall) \/ CancelIsVoid(stopCall) \/ CancelRaises(stopCall)
    BY <1>0, <1>3 DEF FlatCancelFails
  <2>2. QED
    BY <2>1, CancelMoves
<1>4. CASE FlatCancelReturns
  BY <1>4, FlatDoes
<1>5. CASE FlatExitFails
  <2>1. stopCall \in Orders /\ (UNCHANGED accountVars \/ NeverArrives(stopCall))
    BY <1>0, <1>5 DEF FlatExitFails, ExitRaises
  <2>2. QED
    BY <2>1, NeverMoves
<1>6. CASE \/ Writes \/ StartLoads \/ StartNext \/ StartFails \/ StopPlain \/ FlatExitReturns
           \/ FlatResumes \/ FlatDrained \/ StopUnpolled \/ StopSaves \/ StopReturns \/ Crash
  BY <1>6 DEF Writes, StartLoads, StartNext, StartReads, StartRuns, StartSaved, StartFails,
     StopPlain, FlatExitReturns, FlatResumes, FlatRead, FlatDrained, ExitReceipt, ExitHeard,
     StopUnpolled, StopSaves, StopReturns, Crash, accountVars, AccountDoes, Still
<1>7. QED
  BY <1>1, <1>2, <1>3, <1>4, <1>5, <1>6 DEF StopCallNext, StopNext

\* While the engine has forgotten nothing, every step does one of these things.
LEMMA StepDoes ==
    ASSUME EngineInv, [Next]_vars, ~lost'
    PROVE  AccountDoes /\ BookOK /\ TypeOK /\ ~lost
<1>1. TypeOK /\ CallOK /\ BookOK /\ AtOK /\ ~lost
  <2>1. TypeOK
    BY EngineInvIs
  <2>2. ~lost
    BY <2>1, LostStays
  <2>3. QED
    BY <2>2, EngineInvIs
<1> SUFFICES AccountDoes
  BY <1>1
<1>2. CASE UNCHANGED vars
  BY <1>2 DEF vars, accountVars, AccountDoes, Still
<1>3. CASE Next
  <2>1. CASE AccountNext \/ \E o \in Orders : AccountAnswers(o)
    <3>1. PICK o \in Orders : \/ AccountAnswers(o) \/ AccountFills(o) \/ AccountDrops(o)
                              \/ AccountTells(o)
      BY <2>1 DEF AccountNext
    <3>2. QED
      BY <3>1, AccountMovesDoes
  <2>2. CASE BarNext \/ BarCallNext \/ HandlerNext \/ ExitFails \/ EntryFails
    BY <1>1, <2>2, HandlerDoes
  <2>3. CASE \/ Writes \/ StartLoads \/ StartNext \/ StartFails \/ StopPlain
             \/ StopFlattens \/ StopCallNext \/ StopNext \/ FlatExitFails \/ Crash
    BY <1>1, <2>3, LifeDoes
  <2>4. QED
    BY <1>3, <2>1, <2>2, <2>3 DEF Next
<1>4. QED
  BY <1>2, <1>3

\* With an order out, it is the only one.
LEMMA OneWorks ==
    ASSUME TypeOK, BookOK, NEW o \in Orders, status[o] \in {"sent", "working"}
    PROVE  WorkingOf(status, side) = {<<o, side[o]>>}
<1>1. \A p \in Orders : status[p] \in {"sent", "working"} => p = o
  BY DEF BookOK, Book
<1>2. QED
  BY <1>1 DEF WorkingOf

\* With none out, the account is where the engine thinks it is.
LEMMA NoneWorks ==
    ASSUME TypeOK, BookOK,
           pend.dir = 0, pos.dir # 0 => ~MayAct(status, pos.client)
    PROVE  WorkingOf(status, side) = {} /\ net = pos.dir
<1>0. pos.dir \in {-1, 0, 1} /\ pos.client \in OrderIds
  BY DEF TypeOK, Slot
<1>1. \A p \in Orders : status[p] \notin {"sent", "working"}
  BY DEF BookOK, Book, MayAct
<1>2. Due(status, pos) = 0 /\ Due(status, pend) = 0
  BY <1>0 DEF Due, MayAct, OrderIds
<1>3. QED
  BY <1>0, <1>1, <1>2 DEF WorkingOf, BookOK, Book

\* The orders that are out after one was sent or went on.
LEMMA WorkingAfter ==
    ASSUME NEW f \in [Orders -> OrderStatus], NEW o \in Orders, NEW s \in OrderStatus, NEW sd \in [Orders -> {-1, 1}],
           \A p \in Orders \ {o} : f[p] \notin {"sent", "working"}
    PROVE  WorkingOf([f EXCEPT ![o] = s], sd) =
               IF s \in {"sent", "working"} THEN {<<o, sd[o]>>} ELSE {}
<1> DEFINE st == [f EXCEPT ![o] = s]
<1>1. st[o] = s /\ \A p \in Orders \ {o} : st[p] = f[p]
  OBVIOUS
<1> HIDE DEF st
<1>2. CASE s \in {"sent", "working"}
  <2>1. {p \in Orders : st[p] \in {"sent", "working"}} = {o}
    BY <1>1, <1>2
  <2>2. QED
    BY <1>2, <2>1 DEF WorkingOf, st
<1>3. CASE s \notin {"sent", "working"}
  <2>1. {p \in Orders : st[p] \in {"sent", "working"}} = {}
    BY <1>1, <1>3
  <2>2. QED
    BY <1>3, <2>1 DEF WorkingOf, st
<1>4. QED
  BY <1>2, <1>3

\* An order that goes on is the one that is out, and finishes or stays.
LEMMA MovesCycle ==
    ASSUME TypeOK, BookOK, NEW o \in Orders, Moves(o)
    PROVE  /\ WorkingOf(status, side) = {<<o, side[o]>>}
           /\ \/ WorkingOf(status', side') = WorkingOf(status, side) /\ net' = net
              \/ WorkingOf(status', side') = {} /\ net' \in {net, net + side[o]}
<1>1. status[o] \in {"sent", "working"} /\ side' = side
  BY DEF Moves
<1>2. PICK s \in OrderStatus \ {"none", "sent"} :
          /\ status' = [status EXCEPT ![o] = s]
          /\ net' = IF s = "filled" THEN net + side[o] ELSE net
  BY DEF Moves
<1>3. \A p \in Orders \ {o} : status[p] \notin {"sent", "working"}
  BY <1>1 DEF BookOK, Book
<1>4. side' \in [Orders -> {-1, 1}]
  BY <1>1 DEF TypeOK, AccountTypeOK
<1>0. status \in [Orders -> OrderStatus]
  BY DEF TypeOK, AccountTypeOK
<1>5. WorkingOf(status', side') = IF s \in {"sent", "working"} THEN {<<o, side'[o]>>} ELSE {}
  BY <1>0, <1>2, <1>3, <1>4, WorkingAfter
<1>6. QED
  BY <1>1, <1>2, <1>5, OneWorks

\* An order is sent to enter from flat, or to leave the position when none or
\* only an exit is out.
LEMMA SendsCycle ==
    ASSUME TypeOK, BookOK, NEW c \in Orders, NEW o \in Orders, Sends(c, o)
    PROVE  /\ net' = net
           /\ \E d \in {-1, 1} :
                /\ WorkingOf(status', side') = {<<o, d>>}
                /\ \/ net = 0 /\ WorkingOf(status, side) = {}
                   \/ /\ net # 0 /\ d = -net
                      /\ WorkingOf(status, side) \subseteq {<<p, -net>> : p \in Orders \ {o}}
<1> DEFINE after == IF c = o THEN status ELSE [status EXCEPT ![c] = "canceled"]
<1>1. PICK d \in {-1, 1} :
          /\ side' = [side EXCEPT ![o] = d]
          /\ \/ pos.dir = 0 /\ pend.dir = 0
             \/ pos.dir # 0 /\ d = -pos.dir /\ ~MayAct(after, pos.client)
  BY DEF Sends
<1>2. /\ status[o] = "none" /\ net' = net /\ status' = [after EXCEPT ![o] = "sent"]
      /\ c # o => status[c] = "working" /\ pos.dir # 0
  BY DEF Sends
<1>3. /\ side' \in [Orders -> {-1, 1}] /\ side'[o] = d
      /\ pos.dir \in {-1, 0, 1}
      /\ pos.dir # 0 => pend.dir = 0
  BY <1>1 DEF TypeOK, AccountTypeOK, Slot, BookOK, Book
<1>4. after \in [Orders -> OrderStatus]
  BY DEF TypeOK, AccountTypeOK, OrderStatus, Done
<1>5. CASE c = o
  <2>1. after = status
    BY <1>5
  <2>2. WorkingOf(status, side) = {} /\ net = pos.dir
    <3>1. pend.dir = 0 /\ (pos.dir # 0 => ~MayAct(status, pos.client))
      BY <1>1, <1>3, <2>1
    <3>2. QED
      BY <3>1, NoneWorks
  <2>3. \A p \in Orders \ {o} : status[p] \notin {"sent", "working"}
    BY <1>1, <1>3, <2>1 DEF BookOK, Book, MayAct
  <2>4. WorkingOf(status', side') = {<<o, d>>}
    <3>1. status' = [status EXCEPT ![o] = "sent"] /\ side' \in [Orders -> {-1, 1}]
      BY <1>2, <1>3, <2>1
    <3>2. PICK s \in OrderStatus : s = "sent"
      BY DEF OrderStatus
    <3>3. WorkingOf(status', side') = IF s \in {"sent", "working"} THEN {<<o, side'[o]>>} ELSE {}
      <4>1. /\ status \in [Orders -> OrderStatus] /\ status' = [status EXCEPT ![o] = s]
            /\ side' \in [Orders -> {-1, 1}]
        BY <3>1, <3>2 DEF TypeOK, AccountTypeOK
      <4>2. QED
        BY <2>3, <4>1, WorkingAfter
    <3>4. QED
      BY <1>3, <3>2, <3>3
  <2>5. QED
    BY <1>1, <1>2, <1>3, <2>2, <2>4
<1>6. CASE c # o
  <2>0. after = [status EXCEPT ![c] = "canceled"]
    BY <1>6
  <2>1. status[c] = "working" /\ pos.dir # 0 /\ pend.dir = 0
    <3>1. status[c] = "working" /\ pos.dir # 0
      BY <1>2, <1>6
    <3>2. QED
      BY <1>3, <3>1
  <2>2. pos.client = c /\ side[c] = -pos.dir
    BY <2>1, OrderAssumption DEF BookOK, Book
  <2>3. WorkingOf(status, side) = {<<c, -pos.dir>>}
    BY <2>1, <2>2, OneWorks
  <2>4. net = pos.dir
    <3>1. Due(status, pos) = 0 /\ Due(status, pend) = 0
      BY <2>1, <2>2 DEF Due
    <3>2. net = pos.dir + Due(status, pend) - Due(status, pos)
      BY DEF BookOK, Book
    <3>3. QED
      BY <1>3, <3>1, <3>2
  <2>5. \A p \in Orders : status'[p] \in {"sent", "working"} <=> p = o
    <3>1. \A p \in Orders : status'[p] = IF p = o THEN "sent" ELSE after[p]
      BY <1>2, <1>4
    <3>2. \A p \in Orders : after[p] = IF p = c THEN "canceled" ELSE status[p]
      BY <2>0 DEF TypeOK, AccountTypeOK
    <3>3. \A p \in Orders : status[p] \in {"sent", "working"} => p = c
      BY <2>1, <2>2 DEF BookOK, Book
    <3>4. QED
      BY <3>1, <3>2, <3>3
  <2>6. {p \in Orders : status'[p] \in {"sent", "working"}} = {o}
    BY <2>5
  <2>7. WorkingOf(status', side') = {<<o, d>>}
    BY <1>3, <2>6 DEF WorkingOf
  <2>8. <<c, -net>> \in {<<p, -net>> : p \in Orders \ {o}}
    BY <1>6
  <2>9. QED
    BY <1>1, <1>2, <1>3, <2>1, <2>3, <2>4, <2>7, <2>8
<1>7. QED
  BY <1>5, <1>6

\* Every step of the engine is one of the cycle, or none.
LEMMA StepCycles ==
    ASSUME EngineInv, [Next]_vars
    PROVE  [Cycle!CycleNext]_(Cycle!cycleVars)
<1> USE DEF Cycle!CycleNext, Cycle!cycleVars
<1>1. CASE lost'
  BY <1>1 DEF Cycle!Forget
<1>2. CASE ~lost'
  <2>1. AccountDoes /\ BookOK /\ TypeOK /\ ~lost
    BY <1>2, StepDoes
  <2>2. lost' = lost
    <3>1. lost \in BOOLEAN /\ lost' \in BOOLEAN
      BY StepType, EngineInvIs DEF TypeOK
    <3>2. QED
      BY <1>2, <2>1, <3>1
  <2>3. /\ WorkingOf(status, side) = {<<o, side[o]>> : o \in {p \in Orders : Live(p)}}
        /\ WorkingOf(status', side') = {<<o, side'[o]>> : o \in {p \in Orders : Live(p)'}}
    BY DEF WorkingOf, Live
  <2>4. CASE Still
    BY <2>2, <2>4 DEF Still, Live
  <2>5. ASSUME NEW o \in Orders, Moves(o) PROVE [Cycle!CycleNext]_(Cycle!cycleVars)
    <3>1. WorkingOf(status, side) = {<<o, side[o]>>}
      BY <2>1, <2>5, MovesCycle
    <3>2. CASE WorkingOf(status', side') = WorkingOf(status, side) /\ net' = net
      BY <2>2, <2>3, <3>2
    <3>3. CASE WorkingOf(status', side') = {} /\ net' \in {net, net + side[o]}
      <4> DEFINE w == <<o, side[o]>>
      <4>1. /\ {<<p, side[p]>> : p \in {q \in Orders : Live(q)}} = {w}
            /\ {<<p, side'[p]>> : p \in {q \in Orders : Live(q)'}} = {}
            /\ net' \in {net, net + w[2]} /\ lost' = lost
        BY <2>2, <2>3, <3>1, <3>3
      <4>2. w \in {<<p, side[p]>> : p \in {q \in Orders : Live(q)}}
        BY <4>1
      <4> HIDE DEF w
      <4>3. Cycle!CycleNext
        BY <4>1, <4>2, Zenon DEF Cycle!Finish
      <4>4. QED
        BY <4>3
    <3>4. QED
      BY <2>1, <2>5, <3>2, <3>3, MovesCycle
  <2>6. ASSUME NEW c \in Orders, NEW o \in Orders, Sends(c, o)
        PROVE  [Cycle!CycleNext]_(Cycle!cycleVars)
    <3>1. PICK d \in {-1, 1} :
              /\ WorkingOf(status', side') = {<<o, d>>}
              /\ \/ net = 0 /\ WorkingOf(status, side) = {}
                 \/ /\ net # 0 /\ d = -net
                    /\ WorkingOf(status, side) \subseteq {<<p, -net>> : p \in Orders \ {o}}
      BY <2>1, <2>6, SendsCycle
    <3>2. net' = net
      BY <2>1, <2>6, SendsCycle
    <3>3. CASE net = 0 /\ WorkingOf(status, side) = {}
      BY <2>2, <2>3, <3>1, <3>2, <3>3 DEF Cycle!Enter
    <3>4. CASE /\ net # 0 /\ d = -net
               /\ WorkingOf(status, side) \subseteq {<<p, -net>> : p \in Orders \ {o}}
      BY <2>2, <2>3, <3>1, <3>2, <3>4 DEF Cycle!Leave
    <3>5. QED
      BY <3>1, <3>3, <3>4
  <2>7. QED
    BY <2>1, <2>4, <2>5, <2>6 DEF AccountDoes
<1>3. QED
  BY <1>1, <1>2

\* Until it forgets an order, the engine trades in turn: entries from flat,
\* exits for the whole position, one order out at a time.
THEOREM TradesAreInTurn == Spec => TradesInTurn
<1>1. Init => Cycle!CycleInit
  BY DEF Init, AccountInit, Cycle!CycleInit, Live
<1>2. EngineInv /\ [Next]_vars => [Cycle!CycleNext]_(Cycle!cycleVars)
  BY StepCycles
<1>3. QED
  BY <1>1, <1>2, Inductive, PTL DEF Spec, TradesInTurn, Cycle!CycleSpec

-------------------------------------------------------------------------------
(* The stored state.  While no submit can fail, what memory has and the    *)
(* disk does not is on its way there: the last write asked for has it, a   *)
(* trade about to be logged will ask for one, or the handler waits for an  *)
(* answer after which it will.                                             *)

Has(s, by) == \E i \in 1 .. Len(s) : s[i].by = by
LastOf(s, d) == IF s = <<>> THEN d ELSE s[Len(s)].state

\* The awaits after which the handler asks for a write of what it has.
Waiting ==
    \/ at \in {"exit", "exitHeard", "exitDrain"}
    \/ at \in {"entry", "entryHeard"} /\ pend.dir # 0

Settled == Waiting \/ Has(saves, "trade") \/ LastOf(saves, disk) = Snapshot

DurableInv ==
    /\ TypeOK
    /\ life \in {"loaded", "read", "started", "on"} => ~Has(saves, "void")
    /\ "submit" \notin Faults /\ life \in {"started", "on"} => Settled

\* One more write asked for is the last one.
LEMMA AppendLast ==
    ASSUME NEW s \in Seq(Jobs), NEW by, NEW p, NEW q, NEW d
    PROVE  /\ LastOf(Append(s, Job(by, p, q)), d) = [pos |-> p, pend |-> q]
           /\ \A k : Has(Append(s, Job(by, p, q)), k) <=> Has(s, k) \/ k = by
<1> DEFINE t == Append(s, Job(by, p, q))
<1>1. /\ Len(s) \in Nat /\ Len(t) = Len(s) + 1 /\ t # <<>>
      /\ t[Len(s) + 1] = Job(by, p, q)
      /\ \A i \in 1 .. Len(s) : t[i] = s[i]
  OBVIOUS
<1> HIDE DEF t
<1>2. LastOf(t, d) = [pos |-> p, pend |-> q]
  BY <1>1 DEF LastOf, Job
<1>3. ASSUME NEW k PROVE Has(t, k) <=> Has(s, k) \/ k = by
  <2>1. Job(by, p, q).by = by
    BY DEF Job
  <2>2. 1 .. Len(t) = (1 .. Len(s)) \cup {Len(s) + 1}
    BY <1>1
  <2>3. QED
    BY <1>1, <2>1, <2>2 DEF Has
<1>4. QED
  BY <1>2, <1>3 DEF t

\* The first write taken off the queue.
LEMMA TailLast ==
    ASSUME NEW s \in Seq(Jobs), s # <<>>
    PROVE  /\ \A k : Has(Tail(s), k) => Has(s, k)
           /\ \A k : Has(s, k) => Head(s).by = k \/ Has(Tail(s), k)
           /\ \A d, e : LastOf(s, d) = LastOf(Tail(s), IF Tail(s) = <<>> THEN Head(s).state ELSE e)
<1> DEFINE t == Tail(s)
<1>1. /\ Len(s) \in Nat \ {0} /\ Len(t) = Len(s) - 1
      /\ Head(s) = s[1]
      /\ \A i \in 1 .. Len(t) : t[i] = s[i + 1]
      /\ t \in Seq(Jobs)
  OBVIOUS
<1>0. t = <<>> <=> Len(t) = 0
  BY <1>1
<1> HIDE DEF t
<1>2. ASSUME NEW k, Has(t, k) PROVE Has(s, k)
  <2>1. PICK i \in 1 .. Len(t) : t[i].by = k
    BY <1>2 DEF Has
  <2>2. i + 1 \in 1 .. Len(s) /\ s[i + 1].by = k
    BY <1>1, <2>1
  <2>3. QED
    BY <2>2 DEF Has
<1>3. ASSUME NEW k, Has(s, k), Head(s).by # k PROVE Has(t, k)
  <2>1. PICK i \in 1 .. Len(s) : s[i].by = k
    BY <1>3 DEF Has
  <2>2. i # 1
    BY <1>1, <1>3, <2>1
  <2>3. i - 1 \in 1 .. Len(t) /\ t[i - 1] = s[(i - 1) + 1] /\ (i - 1) + 1 = i
    BY <1>1, <2>2
  <2>4. QED
    BY <2>1, <2>3 DEF Has
<1>4. ASSUME NEW d, NEW e
      PROVE  LastOf(s, d) = LastOf(t, IF t = <<>> THEN Head(s).state ELSE e)
  <2>1. CASE t = <<>>
    <3>1. Len(s) = 1
      BY <1>0, <1>1, <2>1
    <3>2. LastOf(s, d) = Head(s).state
      BY <1>1, <3>1 DEF LastOf
    <3>3. LastOf(t, Head(s).state) = Head(s).state
      BY <2>1 DEF LastOf
    <3>4. QED
      BY <2>1, <3>2, <3>3
  <2>2. CASE t # <<>>
    <3>1. Len(t) \in 1 .. Len(t) /\ Len(t) + 1 = Len(s) /\ s # <<>>
      BY <1>0, <1>1, <2>2
    <3>2. QED
      BY <1>1, <2>2, <3>1 DEF LastOf
  <2>3. QED
    BY <2>1, <2>2
<1>5. QED
  BY <1>2, <1>3, <1>4 DEF t

\* A step that asks for a write of what memory will have.
LEMMA AskSettles ==
    ASSUME TypeOK, NEW by, Asks(by, pos', pend'), by # "void"
    PROVE  /\ Settled'
           /\ Has(saves, "void")' => Has(saves, "void")
<1>1. saves \in Seq(Jobs)
  BY DEF TypeOK
<1>2. saves' = Append(saves, Job(by, pos', pend'))
  BY DEF Asks
<1>3. LastOf(saves', disk') = [pos |-> pos', pend |-> pend']
  BY <1>1, <1>2, AppendLast
<1>4. \A k : Has(saves', k) <=> Has(saves, k) \/ k = by
  BY <1>1, <1>2, AppendLast
<1>5. QED
  BY <1>3, <1>4 DEF Settled, Snapshot, LastOf, Has

\* A step that leaves memory, writes and disk, and the handler's wait.
LEMMA RestSettles ==
    ASSUME UNCHANGED <<pos, pend, saves, disk>>, Waiting => Waiting'
    PROVE  /\ Settled => Settled'
           /\ Has(saves, "void")' => Has(saves, "void")
  BY DEF Settled, Snapshot, LastOf, Has

\* What a step does for the stored state.
Keeps ==
    /\ Has(saves', "void") => Has(saves, "void")
    /\ "submit" \notin Faults /\ Settled => Settled'

LEMMA KeepsBy ==
    ASSUME TypeOK, UNCHANGED disk,
           \/ \E by \in {"bar", "life", "task", "trade"} : Asks(by, pos', pend')
           \/ /\ UNCHANGED saves
              /\ \/ Waiting'
                 \/ UNCHANGED <<pos, pend>> /\ (Waiting /\ "submit" \notin Faults => Waiting')
    PROVE  Keeps
<1>1. CASE \E by \in {"bar", "life", "task", "trade"} : Asks(by, pos', pend')
  <2>1. PICK by \in {"bar", "life", "task", "trade"} : Asks(by, pos', pend')
    BY <1>1
  <2>2. by # "void"
    OBVIOUS
  <2>3. /\ Settled'
        /\ Has(saves, "void")' => Has(saves, "void")
    BY <2>1, <2>2, AskSettles
  <2>4. QED
    BY <2>3 DEF Keeps, Has
<1>2. CASE UNCHANGED saves /\ Waiting'
  BY <1>2 DEF Keeps, Settled
<1>3. CASE /\ UNCHANGED <<saves, pos, pend>>
           /\ Waiting /\ "submit" \notin Faults => Waiting'
  BY <1>3 DEF Keeps, Settled, Snapshot
<1>4. QED
  BY <1>1, <1>2, <1>3

\* What callbacks, receipts and the tail of a bar do for the stored state.
LEMMA FilledAsks ==
    ASSUME NEW p, NEW o, Filled(p, o)
    PROVE  \/ \E by \in {"task", "trade"} : Asks(by, pos', pend')
           \/ pos' = p /\ UNCHANGED <<pend, saves>>
  BY DEF Filled

LEMMA RefusedAsks ==
    ASSUME NEW o, Refused(o)
    PROVE  Asks("task", pos', pend') \/ UNCHANGED <<pos, pend, saves>>
  BY DEF Refused

LEMMA GateAsks ==
    ASSUME NEW h, NEW l, Gate(pos, pend, h, l), UNCHANGED pos
    PROVE  /\ Asks("bar", pos', pend') \/ UNCHANGED <<pend, saves>>
           /\ at' \in {"signal", "idle", "veto", "vetoSave"}
  BY DEF Gate

\* The account's steps.
LEMMA AccountKeeps ==
    ASSUME TypeOK, NEW o \in Orders,
           \/ AccountAnswers(o) \/ AccountFills(o)
           \/ AccountDrops(o) \/ AccountTells(o)
    PROVE  Keeps
<1>1. UNCHANGED <<disk, at>>
  BY DEF AccountAnswers, AccountFills, AccountDrops, AccountTells, process
<1>2. \E s : Hears(o, s) \/ UNCHANGED memory
  BY DEF AccountAnswers, AccountFills, AccountDrops, AccountTells, AccountMoves
<1>3. PICK s : Hears(o, s) \/ UNCHANGED memory
  BY <1>2
<1>4. CASE \E by \in {"task", "trade"} : Asks(by, pos', pend')
  BY <1>1, <1>4, KeepsBy
<1>5. CASE UNCHANGED <<pos, pend, saves>>
  <2>1. Waiting => Waiting'
    BY <1>1, <1>5 DEF Waiting
  <2>2. QED
    BY <1>1, <1>5, <2>1, KeepsBy
<1>6. QED
  BY <1>3, <1>4, <1>5, FilledAsks, RefusedAsks DEF Hears, memory

\* The handler's steps up to the end of a bar's management of its orders.
LEMMA BarKeeps ==
    ASSUME TypeOK,
           \/ BarPasses \/ BarExits \/ BarExpires \/ BarChases
           \/ ExpireReturns \/ VetoReturns \/ ChaseReturns \/ HandlerSaved
    PROVE  Keeps
<1>1. UNCHANGED disk
  BY DEF BarPasses, BarExits, BarExpires, BarChases, ExpireReturns, VetoReturns,
     ChaseReturns, HandlerSaved
<1>2. ~Waiting
  BY DEF Waiting, BarPasses, BarExits, BarExpires, BarChases, BarBegins, ExpireReturns,
     VetoReturns, ChaseReturns, HandlerSaved
<1>3. ASSUME NEW by \in {"bar", "life", "task", "trade"}, Asks(by, pos', pend') PROVE Keeps
  BY <1>1, <1>3, KeepsBy
<1>4. ASSUME UNCHANGED <<pos, pend, saves>> PROVE Keeps
  BY <1>1, <1>2, <1>4, KeepsBy
<1>5. ASSUME NEW h, NEW l, Gate(pos, pend, h, l), UNCHANGED pos PROVE Keeps
  BY <1>3, <1>4, <1>5, GateAsks
<1>6. ASSUME saves' = Append(AfterCancel(call, pos, None), Job("bar", pos, None)),
             UNCHANGED pos, pend' = None
      PROVE  Keeps
  <2>1. saves \in Seq(Jobs) /\ pos \in Slot /\ None \in Slot
    BY DEF TypeOK, None, Slot, OrderIds
  <2>2. PICK s \in Seq(Jobs) :
          /\ s = AfterCancel(call, pos, None)
          /\ Has(s, "void") => Has(saves, "void")
    <3>1. Append(saves, Job("task", pos, None)) \in Seq(Jobs)
      BY <2>1, AsksType
    <3>2. Has(Append(saves, Job("task", pos, None)), "void") => Has(saves, "void")
      BY <2>1, AppendLast
    <3>3. QED
      BY <2>1, <3>1, <3>2 DEF AfterCancel
  <2>3. /\ LastOf(saves', disk') = [pos |-> pos, pend |-> None]
        /\ Has(saves', "void") => Has(saves, "void")
    BY <1>6, <2>2, AppendLast
  <2>4. QED
    BY <1>6, <2>3 DEF Keeps, Settled, Snapshot
<1>7. CASE BarPasses
  BY <1>5, <1>7 DEF BarPasses
<1>8. CASE BarExits
  <2>1. UNCHANGED saves /\ Waiting'
    BY <1>8 DEF BarExits, Waiting
  <2>2. QED
    BY <1>1, <2>1, KeepsBy
<1>9. CASE BarExpires
  <2>1. Asks("bar", pos', pend') \/ UNCHANGED <<pos, pend, saves>>
    BY <1>9 DEF BarExpires
  <2>2. QED
    BY <1>3, <1>4, <2>1
<1>10. CASE BarChases
  BY <1>4, <1>10 DEF BarChases
<1>11. CASE ExpireReturns \/ VetoReturns
  BY <1>5, <1>6, <1>11 DEF ExpireReturns, VetoReturns
<1>12. CASE ChaseReturns
  <2>1. \/ Gate(pos, pend, halted, lost) /\ UNCHANGED pos
        \/ Asks("bar", pos', pend')
        \/ UNCHANGED <<pos, pend, saves>>
    BY <1>12 DEF ChaseReturns
  <2>2. QED
    BY <1>3, <1>4, <1>5, <2>1
<1>13. CASE HandlerSaved
  BY <1>5, <1>13 DEF HandlerSaved
<1>14. QED
  BY <1>7, <1>8, <1>9, <1>10, <1>11, <1>12, <1>13

\* The handler's steps around the entry and the exit it has out.
LEMMA OrderKeeps ==
    ASSUME TypeOK, CallOK,
           \/ ExitReturns \/ ExitResumes \/ ExitFails \/ SignalDeclines \/ SignalEnters
           \/ EntryReturns \/ EntryResumes \/ EntryFails \/ EntrySaved
           \/ HandlerEnds \/ ExitDrained
    PROVE  Keeps
<1>1. UNCHANGED disk
  BY DEF ExitReturns, ExitResumes, ExitFails, SignalDeclines, SignalEnters, EntryReturns,
     EntryResumes, EntryRead, EntryFails, EntrySaved, HandlerEnds, ExitDrained
<1>2. ASSUME NEW by \in {"bar", "life", "task", "trade"}, Asks(by, pos', pend') PROVE Keeps
  BY <1>1, <1>2, KeepsBy
<1>3. ASSUME UNCHANGED <<pos, pend, saves>>, ~Waiting \/ Waiting' PROVE Keeps
  BY <1>1, <1>3, KeepsBy
<1>4. ASSUME UNCHANGED saves, Waiting' PROVE Keeps
  BY <1>1, <1>4, KeepsBy
<1>5. CASE ExitReturns \/ ExitResumes
  <2>1. CASE at' = "exitHeard" /\ ExitHeard(call)
    BY <1>4, <2>1 DEF ExitHeard, Waiting
  <2>2. ASSUME NEW p \in {pos, ExitNamed(call)}, ExitRead(p) PROVE Keeps
    <3>1. PICK said \in BOOLEAN :
            /\ ExitReceipt(p, call, "bar", said)
            /\ at' = IF said /\ pos.dir # 0 THEN "exitDrain" ELSE "exitSave"
      BY <2>2 DEF ExitRead
    <3>2. p.dir = pos.dir
      BY DEF ExitNamed, TypeOK, Slot
    <3>3. CASE said /\ p.dir # 0
      <4>1. Filled(p, call) /\ Waiting'
        BY <3>1, <3>2, <3>3 DEF ExitReceipt, Waiting
      <4>2. QED
        BY <1>2, <1>4, <4>1, FilledAsks
    <3>4. CASE ~(said /\ p.dir # 0)
      <4>1. Asks("bar", pos', pend')
        BY <3>1, <3>4 DEF ExitReceipt
      <4>2. QED
        BY <1>2, <4>1
    <3>5. QED
      BY <3>3, <3>4
  <2>3. QED
    BY <1>5, <2>1, <2>2 DEF ExitReturns, ExitResumes
<1>6. CASE ExitFails
  BY <1>2, <1>6 DEF ExitFails, ExitRaises
<1>7. CASE SignalDeclines \/ HandlerEnds
  BY <1>3, <1>7 DEF SignalDeclines, HandlerEnds, memory, Waiting
<1>8. CASE SignalEnters
  <2>1. PICK o \in Orders, d \in Dirs :
          pend' = [dir |-> d, client |-> o, id |-> NoOrder]
    BY <1>8 DEF SignalEnters
  <2>2. UNCHANGED saves /\ Waiting'
    BY <1>8, <2>1, EngineAssumption DEF SignalEnters, Waiting
  <2>3. QED
    BY <1>4, <2>2
<1>9. CASE EntryReturns \/ EntryResumes
  <2>1. CASE EntryRead
    <3>1. CASE pend.dir = 0
      BY <1>3, <1>9, <2>1, <3>1 DEF EntryRead, EntryReturns, EntryResumes, Waiting
    <3>2. CASE pend.dir # 0
      BY <1>2, <2>1, <3>2 DEF EntryRead
    <3>3. QED
      BY <3>1, <3>2
  <2>2. CASE at' = "entryHeard" /\ UNCHANGED memory /\ at = "entry"
    BY <1>3, <2>2 DEF memory, Waiting
  <2>3. QED
    BY <1>9, <2>1, <2>2 DEF EntryReturns, EntryResumes
<1>10. CASE EntryFails
  BY <1>1, <1>10, KeepsBy DEF EntryFails, memory
<1>11. CASE EntrySaved
  BY <1>2, <1>3, <1>11, FilledAsks DEF EntrySaved, memory, Waiting
<1>12. CASE ExitDrained
  BY <1>2, <1>12 DEF ExitDrained
<1>13. QED
  BY <1>5, <1>6, <1>7, <1>8, <1>9, <1>10, <1>11, <1>12

\* A write that reaches the store.
LEMMA WritesKeeps ==
    ASSUME TypeOK, ~Has(saves, "void"), Writes
    PROVE  Keeps
<1>1. /\ saves \in Seq(Jobs) /\ saves # <<>>
      /\ UNCHANGED <<pos, pend, at>>
  BY DEF Writes, TypeOK
<1>2. Tail(saves) \in Seq(Jobs)
  BY <1>1, HeadType
<1>3. Waiting <=> Waiting'
  BY <1>1 DEF Waiting
<1>4. CASE Head(saves).by = "trade"
  <2>0. PICK t \in Seq(Jobs) : t = Tail(saves)
    BY <1>2
  <2>1. saves' = Append(t, Job("task", pos, pend))
    BY <1>4, <2>0 DEF Writes
  <2>2. LastOf(saves', disk') = [pos |-> pos, pend |-> pend]
    BY <2>1, AppendLast
  <2>3. Has(saves', "void") => Has(Tail(saves), "void")
    BY <2>0, <2>1, AppendLast
  <2>4. Has(Tail(saves), "void") => Has(saves, "void")
    BY <1>1, TailLast
  <2>5. QED
    BY <1>1, <2>2, <2>3, <2>4 DEF Keeps, Settled, Snapshot
<1>5. CASE Head(saves).by # "trade"
  <2>1. Head(saves).by # "void"
    <3>1. Len(saves) \in Nat \ {0} /\ Head(saves) = saves[1]
      BY <1>1
    <3>2. 1 \in 1 .. Len(saves)
      BY <3>1
    <3>3. QED
      BY <3>1, <3>2 DEF Has
  <2>2. saves' = Tail(saves) /\ disk' = Head(saves).state
    BY <1>5, <2>1 DEF Writes
  <2>3. Has(saves', "void") => Has(saves, "void")
    BY <1>1, <2>2, TailLast
  <2>4. Has(saves, "trade") => Has(saves', "trade")
    BY <1>1, <1>5, <2>2, TailLast
  <2>5. LastOf(saves', disk') = LastOf(saves, disk)
    BY <1>1, <2>2, TailLast
  <2>6. QED
    BY <1>1, <1>3, <2>3, <2>4, <2>5 DEF Keeps, Settled, Snapshot
<1>6. QED
  BY <1>4, <1>5

\* DurableInv is inductive.
LEMMA StepDurable ==
    ASSUME DurableInv, CallOK, [Next]_vars
    PROVE  DurableInv'
<1>0. TypeOK /\ TypeOK'
  BY StepType DEF DurableInv
<1> DEFINE Up == {"loaded", "read", "started", "on"}
<1>1. ASSUME Keeps, life' \in Up => life \in Up, life' \in {"started", "on"} => life \in {"started", "on"}
      PROVE  DurableInv'
  BY <1>0, <1>1 DEF Keeps, DurableInv, Has
<1>2. ASSUME life' \notin Up PROVE DurableInv'
  BY <1>0, <1>2 DEF DurableInv
<1>3. CASE UNCHANGED vars
  <2>1. Waiting => Waiting'
    BY <1>3 DEF vars, process, memory, Waiting
  <2>2. UNCHANGED <<life, pos, pend, saves, disk>>
    BY <1>3 DEF vars, process, memory
  <2>3. Keeps
    BY <1>0, <2>1, <2>2, KeepsBy
  <2>4. QED
    BY <1>1, <2>2, <2>3
<1>4. CASE AccountNext \/ \E o \in Orders : AccountAnswers(o)
  <2>1. UNCHANGED life
    BY <1>4 DEF AccountNext, AccountAnswers, AccountFills, AccountDrops, AccountTells, process
  <2>2. QED
    BY <1>0, <1>1, <1>4, <2>1, AccountKeeps DEF AccountNext
<1>5. CASE BarNext \/ BarCallNext \/ HandlerNext \/ ExitFails \/ EntryFails
  <2>1. UNCHANGED life
    BY <1>5 DEF BarNext, BarCallNext, HandlerNext, ExitFails, EntryFails, BarPasses, BarExits,
       BarExpires, BarChases, ExpireReturns, VetoReturns, ChaseReturns, ExitReturns,
       EntryReturns, EntryRead, ExitResumes, ExitDrained, SignalDeclines, SignalEnters,
       EntryResumes, EntrySaved, HandlerSaved, HandlerEnds
  <2>2. Keeps
    BY <1>0, <1>5, BarKeeps, OrderKeeps DEF BarNext, BarCallNext, HandlerNext
  <2>3. QED
    BY <1>1, <2>1, <2>2
<1>6. CASE Writes
  <2>1. UNCHANGED life
    BY <1>6 DEF Writes
  <2>2. CASE life \in Up
    BY <1>0, <1>1, <1>6, <2>1, <2>2, WritesKeeps DEF DurableInv
  <2>3. QED
    BY <1>2, <2>1, <2>2
<1>7. CASE StartLoads
  <2>1. ~Has(saves', "void") /\ life' = "loaded"
    BY <1>7 DEF StartLoads, Has
  <2>2. QED
    BY <1>0, <2>1 DEF DurableInv, Has
<1>8. CASE StartReads \/ StartSaved
  <2>1. /\ UNCHANGED <<pos, pend, saves, disk, at>>
        /\ life \in Up
        /\ life' \in {"started", "on"} => life \in {"started", "on"}
    BY <1>8 DEF StartReads, StartSaved, memory
  <2>2. Waiting => Waiting'
    BY <2>1 DEF Waiting
  <2>3. Keeps
    BY <1>0, <2>1, <2>2, KeepsBy
  <2>4. QED
    BY <1>1, <2>1, <2>3
<1>9. CASE StartRuns
  <2>1. life = "read" /\ Asks("life", pos', pend')
    BY <1>9 DEF StartRuns
  <2>2. ~Has(saves, "void")
    BY <2>1 DEF DurableInv
  <2>3. /\ Settled'
        /\ Has(saves, "void")' => Has(saves, "void")
    BY <1>0, <2>1, AskSettles
  <2>4. QED
    BY <1>0, <2>2, <2>3 DEF DurableInv
<1>10. CASE \/ StartFails \/ StopCallNext \/ StopNext \/ FlatExitFails \/ Crash
            \/ StopPlain \/ StopFlattens
  BY <1>2, <1>10 DEF StartFails, StopCallNext, StopNext, FlatExitFails, Crash, StopPlain,
     StopFlattens, LetsGo, FlatCancelFails, FlatCancelReturns, FlatExitReturns, FlatRead,
     FlatResumes, FlatDrained, PollEnds, StopUnpolled, StopSaves, StopReturns
<1>11. QED
  BY <1>3, <1>4, <1>5, <1>6, <1>7, <1>8, <1>9, <1>10 DEF Next, StartNext

\* With no call out, no persist outstanding and no failed submit behind it, a
\* running engine is on disk as it is in memory, whatever fills, cancels,
\* restarts and crashes came before (engine.py: _persist_state and its callers).
THEOREM DurableWhenAtRest == Spec => []DurableAtRest
<1>1. Init => DurableInv
  BY InitType DEF Init, DurableInv
<1>2. DurableInv /\ CallOK /\ [Next]_vars => DurableInv'
  BY StepDurable
<1>3. EngineInv => CallOK
  BY DEF EngineInv
<1>4. DurableInv => DurableAtRest
  BY DEF DurableInv, DurableAtRest, Settled, Waiting, Has, LastOf, Snapshot, TypeOK
<1>5. QED
  BY <1>1, <1>2, <1>3, <1>4, Inductive, PTL DEF Spec
-------------------------------------------------------------------------------
(* PaperEngine.  It reports inside the move, so until the first stop() has *)
(* an exit of its own out nothing the handler names is filled unheard, and *)
(* nothing is forgotten.                                                   *)

QuietIn(st, slot) ==
    slot.dir # 0 /\ slot.client # NoOrder => st[slot.client] # "filled"

\* What the first start() finds.
Fresh ==
    /\ pos = None /\ pend = None /\ saves = <<>> /\ disk = Snapshot
    /\ at = "idle" /\ ~lost /\ net = 0
    /\ status = [o \in Orders |-> "none"]

Phases ==
    /\ life \in {"flatCancel", "flatExit", "flatHeard", "flatDrain", "flatSave"} => flat
    /\ life \in {"loaded", "read", "started", "on"} => ~flat
    /\ life \notin {"flatFail", "crashed"}
    /\ life \in {"started", "on"} => feed \in {"on", "poll"}
    /\ starts = 0 => life = "off"
    /\ starts <= 1 => boot.pos.dir = 0
    /\ starts = 0 \/ (starts = 1 /\ life \in {"loaded", "read"}) => Fresh

Watched == starts <= 1 /\ Wired /\ (flat => life = "flatCancel")

\* The pending order has its id except while its submit is out, or when the
\* poll task was canceled there; and what the handler has a call out for is
\* the pending order, or the exit of the position.
Watch ==
    /\ ~lost /\ QuietIn(status, pend) /\ QuietIn(status, pos)
    /\ pend.dir # 0 /\ pend.id = NoOrder =>
          \/ at \in {"entry", "entryHeard"}
          \/ at = "idle" /\ feed \in {"ending", "off"}
    /\ at \in {"exit", "exitHeard"} => pend.dir = 0 /\ (pos.dir # 0 => pos.client = call)
    /\ at \in {"expire", "veto", "chase"} /\ pend.dir # 0 => pend.client = call

PaperInv == Phases /\ (Watched => Watch)

LEMMA PaperFaults == Synchronous => {"submit", "cancel", "crash"} \cap Faults = {}
  BY EngineAssumption

LEMMA QuietMove ==
    ASSUME NEW st \in [Orders -> OrderStatus], NEW slot \in Slot, NEW o \in Orders, NEW s,
           QuietIn(st, slot), s # "filled" \/ slot.client # o
    PROVE  QuietIn([st EXCEPT ![o] = s], slot)
  BY DEF QuietIn, Slot, OrderIds

\* PaperEngine moves an order and calls back.
LEMMA MovePaper ==
    ASSUME TypeOK, BookOK, Watch, Synchronous, Wired, NEW o \in Orders,
           status[o] \in {"sent", "working"},
           NEW s \in {"working", "filled", "canceled", "rejected"},
           AccountMoves(o, s), UNCHANGED process
    PROVE  Watch'
<1>0. /\ status \in [Orders -> OrderStatus] /\ pos \in Slot /\ pend \in Slot
      /\ status' = [status EXCEPT ![o] = s] /\ UNCHANGED <<at, call, feed>>
  BY DEF TypeOK, AccountTypeOK, AccountMoves, Reach, process
<1>1. None.dir = 0 /\ QuietIn(status', None)
  BY DEF None, QuietIn
<1>2. CASE s # "filled"
  <2>1. QuietIn(status', pos) /\ QuietIn(status', pend)
    BY <1>0, <1>2, QuietMove DEF Watch
  <2>2. UNCHANGED <<pos, lost>> /\ pend' \in {pend, None}
    BY <1>2 DEF AccountMoves, Hears, Refused, memory
  <2>3. QED
    BY <1>0, <1>1, <2>1, <2>2 DEF Watch
<1>3. CASE s = "filled"
  <2>1. Filled(pos, o)
    BY <1>3 DEF AccountMoves, Hears, Done
  <2>2. \/ pend.dir # 0 /\ pend.client = o
        \/ pos.dir # 0 /\ pos.client = o
    BY DEF BookOK, Book
  <2>3. ~(pos.dir # 0 /\ pend.dir # 0)
    BY DEF BookOK, Book
  <2>4. CASE Names(pend, o)
    <3>1. pend' = None /\ pos' = Opened /\ UNCHANGED lost
      BY <2>1, <2>4 DEF Filled
    <3>2. QuietIn(status', Opened)
      BY DEF QuietIn, Opened
    <3>3. pend.dir # 0
      BY <2>4 DEF Names
    <3>4. QED
      BY <1>0, <1>1, <3>1, <3>2, <3>3 DEF Watch
  <2>5. CASE ~Names(pend, o)
    <3>1. pos.dir # 0 /\ pos.client = o
      BY <2>2, <2>5 DEF Names
    <3>2. side[o] = -pos.dir
      BY <3>1, OrderAssumption DEF BookOK, Book
    <3>3. pos' = None /\ pend' = pend /\ lost' = (lost \/ pos.client # o)
      BY <2>1, <2>5, <3>2 DEF Filled
    <3>4. pend.dir = 0
      BY <2>3, <3>1
    <3>5. QuietIn(status', pend)
      BY <3>4 DEF QuietIn
    <3>6. ~lost'
      BY <3>1, <3>3 DEF Watch
    <3>7. QED
      BY <1>0, <1>1, <3>3, <3>4, <3>5, <3>6 DEF Watch
  <2>6. QED
    BY <2>4, <2>5
<1>4. QED
  BY <1>2, <1>3

LEMMA AccountPaper ==
    ASSUME TypeOK, BookOK, Watch, Synchronous, Wired, NEW o \in Orders,
           \/ AccountAnswers(o) \/ AccountFills(o)
           \/ AccountDrops(o) \/ AccountTells(o)
    PROVE  Watch'
<1>1. ~AccountDrops(o) /\ ~AccountTells(o)
  BY DEF AccountDrops, AccountTells, Tell
<1>2. Answers(o) \subseteq {"working", "filled", "canceled", "rejected"}
  BY DEF Answers
<1>3. QED
  BY <1>1, <1>2, MovePaper DEF AccountAnswers, AccountFills

\* The tail of a bar.  A pending order the handler may drop unasked is none.
LEMMA GatePaper ==
    ASSUME TypeOK, BookOK, Watch, NEW h, Gate(pos, pend, h, lost), UNCHANGED <<status, pos>>,
           pend.dir # 0 => pend.id # NoOrder
    PROVE  Watch'
<1>1. pend' = pend /\ lost' = lost
  BY DEF Gate
<1>2. at' \in {"signal", "idle", "veto"}
  BY DEF Gate
<1>3. at' = "veto" => call' = pend.id /\ pend.dir # 0
  BY DEF Gate
<1>4. pend.dir # 0 => pend.id \in {NoOrder, pend.client}
  BY DEF BookOK, Book
<1>5. QED
  BY <1>1, <1>2, <1>3, <1>4 DEF Watch

\* A cancel at PaperEngine: the order is not filled after it.
LEMMA CancelPaper ==
    ASSUME TypeOK, Synchronous, NEW o \in Orders,
           CancelWorks(o) \/ CancelIsVoid(o) \/ CancelRaises(o)
    PROVE  /\ status' \in {status, [status EXCEPT ![o] = "canceled"]}
           /\ status'[o] \in Done /\ (status'[o] = "filled" => status[o] = "filled")
           /\ ~CancelRaises(o)
<1>1. status \in [Orders -> OrderStatus]
  BY DEF TypeOK, AccountTypeOK
<1>2. QED
  BY <1>1 DEF CancelWorks, CancelIsVoid, CancelRaises, Reach, accountVars, Done

\* The handler's steps up to the end of a bar's management of its orders.
LEMMA BarPaper ==
    ASSUME TypeOK, CallOK, BookOK, Watch, Synchronous,
           \/ BarPasses \/ BarExits \/ BarExpires \/ BarChases
           \/ ExpireReturns \/ VetoReturns \/ ChaseReturns \/ HandlerSaved
    PROVE  Watch'
<1>0. /\ status \in [Orders -> OrderStatus] /\ pos \in Slot /\ pend \in Slot
      /\ NoOrder \notin Orders
  BY OrderAssumption DEF TypeOK, AccountTypeOK
<1>1. pend.dir # 0 => pend.id # NoOrder
  BY DEF Watch, BarPasses, BarExits, BarExpires, BarChases, BarBegins, ExpireReturns,
     VetoReturns, ChaseReturns, HandlerSaved
<1>2. pend.dir # 0 => pend.id = pend.client
  BY <1>1 DEF BookOK, Book
<1>3. CASE BarPasses
  BY <1>1, <1>3, GatePaper DEF BarPasses, accountVars
<1>4. CASE HandlerSaved
  BY <1>1, <1>4, GatePaper DEF HandlerSaved, accountVars
<1>5. CASE BarExits
  <2>1. PICK o \in Orders, m \in BOOLEAN :
          Send(o, -pos.dir, m) /\ pos' = [pos EXCEPT !.client = o] /\ call' = o
    BY <1>5 DEF BarExits
  <2>2. status' = [status EXCEPT ![o] = "sent"]
    BY <2>1 DEF Send
  <2>3. pos'.client = o /\ status'[o] = "sent" /\ pos.dir # 0
    BY <1>0, <1>5, <2>1, <2>2 DEF BarExits, Slot
  <2>4. QuietIn(status', pos')
    BY <2>3 DEF QuietIn
  <2>5. pend.dir = 0
    BY <2>3 DEF BookOK, Book
  <2>6. UNCHANGED <<pend, lost>> /\ at' = "exit"
    BY <1>5 DEF BarExits
  <2>7. QuietIn(status', pend')
    BY <2>5, <2>6 DEF QuietIn
  <2>8. QED
    BY <2>1, <2>3, <2>4, <2>5, <2>6, <2>7 DEF Watch
<1>6. CASE BarExpires \/ BarChases
  <2>1. /\ pend.dir # 0 /\ call' = pend.id /\ at' \in {"expire", "chase"}
        /\ UNCHANGED <<status, pos, pend, lost>>
    BY <1>1, <1>6 DEF BarExpires, BarChases, accountVars
  <2>2. QED
    BY <1>1, <1>2, <2>1 DEF Watch
<1>7. CASE ExpireReturns \/ VetoReturns
  <2>1. call \in Orders /\ at \in {"expire", "veto"}
    BY <1>7 DEF ExpireReturns, VetoReturns, CallOK
  <2>2. CancelWorks(call) \/ CancelIsVoid(call) \/ CancelRaises(call)
    BY <1>7 DEF ExpireReturns, VetoReturns
  <2>3. /\ status' \in {status, [status EXCEPT ![call] = "canceled"]}
        /\ status'[call] \in Done /\ (status'[call] = "filled" => status[call] = "filled")
        /\ ~CancelRaises(call)
    BY <2>1, <2>2, CancelPaper
  <2>4. /\ pend' = None /\ at' \in {"expireSave", "vetoSave"} /\ UNCHANGED pos
        /\ lost' = (lost \/ Forgets(status', pend))
    BY <1>7, <2>3 DEF ExpireReturns, VetoReturns
  <2>5. QuietIn(status', pos)
    BY <1>0, <2>1, <2>3, QuietMove DEF Watch
  <2>6. ~Forgets(status', pend)
    <3>1. SUFFICES ASSUME pend.dir # 0 PROVE ~MayAct(status', pend.client)
      BY DEF Forgets
    <3>2. pend.client = call
      BY <2>1, <3>1 DEF Watch
    <3>3. status[call] # "filled"
      BY <1>0, <2>1, <3>1, <3>2 DEF Watch, QuietIn
    <3>4. QED
      BY <2>3, <3>2, <3>3 DEF MayAct, Done
  <2>7. pend'.dir = 0 /\ QuietIn(status', pend')
    BY <2>4 DEF None, QuietIn
  <2>8. QED
    BY <2>4, <2>5, <2>6, <2>7 DEF Watch
<1>8. CASE ChaseReturns
  <2>1. UNCHANGED <<status, pos>>
    BY <1>8 DEF ChaseReturns, accountVars
  <2>2. CASE Gate(pos, pend, halted, lost)
    BY <1>1, <2>1, <2>2, GatePaper
  <2>3. CASE at' \in {"idle", "chaseSave"} /\ UNCHANGED <<pend, lost>>
    BY <1>1, <2>1, <2>3 DEF Watch
  <2>4. QED
    BY <1>8, <2>2, <2>3 DEF ChaseReturns
<1>9. QED
  BY <1>3, <1>4, <1>5, <1>6, <1>7, <1>8

\* An order that is named and quiet has not been answered "filled".
LEMMA NotSaid ==
    ASSUME NEW slot, QuietIn(status, slot), slot.dir # 0, slot.client \in Orders,
           NEW said \in SaidFilled(slot.client)
    PROVE  said = FALSE
  BY OrderAssumption DEF QuietIn, SaidFilled

\* The handler's steps around the entry and the exit it has out.
LEMMA OrderPaper ==
    ASSUME TypeOK, CallOK, BookOK, AtOK, Watch, Synchronous,
           \/ ExitReturns \/ ExitResumes \/ ExitFails \/ SignalDeclines \/ SignalEnters
           \/ EntryReturns \/ EntryResumes \/ EntryFails \/ EntrySaved
           \/ HandlerEnds \/ ExitDrained
    PROVE  Watch'
<1>0. /\ status \in [Orders -> OrderStatus] /\ pos \in Slot /\ pend \in Slot
      /\ NoOrder \notin Orders
  BY OrderAssumption DEF TypeOK, AccountTypeOK
<1>1. ~ExitFails /\ ~EntryFails
  BY PaperFaults DEF ExitFails, EntryFails
<1>2. CASE ExitReturns \/ ExitResumes
  <2>1. at \in {"exit", "exitHeard"} /\ call \in Orders
    BY <1>2 DEF ExitReturns, ExitResumes, CallOK
  <2>2. pend.dir = 0 /\ (pos.dir # 0 => pos.client = call)
    BY <2>1 DEF Watch
  <2>3. ASSUME NEW p \in {pos, ExitNamed(call)}
        PROVE  p.dir = pos.dir /\ p.client = pos.client /\ QuietIn(status, p)
    BY <1>0 DEF ExitNamed, Slot, QuietIn, Watch
  <2>4. CASE ExitHeard(call) /\ at' = "exitHeard" /\ UNCHANGED call
    <3>1. ExitNamed(call).dir = pos.dir /\ ExitNamed(call).client = pos.client
          /\ QuietIn(status, ExitNamed(call))
      BY <2>3
    <3>2. pos' = ExitNamed(call) /\ UNCHANGED <<status, pend, lost>>
      BY <2>4 DEF ExitHeard, accountVars
    <3>3. QED
      BY <2>2, <2>4, <3>1, <3>2 DEF Watch
  <2>5. ASSUME NEW p \in {pos, ExitNamed(call)}, ExitRead(p) PROVE Watch'
    <3>1. PICK said \in BOOLEAN :
            /\ ExitReceipt(p, call, "bar", said)
            /\ at' = IF said /\ pos.dir # 0 THEN "exitDrain" ELSE "exitSave"
      BY <2>5 DEF ExitRead
    <3>2. p.dir = pos.dir /\ p.client = pos.client /\ QuietIn(status, p)
      BY <2>3
    <3>3. ~(said /\ p.dir # 0)
      <4>1. SUFFICES ASSUME p.dir # 0 PROVE said = FALSE
        OBVIOUS
      <4>2. p.client = call
        BY <2>2, <3>2, <4>1
      <4>3. said \in SaidFilled(call)
        BY <3>1 DEF ExitReceipt
      <4>4. QED
        BY <2>1, <3>2, <4>1, <4>2, <4>3, NotSaid
    <3>4. pos' = p /\ UNCHANGED <<status, pend, lost>>
      BY <3>1, <3>3 DEF ExitReceipt, accountVars
    <3>5. at' \in {"exitDrain", "exitSave"}
      BY <3>1
    <3>6. QED
      BY <2>2, <3>2, <3>4, <3>5 DEF Watch
  <2>6. QED
    BY <1>2, <2>4, <2>5 DEF ExitReturns, ExitResumes
<1>3. CASE SignalDeclines \/ HandlerEnds \/ ExitDrained
  BY <1>3 DEF SignalDeclines, HandlerEnds, ExitDrained, memory, accountVars, Watch
<1>4. CASE SignalEnters
  <2>1. PICK o \in Orders, d \in Dirs, m \in BOOLEAN :
          /\ Send(o, d, m)
          /\ pend' = [dir |-> d, client |-> o, id |-> NoOrder]
          /\ call' = o
    BY <1>4 DEF SignalEnters
  <2>2. status'[o] = "sent" /\ UNCHANGED <<pos, lost>> /\ at' = "entry"
    BY <1>0, <1>4, <2>1 DEF SignalEnters, Send
  <2>3. QuietIn(status', pend')
    BY <2>1, <2>2 DEF QuietIn
  <2>4. pos.dir = 0
    BY <1>4 DEF SignalEnters, AtOK
  <2>5. QuietIn(status', pos')
    BY <2>2, <2>4 DEF QuietIn
  <2>6. QED
    BY <2>2, <2>3, <2>5 DEF Watch
<1>5. CASE EntryReturns \/ EntryResumes
  <2>0. call \in Orders /\ at \in {"entry", "entryHeard"} /\ UNCHANGED <<status, pos, lost>>
    BY <1>5 DEF EntryReturns, EntryResumes, EntryRead, CallOK, memory, accountVars
  <2>1. CASE EntryRead
    <3>1. CASE pend.dir = 0
      BY <2>0, <2>1, <3>1 DEF EntryRead, Watch
    <3>2. CASE pend.dir # 0
      <4>1. pend' = [pend EXCEPT !.client = call, !.id = call] /\ at' = "entrySave"
        BY <2>1, <3>2 DEF EntryRead
      <4>2. pend.client = call
        BY <2>0, <3>2 DEF AtOK
      <4>3. pend'.dir = pend.dir /\ pend'.client = pend.client /\ pend'.id = call
        BY <1>0, <4>1, <4>2 DEF Slot
      <4>4. QuietIn(status', pend')
        BY <2>0, <4>3 DEF Watch, QuietIn
      <4>5. QED
        BY <1>0, <2>0, <4>1, <4>3, <4>4 DEF Watch
    <3>3. QED
      BY <3>1, <3>2
  <2>2. CASE at' = "entryHeard" /\ UNCHANGED memory
    BY <2>0, <2>2 DEF Watch, memory
  <2>3. QED
    BY <1>5, <2>1, <2>2 DEF EntryReturns, EntryResumes
<1>6. CASE EntrySaved
  <2>1. UNCHANGED status /\ at' = "idle" /\ at = "entrySave" /\ call \in Orders
    BY <1>6 DEF EntrySaved, accountVars, CallOK
  <2>2. UNCHANGED memory
    <3>1. PICK said \in SaidFilled(call) :
            IF said /\ pend.dir # 0 THEN Filled(pos, call) ELSE UNCHANGED memory
      BY <1>6 DEF EntrySaved
    <3>2. pend.dir # 0 => pend.client = call
      BY <2>1 DEF AtOK
    <3>3. pend.dir # 0 => said = FALSE
      BY <2>1, <3>2, NotSaid DEF Watch
    <3>4. QED
      BY <3>1, <3>3
  <2>3. QED
    BY <2>1, <2>2 DEF memory, Watch
<1>7. QED
  BY <1>1, <1>2, <1>3, <1>4, <1>5, <1>6

\* The steps of start, of stop until it flattens, and the writes.
LEMMA LifePaper ==
    ASSUME TypeOK, CallOK, BookOK, Phases, Watched, Watch, Synchronous, Watched',
           \/ Writes \/ StartReads \/ StartRuns \/ StartSaved \/ StartFails
           \/ StopPlain \/ StopFlattens \/ StopCallNext \/ StopNext
           \/ FlatExitFails \/ Crash
    PROVE  Watch'
<1>1. ~FlatExitFails /\ ~Crash
  BY PaperFaults DEF FlatExitFails, Crash
<1>2. CASE Writes
  BY <1>2 DEF Writes, accountVars, Watch
<1>3. CASE StartReads \/ StartSaved \/ StartFails
  BY <1>3 DEF StartReads, StartSaved, StartFails, Watched, Wired, Running, accountVars, memory, Watch
<1>4. CASE StartRuns
  <2>1. boot.pos.dir = 0 /\ Fresh
    <3>1. starts \in Nat /\ starts <= 1 /\ life = "read"
      BY <1>4 DEF StartRuns, Watched, TypeOK
    <3>2. starts = 1
      BY <3>1 DEF Phases
    <3>3. QED
      BY <3>1, <3>2 DEF Phases
  <2>2. UNCHANGED <<status, pos, pend, lost, at, call>>
    BY <1>4, <2>1 DEF StartRuns, Agrees, accountVars
  <2>3. pend.dir = 0 /\ pos.dir = 0 /\ at = "idle"
    BY <2>1 DEF Fresh, None
  <2>4. QED
    BY <2>2, <2>3 DEF Watch
<1>5. CASE StopPlain \/ StopFlattens
  <2>0. life = "on"
    BY <1>5 DEF StopPlain, StopFlattens
  <2>1. feed \in {"on", "poll"}
    BY <2>0 DEF Phases
  <2>2. UNCHANGED <<status, pos, pend, lost, at, call>>
    BY <1>5 DEF StopPlain, StopFlattens, Watched, accountVars
  <2>3. pend.dir # 0 /\ pend.id = NoOrder => at \in {"entry", "entryHeard"}
    BY <2>1 DEF Watch
  <2>4. QED
    BY <2>2, <2>3 DEF Watch
<1>6. CASE FlatCancelFails
  <2>1. stopCall \in Orders /\ UNCHANGED <<memory, at, call, feed>>
    BY <1>6 DEF FlatCancelFails, CallOK
  <2>2. CancelWorks(stopCall) \/ CancelIsVoid(stopCall) \/ CancelRaises(stopCall)
    BY <1>6 DEF FlatCancelFails
  <2>3. status' \in {status, [status EXCEPT ![stopCall] = "canceled"]}
    BY <2>1, <2>2, CancelPaper
  <2>4. status \in [Orders -> OrderStatus] /\ pos \in Slot /\ pend \in Slot
    BY DEF TypeOK, AccountTypeOK
  <2>5. QuietIn(status', pos) /\ QuietIn(status', pend)
    BY <2>1, <2>3, <2>4, QuietMove DEF Watch
  <2>6. QED
    BY <2>1, <2>5 DEF memory, Watch
<1>7. CASE FlatCancelReturns \/ FlatExitReturns
  <2>1. life \in {"flatCancel", "flatExit"} /\ UNCHANGED flat /\ life' # "flatCancel"
    BY <1>7 DEF FlatCancelReturns, FlatExitReturns, FlatRead
  <2>2. QED
    BY <2>1 DEF Phases, Watched
<1>8. CASE FlatResumes \/ FlatDrained
  <2>1. life \in {"flatHeard", "flatDrain"} /\ UNCHANGED flat /\ life' # "flatCancel"
    BY <1>8 DEF FlatResumes, FlatDrained, FlatRead
  <2>2. QED
    BY <2>1 DEF Phases, Watched
<1>9. CASE StopSaves \/ StopUnpolled \/ StopReturns
  <2>1. life # "flatSave" \/ ~StopSaves
    BY DEF StopSaves, Phases, Watched
  <2>2. UNCHANGED <<status, pos, pend, lost, at, call>>
    BY <1>9 DEF StopSaves, StopUnpolled, StopReturns, accountVars, memory
  <2>3. UNCHANGED feed \/ feed' = "off"
    BY <1>9, <2>1 DEF StopSaves, StopUnpolled, StopReturns
  <2>4. QED
    BY <2>2, <2>3 DEF Watch
<1>10. CASE PollEnds
  <2>1. /\ pend' = pend /\ pos' = pos /\ lost' = lost /\ feed' = "ending"
        /\ at' \in {"idle", "raiseSave"}
        /\ at' = "raiseSave" => at = "exit"
    BY <1>10 DEF PollEnds, ExitRaises
  <2>2. UNCHANGED status \/ (call \in Orders /\ status' = [status EXCEPT ![call] = "rejected"])
    BY <1>10 DEF PollEnds, ExitRaises, NeverArrives, accountVars, CallOK
  <2>3. status \in [Orders -> OrderStatus] /\ pos \in Slot /\ pend \in Slot
    BY DEF TypeOK, AccountTypeOK
  <2>4. QuietIn(status', pos) /\ QuietIn(status', pend)
    BY <2>2, <2>3, QuietMove DEF Watch
  <2>5. at' = "raiseSave" => pend.dir = 0
    BY <2>1 DEF Watch
  <2>6. QED
    BY <2>1, <2>4, <2>5 DEF Watch
<1>11. QED
  BY <1>1, <1>2, <1>3, <1>4, <1>5, <1>6, <1>7, <1>8, <1>9, <1>10 DEF StopCallNext, StopNext

\* The account, the handler and the writes leave start and stop where they are.
LEMMA LifeStays ==
    ASSUME \/ AccountNext \/ \E o \in Orders : AccountAnswers(o)
           \/ BarNext \/ BarCallNext \/ HandlerNext \/ ExitFails \/ EntryFails \/ Writes
    PROVE  UNCHANGED <<life, flat, starts, boot>>
  BY DEF AccountNext, AccountAnswers, AccountFills, AccountDrops, AccountTells, process,
     BarNext, BarCallNext, HandlerNext, ExitFails, EntryFails, BarPasses, BarExits,
     BarExpires, BarChases, ExpireReturns, VetoReturns, ChaseReturns, ExitReturns,
     EntryReturns, EntryRead, ExitResumes, ExitDrained, SignalDeclines, SignalEnters,
     EntryResumes, EntrySaved, HandlerSaved, HandlerEnds, Writes

\* Where start and stop are, and that nothing moves before the first start
\* has subscribed.
LEMMA StepPhases ==
    ASSUME TypeOK, CallOK, Phases, Synchronous, Next
    PROVE  Phases'
<1>0. /\ {"submit", "cancel", "crash"} \cap Faults = {}
      /\ starts \in Nat
  BY PaperFaults DEF TypeOK
<1> DEFINE First == starts = 0 \/ (starts = 1 /\ life \in {"loaded", "read"})
<1>1. CASE \/ AccountNext \/ \E o \in Orders : AccountAnswers(o)
           \/ BarNext \/ BarCallNext \/ HandlerNext \/ ExitFails \/ EntryFails \/ Writes
  <2>1. UNCHANGED <<life, flat, starts, boot>>
    BY <1>1, LifeStays
  <2>2. UNCHANGED feed \/ life \notin {"started", "on"} \/ feed' \in {"on", "poll"}
    <3>1. CASE AccountNext \/ (\E o \in Orders : AccountAnswers(o)) \/ Writes
      BY <3>1 DEF AccountNext, AccountAnswers, AccountFills, AccountDrops, AccountTells,
         process, Writes
    <3>2. CASE BarNext
      BY <3>2 DEF BarNext, BarPasses, BarExits, BarExpires, BarChases, BarBegins, Phases
    <3>3. CASE BarCallNext \/ HandlerNext \/ ExitFails \/ EntryFails
      BY <3>3 DEF BarCallNext, HandlerNext, ExitFails, EntryFails,
         ExpireReturns, VetoReturns, ChaseReturns, ExitReturns,
         EntryReturns, EntryRead, ExitResumes, ExitDrained, SignalDeclines, SignalEnters,
         EntryResumes, EntrySaved, HandlerSaved, HandlerEnds
    <3>4. QED
      BY <1>1, <3>1, <3>2, <3>3
  <2>3. ~First
    <3>1. SUFFICES ASSUME First PROVE FALSE
      OBVIOUS
    <3>2. Fresh /\ life \in {"off", "loaded", "read"}
      BY <3>1 DEF Phases
    <3>3. \A o \in Orders : status[o] = "none"
      BY <3>2 DEF Fresh
    <3>4. ~AccountNext /\ ~(\E o \in Orders : AccountAnswers(o))
      BY <3>3 DEF AccountNext, AccountAnswers, AccountFills, AccountDrops, AccountTells,
         Tell, Done
    <3>5. ~BarNext /\ ~Writes
      BY <3>2 DEF BarNext, BarPasses, BarExits, BarExpires, BarChases, BarBegins, Running,
         Writes, Fresh
    <3>6. ~BarCallNext /\ ~HandlerNext /\ ~ExitFails /\ ~EntryFails
      BY <3>2 DEF Fresh, BarCallNext, HandlerNext, ExitFails, EntryFails,
         ExpireReturns, VetoReturns, ChaseReturns, ExitReturns,
         EntryReturns, ExitResumes, ExitDrained, SignalDeclines, SignalEnters,
         EntryResumes, EntrySaved, HandlerSaved, HandlerEnds
    <3>7. QED
      BY <1>1, <3>4, <3>5, <3>6
  <2>4. QED
    BY <2>1, <2>2, <2>3 DEF Phases
<1>2. CASE StartLoads
  <2>1. /\ life' = "loaded" /\ starts' = starts + 1 /\ boot'.pos = disk.pos /\ ~flat'
    BY <1>2 DEF StartLoads
  <2>2. CASE starts = 0
    <3>1. Fresh
      BY <2>2 DEF Phases
    <3>2. /\ UNCHANGED <<pos, pend, saves, disk, at, net, status>> /\ ~lost'
      BY <1>2, <3>1 DEF StartLoads, Fresh, Snapshot, accountVars
    <3>3. boot'.pos.dir = 0
      BY <2>1, <3>1 DEF Fresh, Snapshot, None
    <3>4. Fresh'
      BY <3>1, <3>2 DEF Fresh, Snapshot
    <3>5. QED
      BY <2>1, <2>2, <3>3, <3>4 DEF Phases
  <2>3. CASE starts # 0
    BY <1>0, <2>1, <2>3 DEF Phases
  <2>4. QED
    BY <2>2, <2>3
<1>3. CASE StartReads
  <2>1. /\ life = "loaded" /\ life' = "read" /\ UNCHANGED <<flat, feed, starts>>
        /\ UNCHANGED <<pos, pend, saves, disk, at, lost, net, status>>
        /\ boot'.pos = boot.pos
    BY <1>3 DEF StartReads, memory, accountVars, TypeOK
  <2>2. Fresh => Fresh'
    BY <2>1 DEF Fresh, Snapshot
  <2>3. ~flat'
    BY <2>1 DEF Phases
  <2>4. QED
    BY <1>0, <2>1, <2>2, <2>3 DEF Phases
<1>4. CASE StartRuns
  <2>1. /\ life = "read" /\ life' = "started" /\ UNCHANGED <<flat, starts, boot>>
        /\ feed' \in {"on", "poll"}
    BY <1>4, EngineAssumption DEF StartRuns
  <2>2. QED
    BY <1>0, <2>1 DEF Phases
<1>5. CASE StartSaved \/ StartFails
  <2>1. /\ UNCHANGED <<flat, starts, boot>> /\ life' \in {"on", "off"}
        /\ life \notin {"off", "flatFail"}
        /\ life' = "on" => feed' \in {"on", "poll"}
    BY <1>5 DEF StartSaved, StartFails, Phases
  <2>2. starts # 0 /\ ~flat'
    BY <1>5, <2>1 DEF Phases, StartSaved, StartFails
  <2>3. QED
    BY <1>0, <2>1, <2>2 DEF Phases
<1>6. CASE StopPlain \/ StopFlattens \/ StopCallNext \/ StopNext
  <2>1. UNCHANGED <<starts, boot>> /\ life \notin {"off", "crashed", "loaded", "read"}
    BY <1>6 DEF StopPlain, StopFlattens, StopCallNext, StopNext, FlatCancelFails,
       FlatCancelReturns, FlatExitReturns, FlatRead, FlatResumes, FlatDrained, PollEnds,
       StopUnpolled, StopSaves, StopReturns
  <2>2. starts # 0 /\ life # "flatFail"
    BY <2>1 DEF Phases
  <2>3. life' \notin {"loaded", "read", "started", "on", "crashed", "flatFail"}
    BY <1>6, <2>1, <2>2 DEF StopPlain, StopFlattens, LetsGo, StopCallNext, StopNext,
       FlatCancelFails, FlatCancelReturns, FlatExitReturns, FlatRead, FlatResumes,
       FlatDrained, PollEnds, StopUnpolled, StopSaves, StopReturns
  <2>4. life' \in {"flatCancel", "flatExit", "flatHeard", "flatDrain", "flatSave"} => flat'
    BY <1>6, <2>1, <2>2 DEF Phases, StopPlain, StopFlattens, LetsGo, StopCallNext, StopNext,
       FlatCancelFails, FlatCancelReturns, FlatExitReturns, FlatRead, FlatResumes,
       FlatDrained, PollEnds, StopUnpolled, StopSaves, StopReturns
  <2>5. QED
    BY <1>0, <2>1, <2>2, <2>3, <2>4 DEF Phases
<1>7. ~FlatExitFails /\ ~Crash
  BY <1>0 DEF FlatExitFails, Crash
<1>8. QED
  BY <1>1, <1>2, <1>3, <1>4, <1>5, <1>6, <1>7 DEF Next, StartNext

\* PaperInv is inductive, given EngineInv.
LEMMA StepPaper ==
    ASSUME EngineInv, PaperInv, Synchronous, [Next]_vars
    PROVE  PaperInv'
<1>0. TypeOK /\ CallOK /\ (~lost => BookOK /\ AtOK)
  BY EngineInvIs
<1>1. CASE UNCHANGED vars
  BY <1>1 DEF vars, accountVars, memory, process, PaperInv, Phases, Fresh, Snapshot,
     Watched, Wired, Running, Watch
<1>2. CASE Next
  <2>1. Phases'
    BY <1>0, <1>2, StepPhases DEF PaperInv
  <2>2. ASSUME Watched' PROVE Watch'
    <3>1. CASE StartLoads
      <4>1. starts' = starts + 1 /\ starts' <= 1 /\ starts \in Nat /\ life' = "loaded"
        BY <1>0, <2>2, <3>1 DEF StartLoads, Watched, TypeOK
      <4>2. starts' = 1
        BY <4>1
      <4>3. Fresh'
        BY <2>1, <4>1, <4>2 DEF Phases
      <4>4. QED
        BY <4>3 DEF Fresh, None, Watch, QuietIn
    <3>2. CASE ~StartLoads
      <4>1. Watched
        <5>1. CASE \/ AccountNext \/ \E o \in Orders : AccountAnswers(o)
                   \/ BarNext \/ BarCallNext \/ HandlerNext \/ ExitFails \/ EntryFails \/ Writes
          BY <2>2, <5>1, LifeStays DEF Watched, Wired, Running
        <5>2. CASE StartReads \/ StartRuns \/ StartSaved \/ StartFails
          BY <2>2, <5>2 DEF StartReads, StartRuns, StartSaved, StartFails, Watched, Wired, Running
        <5>3. CASE StopPlain \/ StopFlattens \/ StopCallNext \/ StopNext \/ FlatExitFails \/ Crash
          <6>1. life \in {"on", "flatCancel", "flatExit", "flatHeard", "flatDrain", "flatSave",
                          "unpolling", "closing", "leaving"} /\ starts' = starts
            BY <5>3, PaperFaults DEF StopPlain, StopFlattens, StopCallNext, StopNext,
               FlatExitFails, Crash, FlatCancelFails, FlatCancelReturns, FlatExitReturns,
               FlatResumes, FlatDrained, PollEnds, StopUnpolled, StopSaves, StopReturns,
               PaperInv, Phases
          <6>2. flat => life = "flatCancel"
            <7>1. CASE StopSaves
              <8>1. life # "flatFail" /\ life' # "flatCancel"
                BY <7>1 DEF PaperInv, Phases, StopSaves, LetsGo
              <8>2. flat => flat'
                BY <7>1, <8>1 DEF StopSaves
              <8>3. QED
                BY <2>2, <8>1, <8>2 DEF Watched
            <7>2. CASE StopReturns \/ FlatExitFails \/ Crash
              BY <2>2, <7>2, PaperFaults DEF StopReturns, FlatExitFails, Crash, Watched, Wired,
                 Running
            <7>3. CASE FlatCancelFails
              BY <7>3 DEF FlatCancelFails
            <7>4. CASE \/ FlatCancelReturns \/ FlatExitReturns \/ FlatResumes \/ FlatDrained
                       \/ PollEnds \/ StopUnpolled
              BY <2>2, <7>4 DEF FlatCancelReturns, FlatExitReturns, FlatRead, FlatResumes,
                 FlatDrained, PollEnds, StopUnpolled, Watched
            <7>5. CASE StopPlain \/ StopFlattens
              BY <7>5 DEF StopPlain, StopFlattens, PaperInv, Phases
            <7>6. QED
              BY <5>3, <7>1, <7>2, <7>3, <7>4, <7>5 DEF StopCallNext, StopNext
          <6>3. QED
            BY <2>2, <6>1, <6>2 DEF Watched, Wired, Running
        <5>4. QED
          BY <1>2, <3>2, <5>1, <5>2, <5>3 DEF Next, StartNext
      <4>2. Watch /\ BookOK /\ AtOK /\ Wired
        BY <1>0, <4>1 DEF PaperInv, Watch, Watched
      <4>3. CASE AccountNext \/ \E o \in Orders : AccountAnswers(o)
        BY <1>0, <4>2, <4>3, AccountPaper DEF AccountNext
      <4>4. CASE BarNext \/ ExpireReturns \/ VetoReturns \/ ChaseReturns \/ HandlerSaved
        BY <1>0, <4>2, <4>4, BarPaper DEF BarNext
      <4>5. CASE \/ ExitReturns \/ ExitResumes \/ ExitFails \/ SignalDeclines \/ SignalEnters
                 \/ EntryReturns \/ EntryResumes \/ EntryFails \/ EntrySaved
                 \/ HandlerEnds \/ ExitDrained
        BY <1>0, <4>2, <4>5, OrderPaper
      <4>6. CASE \/ Writes \/ StartNext \/ StartFails \/ StopPlain \/ StopFlattens
                 \/ StopCallNext \/ StopNext \/ FlatExitFails \/ Crash
        BY <1>0, <2>2, <4>1, <4>2, <4>6, LifePaper DEF StartNext, PaperInv
      <4>7. QED
        BY <1>2, <3>2, <4>3, <4>4, <4>5, <4>6 DEF Next, BarCallNext, HandlerNext
    <3>3. QED
      BY <3>1, <3>2
  <2>3. QED
    BY <2>1, <2>2 DEF PaperInv
<1>3. QED
  BY <1>1, <1>2

\* At PaperEngine, until the first stop() is over and unless it flattens, the
\* engine's position is the account's at every await, for every set of orders
\* and every signal: PaperEngine calls back inside the move, and the engine
\* loses no call (engine.py: _on_order_filled, _on_order_terminal).
THEOREM PaperAlwaysAgrees == Spec => []PaperAgrees
<1>1. Init => (Synchronous => PaperInv)
  BY DEF Init, AccountInit, PaperInv, Phases, Fresh, Snapshot, Watched, Wired, Running, None
<1>2. EngineInv /\ (Synchronous => PaperInv) /\ [Next]_vars => (Synchronous => PaperInv')
  BY StepPaper
<1>3. EngineInv /\ (Synchronous => PaperInv) => PaperAgrees
  <2>1. SUFFICES ASSUME EngineInv, PaperInv, Synchronous, starts <= 1, Wired, ~flat
                 PROVE  net = pos.dir
    BY DEF PaperAgrees
  <2>2. Watch
    BY <2>1 DEF PaperInv, Watched
  <2>3. Unbooked(pend) = 0 /\ Unbooked(pos) = 0
    BY <2>2 DEF Watch, QuietIn, Unbooked
  <2>4. net = pos.dir + Unbooked(pend) - Unbooked(pos)
    BY <2>1, <2>2 DEF EngineInv, BookAgrees, Watch
  <2>5. pos.dir \in Int
    BY <2>1, AccountIs DEF EngineInv, Slot
  <2>6. QED
    BY <2>3, <2>4, <2>5
<1>4. (Synchronous => PaperInv)' <=> (Synchronous => PaperInv')
  OBVIOUS
<1>5. QED
  BY <1>1, <1>2, <1>3, <1>4, Inductive, PTL DEF Spec
=============================================================================
