------------------------ MODULE ResearchStore_proofs ------------------------
(***************************************************************************)
(* While processes neither die nor stall, the research store keeps what    *)
(* ResearchRecord promises, for any processes, threads and mutations, also *)
(* when writes and saves fail: see the README for the argument.            *)
(***************************************************************************)
EXTENDS ResearchStore, TLAPS

\* No process dies and none keeps the lock past the staleness limit.
Healthy == Faults \cap {"crash", "slow"} = {}

Outside == {"idle", "thread", "create", "stat", "wait"}
Inside == {"write", "load", "save", "undo", "release"}

\* Threads, the lock file, and the record have their types; no file is stale.
StoreTypes ==
    /\ pc \in [Writers -> Outside \cup Inside]
    /\ op \in [Writers -> Mutations] /\ ops \in [Writers -> 0 .. MaxOps]
    /\ file \in [by : Writers \cup {NoOne}, owner : Procs \cup {NoOne}, old : {FALSE}]
    /\ alive = Procs
    /\ store \in Records /\ copy \in [Writers -> Records]

\* A thread is inside exactly while the file at the path is its own.
LockInv ==
    /\ \A w \in Writers : Holding(w) => file.by = w
    /\ file = NoFile \/ (file.by \in Writers /\ Holding(file.by))

\* An entry is written by its own mutation, and only once.
EntryInv ==
    /\ \A w \in Writers : pc[w] # "idle" => ops[w] >= 1
    /\ \A e \in store.entries : e[2] <= ops[e[1]]
    /\ \A w \in Writers : pc[w] \notin {"idle", "release", "undo"} => Entry(w) \notin store.entries
    /\ \A w \in Writers : pc[w] = "release" /\ op[w] = "log" => Entry(w) \in store.entries

\* Nobody changes the record between a load and its save.
CopyInv == \A w \in Writers : pc[w] = "save" => copy[w] = store

StoreInv == StoreTypes /\ LockInv /\ EntryInv /\ CopyInv /\ NoLostUpdate

-----------------------------------------------------------------------------
LEMMA StoreInvInit == Init => StoreInv
<1> SUFFICES ASSUME Init PROVE StoreInv OBVIOUS
<1> USE StoreAssumption DEF Init
<1>1. NoRecord \in Records /\ NoRecord.entries = {} BY DEF NoRecord, Records
<1>2. StoreTypes BY <1>1 DEF StoreTypes, Outside, Mutations, NoFile
<1>3. LockInv BY DEF LockInv, Holding
<1>4. EntryInv /\ CopyInv /\ NoLostUpdate BY <1>1 DEF EntryInv, CopyInv, NoLostUpdate
<1> QED BY <1>2, <1>3, <1>4 DEF StoreInv

\* A thread that is inside is alone there.
LEMMA Alone ==
    ASSUME StoreInv, NEW v \in Writers, NEW w \in Writers, Holding(v), Holding(w)
    PROVE  v = w
BY DEF StoreInv, LockInv

\* Where a thread is after a step of its own.
LEMMA GoesFacts ==
    ASSUME StoreInv, NEW w \in Writers, NEW from, NEW to \in Outside \cup Inside, Goes(w, from, to)
    PROVE  /\ pc[w] = from /\ pc'[w] = to /\ pc' \in [Writers -> Outside \cup Inside]
           /\ \A v \in Writers \ {w} : pc'[v] = pc[v]
BY DEF Goes, StoreInv, StoreTypes

\* A step that does not touch the record keeps what is known of entries, when
\* it takes no thread into a save or past one.
LEMMA EntriesKept ==
    ASSUME StoreInv, UNCHANGED <<op, ops, store, copy, acked>>, NEW w \in Writers,
           \A v \in Writers \ {w} : pc'[v] = pc[v],
           pc'[w] \notin {"save", "release"},
           pc[w] = "idle" => pc'[w] = "idle",
           pc[w] \in {"release", "undo"} => pc'[w] \in {"idle", "undo"}
    PROVE  EntryInv' /\ CopyInv' /\ NoLostUpdate'
<1>1. EntryInv' BY DEF StoreInv, EntryInv, Entry
<1>2. CopyInv' /\ NoLostUpdate' BY DEF StoreInv, CopyInv, NoLostUpdate
<1> QED BY <1>1, <1>2

\* A step outside the lock.
LEMMA OutsideStep ==
    ASSUME StoreInv, NEW w \in Writers, NEW from \in Outside \ {"idle"}, NEW to \in Outside,
           Goes(w, from, to),
           UNCHANGED <<op, ops, file, alive, store, copy, acked>>
    PROVE  StoreInv'
<1>1. /\ pc[w] = from /\ pc'[w] = to /\ pc' \in [Writers -> Outside \cup Inside]
      /\ \A v \in Writers \ {w} : pc'[v] = pc[v]
    BY GoesFacts
<1>2. StoreTypes' BY <1>1 DEF StoreInv, StoreTypes
<1>3. \A v \in Writers : Holding(v)' <=> Holding(v)
    BY <1>1 DEF Holding, Outside
<1>4. LockInv' BY <1>3 DEF StoreInv, LockInv, NoFile
<1>5. EntryInv' /\ CopyInv' /\ NoLostUpdate' BY <1>1, EntriesKept DEF Outside
<1> QED BY <1>2, <1>4, <1>5 DEF StoreInv

LEMMA BeginStep ==
    ASSUME StoreInv, NEW w \in Writers, Begin(w)
    PROVE  StoreInv'
<1>1. /\ pc[w] = "idle" /\ pc'[w] = "thread" /\ pc' \in [Writers -> Outside \cup Inside]
      /\ \A v \in Writers \ {w} : pc'[v] = pc[v]
    BY GoesFacts DEF Begin, Outside
<1>2. PICK m \in Mutations : op' = [op EXCEPT ![w] = m] BY DEF Begin
<1>3. /\ ops[w] < MaxOps /\ ops' = [ops EXCEPT ![w] = @ + 1]
      /\ UNCHANGED <<file, alive, store, copy, acked>>
    BY DEF Begin, lockVars, dataVars
<1>4. /\ ops[w] \in Nat /\ ops' \in [Writers -> 0 .. MaxOps] /\ ops'[w] = ops[w] + 1
      /\ \A v \in Writers : ops[v] <= ops'[v] /\ (v # w => ops'[v] = ops[v])
      /\ \A v \in Writers \ {w} : op'[v] = op[v]
    BY <1>2, <1>3, StoreAssumption DEF StoreInv, StoreTypes
<1>5. StoreTypes' BY <1>1, <1>2, <1>3, <1>4 DEF StoreInv, StoreTypes
<1>6. \A v \in Writers : Holding(v)' <=> Holding(v) BY <1>1 DEF Holding
<1>7. LockInv' BY <1>3, <1>6 DEF StoreInv, LockInv, NoFile
<1>8. EntryInv'
    <2>1. \A e \in store.entries : e[1] \in Writers /\ e[2] \in Nat /\ e[2] <= ops[e[1]]
        BY DEF StoreInv, StoreTypes, Records, EntryIds, EntryInv
    <2>2. \A e \in store.entries : e[2] <= ops'[e[1]]
        BY <1>4, <2>1, StoreAssumption DEF StoreInv, StoreTypes
    <2>3. <<w, ops'[w]>> \notin store.entries BY <1>4, <2>1
    <2> QED BY <1>1, <1>3, <1>4, <2>2, <2>3 DEF StoreInv, EntryInv, Entry
<1>9. CopyInv' /\ NoLostUpdate' BY <1>1, <1>3 DEF StoreInv, CopyInv, NoLostUpdate
<1> QED BY <1>5, <1>7, <1>8, <1>9 DEF StoreInv

\* os.open creates the file only when there is none.
LEMMA CreatesStep ==
    ASSUME StoreInv, NEW w \in Writers, Creates(w)
    PROVE  StoreInv'
<1>1. CASE file = NoFile /\ Goes(w, "create", "write")
           /\ file' = [by |-> w, owner |-> NoOne, old |-> FALSE]
    <2>1. UNCHANGED <<op, ops, alive, store, copy, acked>> BY DEF Creates, dataVars
    <2>2. /\ pc[w] = "create" /\ pc'[w] = "write" /\ pc' \in [Writers -> Outside \cup Inside]
          /\ \A v \in Writers \ {w} : pc'[v] = pc[v]
        BY <1>1, GoesFacts DEF Inside
    <2>3. StoreTypes' BY <1>1, <2>1, <2>2 DEF StoreInv, StoreTypes
    <2>4. \A v \in Writers : ~ Holding(v)
        BY <1>1, StoreAssumption DEF StoreInv, LockInv, NoFile
    <2>5. LockInv' BY <1>1, <2>2, <2>4 DEF LockInv, Holding
    <2>6. EntryInv' /\ CopyInv' /\ NoLostUpdate' BY <2>1, <2>2, EntriesKept
    <2> QED BY <2>3, <2>5, <2>6 DEF StoreInv
<1>2. CASE Goes(w, "create", "stat") /\ UNCHANGED file
    <2>1. UNCHANGED <<op, ops, alive, store, copy, acked>> BY DEF Creates, dataVars
    <2> QED BY <1>2, <2>1, OutsideStep DEF Outside
<1> QED BY <1>1, <1>2 DEF Creates

\* A step of the holder that keeps its file.
LEMMA InsideStep ==
    ASSUME StoreInv, NEW w \in Writers, NEW from \in Inside, NEW to \in Inside,
           Goes(w, from, to), file'.by = file.by,
           file' \in [by : Writers \cup {NoOne}, owner : Procs \cup {NoOne}, old : {FALSE}],
           UNCHANGED <<op, ops, alive>>, store' \in Records, copy' \in [Writers -> Records]
    PROVE  StoreTypes' /\ LockInv'
<1>1. /\ pc[w] = from /\ pc'[w] = to /\ pc' \in [Writers -> Outside \cup Inside]
      /\ \A v \in Writers \ {w} : pc'[v] = pc[v]
    BY GoesFacts
<1>2. StoreTypes' BY <1>1 DEF StoreInv, StoreTypes
<1>3. \A v \in Writers : Holding(v)' <=> Holding(v) BY <1>1 DEF Holding, Inside
<1>4. file.by = w /\ Holding(w) BY <1>1 DEF StoreInv, LockInv, Holding, Inside
<1>5. LockInv' BY <1>3, <1>4 DEF StoreInv, LockInv
<1> QED BY <1>2, <1>5

\* The holder unlinks its file and is outside.
LEMMA LeavingStep ==
    ASSUME StoreInv, NEW w \in Writers, pc[w] \in Inside, pc' = [pc EXCEPT ![w] = "idle"],
           file' = NoFile, UNCHANGED <<op, ops, alive, store, copy>>
    PROVE  StoreTypes' /\ LockInv' /\ EntryInv' /\ CopyInv'
<1>1. /\ pc'[w] = "idle" /\ pc' \in [Writers -> Outside \cup Inside]
      /\ \A v \in Writers \ {w} : pc'[v] = pc[v]
    BY DEF StoreInv, StoreTypes, Outside
<1>2. StoreTypes' BY <1>1 DEF StoreInv, StoreTypes, NoFile
<1>3. \A v \in Writers \ {w} : ~ Holding(v) BY Alone DEF Holding, Inside
<1>4. LockInv' BY <1>1, <1>3 DEF LockInv, Holding
<1>5. EntryInv' BY <1>1 DEF StoreInv, EntryInv, Entry
<1>6. CopyInv' BY <1>1 DEF StoreInv, CopyInv
<1> QED BY <1>2, <1>4, <1>5, <1>6

LEMMA WritesOwnerStep ==
    ASSUME StoreInv, NEW w \in Writers, WritesOwner(w)
    PROVE  StoreInv'
<1>1. /\ Goes(w, "write", "load")
      /\ file' = IF file.by = w THEN [file EXCEPT !.owner = ProcOf[w]] ELSE file
      /\ UNCHANGED <<op, ops, alive, store, copy, acked>>
    BY DEF WritesOwner, dataVars
<1>2. /\ pc[w] = "write" /\ pc'[w] = "load" /\ \A v \in Writers \ {w} : pc'[v] = pc[v]
    BY <1>1, GoesFacts DEF Inside
<1>3. /\ file'.by = file.by
      /\ file' \in [by : Writers \cup {NoOne}, owner : Procs \cup {NoOne}, old : {FALSE}]
    BY <1>1, StoreAssumption DEF StoreInv, StoreTypes
<1>4. StoreTypes' /\ LockInv' BY <1>1, <1>3, InsideStep DEF Inside, StoreInv, StoreTypes
<1>5. EntryInv' /\ CopyInv' /\ NoLostUpdate' BY <1>1, <1>2, EntriesKept
<1> QED BY <1>4, <1>5 DEF StoreInv

LEMMA LoadsStep ==
    ASSUME StoreInv, NEW w \in Writers, Loads(w)
    PROVE  StoreInv'
<1>1. /\ Goes(w, "load", "save") /\ copy' = [copy EXCEPT ![w] = store]
      /\ UNCHANGED <<op, ops, file, alive, store, acked>>
    BY DEF Loads, lockVars
<1>2. /\ pc[w] = "load" /\ pc'[w] = "save" /\ \A v \in Writers \ {w} : pc'[v] = pc[v]
    BY <1>1, GoesFacts DEF Inside
<1>3. /\ copy' \in [Writers -> Records] /\ copy'[w] = store
      /\ \A v \in Writers \ {w} : copy'[v] = copy[v]
    BY <1>1 DEF StoreInv, StoreTypes
<1>4. StoreTypes' /\ LockInv' BY <1>1, <1>3, InsideStep DEF Inside, StoreInv, StoreTypes
<1>5. EntryInv' BY <1>1, <1>2 DEF StoreInv, EntryInv, Entry
<1>6. CopyInv' /\ NoLostUpdate' BY <1>1, <1>2, <1>3 DEF StoreInv, CopyInv, NoLostUpdate
<1> QED BY <1>4, <1>5, <1>6 DEF StoreInv

\* What a save makes of the record: one mutation of the record as it is.
LEMMA SaveFacts ==
    ASSUME StoreInv, NEW w \in Writers, Saves(w)
    PROVE  /\ store' \in Records
           /\ store'.entries = IF op[w] = "log" THEN store.entries \cup {Entry(w)} ELSE store.entries
           /\ store'.closed = IF op[w] = "close" THEN TRUE ELSE store.closed
           /\ Entry(w) \in EntryIds /\ Entry(w) \notin store.entries
<1>1. pc[w] = "save" /\ copy[w] = store /\ store \in Records /\ op[w] \in Mutations
    BY DEF Saves, Goes, StoreInv, CopyInv, StoreTypes
<1>2. Entry(w) \notin store.entries BY <1>1 DEF StoreInv, EntryInv
<1>3. Entry(w) \in EntryIds
    <2>1. ops[w] \in 0 .. MaxOps /\ ops[w] >= 1
        BY <1>1 DEF StoreInv, StoreTypes, EntryInv
    <2>2. ops[w] \in 1 .. MaxOps BY <2>1
    <2> QED BY <2>2 DEF Entry, EntryIds
<1>4. \A r \in Records :
          /\ [r EXCEPT !.exists = TRUE] \in Records
          /\ [r EXCEPT !.exists = TRUE].entries = r.entries
          /\ [r EXCEPT !.exists = TRUE].closed = r.closed
    BY DEF Records
<1>5. CASE op[w] = "log"
    <2> DEFINE r == [store EXCEPT !.exists = TRUE]
               q == [r EXCEPT !.entries = r.entries \cup {Entry(w)}]
    <2>1. store' = Mutated(w) BY <1>5 DEF Saves
    <2>2. r.entries = store.entries /\ r.closed = store.closed /\ r \in Records BY <1>1, <1>4
    <2>3. store' = q BY <1>1, <1>5, <2>1 DEF Mutated, Records
    <2> HIDE DEF r
    <2>4. r.entries \cup {Entry(w)} \in SUBSET EntryIds BY <1>3, <2>2 DEF Records
    <2>5. q \in Records /\ q.entries = r.entries \cup {Entry(w)} /\ q.closed = r.closed
        BY <2>2, <2>4 DEF Records
    <2> QED BY <1>2, <1>3, <1>5, <2>2, <2>3, <2>5
<1>6. CASE op[w] = "close"
    <2> DEFINE r == [store EXCEPT !.exists = TRUE]
               q == [r EXCEPT !.closed = TRUE]
    <2>1. store' = Mutated(w) BY <1>6 DEF Saves
    <2>2. r.entries = store.entries /\ r \in Records BY <1>1, <1>4
    <2>3. store' = q BY <1>1, <1>6, <2>1 DEF Mutated, Records
    <2> HIDE DEF r
    <2>4. q \in Records /\ q.entries = r.entries /\ q.closed = TRUE BY <2>2 DEF Records
    <2> QED BY <1>2, <1>3, <1>6, <2>2, <2>3, <2>4
<1>7. CASE op[w] = "open"
    <2>1. store' = store \/ store' = [store EXCEPT !.exists = TRUE]
        BY <1>1, <1>7 DEF Saves, Mutated
    <2> QED BY <1>1, <1>2, <1>3, <1>4, <1>7, <2>1
<1> QED BY <1>1, <1>5, <1>6, <1>7 DEF Mutations

LEMMA SavesStep ==
    ASSUME StoreInv, NEW w \in Writers, Saves(w)
    PROVE  StoreInv'
<1>1. /\ Goes(w, "save", "release")
      /\ UNCHANGED <<op, ops, file, alive, copy, acked>>
    BY DEF Saves, lockVars
<1>2. /\ pc[w] = "save" /\ pc'[w] = "release" /\ \A v \in Writers \ {w} : pc'[v] = pc[v]
    BY <1>1, GoesFacts DEF Inside
<1>3. /\ store' \in Records
      /\ store'.entries = IF op[w] = "log" THEN store.entries \cup {Entry(w)} ELSE store.entries
      /\ Entry(w) \in EntryIds
    BY SaveFacts
<1>4. StoreTypes' /\ LockInv' BY <1>1, <1>3, InsideStep DEF Inside, StoreInv, StoreTypes
<1>5. \A v \in Writers \ {w} : ~ Holding(v) BY <1>2, Alone DEF Holding
<1>6. EntryInv'
    <2>1. \A v \in Writers : pc'[v] # "idle" => ops'[v] >= 1
        BY <1>1, <1>2 DEF StoreInv, EntryInv
    <2>2. ops[w] \in Nat BY DEF StoreInv, StoreTypes
    <2>3. \A e \in store'.entries : e[2] <= ops'[e[1]]
        BY <1>1, <1>3, <2>2 DEF StoreInv, EntryInv, Entry
    <2>4. \A v \in Writers \ {w} : Entry(v) # Entry(w) BY DEF Entry
    <2>5. \A v \in Writers : pc'[v] \notin {"idle", "release", "undo"} => Entry(v)' \notin store'.entries
        BY <1>1, <1>2, <1>3, <2>4 DEF StoreInv, EntryInv, Entry
    <2>6. \A v \in Writers : pc'[v] = "release" /\ op'[v] = "log" => Entry(v)' \in store'.entries
        BY <1>1, <1>2, <1>3, <1>5 DEF Holding, Entry
    <2> QED BY <2>1, <2>3, <2>5, <2>6 DEF EntryInv
<1>7. CopyInv' BY <1>2, <1>5 DEF CopyInv, Holding
<1>8. NoLostUpdate' BY <1>1, <1>3 DEF StoreInv, NoLostUpdate
<1> QED BY <1>4, <1>6, <1>7, <1>8 DEF StoreInv

LEMMA ReleasesStep ==
    ASSUME StoreInv, NEW w \in Writers, Releases(w)
    PROVE  StoreInv'
<1>1. /\ pc[w] \in {"release", "undo"} /\ pc' = [pc EXCEPT ![w] = "idle"] /\ file' = NoFile
      /\ acked' = IF pc[w] = "release" /\ op[w] = "log" THEN acked \cup {Entry(w)} ELSE acked
      /\ UNCHANGED <<op, ops, alive, store, copy>>
    BY DEF Releases
<1>2. StoreTypes' /\ LockInv' /\ EntryInv' /\ CopyInv' BY <1>1, LeavingStep DEF Inside
<1>3. NoLostUpdate' BY <1>1 DEF StoreInv, EntryInv, NoLostUpdate
<1> QED BY <1>2, <1>3 DEF StoreInv

LEMMA StoreInvNext ==
    ASSUME StoreInv, [Next]_vars, Healthy
    PROVE  StoreInv'
<1>1. ASSUME NEW w \in Writers, Works(w) PROVE StoreInv'
    <2>1. CASE TakesThreadLock(w)
        BY <2>1, OutsideStep DEF TakesThreadLock, dataVars, Outside
    <2>2. CASE Creates(w) BY <2>2, CreatesStep
    <2>3. CASE WritesOwner(w) BY <2>3, WritesOwnerStep
    <2>4. CASE WriteFails(w)
        <3>1. /\ pc[w] = "write" /\ pc' = [pc EXCEPT ![w] = "idle"] /\ file' = NoFile
              /\ UNCHANGED <<op, ops, alive, store, copy, acked>>
            BY <2>4 DEF WriteFails, Goes, dataVars
        <3>2. StoreTypes' /\ LockInv' /\ EntryInv' /\ CopyInv' BY <3>1, LeavingStep DEF Inside
        <3> QED BY <3>1, <3>2 DEF StoreInv, NoLostUpdate
    <2>5. CASE Stats(w)
        <3>1. file.old = FALSE BY DEF StoreInv, StoreTypes
        <3> QED BY <2>5, <3>1, OutsideStep DEF Stats, lockVars, dataVars, Outside
    <2>6. CASE Judges(w) BY <2>6 DEF Judges, Goes, StoreInv, StoreTypes, Outside, Inside
    <2>7. CASE UnlinksStale(w)
        BY <2>7 DEF UnlinksStale, Goes, StoreInv, StoreTypes, Outside, Inside
    <2>8. CASE Polls(w) BY <2>8, OutsideStep DEF Polls, lockVars, dataVars, Outside
    <2>9. CASE TimesOut(w) BY <2>9, OutsideStep DEF TimesOut, dataVars, Outside
    <2>10. CASE Loads(w) BY <2>10, LoadsStep
    <2>11. CASE Saves(w) BY <2>11, SavesStep
    <2>12. CASE SaveFails(w)
        <3>1. Goes(w, "save", "undo") /\ UNCHANGED <<op, ops, file, alive, store, copy, acked>>
            BY <2>12 DEF SaveFails, lockVars, dataVars
        <3>2. StoreTypes' /\ LockInv' BY <3>1, InsideStep DEF Inside, StoreInv, StoreTypes
        <3>3. /\ pc[w] = "save" /\ pc'[w] = "undo" /\ \A v \in Writers \ {w} : pc'[v] = pc[v]
            BY <3>1, GoesFacts DEF Inside
        <3>4. EntryInv' /\ CopyInv' /\ NoLostUpdate' BY <3>1, <3>3, EntriesKept
        <3> QED BY <3>2, <3>4 DEF StoreInv
    <2>13. CASE Releases(w) BY <2>13, ReleasesStep
    <2> QED BY <1>1, <2>1, <2>2, <2>3, <2>4, <2>5, <2>6, <2>7, <2>8, <2>9, <2>10, <2>11, <2>12, <2>13
            DEF Works
<1>2. ASSUME NEW w \in Writers, Begin(w) PROVE StoreInv' BY <1>2, BeginStep
<1>3. CASE Ages
    <2>1. file.by \in Writers BY <1>3 DEF Ages, StoreInv, LockInv
    <2> QED BY <1>3, <2>1, StoreAssumption DEF Ages, Healthy, StoreInv, StoreTypes
<1>4. ASSUME NEW p \in Procs, Crashes(p) PROVE StoreInv' BY <1>4 DEF Crashes, Healthy
<1>5. CASE UNCHANGED vars
    <2> USE <1>5 DEF vars, lockVars, dataVars
    <2>1. StoreTypes' /\ LockInv' BY DEF StoreInv, StoreTypes, LockInv, Holding, NoFile
    <2>2. EntryInv' /\ CopyInv' /\ NoLostUpdate'
        BY DEF StoreInv, EntryInv, CopyInv, NoLostUpdate, Entry
    <2> QED BY <2>1, <2>2 DEF StoreInv
<1> QED BY <1>1, <1>2, <1>3, <1>4, <1>5 DEF Next

LEMMA StoreInvariant == Healthy => (Spec => []StoreInv)
<1> SUFFICES ASSUME Healthy PROVE Spec => []StoreInv OBVIOUS
<1>1. StoreInv /\ [Next]_vars => StoreInv' BY StoreInvNext
<1> QED BY <1>1, StoreInvInit, PTL DEF Spec

-----------------------------------------------------------------------------
\* Two threads, of one process or of two, are never both inside the lock, also
\* when writes and saves of the lock and the record fail (_locked).
THEOREM Exclusive == Healthy => (Spec => []MutualExclusion)
<1> SUFFICES ASSUME Healthy PROVE Spec => []MutualExclusion OBVIOUS
<1>1. StoreInv => MutualExclusion BY DEF StoreInv, LockInv, MutualExclusion
<1> QED BY <1>1, StoreInvariant, PTL

\* No lock file is left when nobody is in a mutation (_locked).
THEOREM Unlocked == Healthy => (Spec => []NoLeak)
<1> SUFFICES ASSUME Healthy PROVE Spec => []NoLeak OBVIOUS
<1>1. StoreInv => NoLeak BY DEF StoreInv, LockInv, NoLeak, Holding
<1> QED BY <1>1, StoreInvariant, PTL

\* An entry whose log() has returned stays in the record (ResearchStore.log).
THEOREM NothingLost == Healthy => (Spec => []NoLostUpdate)
<1> SUFFICES ASSUME Healthy PROVE Spec => []NoLostUpdate OBVIOUS
<1>1. StoreInv => NoLostUpdate BY DEF StoreInv
<1> QED BY <1>1, StoreInvariant, PTL

\* Every step of the store is one of the record, or none.
LEMMA StepRefines ==
    ASSUME StoreInv, [Next]_vars, Healthy
    PROVE  [Record!RecordNext]_(Record!recordVars)
<1> USE DEF Record!RecordNext, Record!recordVars
<1>1. ASSUME NEW w \in Writers, Saves(w) PROVE [Record!RecordNext]_(Record!recordVars)
    <2>1. /\ store'.entries = IF op[w] = "log" THEN store.entries \cup {Entry(w)} ELSE store.entries
          /\ store'.closed = IF op[w] = "close" THEN TRUE ELSE store.closed
          /\ Entry(w) \in EntryIds /\ Entry(w) \notin store.entries /\ acked' = acked
        BY <1>1, SaveFacts DEF Saves
    <2>2. CASE op[w] = "log" BY <2>1, <2>2 DEF Record!Append
    <2>3. CASE op[w] = "close" BY <2>1, <2>3 DEF Record!Close
    <2>4. CASE op[w] \notin {"log", "close"} BY <2>1, <2>4
    <2> QED BY <2>2, <2>3, <2>4
<1>2. ASSUME NEW w \in Writers, Releases(w) PROVE [Record!RecordNext]_(Record!recordVars)
    <2>1. /\ store' = store
          /\ \/ acked' = acked
             \/ acked' = acked \cup {Entry(w)} /\ pc[w] = "release" /\ op[w] = "log"
        BY <1>2 DEF Releases
    <2>2. CASE acked' = acked BY <2>1, <2>2
    <2>3. CASE acked' = acked \cup {Entry(w)} /\ pc[w] = "release" /\ op[w] = "log"
        <3>1. Entry(w) \in store.entries /\ Entry(w) \in EntryIds
            BY <2>3 DEF StoreInv, EntryInv, StoreTypes, Records
        <3> QED BY <2>1, <2>3, <3>1 DEF Record!Acknowledge
    <2> QED BY <2>1, <2>2, <2>3
<1>3. ASSUME UNCHANGED <<store, acked>> PROVE [Record!RecordNext]_(Record!recordVars) BY <1>3
<1>4. ASSUME NEW w \in Writers, Works(w), ~ Saves(w), ~ Releases(w) PROVE UNCHANGED <<store, acked>>
    BY <1>4 DEF Works, TakesThreadLock, Creates, WritesOwner, WriteFails, Stats, Judges,
                UnlinksStale, Polls, TimesOut, Loads, SaveFails, dataVars
<1>5. ASSUME Ages \/ (\E w \in Writers : Begin(w)) \/ (\E p \in Procs : Crashes(p)) \/ UNCHANGED vars
      PROVE  UNCHANGED <<store, acked>>
    BY <1>5 DEF Ages, Begin, Crashes, vars, dataVars
<1> QED BY <1>1, <1>2, <1>3, <1>4, <1>5 DEF Next

\* The store does what the abstract record promises (research/store.py).
THEOREM StoreRefines == Healthy => (Spec => Implements)
<1> SUFFICES ASSUME Healthy PROVE Spec => Implements OBVIOUS
<1>1. Init => Record!RecordInit BY DEF Init, Record!RecordInit, NoRecord
<1>2. StoreInv /\ [Next]_vars => [Record!RecordNext]_(Record!recordVars) BY StepRefines
<1> QED BY <1>1, <1>2, StoreInvariant, PTL DEF Spec, Implements, Record!RecordSpec

=============================================================================
