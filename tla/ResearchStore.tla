---------------------------- MODULE ResearchStore ----------------------------
(***************************************************************************)
(* ResearchStore (research/store.py): processes, each with threads, mutate *)
(* one record.  A mutation takes the process's thread lock, then the lock  *)
(* file, loads the record, saves it through os.replace and lets go.        *)
(*                                                                         *)
(* Every system call is a step.  The lock file's age is one bit: older     *)
(* than _STALE_LOCK_SECONDS or not.  Loads that raise, and process ids     *)
(* that are used again, are left out.                                      *)
(***************************************************************************)
EXTENDS Naturals, FiniteSets

CONSTANTS
    Procs,         \* processes
    Writers,       \* threads
    ProcOf,        \* [Writers -> Procs]
    NoOne,         \* neither a process nor a thread
    Faults,        \* what may go wrong
    MaxOps,        \* bound: mutations of each thread
    MaxPolls       \* bound: waits of one mutation before its deadline

AllFaults ==
    {"crash",      \* a process dies
     "disk",       \* a write or a save fails
     "slow"}       \* a live process keeps the lock past the staleness limit

ASSUME StoreAssumption ==
    /\ ProcOf \in [Writers -> Procs]
    /\ NoOne \notin Procs \cup Writers
    /\ Faults \subseteq AllFaults
    /\ MaxOps \in Nat /\ MaxPolls \in Nat

VARIABLES
    pc,            \* [Writers -> where the thread is]
    op,            \* [Writers -> the mutation it is in]
    ops,           \* [Writers -> mutations begun]
    polls,         \* [Writers -> waits of this mutation]
    thread,        \* [Procs -> the thread that has the in-process lock]
    file,          \* the lock file at the path
    alive,         \* the processes that live
    store,         \* the record on disk
    copy,          \* [Writers -> the record as loaded]
    acked          \* history: entries whose log() has returned

lockVars == <<thread, file, alive>>
dataVars == <<store, copy, acked>>
vars == <<pc, op, ops, polls, lockVars, dataVars>>

-------------------------------------------------------------------------------
Mutations == {"log", "close", "open"}
EntryIds == Writers \X (1 .. MaxOps)
Records == [exists: BOOLEAN, closed: BOOLEAN, entries: SUBSET EntryIds]
NoRecord == [exists |-> FALSE, closed |-> FALSE, entries |-> {}]

\* by: the thread that created it; owner: the process id written into it.
Files == [by: Writers, owner: Procs \cup {NoOne}, old: BOOLEAN]
NoFile == [by |-> NoOne, owner |-> NoOne, old |-> FALSE]

Entry(w) == <<w, ops[w]>>

Goes(w, from, to) == pc[w] = from /\ pc' = [pc EXCEPT ![w] = to]

\* The exits of the two context managers: both locks are let go.
Leaves(w) == thread' = [thread EXCEPT ![ProcOf[w]] = NoOne]

Begin(w) ==
    /\ Goes(w, "idle", "thread")
    /\ ops[w] < MaxOps
    /\ \E m \in Mutations : op' = [op EXCEPT ![w] = m]
    /\ ops' = [ops EXCEPT ![w] = @ + 1]
    /\ polls' = [polls EXCEPT ![w] = 0]
    /\ UNCHANGED <<lockVars, dataVars>>

\* The in-process lock: one re-entrant lock per path, shared by all stores.
TakesThreadLock(w) ==
    /\ Goes(w, "thread", "create")
    /\ thread[ProcOf[w]] = NoOne
    /\ thread' = [thread EXCEPT ![ProcOf[w]] = w]
    /\ UNCHANGED <<op, ops, polls, file, alive, dataVars>>

\* os.open with O_CREAT | O_EXCL.
Creates(w) ==
    /\ IF file = NoFile
       THEN /\ Goes(w, "create", "write")
            /\ file' = [by |-> w, owner |-> NoOne, old |-> FALSE]
       ELSE /\ Goes(w, "create", "stat")
            /\ UNCHANGED file
    /\ UNCHANGED <<op, ops, polls, thread, alive, dataVars>>

\* Mutant: the thread is written as the owner.
WritesOwner_Thread(w) ==
    /\ Goes(w, "write", "load")
    /\ file' = IF file.by = w THEN [file EXCEPT !.owner = w] ELSE file
    /\ UNCHANGED <<op, ops, polls, thread, alive, dataVars>>

\* The process id is written to the file this thread created, which need not
\* be the one at the path any more.
WritesOwner(w) ==
    /\ Goes(w, "write", "load")
    /\ file' = IF file.by = w THEN [file EXCEPT !.owner = ProcOf[w]] ELSE file
    /\ UNCHANGED <<op, ops, polls, thread, alive, dataVars>>

\* Mutant: the lock file stays when its write fails.
WriteFails_Keeps(w) ==
    /\ "disk" \in Faults
    /\ Goes(w, "write", "idle")
    /\ Leaves(w)
    /\ UNCHANGED <<op, ops, polls, file, alive, dataVars>>

\* The write fails: whatever is at the path is unlinked.
WriteFails(w) ==
    /\ "disk" \in Faults
    /\ Goes(w, "write", "idle")
    /\ file' = NoFile
    /\ Leaves(w)
    /\ UNCHANGED <<op, ops, polls, alive, dataVars>>

\* Mutant: the age of the lock file is not looked at.
Stats_NoAge(w) ==
    /\ Goes(w, "stat", IF file # NoFile THEN "judge" ELSE "wait")
    /\ UNCHANGED <<op, ops, polls, lockVars, dataVars>>

\* _remove_stale_file: stat, then the owner, then unlink; each looks anew at
\* the path.  A file that is gone, or not yet written, has no live owner.
Stats(w) ==
    /\ Goes(w, "stat", IF file # NoFile /\ file.old THEN "judge" ELSE "wait")
    /\ UNCHANGED <<op, ops, polls, lockVars, dataVars>>

Judges(w) ==
    /\ Goes(w, "judge", IF file.owner \in alive THEN "wait" ELSE "unlink")
    /\ UNCHANGED <<op, ops, polls, lockVars, dataVars>>

UnlinksStale(w) ==
    /\ Goes(w, "unlink", IF file = NoFile THEN "wait" ELSE "create")
    /\ file' = NoFile
    /\ UNCHANGED <<op, ops, polls, thread, alive, dataVars>>

Polls(w) ==
    /\ polls[w] < MaxPolls
    /\ Goes(w, "wait", "create")
    /\ polls' = [polls EXCEPT ![w] = @ + 1]
    /\ UNCHANGED <<op, ops, lockVars, dataVars>>

\* Mutant: a mutation that times out keeps the in-process lock.
TimesOut_KeepsThread(w) ==
    /\ Goes(w, "wait", "idle")
    /\ UNCHANGED <<op, ops, polls, lockVars, dataVars>>

\* The deadline may pass at any wait.
TimesOut(w) ==
    /\ Goes(w, "wait", "idle")
    /\ Leaves(w)
    /\ UNCHANGED <<op, ops, polls, file, alive, dataVars>>

Loads(w) ==
    /\ Goes(w, "load", "save")
    /\ copy' = [copy EXCEPT ![w] = store]
    /\ UNCHANGED <<op, ops, polls, lockVars, store, acked>>

\* What the mutation makes of the loaded record.
Mutated(w) ==
    CASE op[w] = "log" ->
            [copy[w] EXCEPT !.exists = TRUE, !.entries = @ \cup {Entry(w)}]
      [] op[w] = "close" -> [copy[w] EXCEPT !.exists = TRUE, !.closed = TRUE]
      [] op[w] = "open" -> [copy[w] EXCEPT !.exists = TRUE]

\* Mutant: open() saves a new record over one that exists.
Saves_OpenResets(w) ==
    /\ Goes(w, "save", "release")
    /\ store' = IF op[w] = "open" THEN [NoRecord EXCEPT !.exists = TRUE] ELSE Mutated(w)
    /\ UNCHANGED <<op, ops, polls, lockVars, copy, acked>>

\* os.replace; open() of a record that exists saves nothing.
Saves(w) ==
    /\ Goes(w, "save", "release")
    /\ store' = IF op[w] = "open" /\ copy[w].exists THEN store ELSE Mutated(w)
    /\ UNCHANGED <<op, ops, polls, lockVars, copy, acked>>

SaveFails(w) ==
    /\ "disk" \in Faults
    /\ Goes(w, "save", "undo")
    /\ UNCHANGED <<op, ops, polls, lockVars, dataVars>>

\* Whatever is at the path is unlinked, the thread lock let go, and the
\* mutation returns, or raises if the save did.
Releases(w) ==
    /\ pc[w] \in {"release", "undo"}
    /\ pc' = [pc EXCEPT ![w] = "idle"]
    /\ file' = NoFile
    /\ Leaves(w)
    /\ acked' = IF pc[w] = "release" /\ op[w] = "log"
                THEN acked \cup {Entry(w)} ELSE acked
    /\ UNCHANGED <<op, ops, polls, alive, store, copy>>

-------------------------------------------------------------------------------
\* Time passes.  A holder that works keeps the file younger than the limit.
Ages ==
    /\ file # NoFile
    /\ ~file.old
    /\ "slow" \in Faults \/ ProcOf[file.by] \notin alive
    /\ file' = [file EXCEPT !.old = TRUE]
    /\ UNCHANGED <<pc, op, ops, polls, thread, alive, dataVars>>

\* A process dies with all its threads; what is on disk stays.
Crashes(p) ==
    /\ "crash" \in Faults
    /\ p \in alive
    /\ alive' = alive \ {p}
    /\ pc' = [w \in Writers |-> IF ProcOf[w] = p THEN "dead" ELSE pc[w]]
    /\ UNCHANGED <<op, ops, polls, thread, file, dataVars>>

Init ==
    /\ pc = [w \in Writers |-> "idle"]
    /\ op = [w \in Writers |-> "open"]
    /\ ops = [w \in Writers |-> 0]
    /\ polls = [w \in Writers |-> 0]
    /\ thread = [p \in Procs |-> NoOne]
    /\ file = NoFile
    /\ alive = Procs
    /\ store = NoRecord
    /\ copy = [w \in Writers |-> NoRecord]
    /\ acked = {}

Works(w) ==
    \/ TakesThreadLock(w) \/ Creates(w) \/ WritesOwner(w) \/ WriteFails(w)
    \/ Stats(w) \/ Judges(w) \/ UnlinksStale(w) \/ Polls(w) \/ TimesOut(w)
    \/ Loads(w) \/ Saves(w) \/ SaveFails(w) \/ Releases(w)

Next ==
    \/ \E w \in Writers : Begin(w) \/ Works(w)
    \/ Ages
    \/ \E p \in Procs : Crashes(p)

Spec == Init /\ [][Next]_vars

\* A thread that can run runs.  The in-process lock is not fair, but a thread
\* begins finitely many mutations.
FairSpec == Spec /\ \A w \in Writers : WF_vars(Works(w))

-------------------------------------------------------------------------------
(* Properties.                                                             *)

Holding(w) == pc[w] \in {"write", "load", "save", "undo", "release"}

\* Two live threads are never both inside the lock, also while one of them
\* takes over the lock of a process that died.
MutualExclusion == \A v, w \in Writers : Holding(v) /\ Holding(w) => v = w

\* When no process has died and no thread is in a mutation, no lock file is
\* left: failed writes and saves, and mutations that time out, clean up.
NoLeak ==
    alive = Procs /\ (\A w \in Writers : pc[w] = "idle") => file = NoFile

\* An entry whose log() has returned is in the record, whatever the other
\* processes do and whichever of them die.
NoLostUpdate == acked \subseteq store.entries

Record == INSTANCE ResearchRecord
    WITH Entries <- EntryIds, entries <- store.entries, closed <- store.closed

\* The store does what ResearchRecord says: mutations are atomic, none is
\* lost or undone, and log() returns after its entry is on disk.
Implements == Record!RecordSpec

\* A mutation comes to an end: it returns, raises, or its process has died.
MutationEnds ==
    \A w \in Writers : pc[w] = "thread" ~> pc[w] \in {"idle", "dead"}
=============================================================================
