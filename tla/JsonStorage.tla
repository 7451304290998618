----------------------------- MODULE JsonStorage -----------------------------
(***************************************************************************)
(* live/storage.py: JsonFileStorage.  A task saves the state, appends a    *)
(* line or clears the directory; the disk is touched by a thread of its    *)
(* own, which a cancelled task waits for before it lets the namespace's    *)
(* lock go.  A task that is cancelled once more while it waits lets the    *)
(* lock go at once, and the thread writes on.                              *)
(*                                                                         *)
(* A line is written in one or two pieces: os.write may write a part.      *)
(* Names that sanitize alike share a directory and its lock.  Loads change *)
(* nothing and are left out.                                               *)
(***************************************************************************)
EXTENDS Integers, Sequences

CONSTANTS
    Writers,
    Folders,
    Clean,         \* [namespace -> the directory its name sanitizes to]
    MaxWrites,     \* bound: operations
    MaxCrashes     \* bound: crashes

ASSUME StorageAssumption ==
    /\ Clean \in [DOMAIN Clean -> Folders] /\ "none" \notin Writers
    /\ MaxWrites \in Nat /\ MaxCrashes \in Nat

VARIABLES
    task,          \* [task -> the call it makes]
    thread,        \* [number of a call -> what its thread does and how far it is]
    lines,         \* [dir -> pieces of a log]
    stateFile,     \* [dir -> state.json], 0 when there is none
    lockOf,        \* [dir -> the task that has its lock, or NoTask]
    writes, crashes,
    returned,      \* history: [dir -> what the last save or clear that returned left]
    unsure,        \* history: [dir -> what those that began since may leave]
    cut,           \* history: lines that a crash or an error cut off
    abandoned      \* history: directories whose lock was let go under a thread

storageVars == <<task, thread, lines, stateFile, lockOf, writes, crashes, returned, unsure,
                 cut, abandoned>>

NoTask == "none"
NoCall == [op |-> "none", dir |-> "", id |-> 0, phase |-> "idle", cancelled |-> FALSE]
NoThread == [op |-> "none", dir |-> "", step |-> "none"]

StorageInit ==
    /\ task = [t \in Writers |-> NoCall] /\ thread = [k \in 1 .. MaxWrites |-> NoThread]
    /\ lines = [d \in Folders |-> <<>>] /\ stateFile = [d \in Folders |-> 0]
    /\ lockOf = [d \in Folders |-> NoTask]
    /\ writes = 0 /\ crashes = 0
    /\ returned = [d \in Folders |-> 0] /\ unsure = [d \in Folders |-> {}]
    /\ cut = {} /\ abandoned = {}

\* save, append_trade, append_equity_point or clear is called for a namespace.
Call(t, op, ns) ==
    /\ task[t].phase = "idle"
    /\ writes < MaxWrites /\ writes' = writes + 1
    /\ task' = [task EXCEPT ![t] = [op |-> op, dir |-> Clean[ns], id |-> writes',
                                    phase |-> "waiting", cancelled |-> FALSE]]
    /\ UNCHANGED <<thread, lines, stateFile, lockOf, crashes, returned, unsure, cut, abandoned>>

\* What a call that succeeds leaves as the state.
Leaves(c) == CASE c.op = "save" -> {c.id} [] c.op = "clear" -> {0} [] OTHER -> {}

\* The task has the lock, and its thread begins.
Acquire(t) ==
    LET c == task[t] IN
    /\ c.phase = "waiting" /\ lockOf[c.dir] = NoTask
    /\ lockOf' = [lockOf EXCEPT ![c.dir] = t]
    /\ task' = [task EXCEPT ![t].phase = "writing"]
    /\ thread' = [thread EXCEPT ![c.id] = [op |-> c.op, dir |-> c.dir, step |-> "begun"]]
    /\ unsure' = [unsure EXCEPT ![c.dir] = @ \cup Leaves(c)]
    /\ UNCHANGED <<lines, stateFile, writes, crashes, returned, cut, abandoned>>

AtWork(k) == thread[k].step \in {"begun", "half"}

\* _append_line opens the log and writes the whole line, or a part and then the
\* rest.
AppendPiece(k) ==
    LET c == thread[k] IN
    /\ c.op = "append" /\ AtWork(k)
    /\ \/ /\ c.step = "begun"
          /\ lines' = [lines EXCEPT ![c.dir] = @ \o <<<<k, 1>>, <<k, 2>>>>]
          /\ thread' = [thread EXCEPT ![k].step = "done"]
       \/ /\ c.step = "begun"
          /\ lines' = [lines EXCEPT ![c.dir] = Append(@, <<k, 1>>)]
          /\ thread' = [thread EXCEPT ![k].step = "half"]
       \/ /\ c.step = "half"
          /\ lines' = [lines EXCEPT ![c.dir] = Append(@, <<k, 2>>)]
          /\ thread' = [thread EXCEPT ![k].step = "done"]
    /\ UNCHANGED <<task, stateFile, lockOf, writes, crashes, returned, unsure, cut, abandoned>>

\* _write_atomic writes a temporary file and moves it into place.
WriteState(k) ==
    LET c == thread[k] IN
    /\ c.op = "save" /\ AtWork(k)
    /\ \/ /\ c.step = "begun"
          /\ thread' = [thread EXCEPT ![k].step = "half"]
          /\ UNCHANGED stateFile
       \/ /\ c.step = "half"
          /\ stateFile' = [stateFile EXCEPT ![c.dir] = k]
          /\ thread' = [thread EXCEPT ![k].step = "done"]
    /\ UNCHANGED <<task, lines, lockOf, writes, crashes, returned, unsure, cut, abandoned>>

\* rmtree removes the files one by one, in any order, and the directory.  What
\* is left to write of a line whose file is removed goes with it.
ClearFiles(k) ==
    LET d == thread[k].dir IN
    /\ thread[k].op = "clear" /\ AtWork(k)
    /\ \/ /\ lines[d] # <<>> /\ lines' = [lines EXCEPT ![d] = <<>>]
          /\ thread' = [j \in 1 .. MaxWrites |->
                 IF thread[j].op = "append" /\ thread[j].dir = d /\ thread[j].step = "half"
                 THEN [thread[j] EXCEPT !.step = "done"] ELSE thread[j]]
          /\ UNCHANGED stateFile
       \/ /\ stateFile[d] # 0 /\ stateFile' = [stateFile EXCEPT ![d] = 0]
          /\ UNCHANGED <<lines, thread>>
       \/ /\ lines[d] = <<>> /\ stateFile[d] = 0
          /\ thread' = [thread EXCEPT ![k].step = "done"]
          /\ UNCHANGED <<lines, stateFile>>
    /\ UNCHANGED <<task, lockOf, writes, crashes, returned, unsure, cut, abandoned>>

\* A system call of the thread raises: what it has written so far stays.
ThreadFails(k) ==
    /\ AtWork(k)
    /\ thread' = [thread EXCEPT ![k].step = "failed"]
    /\ cut' = IF thread[k].op = "append" /\ thread[k].step = "half" THEN cut \cup {k} ELSE cut
    /\ UNCHANGED <<task, lines, stateFile, lockOf, writes, crashes, returned, unsure, abandoned>>

\* Mutant: a cancelled task does not wait for its thread.
Cancel_Leaves(t) ==
    /\ task[t].phase = "writing" /\ ~task[t].cancelled
    /\ task' = [task EXCEPT ![t] = NoCall]
    /\ lockOf' = [lockOf EXCEPT ![task[t].dir] = NoTask]
    /\ UNCHANGED <<thread, lines, stateFile, writes, crashes, returned, unsure, cut, abandoned>>

\* The task is cancelled: while it waits for the lock the call ends, later
\* _complete_io has shielded the thread and waits for it.
Cancel(t) ==
    /\ \/ task[t].phase = "waiting" /\ task' = [task EXCEPT ![t] = NoCall]
       \/ /\ task[t].phase = "writing" /\ ~task[t].cancelled
          /\ task' = [task EXCEPT ![t].cancelled = TRUE]
    /\ UNCHANGED <<thread, lines, stateFile, lockOf, writes, crashes, returned, unsure,
                   cut, abandoned>>

\* It is cancelled again: that ends the wait, and suppress() swallows the error.
\* The thread goes on by itself, or is dropped when it had not started.
CancelAgain(t) ==
    LET c == task[t] IN
    /\ c.phase = "writing" /\ c.cancelled /\ AtWork(c.id)
    /\ task' = [task EXCEPT ![t] = NoCall]
    /\ lockOf' = [lockOf EXCEPT ![c.dir] = NoTask]
    /\ \/ abandoned' = abandoned \cup {c.dir} /\ UNCHANGED thread
       \/ /\ thread[c.id].step = "begun"
          /\ thread' = [thread EXCEPT ![c.id] = NoThread]
          /\ UNCHANGED abandoned
    /\ UNCHANGED <<lines, stateFile, writes, crashes, returned, unsure, cut>>

\* The thread has ended: the lock is released, the call returns or raises.
Return(t) ==
    LET c == task[t]
        step == thread[c.id].step
    IN
    /\ c.phase = "writing" /\ step \in {"done", "failed"}
    /\ task' = [task EXCEPT ![t] = NoCall] /\ thread' = [thread EXCEPT ![c.id] = NoThread]
    /\ lockOf' = [lockOf EXCEPT ![c.dir] = NoTask]
    /\ \/ /\ step = "done" /\ ~c.cancelled /\ c.op # "append"
          /\ returned' = [returned EXCEPT ![c.dir] = IF c.op = "save" THEN c.id ELSE 0]
          /\ unsure' = [unsure EXCEPT ![c.dir] = {}]
       \/ /\ step = "done" /\ (c.cancelled \/ c.op = "append")
          /\ UNCHANGED <<returned, unsure>>
       \/ /\ step = "failed"
          /\ unsure' = [unsure EXCEPT ![c.dir] = @ \ {c.id}]
          /\ UNCHANGED returned
    /\ UNCHANGED <<lines, stateFile, writes, crashes, cut, abandoned>>

\* The process ends anywhere; the files stay as they are.
StorageCrash ==
    /\ crashes < MaxCrashes /\ crashes' = crashes + 1
    /\ cut' = cut \cup {k \in 1 .. MaxWrites :
                           thread[k].op = "append" /\ thread[k].step = "half"}
    /\ task' = [t \in Writers |-> NoCall] /\ thread' = [k \in 1 .. MaxWrites |-> NoThread]
    /\ lockOf' = [d \in Folders |-> NoTask]
    /\ UNCHANGED <<lines, stateFile, writes, returned, unsure, abandoned>>

StorageNext ==
    \/ \E t \in Writers, op \in {"save", "append", "clear"}, ns \in DOMAIN Clean : Call(t, op, ns)
    \/ \E t \in Writers : Acquire(t) \/ Cancel(t) \/ CancelAgain(t) \/ Return(t)
    \/ \E k \in 1 .. MaxWrites : AppendPiece(k) \/ WriteState(k) \/ ClearFiles(k) \/ ThreadFails(k)
    \/ StorageCrash

StorageSpec == StorageInit /\ [][StorageNext]_storageVars

-----------------------------------------------------------------------------
\* The i-th piece of s: a first one has its second behind it, unless its thread
\* is between the two or the line was cut off; a second one follows its first.
Whole(s, i) ==
    LET k == s[i][1] IN
    IF s[i][2] = 2 THEN i > 1 /\ s[i - 1] = <<k, 1>>
    ELSE \/ k \in cut
         \/ i < Len(s) /\ s[i + 1] = <<k, 2>>
         \/ i = Len(s) /\ thread[k].step = "half"

\* Whoever is cancelled, waiting or writing, and whatever raises: lines are never
\* mixed and only an error or a crash cuts one off, and the state is what the
\* last save or clear that returned left, or one that began later and did not
\* fail (storage.py:56-65, 123-157, 210-214).  Left out are the directories in
\* which a task was cancelled a second time while it waited for its thread.
FilesWhole ==
    \A d \in Folders \ abandoned :
        /\ \A i \in 1 .. Len(lines[d]) : Whole(lines[d], i)
        /\ stateFile[d] \in {returned[d]} \cup unsure[d]
=============================================================================
