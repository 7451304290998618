---------------------------- MODULE ResearchRecord ----------------------------
(***************************************************************************)
(* What ResearchStore (research/store.py) promises of one record: every    *)
(* mutation takes effect at once, on what all the mutations before it      *)
(* made, and an entry whose log() has returned is in the record for good.  *)
(***************************************************************************)
CONSTANT Entries

VARIABLES
    entries,       \* the entries of the record
    closed,        \* closed_at is set
    acked          \* the entries whose log() has returned

recordVars == <<entries, closed, acked>>

RecordInit == entries = {} /\ closed = FALSE /\ acked = {}

Append(e) ==
    /\ e \notin entries
    /\ entries' = entries \cup {e}
    /\ UNCHANGED <<closed, acked>>

Acknowledge(e) ==
    /\ e \in entries
    /\ acked' = acked \cup {e}
    /\ UNCHANGED <<entries, closed>>

Close ==
    /\ closed' = TRUE
    /\ UNCHANGED <<entries, acked>>

RecordNext == Close \/ \E e \in Entries : Append(e) \/ Acknowledge(e)

RecordSpec == RecordInit /\ [][RecordNext]_recordVars
=============================================================================
