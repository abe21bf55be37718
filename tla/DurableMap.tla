----------------------------- MODULE DurableMap -----------------------------
(***************************************************************************)
(* What segstore promises its consumer, without segments, files or merges: *)
(* a map from ids to items, with a log of the writes since the last        *)
(* commit.  Everything committed and every acknowledged write survives a   *)
(* crash; a write that was refused may still come back; a commit whose     *)
(* outcome is unknown blocks writing until the map is opened again.        *)
(***************************************************************************)
EXTENDS OpLog

CONSTANTS
  Ids,
  Items,
  SurvivesPowerLoss,  \* an acknowledged write survives a power loss
  Nothing             \* not a map

VARIABLES
  base,      \* the committed map
  log,       \* the records since then that a crash may leave
  taken,     \* how many of them the map has taken as its writes
  acked,     \* how many of them no process crash can lose
  doubt,     \* the map of a commit that may or may not have happened
  view,      \* what the writer reads, Nothing while it is not open
  snapshot   \* what readers read

dmVars == <<base, log, taken, acked, doubt, view, snapshot>>

Maps == [Ids -> SUBSET Items]
EmptyMap == [i \in Ids |-> {}]

MapAfter(n) == [i \in Ids |-> After(base[i], log, n, i)]
Contents == MapAfter(taken)

Init ==
  /\ base = EmptyMap
  /\ log = <<>>
  /\ taken = 0
  /\ acked = 0
  /\ doubt = Nothing
  /\ view = Nothing
  /\ snapshot = EmptyMap

\* A write is taken only behind records that were, and never while a commit is
\* in doubt: either one could hide it from recovery.
MayWrite ==
  /\ view # Nothing
  /\ doubt = Nothing
  /\ taken = Len(log)

\* Write op to the log; the writer reads it at once.
TakeRecord(op) ==
  /\ MayWrite
  /\ log' = Append(log, op)
  /\ taken' = taken + 1
  /\ view' = [i \in Ids |-> After(base[i], log', taken', i)]
  /\ UNCHANGED <<base, doubt, snapshot>>

Write(op) == TakeRecord(op) /\ acked' = taken'
WriteLazily(op) == TakeRecord(op) /\ UNCHANGED acked

Acknowledge ==
  /\ MayWrite
  /\ acked' = taken
  /\ UNCHANGED <<base, log, taken, doubt, view, snapshot>>

\* A refused write that left its record in the log.
Refuse(op) ==
  /\ MayWrite
  /\ log' = Append(log, op)
  /\ UNCHANGED <<base, taken, acked, doubt, view, snapshot>>

CommitTo(map) ==
  /\ base' = map
  /\ log' = <<>>
  /\ taken' = 0
  /\ acked' = 0

Commit ==
  /\ view # Nothing
  /\ doubt = Nothing
  /\ CommitTo(Contents)
  /\ UNCHANGED <<doubt, view, snapshot>>

CommitInDoubt ==
  /\ view # Nothing
  /\ doubt = Nothing
  /\ doubt' = Contents
  /\ UNCHANGED <<base, log, taken, acked, view, snapshot>>

Publish ==
  /\ view # Nothing
  /\ snapshot' = base
  /\ UNCHANGED <<base, log, taken, acked, doubt, view>>

LoseTail(from) ==
  \E k \in from .. Len(log) :
    /\ log' = SubSeq(log, 1, k)
    /\ taken' = k
    /\ acked' = IF k < acked THEN k ELSE acked
    /\ UNCHANGED base

Stopped == view' = Nothing /\ snapshot' = EmptyMap

Crash == LoseTail(acked) /\ Stopped /\ UNCHANGED doubt

\* A power loss also decides a doubtful commit.
PowerLoss ==
  /\ \/ LoseTail(IF SurvivesPowerLoss THEN acked ELSE 0)
     \/ doubt # Nothing /\ CommitTo(doubt)
  /\ doubt' = Nothing
  /\ Stopped

\* Opening finds a doubtful commit done, and serves readers before writers.
Load ==
  /\ view = Nothing
  /\ IF doubt # Nothing
       THEN CommitTo(doubt)
       ELSE UNCHANGED <<base, log, taken, acked>>
  /\ doubt' = Nothing
  /\ snapshot' = base'
  /\ UNCHANGED view

Serve ==
  /\ view = Nothing
  /\ snapshot = base
  /\ view' = Contents
  /\ UNCHANGED <<base, log, taken, acked, doubt, snapshot>>

Next ==
  \/ \E op \in [id : Ids, item : Items \cup {Deleted}] :
       Write(op) \/ WriteLazily(op) \/ Refuse(op)
  \/ Acknowledge
  \/ Commit
  \/ CommitInDoubt
  \/ Publish
  \/ Crash
  \/ PowerLoss
  \/ Load
  \/ Serve

Spec == Init /\ [][Next]_dmVars

=============================================================================
