----------------------------- MODULE WriterLock -----------------------------
(***************************************************************************)
(* Several processes that open, write, checkpoint and drop a store in one  *)
(* directory, and die doing it.  Module SegStore takes for granted that    *)
(* the process which has the store open is alone; here this is what        *)
(* segstore.lock has to bring about.  The kernel frees the lock of a       *)
(* process that is gone.                                                   *)
(*                                                                         *)
(* What is stored is only a set of writes: the manifest holds some, the    *)
(* WAL of its epoch the rest, and a process knows what it has read and     *)
(* written itself.                                                         *)
(***************************************************************************)
EXTENDS Naturals

CONSTANTS
  Procs,
  Writes,    \* each write is made at most once
  NoProc,    \* nobody holds the lock
  MaxEpoch   \* bound: checkpoints

ASSUME LockAssumption ==
  /\ NoProc \notin Procs
  /\ MaxEpoch \in Nat

Epochs == 0 .. MaxEpoch

VARIABLES
  \* The directory.
  holder,     \* who has segstore.lock
  manifest,   \* the epoch and the writes of segstore.manifest
  wals,       \* segstore.wal.<epoch>
  \* The processes.
  pc,         \* where each is: "out" of the store, in open, in a call, in drop
  epoch,      \* the WAL generation it appends to
  known,      \* the writes in its memory
  staged,     \* extend's records that are in its WAL writer only
  \* History.
  made,       \* the writes begun so far
  acked       \* those a caller was told are done

disk == <<holder, manifest, wals>>
procs == <<pc, epoch, known, staged>>
vars == <<disk, procs, made, acked>>

Places == {"out", "locked", "read", "loaded", "open", "rotate", "drop"}

LInit ==
  /\ holder = NoProc
  /\ manifest = [epoch |-> 0, writes |-> {}]
  /\ wals = [e \in Epochs |-> {}]
  /\ pc = [p \in Procs |-> "out"]
  /\ epoch = [p \in Procs |-> 0]
  /\ known = [p \in Procs |-> {}]
  /\ staged = [p \in Procs |-> {}]
  /\ made = {}
  /\ acked = {}

Goto(p, place) == pc' = [pc EXCEPT ![p] = place]

-----------------------------------------------------------------------------
(* open.                                                                   *)

\* Slip: the answer of the lock is not looked at.
TryLockUnchecked(p) ==
  /\ pc[p] = "out"
  /\ holder' = IF holder = NoProc THEN p ELSE holder
  /\ Goto(p, "locked")
  /\ UNCHANGED <<manifest, wals, epoch, known, staged, made, acked>>

\* acquire_store_lock, before anything is read.  While another process has the
\* lock, open returns LockFailed and has done nothing.
TryLock(p) ==
  /\ pc[p] = "out"
  /\ holder = NoProc
  /\ holder' = p
  /\ Goto(p, "locked")
  /\ UNCHANGED <<manifest, wals, epoch, known, staged, made, acked>>

ReadManifest(p) ==
  /\ pc[p] = "locked"
  /\ epoch' = [epoch EXCEPT ![p] = manifest.epoch]
  /\ known' = [known EXCEPT ![p] = manifest.writes]
  /\ Goto(p, "read")
  /\ UNCHANGED <<disk, staged, made, acked>>

ReadWal(p) ==
  /\ pc[p] = "read"
  /\ known' = [known EXCEPT ![p] = @ \cup wals[epoch[p]]]
  /\ Goto(p, "loaded")
  /\ UNCHANGED <<disk, epoch, staged, made, acked>>

\* Every WAL but that of the epoch read is garbage; deletes are best effort.
CollectStale(p) ==
  /\ pc[p] = "loaded"
  /\ \E gone \in SUBSET (Epochs \ {epoch[p]}) :
       wals' = [e \in Epochs |-> IF e \in gone THEN {} ELSE wals[e]]
  /\ Goto(p, "open")
  /\ UNCHANGED <<holder, manifest, epoch, known, staged, made, acked>>

-----------------------------------------------------------------------------
(* The open store.                                                         *)

Fresh(w) == w \notin made

\* add, delete: appended and synced when the call returns.
Write(p, w) ==
  /\ pc[p] = "open"
  /\ staged[p] = {}
  /\ Fresh(w)
  /\ wals' = [wals EXCEPT ![epoch[p]] = @ \cup {w}]
  /\ known' = [known EXCEPT ![p] = @ \cup {w}]
  /\ made' = made \cup {w}
  /\ acked' = acked \cup {w}
  /\ UNCHANGED <<holder, manifest, pc, epoch, staged>>

\* One item of an extend: applied, and in the WAL writer's own buffer.
Stage(p, w) ==
  /\ pc[p] = "open"
  /\ Fresh(w)
  /\ staged' = [staged EXCEPT ![p] = @ \cup {w}]
  /\ known' = [known EXCEPT ![p] = @ \cup {w}]
  /\ made' = made \cup {w}
  /\ UNCHANGED <<disk, pc, epoch, acked>>

\* The sync at the end of extend.
SyncStaged(p) ==
  /\ pc[p] = "open"
  /\ staged[p] # {}
  /\ wals' = [wals EXCEPT ![epoch[p]] = @ \cup staged[p]]
  /\ acked' = acked \cup staged[p]
  /\ staged' = [staged EXCEPT ![p] = {}]
  /\ UNCHANGED <<holder, manifest, pc, epoch, known, made>>

\* checkpoint up to its commit point: everything in memory is in the manifest.
Commit(p) ==
  /\ pc[p] = "open"
  /\ epoch[p] < MaxEpoch
  /\ manifest' = [epoch |-> epoch[p] + 1, writes |-> known[p]]
  /\ Goto(p, "rotate")
  /\ UNCHANGED <<holder, wals, epoch, known, staged, made, acked>>

\* The new WAL, and the old one deleted, best effort; what its writer had not
\* written yet is in the manifest.
Rotate(p) ==
  /\ pc[p] = "rotate"
  /\ epoch' = [epoch EXCEPT ![p] = @ + 1]
  /\ wals' \in {wals, [wals EXCEPT ![epoch[p]] = {}]}
  /\ staged' = [staged EXCEPT ![p] = {}]
  /\ Goto(p, "open")
  /\ UNCHANGED <<holder, manifest, known, made, acked>>

-----------------------------------------------------------------------------
(* The end of a process's store.                                           *)

\* Slip: the lock goes before the WAL writer.
BeginDropUnlocked(p) ==
  /\ pc[p] = "open"
  /\ holder' = NoProc
  /\ Goto(p, "drop")
  /\ UNCHANGED <<manifest, wals, epoch, known, staged, made, acked>>

BeginDrop(p) ==
  /\ pc[p] = "open"
  /\ Goto(p, "drop")
  /\ UNCHANGED <<disk, epoch, known, staged, made, acked>>

Forget(p) ==
  /\ Goto(p, "out")
  /\ epoch' = [epoch EXCEPT ![p] = 0]
  /\ known' = [known EXCEPT ![p] = {}]
  /\ staged' = [staged EXCEPT ![p] = {}]

\* The fields are dropped in their order: the WAL writer, which writes out what
\* it has, comes before the lock.
Drop(p) ==
  /\ pc[p] = "drop"
  /\ IF staged[p] # {}
       THEN /\ wals' = [wals EXCEPT ![epoch[p]] = @ \cup staged[p]]
            /\ staged' = [staged EXCEPT ![p] = {}]
            /\ UNCHANGED <<holder, pc, epoch, known>>
       ELSE /\ holder' = IF holder = p THEN NoProc ELSE holder
            /\ Forget(p)
            /\ UNCHANGED wals
  /\ UNCHANGED <<manifest, made, acked>>

\* Slip: the lock is a file that stays behind.
CrashLocked(p) ==
  /\ pc[p] # "out"
  /\ Forget(p)
  /\ UNCHANGED <<disk, made, acked>>

\* The process dies; the kernel closes its lock file.
Crash(p) ==
  /\ pc[p] # "out"
  /\ holder' = IF holder = p THEN NoProc ELSE holder
  /\ Forget(p)
  /\ UNCHANGED <<manifest, wals, made, acked>>

Step(p) ==
  \/ TryLock(p) \/ ReadManifest(p) \/ ReadWal(p) \/ CollectStale(p)
  \/ \E w \in Writes : Write(p, w) \/ Stage(p, w)
  \/ SyncStaged(p) \/ Commit(p) \/ Rotate(p)
  \/ BeginDrop(p) \/ Drop(p) \/ Crash(p)

LNext == \E p \in Procs : Step(p)

LSpec == LInit /\ [][LNext]_vars

-----------------------------------------------------------------------------
(* Properties.                                                             *)

\* Every variable stays in the range its code gives it.
TypeOK ==
  /\ holder \in Procs \cup {NoProc}
  /\ manifest \in [epoch : Epochs, writes : SUBSET Writes]
  /\ wals \in [Epochs -> SUBSET Writes]
  /\ pc \in [Procs -> Places]
  /\ epoch \in [Procs -> Epochs]
  /\ known \in [Procs -> SUBSET Writes]
  /\ staged \in [Procs -> SUBSET Writes]
  /\ made \subseteq Writes
  /\ acked \subseteq Writes

\* "An exclusive lock for its lifetime" (lib.rs:3267): a process is past the
\* lock of open just while it holds it, and the lock of one that is gone,
\* dropped or dead, is free.
OneWriter == \A p \in Procs : pc[p] # "out" <=> holder = p

\* Two writers would "silently lose acknowledged adds" (lib.rs:3267): whatever
\* processes open, checkpoint, collect and die, an acknowledged write is in the
\* manifest or in the WAL the manifest names.
NothingAckedLost == acked \subseteq manifest.writes \cup wals[manifest.epoch]

\* The log of an open store is its own: what the directory holds under its
\* epoch is what it has in memory, and nothing another process left there
\* after it looked.
LogIsItsOwn ==
  \A p \in Procs : pc[p] \in {"open", "drop"} =>
    /\ epoch[p] = manifest.epoch
    /\ known[p] = manifest.writes \cup wals[epoch[p]] \cup staged[p]

=============================================================================
