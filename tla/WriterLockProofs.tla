-------------------------- MODULE WriterLockProofs --------------------------
(***************************************************************************)
(* The writer lock, proved for any number of processes, writes and epochs. *)
(* The inductive invariant follows the one process that holds the lock     *)
(* through open, the commit of a checkpoint and drop, and says for each    *)
(* place how what it knows relates to the manifest and the WALs.           *)
(***************************************************************************)
EXTENDS WriterLock, TLAPS

\* What the process that is in the store knows, place by place.
Knows(p) ==
  /\ pc[p] \in {"read", "loaded", "open", "drop"} => epoch[p] = manifest.epoch
  /\ pc[p] = "read" => known[p] = manifest.writes
  /\ pc[p] = "loaded" => known[p] = manifest.writes \cup wals[epoch[p]]
  /\ pc[p] \in {"open", "drop"} =>
       known[p] = manifest.writes \cup wals[epoch[p]] \cup staged[p]
  /\ pc[p] = "rotate" =>
       /\ manifest.epoch = epoch[p] + 1
       /\ known[p] = manifest.writes
  /\ pc[p] \notin {"open", "rotate", "drop"} => staged[p] = {}

\* No WAL is ahead of the manifest; what is behind it is garbage.
NoWalAhead == \A e \in Epochs : e > manifest.epoch => wals[e] = {}

\* With a manifest just committed, its WAL is still empty.
FreshWal ==
  \A p \in Procs : pc[p] = "rotate" => wals[manifest.epoch] = {}

Inv ==
  /\ TypeOK
  /\ OneWriter
  /\ \A p \in Procs : Knows(p)
  /\ NoWalAhead
  /\ FreshWal
  /\ NothingAckedLost

\* The invariant holds in an empty directory nobody has open.
LEMMA LockInit == LInit => Inv
  BY LockAssumption
     DEF LInit, Inv, TypeOK, OneWriter, Knows, NoWalAhead, FreshWal, NothingAckedLost,
         Epochs, Places

\* A process that takes a step within the store is the only one in it.
LEMMA Alone ==
  ASSUME Inv, NEW p \in Procs, pc[p] # "out"
  PROVE  holder = p /\ \A q \in Procs \ {p} : pc[q] = "out"
  BY LockAssumption DEF Inv, OneWriter

\* A step of p within the store keeps the invariant when it keeps the types,
\* what p knows, and what is said of the directory: nobody else is there.
LEMMA StepInStore ==
  ASSUME Inv, NEW p \in Procs, pc[p] # "out",
         TypeOK', Knows(p)', NoWalAhead', NothingAckedLost',
         holder' = IF pc'[p] = "out" THEN NoProc ELSE p,
         pc'[p] = "rotate" => wals'[manifest'.epoch] = {},
         \A q \in Procs \ {p} : pc'[q] = pc[q] /\ staged'[q] = staged[q]
  PROVE  Inv'
<1>1. \A q \in Procs \ {p} : pc'[q] = "out" /\ staged'[q] = {}
  BY Alone DEF Inv, Knows
<1>2. OneWriter'
  BY <1>1, LockAssumption DEF OneWriter
<1>3. \A q \in Procs : Knows(q)'
  BY <1>1 DEF Knows
<1>4. FreshWal'
  BY <1>1 DEF FreshWal
<1> QED
  BY <1>2, <1>3, <1>4 DEF Inv

\* The steps of open.
LEMMA OpenStep ==
  ASSUME Inv, NEW p \in Procs,
         TryLock(p) \/ ReadManifest(p) \/ ReadWal(p) \/ CollectStale(p)
  PROVE  Inv'
<1> USE LockAssumption DEF Inv, TypeOK
<1>1. CASE TryLock(p)
  <2>1. \A q \in Procs : pc[q] = "out" /\ staged[q] = {}
    BY <1>1 DEF TryLock, OneWriter, Knows
  <2>2. /\ pc' = [pc EXCEPT ![p] = "locked"] /\ holder' = p
        /\ UNCHANGED <<manifest, wals, epoch, known, staged, made, acked>>
    BY <1>1 DEF TryLock, Goto
  <2>3. TypeOK'
    BY <2>2 DEF Places
  <2>4. OneWriter' /\ (\A q \in Procs : Knows(q)') /\ FreshWal'
    BY <2>1, <2>2 DEF OneWriter, Knows, FreshWal
  <2>5. NoWalAhead' /\ NothingAckedLost'
    BY <2>2 DEF NoWalAhead, NothingAckedLost
  <2> QED
    BY <2>3, <2>4, <2>5
<1>2. CASE ReadManifest(p)
  <2>1. /\ pc[p] = "locked" /\ pc' = [pc EXCEPT ![p] = "read"]
        /\ epoch' = [epoch EXCEPT ![p] = manifest.epoch]
        /\ known' = [known EXCEPT ![p] = manifest.writes]
        /\ UNCHANGED <<holder, manifest, wals, staged, made, acked>>
    BY <1>2 DEF ReadManifest, Goto, disk
  <2>2. TypeOK'
    BY <2>1 DEF Places
  <2>3. Knows(p)'
    BY <2>1 DEF Knows
  <2>4. NoWalAhead' /\ NothingAckedLost'
    BY <2>1 DEF NoWalAhead, NothingAckedLost
  <2> QED
    BY <2>1, <2>2, <2>3, <2>4, Alone, StepInStore
<1>3. CASE ReadWal(p)
  <2>1. /\ pc[p] = "read" /\ pc' = [pc EXCEPT ![p] = "loaded"]
        /\ known' = [known EXCEPT ![p] = @ \cup wals[epoch[p]]]
        /\ UNCHANGED <<holder, manifest, wals, epoch, staged, made, acked>>
    BY <1>3 DEF ReadWal, Goto, disk
  <2>2. TypeOK'
    BY <2>1 DEF Places
  <2>3. Knows(p)'
    BY <2>1 DEF Knows
  <2>4. NoWalAhead' /\ NothingAckedLost'
    BY <2>1 DEF NoWalAhead, NothingAckedLost
  <2> QED
    BY <2>1, <2>2, <2>3, <2>4, Alone, StepInStore
<1>4. CASE CollectStale(p)
  <2>1. PICK gone \in SUBSET (Epochs \ {epoch[p]}) :
          wals' = [e \in Epochs |-> IF e \in gone THEN {} ELSE wals[e]]
    BY <1>4 DEF CollectStale
  <2>2. /\ pc[p] = "loaded" /\ pc' = [pc EXCEPT ![p] = "open"]
        /\ UNCHANGED <<holder, manifest, epoch, known, staged, made, acked>>
    BY <1>4 DEF CollectStale, Goto
  <2>3. epoch[p] = manifest.epoch /\ wals'[manifest.epoch] = wals[manifest.epoch]
    BY <2>1, <2>2 DEF Knows
  <2>4. TypeOK'
    BY <2>1, <2>2 DEF Places
  <2>5. Knows(p)'
    BY <2>2, <2>3 DEF Knows
  <2>6. NoWalAhead' /\ NothingAckedLost'
    BY <2>1, <2>2, <2>3 DEF NoWalAhead, NothingAckedLost
  <2> QED
    BY <2>2, <2>4, <2>5, <2>6, Alone, StepInStore
<1> QED
  BY <1>1, <1>2, <1>3, <1>4

\* The writes of the open store.
LEMMA WriteStep ==
  ASSUME Inv, NEW p \in Procs,
         \/ \E w \in Writes : Write(p, w) \/ Stage(p, w)
         \/ SyncStaged(p)
  PROVE  Inv'
<1> USE LockAssumption DEF Inv, TypeOK
<1>1. /\ pc[p] = "open" /\ epoch[p] = manifest.epoch
      /\ known[p] = manifest.writes \cup wals[epoch[p]] \cup staged[p]
  BY DEF Write, Stage, SyncStaged, Knows
<1>2. ASSUME NEW w \in Writes, Write(p, w) PROVE Inv'
  <2>1. /\ wals' = [wals EXCEPT ![epoch[p]] = @ \cup {w}]
        /\ known' = [known EXCEPT ![p] = @ \cup {w}]
        /\ made' = made \cup {w} /\ acked' = acked \cup {w}
        /\ UNCHANGED <<holder, manifest, pc, epoch, staged>>
    BY <1>2 DEF Write
  <2>2. TypeOK'
    BY <2>1
  <2>3. Knows(p)'
    BY <1>1, <2>1 DEF Knows
  <2>4. NoWalAhead' /\ NothingAckedLost'
    BY <1>1, <2>1 DEF NoWalAhead, NothingAckedLost, Epochs
  <2> QED
    BY <1>1, <2>1, <2>2, <2>3, <2>4, Alone, StepInStore
<1>3. ASSUME NEW w \in Writes, Stage(p, w) PROVE Inv'
  <2>1. /\ staged' = [staged EXCEPT ![p] = @ \cup {w}]
        /\ known' = [known EXCEPT ![p] = @ \cup {w}]
        /\ made' = made \cup {w}
        /\ UNCHANGED <<holder, manifest, wals, pc, epoch, acked>>
    BY <1>3 DEF Stage, disk
  <2>2. TypeOK'
    BY <2>1
  <2>3. Knows(p)'
    BY <1>1, <2>1 DEF Knows
  <2>4. NoWalAhead' /\ NothingAckedLost'
    BY <2>1 DEF NoWalAhead, NothingAckedLost
  <2> QED
    BY <1>1, <2>1, <2>2, <2>3, <2>4, Alone, StepInStore
<1>4. CASE SyncStaged(p)
  <2>1. /\ wals' = [wals EXCEPT ![epoch[p]] = @ \cup staged[p]]
        /\ acked' = acked \cup staged[p]
        /\ staged' = [staged EXCEPT ![p] = {}]
        /\ UNCHANGED <<holder, manifest, pc, epoch, known, made>>
    BY <1>4 DEF SyncStaged
  <2>2. TypeOK'
    BY <2>1
  <2>3. Knows(p)'
    BY <1>1, <2>1 DEF Knows
  <2>4. NoWalAhead' /\ NothingAckedLost'
    BY <1>1, <2>1 DEF NoWalAhead, NothingAckedLost, Epochs
  <2> QED
    BY <1>1, <2>1, <2>2, <2>3, <2>4, Alone, StepInStore
<1> QED
  BY <1>2, <1>3, <1>4

\* checkpoint: what the process knows becomes the manifest.
LEMMA CheckpointStep ==
  ASSUME Inv, NEW p \in Procs, Commit(p) \/ Rotate(p)
  PROVE  Inv'
<1> USE LockAssumption DEF Inv, TypeOK
<1>1. CASE Commit(p)
  <2>1. /\ pc[p] = "open" /\ pc' = [pc EXCEPT ![p] = "rotate"]
        /\ epoch[p] < MaxEpoch /\ epoch[p] = manifest.epoch
        /\ known[p] = manifest.writes \cup wals[epoch[p]] \cup staged[p]
        /\ manifest' = [epoch |-> epoch[p] + 1, writes |-> known[p]]
        /\ UNCHANGED <<holder, wals, epoch, known, staged, made, acked>>
    BY <1>1 DEF Commit, Goto, Knows
  <2>2. epoch[p] + 1 \in Epochs /\ epoch[p] + 1 > manifest.epoch
    BY <2>1 DEF Epochs
  <2>3. TypeOK'
    BY <2>1, <2>2 DEF Places
  <2>4. Knows(p)'
    BY <2>1 DEF Knows
  <2>5. NoWalAhead' /\ NothingAckedLost'
    <3>1. manifest'.epoch = epoch[p] + 1 /\ manifest'.writes = known[p]
      BY <2>1
    <3>2. NoWalAhead'
      BY <2>1, <3>1 DEF NoWalAhead, Epochs
    <3>3. NothingAckedLost'
      BY <2>1, <3>1 DEF NothingAckedLost
    <3> QED
      BY <3>2, <3>3
  <2>6. wals'[manifest'.epoch] = {}
    BY <2>1, <2>2 DEF NoWalAhead
  <2> QED
    BY <2>1, <2>3, <2>4, <2>5, <2>6, Alone, StepInStore
<1>2. CASE Rotate(p)
  <2>1. /\ pc[p] = "rotate" /\ pc' = [pc EXCEPT ![p] = "open"]
        /\ epoch' = [epoch EXCEPT ![p] = @ + 1]
        /\ wals' \in {wals, [wals EXCEPT ![epoch[p]] = {}]}
        /\ staged' = [staged EXCEPT ![p] = {}]
        /\ UNCHANGED <<holder, manifest, known, made, acked>>
    BY <1>2 DEF Rotate, Goto
  <2>2. /\ manifest.epoch = epoch[p] + 1 /\ known[p] = manifest.writes
        /\ wals[manifest.epoch] = {} /\ epoch[p] # manifest.epoch
    BY <2>1 DEF Knows, FreshWal, Epochs
  <2>3. wals'[manifest.epoch] = {} /\ \A e \in Epochs : wals'[e] \subseteq wals[e]
    BY <2>1, <2>2
  <2>4. TypeOK'
    BY <2>1, <2>2 DEF Places
  <2>5. Knows(p)'
    BY <2>1, <2>2, <2>3 DEF Knows
  <2>6. NoWalAhead' /\ NothingAckedLost'
    BY <2>1, <2>2, <2>3 DEF NoWalAhead, NothingAckedLost
  <2> QED
    BY <2>1, <2>4, <2>5, <2>6, Alone, StepInStore
<1> QED
  BY <1>1, <1>2

\* The end of the store, dropped or dead.
LEMMA EndStep ==
  ASSUME Inv, NEW p \in Procs, BeginDrop(p) \/ Drop(p) \/ Crash(p)
  PROVE  Inv'
<1> USE LockAssumption DEF Inv, TypeOK
<1>1. pc[p] # "out" /\ holder = p
  BY Alone DEF BeginDrop, Drop, Crash
<1>2. CASE BeginDrop(p)
  <2>1. /\ pc[p] = "open" /\ pc' = [pc EXCEPT ![p] = "drop"]
        /\ UNCHANGED <<holder, manifest, wals, epoch, known, staged, made, acked>>
    BY <1>2 DEF BeginDrop, Goto, disk
  <2>2. TypeOK'
    BY <2>1 DEF Places
  <2>3. Knows(p)' /\ NoWalAhead' /\ NothingAckedLost'
    BY <2>1 DEF Knows, NoWalAhead, NothingAckedLost
  <2> QED
    BY <1>1, <2>1, <2>2, <2>3, StepInStore
<1>3. ASSUME holder' = NoProc, Forget(p), UNCHANGED <<manifest, wals, made, acked>>
      PROVE  Inv'
  <2>1. TypeOK'
    BY <1>3 DEF Forget, Goto, Places, Epochs
  <2>2. Knows(p)' /\ NoWalAhead' /\ NothingAckedLost'
    BY <1>3 DEF Forget, Goto, Knows, NoWalAhead, NothingAckedLost
  <2>3. pc'[p] = "out" /\ \A q \in Procs \ {p} : pc'[q] = pc[q] /\ staged'[q] = staged[q]
    BY <1>3 DEF Forget, Goto
  <2> QED
    BY <1>1, <1>3, <2>1, <2>2, <2>3, StepInStore
<1>4. CASE Crash(p)
  BY <1>1, <1>3, <1>4 DEF Crash
<1>5. CASE Drop(p)
  <2>1. CASE staged[p] # {}
    <3>1. /\ pc[p] = "drop" /\ wals' = [wals EXCEPT ![epoch[p]] = @ \cup staged[p]]
          /\ staged' = [staged EXCEPT ![p] = {}]
          /\ UNCHANGED <<holder, manifest, pc, epoch, known, made, acked>>
      BY <1>5, <2>1 DEF Drop
    <3>2. epoch[p] = manifest.epoch
          /\ known[p] = manifest.writes \cup wals[epoch[p]] \cup staged[p]
      BY <3>1 DEF Knows
    <3>3. TypeOK'
      BY <3>1
    <3>4. Knows(p)'
      BY <3>1, <3>2 DEF Knows
    <3>5. NoWalAhead' /\ NothingAckedLost'
      BY <3>1, <3>2 DEF NoWalAhead, NothingAckedLost, Epochs
    <3> QED
      BY <1>1, <3>1, <3>3, <3>4, <3>5, StepInStore
  <2>2. CASE staged[p] = {}
    BY <1>1, <1>3, <1>5, <2>2 DEF Drop
  <2> QED
    BY <2>1, <2>2
<1> QED
  BY <1>2, <1>4, <1>5

\* Every step keeps the invariant.
LEMMA LockNext == Inv /\ [LNext]_vars => Inv'
<1> SUFFICES ASSUME Inv, [LNext]_vars PROVE Inv'
  OBVIOUS
<1>1. ASSUME NEW p \in Procs, Step(p) PROVE Inv'
  BY <1>1, OpenStep, WriteStep, CheckpointStep, EndStep DEF Step
<1>2. CASE UNCHANGED vars
  BY <1>2 DEF vars, disk, procs, Inv, TypeOK, OneWriter, Knows, NoWalAhead, FreshWal,
              NothingAckedLost
<1> QED
  BY <1>1, <1>2 DEF LNext

\* The invariant holds in every reachable state.
THEOREM LockInvariant == LSpec => []Inv
  BY LockInit, LockNext, PTL DEF LSpec

\* At most one process is past the lock of open, and the lock of a process that
\* dropped its store or died is free (acquire_store_lock).
THEOREM ExclusiveWriter == LSpec => []OneWriter
<1>1. Inv => OneWriter
  BY DEF Inv
<1> QED
  BY <1>1, LockInvariant, PTL

\* However many processes contend for the directory, no acknowledged write is
\* lost to a checkpoint or a collection of another one.
THEOREM AckedWritesSurvive == LSpec => []NothingAckedLost
<1>1. Inv => NothingAckedLost
  BY DEF Inv
<1> QED
  BY <1>1, LockInvariant, PTL

\* What an open store has in memory is what the directory has for it.
THEOREM OpenStoreOwnsItsLog == LSpec => []LogIsItsOwn
<1>1. Inv => LogIsItsOwn
  BY DEF Inv, Knows, LogIsItsOwn
<1> QED
  BY <1>1, LockInvariant, PTL

=============================================================================
