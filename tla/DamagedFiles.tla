---------------------------- MODULE DamagedFiles ----------------------------
(***************************************************************************)
(* The store and its oracle on a disk that damages what was written: while *)
(* the store is closed, the manifest, a segment file, or a record of the   *)
(* WAL comes to fail its checksum (the fuzz targets recover and            *)
(* recover_manifest, the tests of torn and garbled logs).  open refuses a  *)
(* damaged manifest or segment, and reads a damaged log up to the damage,  *)
(* or refuses it.  A damaged log may lose a tail of the operations taken,  *)
(* and nothing else.                                                       *)
(***************************************************************************)
EXTENDS Oracle

CONSTANT ManifestFile   \* the manifest among the damaged files

ASSUME DamageAssumption == ManifestFile \notin SegIds

VARIABLES
  rotten,   \* damaged files: segment ids, ManifestFile
  intact    \* readable records of the log that goes with the manifest

dVars == <<oVars, rotten, intact>>

\* "All records can be read."
Whole == MaxWal

DInit ==
  /\ OInit
  /\ rotten = {}
  /\ intact = Whole

-----------------------------------------------------------------------------
(* Damage, once there is something to damage.                              *)

\* A byte of a manifest or of a segment file changes, or its end is cut off.
DamageFile(f) ==
  /\ phase = "down"
  /\ IF f = ManifestFile THEN manifest # NoManifest ELSE files[f] # {}
  /\ rotten' = rotten \cup {f}
  /\ UNCHANGED <<oVars, intact>>

\* A byte of record k of the log is zeroed or flipped, or the file cut there.
DamageLog(k) ==
  /\ phase = "down"
  /\ k <= Len(wals[manifest.epoch])
  /\ k <= intact
  /\ intact' = k - 1
  /\ UNCHANGED <<oVars, rotten>>

-----------------------------------------------------------------------------
(* The store on such a disk.                                               *)

\* The manifest checks, and so do the segment files it names.
Opens == rotten \cap ({ManifestFile} \cup manifest.segment_ids) = {}

\* Slip: the reader skips the damaged record and goes on behind it.
ReadDamagedLogOver ==
  LET e == manifest.epoch
      left == SubSeq(wals[e], 1, intact) \o SubSeq(wals[e], intact + 2, Len(wals[e]))
  IN
  /\ phase = "down"
  /\ Opens
  /\ intact < Whole
  /\ intact' = Whole
  /\ wals' = [wals EXCEPT ![e] = left]
  /\ synced' = [synced EXCEPT ![e] = Len(left)]
  /\ taken' = SubSeq(taken, 1, Len(left))
  /\ UNCHANGED <<process, phase, published, manifest, prior, files, rotten, base,
                 added, readded>>

\* open reads the log up to the damage, and its writer cuts off the rest.  It
\* may refuse the log instead, and then nothing has changed.
ReadDamagedLog ==
  LET e == manifest.epoch
      left == SubSeq(wals[e], 1, intact)
  IN
  /\ phase = "down"
  /\ Opens
  /\ intact < Whole
  /\ intact' = Whole
  /\ wals' = [wals EXCEPT ![e] = left]
  /\ synced' = [synced EXCEPT ![e] = Len(left)]
  /\ taken' = SubSeq(taken, 1, Len(left))
  /\ UNCHANGED <<process, phase, published, manifest, prior, files, rotten, base,
                 added, readded>>

\* open on a log that is whole; it collects damaged files that are garbage.
DOpen ==
  /\ Opens
  /\ intact = Whole
  /\ OpenLoad
  /\ rotten' = {}
  /\ UNCHANGED <<oracle, intact>>

\* A step of the open store, or of its end.
DStep ==
  /\ \/ \E op \in Ops : OWrite(op)
     \/ OMaintain
     \/ OCommit
     \/ phase # "down" /\ (OOpen \/ OStop)
  /\ UNCHANGED <<rotten, intact>>

DNext ==
  \/ \E f \in SegIds \cup {ManifestFile} : DamageFile(f)
  \/ \E k \in 1 .. MaxWal : DamageLog(k)
  \/ ReadDamagedLog
  \/ DOpen
  \/ DStep

DSpec == DInit /\ [][DNext]_dVars

=============================================================================
