------------------------------ MODULE FileNames ------------------------------
(***************************************************************************)
(* The names in a store's directory: what the writer and the consumers of  *)
(* its sidecars create there, atomic writes and their temporary files      *)
(* included, and what the sweeps of open and checkpoint take for garbage   *)
(* by parsing the names they find.                                         *)
(*                                                                         *)
(* A name is a namespace (the prefix) and what the dots after it separate: *)
(* a number or a word.  A file is whole or partial; deletes succeed, which *)
(* is when a sweep does the most.                                          *)
(***************************************************************************)
EXTENDS Naturals, Sequences, FiniteSets

CONSTANTS
  Kinds,        \* sidecar kinds consumers ask for, valid or not, as words
  LegacyKinds,  \* kinds an older version let them use
  MaxSegId,     \* bound: the last segment id drawn
  MaxEpoch      \* bound: checkpoints

SegIds == 0 .. MaxSegId
Epochs == 0 .. MaxEpoch

ASSUME NamesAssumption ==
  /\ MaxSegId \in Nat /\ MaxEpoch \in Nat
  /\ Kinds \cup LegacyKinds \subseteq Seq(STRING)
  /\ <<>> \notin Kinds \cup LegacyKinds
  /\ <<"">> \notin LegacyKinds

Number(n) == [number |-> n]
Word(w) == [word |-> w]
WordsOf(kind) == [k \in DOMAIN kind |-> Word(kind[k])]

Name(namespace, parts) == [namespace |-> namespace, parts |-> parts]

WalPath(e) == Name("wal", <<Number(e)>>)
SegPath(s) == Name("seg", <<Number(s)>>)
IndexName(s, kind) == Name("idx", <<Number(s)>> \o WordsOf(kind))
ManifestPath == Name("manifest", <<>>)

\* Names the store has no business with.
Foreign == {Name("other", <<>>), Name("seg", <<Word("note")>>), Name("idx", <<Word("x"), Word("y")>>)}

\* Where an atomic write puts the bytes before it renames.
Tmp(name) == [name EXCEPT !.parts = Append(@, Word("tmp"))]

NoName == Name("none", <<>>)

\* Slip: a kind may have a dot in it.
AnyKind(kind) == kind[1] # ""

\* validate_index_kind: one word, not empty.
ValidKind(kind) == Len(kind) = 1 /\ kind[1] # ""

-----------------------------------------------------------------------------
(* Parsing.  Each gives a set: the number the name stands for, or nothing. *)

Parsed(parts) == {n \in SegIds \cup Epochs : parts = <<Number(n)>>}

WalEpoch(name) == IF name.namespace = "wal" THEN Parsed(name.parts) ELSE {}
SegId(name) == IF name.namespace = "seg" THEN Parsed(name.parts) ELSE {}

SegTmpId(name) ==
  {s \in SegIds : name = Tmp(SegPath(s))}

\* Slip: the kind starts at the last dot.
IdxSegIdAtLastDot(name) ==
  IF name.namespace = "idx" /\ Len(name.parts) = 2 /\ name.parts[2] # Word("")
    THEN Parsed(SubSeq(name.parts, 1, 1))
    ELSE {}

\* idx_seg_id: the kind starts at the first dot, and is not empty.
IdxSegId(name) ==
  IF /\ name.namespace = "idx"
     /\ Len(name.parts) >= 2
     /\ Tail(name.parts) # <<Word("")>>
    THEN Parsed(SubSeq(name.parts, 1, 1))
    ELSE {}

-----------------------------------------------------------------------------

VARIABLES
  names,     \* the directory
  partial,   \* names whose file is not written to its end
  manifest,  \* epoch, next_seg_id and segment_ids of the manifest
  mem,       \* the same of the writer; its segments are persisted later
  pc,        \* where the writer is
  target,    \* the name it is writing
  sidecar    \* the name a consumer is writing

nVars == <<names, partial, manifest, mem, pc, target, sidecar>>

NoSegments == [epoch |-> 0, next |-> 0, ids |-> {}]

NInit ==
  /\ manifest = NoSegments
  /\ mem = NoSegments
  /\ names = Foreign
  /\ partial = {}
  /\ pc = "down"
  /\ target = NoName
  /\ sidecar = NoName

\* Slip: the generation in use goes with the older ones.
StaleWalsUpTo(epoch) == {n \in names : \E e \in WalEpoch(n) : e <= epoch}

StaleWals(epoch) == {n \in names : \E e \in WalEpoch(n) : e # epoch}

\* Segment files and sidecars of the ids that are not kept.
Orphans(keep) == {n \in names : \E s \in SegId(n) \cup IdxSegId(n) : s \notin keep}

SegmentTmps == {n \in names : SegTmpId(n) # {}}

DeleteFiles(garbage) ==
  /\ names' = names \ garbage
  /\ partial' = partial \ garbage

\* open, with its sweep.
Open ==
  /\ pc = "down"
  /\ mem' = manifest
  /\ DeleteFiles(StaleWals(manifest.epoch) \cup SegmentTmps \cup Orphans(manifest.ids))
  /\ pc' = "open"
  /\ UNCHANGED <<manifest, target, sidecar>>

\* A write: its record goes to the WAL.
Log ==
  /\ pc = "open"
  /\ names' = names \cup {WalPath(mem.epoch)}
  /\ UNCHANGED <<partial, manifest, mem, pc, target, sidecar>>

\* A segment is sealed, or one takes the place of a merged group; when every
\* copy in the group is dead, none does.
Seal(group) ==
  /\ pc = "open"
  /\ \/ /\ mem.next <= MaxSegId
        /\ mem' = [mem EXCEPT !.ids = (@ \ group) \cup {mem.next}, !.next = @ + 1]
     \/ /\ group # {}
        /\ mem' = [mem EXCEPT !.ids = @ \ group]
  /\ UNCHANGED <<names, partial, manifest, pc, target, sidecar>>

Checkpoint ==
  /\ pc = "open"
  /\ mem.epoch < MaxEpoch
  /\ pc' = "persist"
  /\ UNCHANGED <<names, partial, manifest, mem, target, sidecar>>

\* An atomic write, first half and second half.
BeginFile(name) ==
  /\ names' = names \cup {Tmp(name)}
  /\ partial' = partial \cup {Tmp(name)}

RenameFile(name) ==
  /\ names' = (names \ {Tmp(name)}) \cup {name}
  /\ partial' = partial \ {Tmp(name), name}

Unpersisted == {s \in mem.ids : SegPath(s) \notin names}

BeginWrite ==
  /\ pc = "persist"
  /\ IF Unpersisted = {}
       THEN target' = ManifestPath
       ELSE \E s \in Unpersisted : target' = SegPath(s)
  /\ BeginFile(target')
  /\ pc' = "write"
  /\ UNCHANGED <<manifest, mem, sidecar>>

\* The rename of a segment, or of the manifest: the commit point.
EndWrite ==
  /\ pc = "write"
  /\ RenameFile(target)
  /\ target' = NoName
  /\ IF target = ManifestPath
       THEN /\ manifest' = [mem EXCEPT !.epoch = @ + 1]
            /\ pc' = "rotate"
       ELSE /\ UNCHANGED manifest
            /\ pc' = "persist"
  /\ UNCHANGED <<mem, sidecar>>

\* A segment's write fails and leaves its temporary file, or nothing.  (One that
\* fails after its rename, and a failed manifest: SegStore.)
WriteFails ==
  /\ pc = "write"
  /\ target # ManifestPath
  /\ DeleteFiles({}) \/ DeleteFiles({Tmp(target)})
  /\ target' = NoName
  /\ pc' = "open"
  /\ UNCHANGED <<manifest, mem, sidecar>>

\* The next WAL generation, and gc_orphan_segments with the old one's file.
RotateAndGc ==
  /\ pc = "rotate"
  /\ mem' = [mem EXCEPT !.epoch = @ + 1]
  /\ DeleteFiles(Orphans(mem.ids) \cup {WalPath(mem.epoch)})
  /\ pc' = "open"
  /\ UNCHANGED <<manifest, target, sidecar>>

\* The writer's process stops anywhere.
Stop ==
  /\ pc # "down"
  /\ pc' = "down"
  /\ mem' = NoSegments
  /\ target' = NoName
  /\ UNCHANGED <<names, partial, manifest, sidecar>>

-----------------------------------------------------------------------------
(* Consumers.  One holds a segment id as long as it likes.                 *)

BeginSidecar(s, kind) ==
  /\ sidecar = NoName
  /\ s < manifest.next
  /\ ValidKind(kind)
  /\ sidecar' = IndexName(s, kind)
  /\ BeginFile(sidecar')
  /\ UNCHANGED <<manifest, mem, pc, target>>

\* The temporary file may have been swept: then the rename fails.
EndSidecar ==
  /\ sidecar # NoName
  /\ IF Tmp(sidecar) \in names THEN RenameFile(sidecar) ELSE UNCHANGED <<names, partial>>
  /\ sidecar' = NoName
  /\ UNCHANGED <<manifest, mem, pc, target>>

ConsumerStops ==
  /\ sidecar # NoName
  /\ sidecar' = NoName
  /\ UNCHANGED <<names, partial, manifest, mem, pc, target>>

\* A consumer of an older version wrote with its own names.
LegacySidecar(s, kind) ==
  /\ pc = "down"
  /\ s \in manifest.ids
  /\ names' = names \cup {IndexName(s, kind)}
  /\ UNCHANGED <<partial, manifest, mem, pc, target, sidecar>>

NNext ==
  \/ Open \/ Log \/ Checkpoint \/ BeginWrite \/ EndWrite \/ WriteFails
  \/ RotateAndGc \/ Stop
  \/ \E group \in SUBSET mem.ids : Seal(group)
  \/ \E s \in SegIds, kind \in Kinds : BeginSidecar(s, kind)
  \/ \E s \in SegIds, kind \in LegacyKinds : LegacySidecar(s, kind)
  \/ EndSidecar \/ ConsumerStops

NSpec == NInit /\ [][NNext]_nVars

-----------------------------------------------------------------------------
(* Properties.                                                             *)

\* Every name that is read: by open, by catalogs and by the caches.
ReadNames ==
  {ManifestPath} \cup {WalPath(e) : e \in Epochs} \cup {SegPath(s) : s \in SegIds}
    \cup {IndexName(s, kind) : s \in SegIds, kind \in {k \in Kinds : ValidKind(k)}}

\* No crash, failed write or late consumer leaves half a file under a name that
\* is read: the temporary name of one file is never the name of another.
PartialNeverRead == partial \cap ReadNames = {}

\* What manifest m and its readers need, and what is not the store's.
Needed(m) ==
  Foreign \cup {WalPath(m.epoch)} \cup {SegPath(s) : s \in m.ids}
    \cup {n \in names : IdxSegId(n) \cap m.ids # {}}

\* No sweep takes a whole file that the manifest names, the WAL that goes with
\* it, a sidecar of its segments, or a file that is not the store's; nor the
\* file a segment write is about to rename.
SweepsTakeGarbage ==
  [][/\ ((names \ names') \ partial) \cap Needed(manifest') = {}
     /\ pc' = "write" => Tmp(target') \in names']_nVars

\* What open leaves in the namespaces of the store is in use, and nothing a
\* crash, a failed write, a merge or an old version left stays behind: segment
\* files are the manifest's, sidecars are its segments', and temporary files
\* only those a later write replaces.
SweptAtOpen ==
  [][pc = "down" /\ pc' = "open" =>
       \A n \in names' \ Foreign :
         \/ n \in {ManifestPath, Tmp(ManifestPath), WalPath(manifest.epoch)}
         \/ \E s \in manifest.ids :
              n = SegPath(s) \/ (n.namespace = "idx" /\ n.parts[1] = Number(s))]_nVars

=============================================================================
