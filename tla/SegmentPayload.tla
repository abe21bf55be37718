--------------------------- MODULE SegmentPayload ---------------------------
(***************************************************************************)
(* Reading the payloads of segment files without decoding them, as a       *)
(* SegmentCatalog does: into one buffer that is used again for every       *)
(* segment, or through the offset, length and checksum it gives to a       *)
(* consumer that maps the file.  A file is a checkpoint envelope; it is    *)
(* written whole, may be collected, and the disk may damage it.  A version *)
(* 1 checksum covers the payload, a version 2 checksum the header too.     *)
(***************************************************************************)
EXTENDS FileCells

CONSTANTS
  Segments,    \* the segments the consumer's catalog lists
  AppliedIds,  \* values of the header's last_applied_id
  MaxLen,      \* MAX_CHECKPOINT_PAYLOAD_BYTES, in cells
  None         \* no file, no info

ASSUME PayloadAssumption ==
  /\ AppliedIds # {}
  /\ MaxLen \in Nat
  /\ None \notin Bytes

Magic == 7
Versions == {1, 2}

\* What the checksum of a file with this version covers.
Covered(version, applied, len, bytes) ==
  IF version = 1 THEN bytes ELSE <<Magic, version, applied, len>> \o bytes

\* durability's CheckpointFile writes it.  The header's cells: magic, version,
\* last_applied_id, payload_len, checksum.
WholeFile(version, applied, bytes) ==
  <<Magic, version, applied, Len(bytes),
    Covered(version, applied, Len(bytes), bytes)>> \o bytes

\* read_checkpoint_payload_header.
HeaderParses(f) ==
  /\ f # None
  /\ Len(f) >= HeaderCells
  /\ f[1] = Magic
  /\ f[2] \in Versions
  /\ f[4] <= MaxLen

\* The bytes after the header, at most as many as it announces.
Taken(f) ==
  SubSeq(f, HeaderCells + 1,
         IF Len(f) < HeaderCells + f[4] THEN Len(f) ELSE HeaderCells + f[4])

\* Slip: the checksum is accepted by either version's rule.
VerifiesEitherWay(f) ==
  /\ Len(Taken(f)) = f[4]
  /\ f[ChecksumCell] \in {Covered(v, f[3], f[4], Taken(f)) : v \in Versions}

\* CheckpointPayloadHeader::verify_payload.
Verifies(f) ==
  /\ Len(Taken(f)) = f[4]
  /\ f[ChecksumCell] = Covered(f[2], f[3], f[4], Taken(f))

Read(f) == IF HeaderParses(f) /\ Verifies(f) THEN Ok(Taken(f)) ELSE Refused

\* SegmentPayloadInfo: where the payload is, and a checksum of it alone.
Info(f) == [offset |-> HeaderCells, len |-> f[4], checksum |-> Taken(f)]

\* Slip: the mapped bytes are checked for their length only.
MappedBytesFit(i, bytes) == Len(bytes) = i.len

\* SegmentPayloadInfo::verify_payload, over bytes the consumer got by itself.
MappedBytesVerify(i, bytes) == Len(bytes) = i.len /\ bytes = i.checksum

-----------------------------------------------------------------------------

VARIABLES
  segment_file,  \* the file of each segment
  intact,   \* history: the files as they were written
  buf,      \* the consumer's buffer
  asked,    \* the segment its last read was of
  ok,       \* whether that read succeeded
  info,     \* the payload info the mapping consumer keeps
  info_of,  \* the segment it is of
  source    \* history: the payload of the file info was made of

pVars == <<segment_file, intact, buf, asked, ok, info, info_of, source>>

PInit ==
  /\ intact \in [Segments -> {WholeFile(v, a, p) : v \in Versions, a \in AppliedIds,
                                                   p \in Strings(MaxLen)}]
  /\ segment_file = intact
  /\ buf = <<>>
  /\ asked = None
  /\ ok = FALSE
  /\ info = None
  /\ info_of = None
  /\ source = <<>>
  /\ damage = 0

Consumer == <<buf, asked, ok, info, info_of, source>>

\* A header field or a byte of f reads as something else.
Changed(f, i) ==
  {[f EXCEPT ![i] = c] : c \in
     CASE i = 3            -> AppliedIds
       [] i < 5            -> 0 .. MaxLen + 1
       [] i = ChecksumCell -> {<<None>>}
       [] OTHER            -> Bytes}

Spoiled(f) == Shortened(f) \cup Lengthened(f) \cup UNION {Changed(f, i) : i \in DOMAIN f}

SpoilSegment(s) ==
  /\ segment_file[s] # None
  /\ damage < MaxDamage
  /\ damage' = damage + 1
  /\ \E f \in Spoiled(segment_file[s]) : segment_file' = [segment_file EXCEPT ![s] = f]
  /\ UNCHANGED <<intact, Consumer>>

\* The writer collects the segment.
CollectSegment(s) ==
  /\ segment_file[s] # None
  /\ segment_file' = [segment_file EXCEPT ![s] = None]
  /\ UNCHANGED <<intact, damage, Consumer>>

\* Slip: a refused payload stays in the buffer.
ReadIntoUncleared(s) ==
  /\ asked' = s
  /\ ok' = Read(segment_file[s]).ok
  /\ buf' = IF HeaderParses(segment_file[s]) THEN Taken(segment_file[s]) ELSE buf
  /\ UNCHANGED <<segment_file, intact, damage, info, info_of, source>>

\* read_segment_payload_into.  A file that is not there, or whose header does not
\* parse, is an error before the buffer is touched; the buffer is cleared once
\* the header parses, and again when the payload is refused.
ReadInto(s) ==
  /\ asked' = s
  /\ ok' = Read(segment_file[s]).ok
  /\ buf' = IF Read(segment_file[s]).ok THEN Read(segment_file[s]).value
            ELSE IF HeaderParses(segment_file[s]) THEN <<>> ELSE buf
  /\ UNCHANGED <<segment_file, intact, damage, info, info_of, source>>

\* segment_payload_info verifies the payload before it describes it.
ReadInfo(s) ==
  /\ Read(segment_file[s]).ok
  /\ info' = Info(segment_file[s])
  /\ info_of' = s
  /\ source' = Read(segment_file[s]).value
  /\ UNCHANGED <<segment_file, intact, damage, buf, asked, ok>>

PNext ==
  \E s \in Segments : SpoilSegment(s) \/ CollectSegment(s) \/ ReadInto(s) \/ ReadInfo(s)

PSpec == PInit /\ [][PNext]_<<pVars, damage>>

-----------------------------------------------------------------------------
(* Properties.                                                             *)

\* Bytes of a file as it is now, where info says they are.
Mapped(f) == SubSeq(f, info.offset + 1, info.offset + info.len)

\* The payload that was written to segment s.
Written(s) == SubSeq(intact[s], HeaderCells + 1, Len(intact[s]))

\* A payload that is read is the one that was written, whichever cells of the
\* file the disk has changed and whatever is behind the payload; of a version 2
\* file the header too is as it was written.
ReadIsAsWritten ==
  \A s \in Segments :
    LET f == segment_file[s] IN
    f # None /\ Read(f).ok =>
      /\ Read(f).value = Written(s)
      /\ intact[s][2] = 2 => SubSeq(f, 1, HeaderCells) = SubSeq(intact[s], 1, HeaderCells)

\* One buffer for the segments of a scan ("sidecar builders that scan many
\* segments", lib.rs:1205): after a read that succeeded it has the payload of
\* the segment asked for, not of one read before; after one that failed it is
\* empty or has what an earlier read left, a whole payload that was written,
\* and never bytes that were not verified.
BufferHoldsPayload ==
  IF ok THEN buf = Written(asked)
        ELSE buf \in {<<>>} \cup {Written(s) : s \in Segments}

\* "The check mmap and range-read consumers should run" (lib.rs:275) is as good
\* as the read: mapped bytes that pass it are the payload info was made of,
\* whatever became of the file in between.
MappedIsAsWritten ==
  info # None =>
    LET f == segment_file[info_of] IN
    f # None /\ Len(f) >= info.offset + info.len /\ MappedBytesVerify(info, Mapped(f)) =>
      Mapped(f) = Written(info_of) /\ source = Written(info_of)

\* "`payload` is cleared before the read; on error it is left empty"
\* (lib.rs:1205-1206).
EmptyOnError == ~ok => buf = <<>>

=============================================================================
