--------------------------- MODULE SidecarEnvelope ---------------------------
(***************************************************************************)
(* The envelope of a sidecar file and its two readers: decode, which has   *)
(* the whole file, and payload_info, which reads the header and the recipe *)
(* and leaves the payload where it is.                                     *)
(***************************************************************************)
EXTENDS FileCells

CONSTANTS
  Tags,        \* values of magic, version and segment id
  MaxRecipe,   \* bound: bytes of a recipe
  MaxPayload   \* bound: bytes of a payload

ASSUME EnvelopeAssumption ==
  /\ Tags \subseteq Nat /\ Tags # {}
  /\ MaxRecipe \in Nat /\ MaxPayload \in Nat

\* What a consumer tags its sidecars with, and expects of them.
Expectation ==
  [magic : Tags, version : Tags, segment_id : Tags, recipe : Strings(MaxRecipe)]

\* Slip: the checksum leaves the header out.
CrcOfBody(bytes) == SubSeq(bytes, ChecksumCell + 1, Len(bytes))

\* sidecar_envelope_crc: every cell but its own.
Crc(bytes) == SubSeq(bytes, 1, ChecksumCell - 1) \o SubSeq(bytes, ChecksumCell + 1, Len(bytes))

\* The header's cells: magic, version, segment_id, recipe_len, crc32.
Encode(e, content) ==
  LET bytes == <<e.magic, e.version, e.segment_id, Len(e.recipe), <<>> >>
                 \o e.recipe \o content
  IN  [bytes EXCEPT ![ChecksumCell] = Crc(bytes)]

\* The header is all there, and so is the recipe it announces.
HeaderFits(bytes) == Len(bytes) >= HeaderCells
RecipeEnd(bytes) == HeaderCells + bytes[4]
RecipeFits(bytes) == Len(bytes) >= RecipeEnd(bytes)

TagsMatch(e, bytes) ==
  bytes[1] = e.magic /\ bytes[2] = e.version /\ bytes[3] = e.segment_id

Decode(e, bytes) ==
  IF /\ HeaderFits(bytes)
     /\ TagsMatch(e, bytes)
     /\ RecipeFits(bytes)
     /\ bytes[ChecksumCell] = Crc(bytes)
     /\ SubSeq(bytes, HeaderCells + 1, RecipeEnd(bytes)) = e.recipe
    THEN Ok(SubSeq(bytes, RecipeEnd(bytes) + 1, Len(bytes)))
    ELSE Refused

\* Slip: the recipe is compared without its length.
PayloadInfoAnyLength(e, bytes) ==
  IF /\ HeaderFits(bytes)
     /\ TagsMatch(e, bytes)
     /\ RecipeFits(bytes)
     /\ IsPrefix(e.recipe, SubSeq(bytes, HeaderCells + 1, Len(bytes)))
    THEN Ok([offset |-> RecipeEnd(bytes), len |-> Len(bytes) - RecipeEnd(bytes),
             crc |-> bytes[ChecksumCell]])
    ELSE Refused

\* The payload's place, read off the header; the checksum is handed on as it is.
PayloadInfo(e, bytes) ==
  IF /\ HeaderFits(bytes)
     /\ TagsMatch(e, bytes)
     /\ RecipeFits(bytes)
     /\ bytes[4] = Len(e.recipe)
     /\ SubSeq(bytes, HeaderCells + 1, HeaderCells + Len(e.recipe)) = e.recipe
    THEN Ok([offset |-> RecipeEnd(bytes), len |-> Len(bytes) - RecipeEnd(bytes),
             crc |-> bytes[ChecksumCell]])
    ELSE Refused

-----------------------------------------------------------------------------
(* A file: written whole, then damaged.                                    *)

VARIABLES
  sidecar_file,  \* the cells on disk
  tags,          \* history: what it was written with
  payload        \* history: what was written

eVars == <<sidecar_file, tags, payload>>

EInit ==
  /\ tags \in Expectation
  /\ payload \in Strings(MaxPayload)
  /\ sidecar_file = Encode(tags, payload)
  /\ damage = 0

\* A header field or a byte reads as something else.
Flipped(i) ==
  {[sidecar_file EXCEPT ![i] = c] : c \in
     CASE i < 4            -> Tags
       [] i = 4            -> 0 .. MaxRecipe + MaxPayload + 1
       [] i = ChecksumCell -> {<<>>}
       [] OTHER            -> Bytes}

SpoilSidecar ==
  /\ damage < MaxDamage
  /\ damage' = damage + 1
  /\ sidecar_file' \in Shortened(sidecar_file) \cup Lengthened(sidecar_file)
                       \cup UNION {Flipped(i) : i \in DOMAIN sidecar_file}
  /\ UNCHANGED <<tags, payload>>

\* A consumer that could not read it builds the index and persists it again.
PersistAgain ==
  /\ damage > 0
  /\ damage' = 0
  /\ sidecar_file' = Encode(tags, payload)
  /\ UNCHANGED <<tags, payload>>

ENext == SpoilSidecar \/ PersistAgain

ESpec == EInit /\ [][ENext]_<<eVars, damage>>

-----------------------------------------------------------------------------
(* Properties.                                                             *)

\* "Corrupt fixed header fields, recipe bytes, or payload bytes are rejected
\* before the payload is trusted" (lib.rs:703), and so is a copied, renamed or
\* foreign file: whoever decodes, whatever he expects and whatever the disk did,
\* gets only what was written, and only under the tags it was written with.
\* Who wrote a file that nothing happened to does get it back.
AcceptedIsIntact ==
  /\ \A e \in Expectation :
       Decode(e, sidecar_file).ok => e = tags /\ Decode(e, sidecar_file).value = payload
  /\ damage = 0 => Decode(tags, sidecar_file).ok /\ PayloadInfo(tags, sidecar_file).ok

\* The lazy reader differs from decode in the checksum only: it accepts what
\* decode accepts and places the payload where decode finds it, and what it
\* accepts beyond that has a checksum that does not match.
LazyAgrees ==
  \A e \in Expectation :
    LET info == PayloadInfo(e, sidecar_file)
        full == Decode(e, sidecar_file)
    IN  /\ full.ok <=> info.ok /\ info.value.crc = Crc(sidecar_file)
        /\ full.ok => full.value = SubSeq(sidecar_file, info.value.offset + 1,
                                          info.value.offset + info.value.len)
        /\ info.ok => info.value.offset + info.value.len = Len(sidecar_file)

=============================================================================
