------------------------------ MODULE FileCells ------------------------------
(***************************************************************************)
(* A file as its readers see it: a sequence of cells, one per field of a   *)
(* header of five and one per byte of what follows, and a disk that cuts   *)
(* it off or leaves bytes behind it.  The checksum of a file is ideal: it  *)
(* is the cells it covers.  A CRC32 collision is out of the model's sight, *)
(* what the CRC covers is not.                                             *)
(***************************************************************************)
EXTENDS Naturals, Sequences, SequencesExt

CONSTANTS
  Bytes,       \* values of one byte
  MaxDamage    \* bound: changes to one file

ASSUME CellsAssumption ==
  /\ Bytes \subseteq Nat /\ Bytes # {}
  /\ MaxDamage \in Nat

VARIABLE damage   \* changes to the file since it was written

HeaderCells == 5
ChecksumCell == 5

Strings(max) == UNION {[1 .. n -> Bytes] : n \in 0 .. max}

\* What a reader returns.
Refused == [ok |-> FALSE]
Ok(value) == [ok |-> TRUE, value |-> value]

\* What becomes of a file that is cut off, or has a byte put behind it.
Shortened(f) == {SubSeq(f, 1, n) : n \in 0 .. Len(f)}
Lengthened(f) == IF Len(f) >= HeaderCells THEN {Append(f, b) : b \in Bytes} ELSE {}

=============================================================================
