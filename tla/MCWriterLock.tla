---------------------------- MODULE MCWriterLock ----------------------------
(* Small instances of WriterLock: processes and writes are alike.           *)
EXTENDS WriterLock, TLC

Symmetry == Permutations(Procs) \cup Permutations(Writes)

=============================================================================
