------------------------------- MODULE MCFiles -------------------------------
(***************************************************************************)
(* The files of a store in one instance: a sidecar that is damaged,        *)
(* segment files that are damaged, and the names of the directory.  Which  *)
(* of them is studied is chosen at the start, and the others stand still:  *)
(* a reader of sidecars sees no segment file, nor the other way round, and *)
(* no sweep looks into a file.                                             *)
(***************************************************************************)
EXTENDS SidecarEnvelope, SegmentPayload, FileNames

VARIABLE studied

fVars == <<eVars, pVars, nVars, damage, studied>>

SomeKinds == {<<"k">>, <<"k", "tmp">>, <<"">>}
OldKinds == {<<"k", "v1">>}

\* The one that stands still where it is not studied.
SomeSidecar == tags = [magic |-> 0, version |-> 0, segment_id |-> 0, recipe |-> <<>>]
SomeSegments == \A s \in Segments : intact[s] = WholeFile(1, 0, <<>>)

\* Any segment file is studied beside this one.
OneBeside == intact[1] = WholeFile(2, 1, <<1>>)

FInit ==
  /\ studied \in {"sidecar", "segment", "names"}
  /\ EInit
  /\ studied # "sidecar" => SomeSidecar /\ payload = <<>>
  /\ PInit
  /\ IF studied = "segment" THEN OneBeside ELSE SomeSegments
  /\ NInit

FNext ==
  /\ \/ studied = "sidecar" /\ ENext /\ UNCHANGED <<pVars, nVars>>
     \/ studied = "segment" /\ PNext /\ UNCHANGED <<eVars, nVars>>
     \/ studied = "names"   /\ NNext /\ UNCHANGED <<eVars, pVars, damage>>
  /\ UNCHANGED studied

FSpec == FInit /\ [][FNext]_fVars

=============================================================================
