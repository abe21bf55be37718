----------------------------- MODULE MCTiering -----------------------------
(* An instance of Tiering for TLC.                                         *)
EXTENDS Tiering

Config(minMerge, maxMerge, cap, auto) ==
  [ min_merge |-> minMerge, max_merge |-> maxMerge,
    bucket_low |-> <<1, 2>>, bucket_high |-> <<3, 2>>,
    max_merged_len |-> cap, auto_compact |-> auto ]

\* Leveling, a minimum below its floor, a max_merge below its floor, and a
\* size-tiered store whose cap is out of reach.
MCConfigs ==
  { Config(2, 3, 6, TRUE), Config(1, 4, 7, FALSE),
    Config(0, 1, 6, FALSE), Config(3, 4, 20, TRUE) }

\* A half, nine tenths, and a ratio no segment has.
MCRatios == {<<1, 2>>, <<9, 10>>, <<2, 1>>}

=============================================================================
