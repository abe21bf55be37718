------------------------------ MODULE Tiering ------------------------------
(***************************************************************************)
(* Which segments segstore's maintenance calls merge, and when they stop:  *)
(* next_merge_group and the loops of compact_tiers, force_merge_to,        *)
(* reclaim_tombstones and compact (src/src/lib.rs).                        *)
(*                                                                         *)
(* A segment is its item count and how many of those copies are live; what *)
(* the copies are is SegMemory's business, and SegStore lets any group be  *)
(* merged.  segments is the Vec of the code, in its order, which breaks    *)
(* the ties of its stable sorts; a group is a set of positions in it, since *)
(* nothing depends on the order in which a merge takes its inputs.  The    *)
(* size band is a ratio of integers and the running average of a bucket is *)
(* kept as sum and count: the code computes both in f64, which is exact    *)
(* for the sizes checked here.                                             *)
(***************************************************************************)
EXTENDS Naturals, Sequences, FiniteSetsExt

CONSTANTS
  Configs,         \* the TierConfigs a store may be opened with
  FlushThreshold,  \* Options::flush_threshold, at least 1
  Targets,         \* arguments of force_merge_to
  Ratios,          \* arguments of reclaim_tombstones, as <<num, den>>
  MaxStored        \* bound: items stored in segments and buffer

ASSUME TieringAssumption ==
  /\ FlushThreshold \in Nat \ {0}
  /\ Targets \subseteq Nat
  /\ MaxStored \in Nat
  /\ \A r \in Ratios : r[1] \in Nat /\ r[2] \in Nat \ {0}
  /\ \A c \in Configs :
       /\ {c.min_merge, c.max_merge, c.max_merged_len} \subseteq Nat
       /\ \A b \in {c.bucket_low, c.bucket_high} :
            b[1] \in Nat /\ b[2] \in Nat \ {0}
       /\ c.auto_compact \in BOOLEAN

VARIABLES
  tiering,    \* the store's TierConfig (with Options::auto_compact)
  buffered,   \* items in the buffer
  segments,   \* the segments, oldest first: items and live items of each
  call        \* the maintenance loop under way and its target, or that the last
              \* call ended, and how

vars == <<tiering, buffered, segments, call>>

Segment(len, live) == [len |-> len, live |-> live]
Idle == [op |-> "idle", target |-> 0]
Failed == [op |-> "failed", target |-> 0]
Tiers == [op |-> "compact_tiers", target |-> 0]
Forcing(n) == [op |-> "force_merge_to", target |-> n]

Lens(segs) == [i \in DOMAIN segs |-> segs[i].len]
Lives(segs) == [i \in DOMAIN segs |-> segs[i].live]

\* The sum of the sizes at the positions of a group.
Total(sizes, group) ==
  LET sum[k \in 0 .. Len(sizes)] ==
        IF k = 0 THEN 0 ELSE sum[k - 1] + (IF k \in group THEN sizes[k] ELSE 0)
  IN  sum[Len(sizes)]

LenOf(segs, group) == Total(Lens(segs), group)
LiveOf(segs, group) == Total(Lives(segs), group)

\* Of a group sorted by size, those up to i: ties keep list order, as a stable
\* sort does.
UpTo(sizes, group, i) ==
  {j \in group : sizes[j] < sizes[i] \/ (sizes[j] = sizes[i] /\ j <= i)}

\* The first one of it, and the first n.
Smallest(sizes, group) == CHOOSE i \in group : UpTo(sizes, group, i) = {i}
First(sizes, group, n) == {i \in group : Cardinality(UpTo(sizes, group, i)) <= n}

-----------------------------------------------------------------------------
(* next_merge_group.                                                       *)

\* Slip: the configured minimum is taken as it is.
ConfiguredMinMerge == Max({tiering.min_merge, 1})

\* A group of one would be merged into itself for ever.
MinMerge == Max({tiering.min_merge, 2})

\* The size a segment is bucketed by.
Floored(s) == IF s.len > FlushThreshold THEN s.len ELSE FlushThreshold

FlooredLens(segs) == [i \in DOMAIN segs |-> Floored(segs[i])]
FlooredOf(segs, group) == Total(FlooredLens(segs), group)

\* Above half the cap a segment is frozen.
Eligible(segs) == {i \in DOMAIN segs : segs[i].len <= tiering.max_merged_len \div 2}

\* Slip: the upper edge of the band is not looked at.
FitsAbove(segs, i, bucket) ==
  Floored(segs[i]) * Cardinality(bucket.members) * tiering.bucket_low[2]
    > bucket.total * tiering.bucket_low[1]

\* Segment i is strictly inside the band around the bucket's running average.
Fits(segs, i, bucket) ==
  LET sized == Floored(segs[i]) * Cardinality(bucket.members)
      low   == tiering.bucket_low
      high  == tiering.bucket_high
  IN  sized * low[2] > bucket.total * low[1] /\ sized * high[2] < bucket.total * high[1]

\* The first bucket that fits takes segment i; with none it opens its own.
Place(segs, buckets, i) ==
  LET size    == Floored(segs[i])
      fitting == {k \in DOMAIN buckets : Fits(segs, i, buckets[k])}
  IN  IF fitting = {}
        THEN Append(buckets, [total |-> size, members |-> {i}])
        ELSE [buckets EXCEPT ![Min(fitting)] =
               [total |-> @.total + size, members |-> @.members \cup {i}]]

\* The next one placed is the smallest left.
Placed(buckets) == UNION {b.members : b \in Range(buckets)}
PlaceNext(segs, buckets) ==
  Place(segs, buckets, Smallest(FlooredLens(segs), Eligible(segs) \ Placed(buckets)))

\* The buckets of the eligible segments, in the order they are opened.
Buckets(segs) ==
  LET placed[k \in 0 .. Cardinality(Eligible(segs))] ==
        IF k = 0 THEN <<>> ELSE PlaceNext(segs, placed[k - 1])
  IN  placed[Cardinality(Eligible(segs))]

\* Slip: the output's items are not capped.
ChosenUncapped(segs, b) == First(Lens(segs), b.members, tiering.max_merge)

\* The smallest members of bucket b, as many as the two caps allow; the first one
\* may be larger than the cap.
Chosen(segs, b) ==
  {i \in b.members :
     LET taken == UpTo(Lens(segs), b.members, i)
     IN  /\ Cardinality(taken) <= tiering.max_merge
         /\ taken # {i} => LenOf(segs, taken) <= tiering.max_merged_len}

\* Buckets are tried by their average, smallest first; ties keep their order.
TriedBefore(buckets, k, l) ==
  LET left  == buckets[k].total * Cardinality(buckets[l].members)
      right == buckets[l].total * Cardinality(buckets[k].members)
  IN  left < right \/ (left = right /\ k <= l)

\* The group of the first bucket that yields one; {} for None.
NextMergeGroup(segs) ==
  LET buckets  == Buckets(segs)
      group(k) == Chosen(segs, buckets[k])
      yielding == {k \in DOMAIN buckets :
                     /\ Cardinality(buckets[k].members) >= MinMerge
                     /\ Cardinality(group(k)) >= MinMerge}
  IN  IF Cardinality(Eligible(segs)) < MinMerge \/ yielding = {}
        THEN {}
        ELSE group(CHOOSE k \in yielding : \A l \in yielding : TriedBefore(buckets, k, l))

HasEligibleTier(segs) == NextMergeGroup(segs) # {}

-----------------------------------------------------------------------------
(* The group of one turn of force_merge_to.                                *)

\* Slip: one segment more than needed.
ForceGroupSizePlus(segs, over) == Min({over + 2, Max({tiering.max_merge, 2}), Len(segs)})

\* Merging k segments drops the count by k - 1.
ForceGroupSize(segs, over) == Min({over + 1, Max({tiering.max_merge, 2}), Len(segs)})

\* The smallest segments, as many as bring the count to n.
ForceGroup(segs, n) ==
  First(Lens(segs), DOMAIN segs, ForceGroupSize(segs, Len(segs) - n))

-----------------------------------------------------------------------------
(* Segments after a merge or a seal.                                       *)

Unmerged(segs, group) ==
  LET kept[k \in 0 .. Len(segs)] ==
        CASE k = 0      -> <<>>
          [] k \in group -> kept[k - 1]
          [] OTHER      -> Append(kept[k - 1], segs[k])
  IN  kept[Len(segs)]

\* Slip: the output is filtered by nothing.
MergeGroupUnfiltered(segs, group) ==
  Append(Unmerged(segs, group), Segment(LenOf(segs, group), LiveOf(segs, group)))

\* merge_group: the live copies of the group become the newest segment.
MergeGroup(segs, group) ==
  LET live == LiveOf(segs, group)
  IN  Unmerged(segs, group) \o (IF live = 0 THEN <<>> ELSE <<Segment(live, live)>>)

\* The output is written before anything changes, and that may fail; an empty
\* output is not written.
MergeMayFail(segs, group) == LiveOf(segs, group) > 0

\* flush_buffer on n buffered items.
FlushBuffer(segs, n) ==
  IF n = 0 THEN segs ELSE Append(segs, Segment(n, n))

\* No call is under way.
AtRest == call \in {Idle, Failed}

Stored == LenOf(segments, DOMAIN segments) + buffered

\* space_amplification, as a fraction; buffered items are all live.
SpaceAmplification == <<Stored, LiveOf(segments, DOMAIN segments) + buffered>>

-----------------------------------------------------------------------------
(* Writes.                                                                 *)

Contents == [segments |-> segments, buffered |-> buffered]

\* What is left when an id's live copy goes: a buffered copy is taken out, a
\* sealed one stays in its segment, dead.
WithoutOneCopy ==
  (IF buffered > 0 THEN {[Contents EXCEPT !.buffered = @ - 1]} ELSE {})
    \cup {[Contents EXCEPT !.segments[i].live = @ - 1] :
            i \in {j \in DOMAIN segments : segments[j].live > 0}}

\* add, of a new id or one with a live copy: a full buffer is sealed, and with
\* auto_compact the tiers are merged before the call returns.
Add ==
  /\ AtRest
  /\ Stored < MaxStored
  /\ \E rest \in WithoutOneCopy \cup {Contents} :
       LET n == rest.buffered + 1
       IN  IF n < FlushThreshold
             THEN /\ buffered' = n
                  /\ segments' = rest.segments
                  /\ call' = Idle
             ELSE /\ buffered' = 0
                  /\ segments' = FlushBuffer(rest.segments, n)
                  /\ call' = IF tiering.auto_compact /\ HasEligibleTier(segments')
                               THEN Tiers ELSE Idle
  /\ UNCHANGED tiering

\* delete, of an id with a live copy.
Delete ==
  /\ AtRest
  /\ \E rest \in WithoutOneCopy :
       buffered' = rest.buffered /\ segments' = rest.segments
  /\ call' = Idle
  /\ UNCHANGED tiering

-----------------------------------------------------------------------------
(* Maintenance.                                                            *)

\* compact_tiers and force_merge_to seal the buffer before their loops.
Begin(c) ==
  /\ AtRest
  /\ segments' = FlushBuffer(segments, buffered)
  /\ buffered' = 0
  /\ call' = c
  /\ UNCHANGED tiering

CompactTiers == Begin(Tiers)

ForceMergeTo(n) == n > 1 /\ Begin(Forcing(n))

\* One turn of a loop.  A merged segment that cannot be written ends the call
\* with an error and the segments as they were.
Turn(group) ==
  /\ \/ segments' = MergeGroup(segments, group) /\ UNCHANGED call
     \/ MergeMayFail(segments, group) /\ segments' = segments /\ call' = Failed
  /\ UNCHANGED <<tiering, buffered>>

TierTurn == call.op = "compact_tiers" /\ HasEligibleTier(segments) /\ Turn(NextMergeGroup(segments))

ForceTurn ==
  /\ call.op = "force_merge_to"
  /\ Len(segments) > call.target
  /\ Turn(ForceGroup(segments, call.target))

\* The loop's condition is false: the call checkpoints and returns.
Return ==
  /\ \/ call.op = "compact_tiers" /\ ~HasEligibleTier(segments)
     \/ call.op = "force_merge_to" /\ Len(segments) <= call.target
  /\ call' = Idle
  /\ UNCHANGED <<tiering, buffered, segments>>

\* Segment s has less live than the ratio asks for.
Heavy(s, ratio) == s.live * ratio[2] < ratio[1] * s.len

\* The positions of the segments reclaim_tombstones rewrites.
HeavyIn(segs, ratio) == {i \in DOMAIN segs : Heavy(segs[i], ratio)}

ReclaimTombstones(ratio) ==
  LET flushed == FlushBuffer(segments, buffered)
      targets == HeavyIn(flushed, ratio)
  IN  /\ AtRest
      /\ buffered' = 0
      /\ \/ segments' = MergeGroup(flushed, targets) /\ call' = Idle
         \/ MergeMayFail(flushed, targets) /\ segments' = flushed /\ call' = Failed
      /\ UNCHANGED tiering

\* compact, and force_merge_to of a target below 2.
Compact ==
  LET flushed == FlushBuffer(segments, buffered)
  IN  /\ AtRest
      /\ buffered' = 0
      /\ \/ segments' = MergeGroup(flushed, DOMAIN flushed) /\ call' = Idle
         \/ MergeMayFail(flushed, DOMAIN flushed) /\ segments' = flushed /\ call' = Failed
      /\ UNCHANGED tiering

Init ==
  /\ tiering \in Configs
  /\ buffered = 0
  /\ segments = <<>>
  /\ call = Idle

Next ==
  \/ Add
  \/ Delete
  \/ CompactTiers
  \/ \E n \in Targets : ForceMergeTo(n)
  \/ TierTurn
  \/ ForceTurn
  \/ Return
  \/ \E ratio \in Ratios : ReclaimTombstones(ratio)
  \/ Compact

Spec == Init /\ [][Next]_vars

-----------------------------------------------------------------------------
(* Properties.                                                             *)

\* What compact_tiers promises of each merge (lib.rs:1908-1915): no frozen
\* segment, at most max_merge inputs, no output above max_merged_len.
TierMergeKeepsCaps ==
  LET group == NextMergeGroup(segments)
  IN  /\ Cardinality(group) <= tiering.max_merge
      /\ LenOf(segments, group) <= tiering.max_merged_len
      /\ \A i \in group : 2 * segments[i].len <= tiering.max_merged_len

\* Why an item is rewritten only logarithmically often (lib.rs:4744): the
\* inputs of a tier merge together are larger than its largest input by the
\* factor 1 + (k - 1) / bucket_high, for k inputs.
TierMergeGrows ==
  LET group == NextMergeGroup(segments)
      total == FlooredOf(segments, group)
      high  == tiering.bucket_high
  IN  \A i \in group :
        total * high[1]
          > Floored(segments[i]) * (high[1] + (Cardinality(group) - 1) * high[2])

\* Why the loops of compact_tiers and force_merge_to end, whatever the
\* TierConfig (lib.rs:2086: a group of one makes no progress): every turn
\* leaves fewer segments.
EveryTurnShrinks ==
  LET shrinks(group) == Len(MergeGroup(segments, group)) < Len(segments)
      tiers == NextMergeGroup(segments)
  IN  /\ tiers # {} => shrinks(tiers)
      /\ \A n \in Targets : Len(segments) > n /\ n > 1 => shrinks(ForceGroup(segments, n))

\* force_merge_to merges no more segments than it must (lib.rs:1955): a turn
\* ends below its target only when it met a group with nothing live in it.
ForceStopsAtTarget ==
  [][ call.op = "force_merge_to" /\ segments' # segments =>
        Len(segments') >= call.target -
          (IF \E i \in DOMAIN segments : segments[i].live = 0 THEN 1 ELSE 0) ]_vars

\* What maintenance is for (lib.rs:2165, 2188): over every group it picks, and
\* where an output cannot be written, no step of it loses a live item or adds to
\* the space amplification.  A compact that returns leaves none; a
\* reclaim_tombstones, no segment below the live ratio it was asked for.
MaintenanceReclaims ==
  [][ LET reclaims == {ratio \in Ratios : ReclaimTombstones(ratio)}
          compacts == Compact
      IN  ~AtRest \/ compacts \/ reclaims # {} =>
            /\ SpaceAmplification'[2] = SpaceAmplification[2]
            /\ SpaceAmplification'[1] <= SpaceAmplification[1]
            /\ compacts /\ call' = Idle => SpaceAmplification'[1] = SpaceAmplification'[2]
            /\ \A ratio \in reclaims : call' = Idle /\ ratio[1] <= ratio[2] =>
                 \A i \in DOMAIN segments' :
                   segments'[i].live * ratio[2] >= ratio[1] * segments'[i].len ]_vars

=============================================================================
