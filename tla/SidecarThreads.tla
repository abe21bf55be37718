--------------------------- MODULE SidecarThreads ---------------------------
(***************************************************************************)
(* Threads that share one SidecarCache over one directory.  The mutex of   *)
(* the entries is held for a whole get_or_build, and only to look at the   *)
(* entries in the other calls, whose file operations run after it is let   *)
(* go.  An atomic write, a delete and the open of a file are one step each.*)
(*                                                                         *)
(* The live ids of a sealed segment only shrink, so the successive live    *)
(* sets are numbered: a key is a segment and such a number, an index is    *)
(* the number of the live set it was built for.  A thread asks for the     *)
(* live set of the writer or of the older snapshot it holds.               *)
(***************************************************************************)
EXTENDS Naturals, FiniteSets

CONSTANTS
  Threads,
  Segments,
  NoFile,      \* no sidecar file
  NoThread,    \* nobody holds the mutex
  MaxLive      \* bound: how often a live set shrinks

ASSUME ThreadsAssumption ==
  /\ NoThread \notin Threads
  /\ NoFile \notin Nat
  /\ MaxLive \in Nat

LiveSets == 0 .. MaxLive

VARIABLES
  live,      \* per segment, the number of its present live set
  entries,   \* the cache: [seg, key, index]
  holder,    \* who holds the mutex of entries
  file,      \* per segment, its sidecar: an index or NoFile
  pc,        \* what each thread does next
  seg,       \* the segment of the call it is in
  key,       \* the live set it asked for
  index,     \* the index it has in hand
  todo       \* persist_missing: the entries it has yet to look at

vars == <<live, entries, holder, file, pc, seg, key, index, todo>>

Entry == [seg : Segments, key : LiveSets, index : LiveSets]

Steps == {"idle", "lock", "load", "build", "got", "failed",
          "write", "delete", "check", "writeMissing"}

TInit ==
  /\ live = [s \in Segments |-> 0]
  /\ entries = {}
  /\ holder = NoThread
  /\ file = [s \in Segments |-> NoFile]
  /\ pc = [t \in Threads |-> "idle"]
  /\ seg \in [Threads -> Segments]
  /\ key = [t \in Threads |-> 0]
  /\ index = [t \in Threads |-> 0]
  /\ todo = [t \in Threads |-> {}]

Goto(t, step) == pc' = [pc EXCEPT ![t] = step]

OfSegment(s) == {e \in entries : e.seg = s}

\* The writer adds again or deletes an id of the segment.
Shrink(s) ==
  /\ live[s] < MaxLive
  /\ live' = [live EXCEPT ![s] = @ + 1]
  /\ UNCHANGED <<entries, holder, file, pc, seg, key, index, todo>>

-----------------------------------------------------------------------------
(* get_or_build.                                                           *)

Ask(t, s, k) ==
  /\ pc[t] = "idle"
  /\ k <= live[s]
  /\ seg' = [seg EXCEPT ![t] = s]
  /\ key' = [key EXCEPT ![t] = k]
  /\ Goto(t, "lock")
  /\ UNCHANGED <<live, entries, holder, file, index, todo>>

Matching(t) == {e \in OfSegment(seg[t]) : e.key = key[t]}

\* Slip: the mutex is let go before the sidecar is loaded or built.
LookupUnlocked(t) ==
  /\ pc[t] = "lock"
  /\ holder = NoThread
  /\ \/ \E e \in Matching(t) : index' = [index EXCEPT ![t] = e.index] /\ Goto(t, "got")
     \/ Matching(t) = {} /\ Goto(t, "load") /\ UNCHANGED index
  /\ UNCHANGED <<live, entries, holder, file, seg, key, todo>>

\* The mutex is taken; on a hit it is let go at once.
Lookup(t) ==
  /\ pc[t] = "lock"
  /\ holder = NoThread
  /\ \/ /\ \E e \in Matching(t) : index' = [index EXCEPT ![t] = e.index]
        /\ Goto(t, "got")
        /\ UNCHANGED holder
     \/ /\ Matching(t) = {}
        /\ Goto(t, "load")
        /\ holder' = t
        /\ UNCHANGED index
  /\ UNCHANGED <<live, entries, file, seg, key, todo>>

\* Slip: the entries of the segment's other live sets stay.
InsertBeside(t, i) ==
  entries' = entries \cup {[seg |-> seg[t], key |-> key[t], index |-> i]}

\* The entry replaces every other one of its segment.
Insert(t, i) ==
  entries' = (entries \ OfSegment(seg[t]))
               \cup {[seg |-> seg[t], key |-> key[t], index |-> i]}

\* Slip: the acceptance rule is not asked.
AcceptsAny(i, k) == i # NoFile

\* SidecarCodec::accepts, and the file decodes.
Accepts(i, k) == i = k

Finish(t, i) ==
  /\ Insert(t, i)
  /\ index' = [index EXCEPT ![t] = i]
  /\ holder' = NoThread
  /\ Goto(t, "got")

Load(t) ==
  /\ pc[t] = "load"
  /\ \/ /\ Accepts(file[seg[t]], key[t])
        /\ Finish(t, file[seg[t]])
     \/ /\ ~Accepts(file[seg[t]], key[t])
        /\ Goto(t, "build")
        /\ UNCHANGED <<entries, holder, index>>
  /\ UNCHANGED <<live, file, seg, key, todo>>

Build(t) ==
  /\ pc[t] = "build"
  /\ Finish(t, key[t])
  /\ UNCHANGED <<live, file, seg, key, todo>>

\* Slip: a build that fails is tried again, from the sidecar on.
BuildRetries(t) ==
  /\ pc[t] = "build"
  /\ Goto(t, "load")
  /\ UNCHANGED <<live, entries, holder, file, seg, key, index, todo>>

\* The build returns None, or panics: the guard is dropped, and a poisoned
\* mutex is taken all the same by the next call.
BuildFails(t) ==
  /\ pc[t] = "build"
  /\ holder' = NoThread
  /\ Goto(t, "failed")
  /\ UNCHANGED <<live, entries, file, seg, key, index, todo>>

\* The call returns.
Return(t) ==
  /\ pc[t] \in {"got", "failed"}
  /\ Goto(t, "idle")
  /\ UNCHANGED <<live, entries, holder, file, seg, key, index, todo>>

-----------------------------------------------------------------------------
(* The calls that touch the mutex only for a moment.                       *)

\* retain, with the segments that are left.
Retain(t, kept) ==
  /\ pc[t] = "idle"
  /\ holder = NoThread
  /\ entries' = {e \in entries : e.seg \in kept}
  /\ UNCHANGED <<live, holder, file, pc, seg, key, index, todo>>

Invalidate(t, s) ==
  /\ pc[t] = "idle"
  /\ holder = NoThread
  /\ entries' = entries \ OfSegment(s)
  /\ seg' = [seg EXCEPT ![t] = s]
  /\ Goto(t, "delete")
  /\ UNCHANGED <<live, holder, file, key, index, todo>>

Delete(t) ==
  /\ pc[t] = "delete"
  /\ file' = [file EXCEPT ![seg[t]] = NoFile]
  /\ Goto(t, "idle")
  /\ UNCHANGED <<live, entries, holder, seg, key, index, todo>>

\* persist clones the entry, then writes.
Persist(t, e) ==
  /\ pc[t] = "idle"
  /\ holder = NoThread
  /\ seg' = [seg EXCEPT ![t] = e.seg]
  /\ index' = [index EXCEPT ![t] = e.index]
  /\ Goto(t, "write")
  /\ UNCHANGED <<live, entries, holder, file, key, todo>>

Write(t) ==
  /\ pc[t] = "write"
  /\ file' = [file EXCEPT ![seg[t]] = index[t]]
  /\ Goto(t, "idle")
  /\ UNCHANGED <<live, entries, holder, seg, key, index, todo>>

\* persist_missing clones the entries of the segments asked for.
PersistMissing(t, asked) ==
  /\ pc[t] = "idle"
  /\ holder = NoThread
  /\ todo' = [todo EXCEPT ![t] = {e \in entries : e.seg \in asked}]
  /\ Goto(t, "check")
  /\ UNCHANGED <<live, entries, holder, file, seg, key, index>>

\* Of the next entry, whether its file is there.
Check(t) ==
  /\ pc[t] = "check"
  /\ \/ /\ todo[t] = {}
        /\ Goto(t, "idle")
        /\ UNCHANGED <<seg, index, todo>>
     \/ \E e \in todo[t] :
          /\ todo' = [todo EXCEPT ![t] = @ \ {e}]
          /\ IF file[e.seg] = NoFile
               THEN /\ seg' = [seg EXCEPT ![t] = e.seg]
                    /\ index' = [index EXCEPT ![t] = e.index]
                    /\ Goto(t, "writeMissing")
               ELSE UNCHANGED <<seg, index, pc>>
  /\ UNCHANGED <<live, entries, holder, file, key>>

WriteMissing(t) ==
  /\ pc[t] = "writeMissing"
  /\ file' = [file EXCEPT ![seg[t]] = index[t]]
  /\ Goto(t, "check")
  /\ UNCHANGED <<live, entries, holder, seg, key, index, todo>>

-----------------------------------------------------------------------------

\* What a thread does next within a call.
Step(t) ==
  \/ Lookup(t) \/ Load(t) \/ Build(t) \/ BuildFails(t) \/ Return(t)
  \/ Delete(t) \/ Write(t) \/ Check(t) \/ WriteMissing(t)

Call(t) ==
  \/ \E s \in Segments : Invalidate(t, s) \/ \E k \in LiveSets : Ask(t, s, k)
  \/ \E kept \in SUBSET Segments : Retain(t, kept) \/ PersistMissing(t, kept)
  \/ \E e \in entries : Persist(t, e)

TNext ==
  \/ \E t \in Threads : Step(t) \/ Call(t)
  \/ \E s \in Segments : Shrink(s)

TSpec == TInit /\ [][TNext]_vars

\* A thread that is running is scheduled; std's mutex promises no more, so a
\* waiting thread may be overtaken as long as new calls come.
TFairSpec == TSpec /\ \A t \in Threads : WF_vars(Step(t))

-----------------------------------------------------------------------------
(* Properties.                                                             *)

\* Every variable stays in the range its code gives it.
TypeOK ==
  /\ live \in [Segments -> LiveSets]
  /\ entries \subseteq Entry
  /\ holder \in Threads \cup {NoThread}
  /\ file \in [Segments -> LiveSets \cup {NoFile}]
  /\ pc \in [Threads -> Steps]
  /\ seg \in [Threads -> Segments]
  /\ key \in [Threads -> LiveSets]
  /\ index \in [Threads -> LiveSets]
  /\ todo \in [Threads -> SUBSET Entry]

\* "A cache holds at most one entry per segment" (sidecar.rs:33), and it is the
\* index of the live set it is filed under, whatever the threads insert, load,
\* persist and drop at the same time.
OneEntryPerSegment ==
  /\ \A e, f \in entries : e.seg = f.seg => e = f
  /\ \A e \in entries : e.index = e.key

\* A call gets the index of the live set it asked for, also while other
\* threads persist or rebuild the index of another one.
GetsWhatItAsked ==
  \A t \in Threads : pc[t] = "got" => index[t] = key[t]

\* "Concurrent get_or_build calls on the same key build exactly once"
\* (sidecar.rs:40): a build runs only while its key is not cached, and no other
\* thread is building.
BuildsOnce ==
  \A t \in Threads : pc[t] = "build" =>
    /\ Matching(t) = {}
    /\ \A u \in Threads \ {t} : pc[u] \notin {"load", "build"}

\* "Existing files are left untouched by contract" (sidecar.rs:483): what
\* persist_missing writes never replaces another index that is there.
MissingOnly ==
  [][\A t \in Threads : pc[t] = "writeMissing" /\ pc'[t] = "check" =>
       file[seg[t]] \in {NoFile, index[t]}]_vars

\* No build, failed build or panic wedges the cache: once no further call
\* comes in, every call has returned.
CallsReturn ==
  <>[][\A t \in Threads : pc[t] = "idle" => pc'[t] = "idle"]_vars
    => <>[](\A t \in Threads : pc[t] = "idle")

=============================================================================
