------------------------ MODULE SidecarThreadsProofs ------------------------
(***************************************************************************)
(* What module SidecarThreads says of the shared cache, proved for every   *)
(* number of threads, segments and live sets.  The inductive invariant     *)
(* ties a thread's place in get_or_build to the mutex: while it loads or   *)
(* builds it is the holder, nobody inserts, and its key stays uncached.    *)
(***************************************************************************)
EXTENDS SidecarThreads, TLAPS

\* A thread is in the part of get_or_build the mutex covers just when it holds
\* the mutex, and then what it looks for is not cached.
Holding ==
  \A t \in Threads :
    /\ pc[t] \in {"load", "build"} <=> holder = t
    /\ holder = t => Matching(t) = {}

Inv == TypeOK /\ Holding /\ OneEntryPerSegment /\ GetsWhatItAsked

\* The invariant holds before any call.
LEMMA ThreadsInit == TInit => Inv
  BY ThreadsAssumption
     DEF TInit, Inv, TypeOK, Holding, OneEntryPerSegment, GetsWhatItAsked, Matching,
         OfSegment, LiveSets, Steps

\* The steps that touch neither the cache nor the mutex, nor enter or leave
\* what the mutex covers.
LEMMA OutsideStep ==
  ASSUME Inv, NEW t \in Threads,
         \/ \E s \in Segments, k \in LiveSets : Ask(t, s, k)
         \/ Return(t) \/ Delete(t) \/ Write(t) \/ Check(t) \/ WriteMissing(t)
         \/ \E asked \in SUBSET Segments : PersistMissing(t, asked)
         \/ \E e \in entries : Persist(t, e)
  PROVE  Inv'
<1> USE ThreadsAssumption DEF Inv, TypeOK
<1>1. pc[t] \notin {"load", "build"} /\ holder # t
  BY DEF Holding, Ask, Return, Delete, Write, Check, WriteMissing, PersistMissing, Persist
<1>2. UNCHANGED <<entries, holder>>
  BY DEF Ask, Return, Delete, Write, Check, WriteMissing, PersistMissing, Persist
<1>3. pc'[t] \notin {"load", "build", "got"}
      /\ \A u \in Threads \ {t} : pc'[u] = pc[u] /\ seg'[u] = seg[u]
                                  /\ key'[u] = key[u] /\ index'[u] = index[u]
  BY DEF Ask, Return, Delete, Write, Check, WriteMissing, PersistMissing, Persist, Goto
<1>4. TypeOK'
  <2>1. ASSUME NEW s \in Segments, NEW k \in LiveSets, Ask(t, s, k) PROVE TypeOK'
    BY <2>1 DEF Ask, Goto, Steps
  <2>2. CASE Return(t)
    BY <2>2 DEF Return, Goto, Steps
  <2>3. CASE Delete(t)
    BY <2>3 DEF Delete, Goto, Steps
  <2>4. CASE Write(t)
    BY <2>4 DEF Write, Goto, Steps
  <2>5. CASE Check(t)
    <3>1. CASE todo[t] = {} /\ Goto(t, "idle") /\ UNCHANGED <<seg, index, todo>>
      BY <2>5, <3>1 DEF Check, Goto, Steps
    <3>2. ASSUME NEW e \in todo[t],
                 todo' = [todo EXCEPT ![t] = @ \ {e}],
                 IF file[e.seg] = NoFile
                   THEN /\ seg' = [seg EXCEPT ![t] = e.seg]
                        /\ index' = [index EXCEPT ![t] = e.index]
                        /\ Goto(t, "writeMissing")
                   ELSE UNCHANGED <<seg, index, pc>>
          PROVE  TypeOK'
      <4>1. e \in Entry /\ e.seg \in Segments /\ e.index \in LiveSets
        BY DEF Entry
      <4>2. todo' \in [Threads -> SUBSET Entry]
        BY <3>2
      <4> QED
        BY <2>5, <3>2, <4>1, <4>2 DEF Check, Goto, Steps
    <3> QED
      BY <2>5, <3>1, <3>2 DEF Check
  <2>6. CASE WriteMissing(t)
    BY <2>6 DEF WriteMissing, Goto, Steps
  <2>7. ASSUME NEW asked \in SUBSET Segments, PersistMissing(t, asked) PROVE TypeOK'
    BY <2>7 DEF PersistMissing, Goto, Steps
  <2>8. ASSUME NEW e \in entries, Persist(t, e) PROVE TypeOK'
    <3>1. e.seg \in Segments /\ e.index \in LiveSets
      BY DEF Entry
    <3> QED
      BY <2>8, <3>1 DEF Persist, Goto, Steps
  <2> QED
    BY <2>1, <2>2, <2>3, <2>4, <2>5, <2>6, <2>7, <2>8
<1>5. Holding'
  BY <1>1, <1>2, <1>3 DEF Holding, Matching, OfSegment
<1>6. OneEntryPerSegment' /\ GetsWhatItAsked'
  BY <1>2, <1>3 DEF OneEntryPerSegment, GetsWhatItAsked
<1> QED
  BY <1>4, <1>5, <1>6

\* Entries that are only taken away keep the invariant.
LEMMA RemovalStep ==
  ASSUME Inv, NEW t \in Threads,
         \/ \E s \in Segments : Invalidate(t, s)
         \/ \E kept \in SUBSET Segments : Retain(t, kept)
  PROVE  Inv'
<1> USE ThreadsAssumption DEF Inv, TypeOK
<1>1. /\ entries' \subseteq entries
      /\ holder = NoThread /\ holder' = holder
      /\ pc[t] = "idle" /\ pc'[t] \in {"idle", "delete"}
      /\ \A u \in Threads \ {t} : pc'[u] = pc[u]
      /\ UNCHANGED <<key, index>>
  BY DEF Invalidate, Retain, Goto
<1>2. TypeOK'
  BY <1>1 DEF Invalidate, Retain, Goto, Steps
<1>3. Holding'
  BY <1>1 DEF Holding
<1>4. OneEntryPerSegment' /\ GetsWhatItAsked'
  BY <1>1 DEF OneEntryPerSegment, GetsWhatItAsked
<1> QED
  BY <1>2, <1>3, <1>4

\* A lookup returns what is filed under the key, or takes the mutex.
LEMMA LookupStep ==
  ASSUME Inv, NEW t \in Threads, Lookup(t)
  PROVE  Inv'
<1> USE ThreadsAssumption DEF Inv, TypeOK
<1>1. UNCHANGED <<live, entries, file, seg, key, todo>> /\ holder = NoThread /\ pc[t] = "lock"
  BY DEF Lookup
<1>2. ASSUME NEW e \in Matching(t), index' = [index EXCEPT ![t] = e.index],
             Goto(t, "got"), UNCHANGED holder
      PROVE  Inv'
  <2>1. e \in entries /\ e.index = key[t] /\ e.index \in LiveSets
    BY <1>2 DEF Matching, OfSegment, OneEntryPerSegment, Entry
  <2>2. TypeOK'
    BY <1>1, <1>2, <2>1 DEF Goto, Steps
  <2>3. Holding'
    BY <1>1, <1>2 DEF Holding, Goto, Matching, OfSegment
  <2>4. OneEntryPerSegment' /\ GetsWhatItAsked'
    BY <1>1, <1>2, <2>1 DEF OneEntryPerSegment, GetsWhatItAsked, Goto
  <2> QED
    BY <2>2, <2>3, <2>4
<1>3. ASSUME Matching(t) = {}, Goto(t, "load"), holder' = t, UNCHANGED index
      PROVE  Inv'
  <2>1. TypeOK'
    BY <1>1, <1>3 DEF Goto, Steps
  <2>2. Holding'
    BY <1>1, <1>3 DEF Holding, Goto, Matching, OfSegment
  <2>3. OneEntryPerSegment' /\ GetsWhatItAsked'
    BY <1>1, <1>3 DEF OneEntryPerSegment, GetsWhatItAsked, Goto
  <2> QED
    BY <2>1, <2>2, <2>3
<1> QED
  BY <1>2, <1>3 DEF Lookup

\* Inserting the index of the key asked for, and letting the mutex go.
LEMMA FinishStep ==
  ASSUME Inv, NEW t \in Threads, pc[t] \in {"load", "build"},
         Finish(t, key[t]), UNCHANGED <<live, file, seg, key, todo>>
  PROVE  Inv'
<1> USE ThreadsAssumption DEF Inv, TypeOK
<1> DEFINE fresh == [seg |-> seg[t], key |-> key[t], index |-> key[t]]
<1>1. /\ entries' = (entries \ OfSegment(seg[t])) \cup {fresh}
      /\ index' = [index EXCEPT ![t] = key[t]]
      /\ holder' = NoThread /\ pc' = [pc EXCEPT ![t] = "got"]
  BY DEF Finish, Insert, Goto
<1>2. holder = t /\ \A u \in Threads \ {t} : holder # u /\ pc[u] \notin {"load", "build"}
  BY DEF Holding
<1>3. fresh \in Entry
  BY DEF Entry
<1>4. TypeOK'
  BY <1>1, <1>3 DEF Steps
<1>5. Holding'
  BY <1>1, <1>2 DEF Holding
<1>6. OneEntryPerSegment'
  <2>1. \A e \in entries \ OfSegment(seg[t]) : e.seg # seg[t] /\ e.index = e.key
    BY DEF OfSegment, OneEntryPerSegment
  <2> QED
    BY <1>1, <2>1 DEF OneEntryPerSegment
<1>7. GetsWhatItAsked'
  BY <1>1 DEF GetsWhatItAsked
<1> QED
  BY <1>4, <1>5, <1>6, <1>7

\* The steps of the thread that holds the mutex.
LEMMA HolderStep ==
  ASSUME Inv, NEW t \in Threads, Load(t) \/ Build(t) \/ BuildFails(t)
  PROVE  Inv'
<1> USE ThreadsAssumption DEF Inv, TypeOK
<1>1. holder = t /\ \A u \in Threads \ {t} : holder # u
  BY DEF Load, Build, BuildFails, Holding
<1>2. CASE Build(t)
  BY <1>2, FinishStep DEF Build
<1>3. CASE BuildFails(t)
  <2>1. TypeOK'
    BY <1>3 DEF BuildFails, Goto, Steps
  <2>2. Holding'
    BY <1>1, <1>3 DEF BuildFails, Goto, Holding
  <2>3. OneEntryPerSegment' /\ GetsWhatItAsked'
    BY <1>3 DEF BuildFails, Goto, OneEntryPerSegment, GetsWhatItAsked
  <2> QED
    BY <2>1, <2>2, <2>3
<1>4. CASE Load(t)
  <2>1. CASE Accepts(file[seg[t]], key[t]) /\ Finish(t, file[seg[t]])
    <3>1. file[seg[t]] = key[t]
      BY <2>1 DEF Accepts
    <3> QED
      BY <1>4, <2>1, <3>1, FinishStep DEF Load
  <2>2. CASE Goto(t, "build") /\ UNCHANGED <<entries, holder, index>>
    <3>1. TypeOK'
      BY <1>4, <2>2 DEF Load, Goto, Steps
    <3>2. Holding'
      BY <1>4, <2>2 DEF Load, Goto, Holding, Matching, OfSegment
    <3>3. OneEntryPerSegment' /\ GetsWhatItAsked'
      BY <1>4, <2>2 DEF Load, Goto, OneEntryPerSegment, GetsWhatItAsked
    <3> QED
      BY <3>1, <3>2, <3>3
  <2> QED
    BY <1>4, <2>1, <2>2 DEF Load
<1> QED
  BY <1>2, <1>3, <1>4

\* Every step keeps the invariant.
LEMMA ThreadsNext == Inv /\ [TNext]_vars => Inv'
<1> SUFFICES ASSUME Inv, [TNext]_vars PROVE Inv'
  OBVIOUS
<1>1. ASSUME NEW t \in Threads, Step(t) PROVE Inv'
  BY <1>1, OutsideStep, LookupStep, HolderStep DEF Step
<1>2. ASSUME NEW t \in Threads, Call(t) PROVE Inv'
  BY <1>2, OutsideStep, RemovalStep DEF Call
<1>3. ASSUME NEW s \in Segments, Shrink(s) PROVE Inv'
  <2>1. TypeOK'
    BY <1>3, ThreadsAssumption DEF Inv, TypeOK, Shrink, LiveSets
  <2> QED
    BY <1>3, <2>1
       DEF Inv, Shrink, Holding, OneEntryPerSegment, GetsWhatItAsked, Matching, OfSegment
<1>4. CASE UNCHANGED vars
  BY <1>4 DEF vars, Inv, TypeOK, Holding, OneEntryPerSegment, GetsWhatItAsked, Matching,
              OfSegment
<1> QED
  BY <1>1, <1>2, <1>3, <1>4 DEF TNext

\* The invariant holds in every reachable state.
THEOREM CacheInvariant == TSpec => []Inv
  BY ThreadsInit, ThreadsNext, PTL DEF TSpec

\* A shared cache holds at most one entry per segment, each the index of the
\* live set it is filed under (SidecarCache::insert), whatever the threads do.
THEOREM CacheHoldsOnePerSegment == TSpec => []OneEntryPerSegment
<1>1. Inv => OneEntryPerSegment
  BY DEF Inv
<1> QED
  BY <1>1, CacheInvariant, PTL

\* get_or_build never returns the index of another live set than asked for.
THEOREM CallersGetTheirKey == TSpec => []GetsWhatItAsked
<1>1. Inv => GetsWhatItAsked
  BY DEF Inv
<1> QED
  BY <1>1, CacheInvariant, PTL

\* Two threads never build at once, and none builds what is cached: the mutex
\* get_or_build holds from its lookup to its insert sees to it.
THEOREM BuildsAreSerial == TSpec => []BuildsOnce
<1>1. Inv => BuildsOnce
  <2> SUFFICES ASSUME Inv, NEW t \in Threads, pc[t] = "build"
               PROVE  /\ Matching(t) = {}
                      /\ \A u \in Threads \ {t} : pc[u] \notin {"load", "build"}
    BY DEF BuildsOnce
  <2> QED
    BY DEF Inv, Holding
<1> QED
  BY <1>1, CacheInvariant, PTL

=============================================================================
