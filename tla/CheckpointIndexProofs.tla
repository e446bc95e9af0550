------------------------ MODULE CheckpointIndexProofs ------------------------
(***************************************************************************)
(* Proofs about CheckpointIndex, for any number of processes and any caps. *)
(***************************************************************************)
EXTENDS CheckpointIndex, FiniteSetTheorems, TLAPS

(***************************************************************************)
(* Type correctness.  A process that is writing a checkpoint has one.      *)
(***************************************************************************)
Writing == {"blobs", "payload", "extend"}

Typed ==
  /\ TypeOK
  /\ \A w \in Processes : pc[w] \in Writing \cup {"retain"} => cur[w] \in Ids

LEMMA InitTypes == Init => Typed
<1> SUFFICES ASSUME Init PROVE Typed
  OBVIOUS
<1>1. now \in 0..Clock
  BY ClockAssumption DEF Init
<1>2. \A w \in Processes : pc[w] = "off"
  BY DEF Init
<1> QED
  BY <1>1, <1>2 DEF Init, Typed, TypeOK, Steps, Writing

LEMMA UnlinkTypes ==
  ASSUME Typed, NEW w \in Processes, NEW i \in mem[w], Unlink(w, i)
  PROVE  /\ payload' \subseteq Ids /\ gone' \subseteq Ids
         /\ mem' \in [Processes -> SUBSET Ids]
         /\ victim' \in [Processes -> Ids \cup {None}]
BY DEF Typed, TypeOK, Unlink

LEMMA StepTypes == Typed /\ [Next]_vars => Typed'
<1> SUFFICES ASSUME Typed, [Next]_vars PROVE Typed'
  OBVIOUS
<1> USE DEF Typed, TypeOK, Steps, Writing, Move
<1>1. ASSUME NEW w \in Processes, Load(w) \/ CreateFails(w) \/ Retained(w) PROVE Typed'
  BY <1>1 DEF Load, CreateFails, Retained
<1>2. ASSUME NEW w \in Processes, Stamp(w) PROVE Typed'
  <2>1. now + 1 \in Ids /\ now' \in 0..Clock
    BY <1>2, ClockAssumption DEF Stamp, Ids
  <2> QED
    BY <1>2, <2>1 DEF Stamp
<1>3. ASSUME NEW w \in Processes, CopyBlobs(w) \/ SavePayload(w) PROVE Typed'
  BY <1>3 DEF CopyBlobs, SavePayload
<1>4. ASSUME NEW w \in Processes, Evict(w) PROVE Typed'
  BY <1>4, UnlinkTypes DEF Evict
<1>5. ASSUME NEW w \in Processes, RemoveBlobs(w) PROVE Typed'
  BY <1>5 DEF RemoveBlobs
<1>6. ASSUME NEW w \in Processes, Merge(w) PROVE Typed'
  BY <1>6 DEF Merge
<1>7. ASSUME NEW w \in Processes, WriteIndex(w) \/ WriteFails(w) PROVE Typed'
  BY <1>7 DEF WriteIndex, WriteFails
<1>8. ASSUME NEW w \in Processes, NEW i \in Ids, Delete(w, i) PROVE Typed'
  BY <1>8, UnlinkTypes DEF Delete
<1>9. ASSUME NEW w \in Processes, Crash(w) PROVE Typed'
  BY <1>9 DEF Crash
<1>10. ASSUME NEW w \in Processes, ExtendWrites(w) \/ ExtendEnds(w) PROVE Typed'
  BY <1>10 DEF ExtendWrites, ExtendEnds
<1>11. ASSUME NEW w \in Processes, ExtendReads(w) PROVE Typed'
  BY <1>11 DEF ExtendReads
<1>12. CASE UNCHANGED vars
  BY <1>12 DEF vars
<1> QED
  BY <1>1, <1>2, <1>3, <1>4, <1>5, <1>6, <1>7, <1>8, <1>9, <1>10, <1>11, <1>12
     DEF Next, Step

\* Every variable keeps its type, (CheckpointStore).
THEOREM TypeCorrect == Spec => []TypeOK
<1>1. Typed => TypeOK
  BY DEF Typed
<1> QED
  BY <1>1, InitTypes, StepTypes, PTL DEF Spec

(***************************************************************************)
(* No lost update.                                                         *)
(***************************************************************************)
\* A checkpoint whose create() is under way is in its process's list, with
\* its files, unless it was deleted or evicted already.
UnderWay ==
  \A w \in Processes :
    /\ pc[w] = "payload" /\ cur[w] \notin gone => cur[w] \in blobs
    /\ pc[w] \in {"retain", "save", "merged"} /\ cur[w] # None /\ cur[w] \notin gone
         => cur[w] \in mem[w] \cap payload \cap blobs

\* Only checkpoints that were unlinked lose their blobs.
VictimsGone == \A w \in Processes : victim[w] # None => victim[w] \in gone

\* Between merge and write, under the flock, a process knows all that is kept.
MergedKnowsAll ==
  \A w \in Processes : pc[w] = "merged" => flock = w /\ done \ gone \subseteq mem[w]

KeptInv == KeptAreRestorable /\ UnderWay /\ VictimsGone /\ MergedKnowsAll

LEMMA InitKept == Init => KeptInv
BY DEF Init, KeptInv, KeptAreRestorable, UnderWay, VictimsGone, MergedKnowsAll

LEMMA UnlinkKeeps ==
  ASSUME Typed, KeptInv, NEW w \in Processes, NEW i \in mem[w], Unlink(w, i),
         UNCHANGED <<blobs, index, flock, cur, done>>,
         \/ pc' = pc
         \/ pc' = [pc EXCEPT ![w] = "save"] /\ cur[w] = None
  PROVE  KeptInv'
BY DEF Typed, TypeOK, Unlink, KeptInv, KeptAreRestorable, UnderWay, VictimsGone, MergedKnowsAll

\* A process between operations is creating nothing.
IdleCreatesNothing == \A w \in Processes : pc[w] \in {"off", "ready"} => cur[w] = None

LEMMA InitIdle == Init => IdleCreatesNothing
BY DEF Init, IdleCreatesNothing

LEMMA IdleStep == Typed /\ IdleCreatesNothing /\ [Next]_vars => IdleCreatesNothing'
BY DEF Typed, TypeOK, IdleCreatesNothing, Next, Step, vars, Move,
   Load, Stamp, CopyBlobs, SavePayload, CreateFails, Evict, RemoveBlobs, Retained, Merge,
   WriteIndex, WriteFails, Delete, Crash, ExtendReads, ExtendWrites, ExtendEnds

LEMMA KeptStep ==
  Typed /\ IdleCreatesNothing /\ KeptInv /\ [Next]_vars => KeptInv'
<1> SUFFICES ASSUME Typed, IdleCreatesNothing, KeptInv, [Next]_vars PROVE KeptInv'
  OBVIOUS
<1> USE DEF KeptInv, KeptAreRestorable, UnderWay, VictimsGone, MergedKnowsAll,
            Typed, TypeOK, Move
<1>1. ASSUME NEW w \in Processes, Load(w) \/ CreateFails(w) \/ Retained(w) PROVE KeptInv'
  BY <1>1 DEF Load, CreateFails, Retained
<1>2. ASSUME NEW w \in Processes, Stamp(w) \/ CopyBlobs(w) PROVE KeptInv'
  BY <1>2 DEF Stamp, CopyBlobs
<1>3. ASSUME NEW w \in Processes, SavePayload(w) PROVE KeptInv'
  BY <1>3 DEF SavePayload
<1>4. ASSUME NEW w \in Processes, Evict(w) PROVE KeptInv'
  BY <1>4, UnlinkKeeps DEF Evict
<1>5. ASSUME NEW w \in Processes, RemoveBlobs(w) PROVE KeptInv'
  BY <1>5 DEF RemoveBlobs, Settled
<1>6. ASSUME NEW w \in Processes, Merge(w) PROVE KeptInv'
  BY <1>6, NobodyAssumption DEF Merge
<1>7. ASSUME NEW w \in Processes, WriteIndex(w) PROVE KeptInv'
  BY <1>7 DEF WriteIndex
<1>8. ASSUME NEW w \in Processes, WriteFails(w) PROVE KeptInv'
  BY <1>8 DEF WriteFails
<1>9. ASSUME NEW w \in Processes, NEW i \in Ids, Delete(w, i) PROVE KeptInv'
  <2>1. cur[w] = None
    BY <1>9 DEF Delete, IdleCreatesNothing
  <2> QED
    BY <1>9, <2>1, UnlinkKeeps DEF Delete
<1>10. ASSUME NEW w \in Processes, Crash(w) PROVE KeptInv'
  BY <1>10 DEF Crash
<1>11. ASSUME NEW w \in Processes, ExtendWrites(w) \/ ExtendEnds(w) PROVE KeptInv'
  BY <1>11 DEF ExtendWrites, ExtendEnds
<1>12. ASSUME NEW w \in Processes, ExtendReads(w) PROVE KeptInv'
  BY <1>12 DEF ExtendReads
<1>13. CASE UNCHANGED vars
  BY <1>13 DEF vars
<1> QED
  BY <1>1, <1>2, <1>3, <1>4, <1>5, <1>6, <1>7, <1>8, <1>9, <1>10, <1>11, <1>12, <1>13
     DEF Next, Step

\* Whatever processes create, extend, delete, evict, fail and are killed, a
\* checkpoint that was created and not removed is listed and complete
\* (CheckpointStore._save_checkpoints).
THEOREM NoLostCheckpoint == Spec => []KeptAreRestorable
<1>1. KeptInv => KeptAreRestorable
  BY DEF KeptInv
<1> QED
  BY <1>1, InitTypes, StepTypes, InitIdle, IdleStep, InitKept, KeptStep, PTL
     DEF Spec

(***************************************************************************)
(* Contents before payloads.  A checkpoint being written is new to         *)
(* everybody, so nobody is about to remove its blobs.                      *)
(***************************************************************************)
Seen(i) ==
  \/ i \in payload \/ i \in index
  \/ \E u \in Processes : i \in mem[u] \/ (victim[u] = i /\ i # None)

Fresh ==
  /\ \A i \in Ids : Seen(i) => i <= now
  /\ \A w \in Processes : cur[w] <= now
  /\ \A w \in Processes : pc[w] \in {"blobs", "payload"} =>
       ~Seen(cur[w]) /\ \A u \in Processes \ {w} : cur[u] # cur[w]

ContentsInv ==
  /\ PayloadHasContents
  /\ \A w \in Processes : pc[w] = "payload" => cur[w] \in blobs
  /\ \A w \in Processes : victim[w] \notin payload \ revived

LEMMA InitContents == Init => Fresh /\ ContentsInv
BY DEF Init, Fresh, Seen, ContentsInv, PayloadHasContents, None

\* No step but SavePayload and ExtendWrites makes a checkpoint seen.
LEMMA NothingSeen ==
  ASSUME Typed, NEW w \in Processes, Step(w), ~SavePayload(w), ~ExtendWrites(w),
         NEW i \in Ids, ~Seen(i)
  PROVE  ~Seen(i)'
<1> USE DEF Typed, TypeOK, Seen
<1>1. CASE Load(w)
  BY <1>1 DEF Load
<1>2. CASE Stamp(w) \/ CopyBlobs(w) \/ CreateFails(w) \/ Retained(w)
  BY <1>2 DEF Stamp, CopyBlobs, CreateFails, Retained
<1>3. CASE Evict(w)
  BY <1>3 DEF Evict, Unlink
<1>4. CASE RemoveBlobs(w)
  BY <1>4 DEF RemoveBlobs
<1>5. CASE Merge(w)
  BY <1>5 DEF Merge
<1>6. CASE WriteIndex(w) \/ WriteFails(w)
  BY <1>6 DEF WriteIndex, WriteFails
<1>7. ASSUME NEW j \in Ids, Delete(w, j) PROVE ~Seen(i)'
  BY <1>7 DEF Delete, Unlink
<1>8. CASE Crash(w)
  BY <1>8 DEF Crash, None
<1>9. CASE ExtendReads(w) \/ ExtendEnds(w)
  BY <1>9 DEF ExtendReads, ExtendEnds
<1> QED
  BY <1>1, <1>2, <1>3, <1>4, <1>5, <1>6, <1>7, <1>8, <1>9 DEF Step

LEMMA FreshStep == Typed /\ Fresh /\ [Next]_vars => Fresh'
<1> SUFFICES ASSUME Typed, Fresh, [Next]_vars PROVE Fresh'
  OBVIOUS
<1>1. CASE UNCHANGED vars
  BY <1>1 DEF vars, Fresh, Seen
<1>2. ASSUME NEW w \in Processes, Step(w), ~SavePayload(w), ~Stamp(w),
             ~ExtendReads(w), ~ExtendWrites(w)
      PROVE  Fresh'
  <2>1. \A i \in Ids : Seen(i)' => Seen(i)
    BY <1>2, NothingSeen
  <2>2. /\ now' = now
        /\ \A u \in Processes : cur'[u] = cur[u] \/ cur'[u] = None
        /\ \A u \in Processes : pc'[u] \in {"blobs", "payload"} =>
             pc[u] \in {"blobs", "payload"} /\ cur'[u] = cur[u]
    BY <1>2 DEF Step, Typed, TypeOK, Move, Load, CopyBlobs, CreateFails, Evict, RemoveBlobs,
       Retained, Merge, WriteIndex, WriteFails, Delete, Crash, ExtendEnds
  <2>3. \A u \in Processes : pc[u] \in {"blobs", "payload"} => cur[u] \in Ids
    BY DEF Typed, Writing
  <2>4. now \in Nat
    BY ClockAssumption DEF Typed, TypeOK
  <2>5. \A u \in Processes : cur'[u] <= now'
    BY <2>2, <2>4 DEF Fresh, None
  <2>6. ASSUME NEW u \in Processes, pc'[u] \in {"blobs", "payload"}
        PROVE  ~Seen(cur[u])' /\ cur'[u] = cur[u]
               /\ \A v \in Processes \ {u} : cur'[v] # cur'[u]
    BY <2>1, <2>2, <2>3, <2>6 DEF Fresh, Ids, None
  <2> QED
    BY <2>1, <2>2, <2>5, <2>6 DEF Fresh, Seen
<1>3. ASSUME NEW w \in Processes, SavePayload(w) PROVE Fresh'
  <2>1. \A i \in Ids : Seen(i)' => Seen(i) \/ i = cur[w]
    BY <1>3 DEF SavePayload, Seen, Typed, TypeOK
  <2>2. /\ pc'[w] = "retain" /\ UNCHANGED <<now, cur>>
        /\ \A u \in Processes \ {w} : pc'[u] = pc[u]
    BY <1>3 DEF SavePayload, Move, Typed, TypeOK
  <2>3. \A u \in Processes : pc[u] \in {"blobs", "payload"} => cur[u] \in Ids
    BY DEF Typed, Writing
  <2>4. ASSUME NEW u \in Processes, pc'[u] \in {"blobs", "payload"}
        PROVE  ~Seen(cur[u])'
    BY <2>1, <2>2, <2>3, <2>4 DEF Fresh
  <2> QED
    BY <2>1, <2>2, <2>4 DEF Fresh, Seen
<1>4. ASSUME NEW w \in Processes, Stamp(w) PROVE Fresh'
  <2>1. \A i : Seen(i)' <=> Seen(i)
    BY <1>4 DEF Stamp, Seen
  <2>2. /\ now \in Nat /\ now' = now + 1 /\ cur' = [cur EXCEPT ![w] = now + 1]
        /\ pc' = [pc EXCEPT ![w] = "blobs"] /\ now + 1 \in Ids
    BY <1>4, ClockAssumption DEF Stamp, Move, Typed, TypeOK, Ids
  <2>3. ~Seen(now + 1)
    BY <2>2 DEF Fresh
  <2>4. \A u \in Processes : cur[u] \in Nat /\ cur[u] <= now
    BY ClockAssumption DEF Fresh, Typed, TypeOK, Ids, None
  <2>5. \A i \in Ids : Seen(i)' => i <= now'
    BY <2>1, <2>2, ClockAssumption DEF Fresh, Ids
  <2>6. \A u \in Processes : cur'[u] <= now'
    BY <2>2, <2>4 DEF Typed, TypeOK
  <2>7. ASSUME NEW u \in Processes, pc'[u] \in {"blobs", "payload"}
        PROVE  ~Seen(cur'[u]) /\ \A v \in Processes \ {u} : cur'[v] # cur'[u]
    <3>1. CASE u = w
      BY <2>2, <2>3, <2>4, <3>1 DEF Typed, TypeOK
    <3>2. CASE u # w
      BY <2>2, <2>4, <2>7, <3>2 DEF Fresh, Typed, TypeOK
    <3> QED
      BY <3>1, <3>2
  <2>8. \A u \in Processes : Seen(cur[u])' <=> Seen(cur'[u])
    BY <1>4 DEF Stamp, Seen
  <2> QED
    BY <2>5, <2>6, <2>7, <2>8 DEF Fresh
<1>5. ASSUME NEW w \in Processes, ExtendReads(w) PROVE Fresh'
  <2>1. /\ own[w] \in Ids /\ Seen(own[w]) /\ pc' = [pc EXCEPT ![w] = "extend"]
        /\ cur' = [cur EXCEPT ![w] = own[w]] /\ UNCHANGED now
    BY <1>5 DEF ExtendReads, Move, Seen, Typed, TypeOK
  <2>2. \A i : Seen(i)' <=> Seen(i)
    BY <1>5 DEF ExtendReads, Seen
  <2>3. \A u \in Processes : cur'[u] <= now
    BY <2>1 DEF Fresh, Typed, TypeOK
  <2>4. ASSUME NEW u \in Processes, pc'[u] \in {"blobs", "payload"}
        PROVE  ~Seen(cur'[u]) /\ \A v \in Processes \ {u} : cur'[v] # cur'[u]
    BY <2>1, <2>4 DEF Fresh, Typed, TypeOK
  <2>5. \A u \in Processes : Seen(cur[u])' <=> Seen(cur'[u])
    BY <1>5 DEF ExtendReads, Seen
  <2> QED
    BY <2>1, <2>2, <2>3, <2>4, <2>5 DEF Fresh
<1>6. ASSUME NEW w \in Processes, ExtendWrites(w) PROVE Fresh'
  <2>1. \A i \in Ids : Seen(i)' => Seen(i) \/ i = cur[w]
    BY <1>6 DEF ExtendWrites, Seen, Typed, TypeOK
  <2>2. /\ pc[w] = "extend" /\ pc' = [pc EXCEPT ![w] = "save"]
        /\ cur' = [cur EXCEPT ![w] = None] /\ UNCHANGED now
    BY <1>6 DEF ExtendWrites, Move
  <2>3. \A u \in Processes : pc[u] \in {"blobs", "payload"} => cur[u] \in Ids
    BY DEF Typed, Writing
  <2>4. now \in Nat
    BY ClockAssumption DEF Typed, TypeOK
  <2>5. \A u \in Processes : cur'[u] <= now'
    BY <2>2, <2>4 DEF Fresh, Typed, TypeOK, None
  <2>6. ASSUME NEW u \in Processes, pc'[u] \in {"blobs", "payload"}
        PROVE  u # w /\ pc[u] \in {"blobs", "payload"} /\ cur'[u] = cur[u]
    BY <2>2, <2>6 DEF Typed, TypeOK
  <2>7. ASSUME NEW u \in Processes, pc'[u] \in {"blobs", "payload"}
        PROVE  ~Seen(cur[u])' /\ \A v \in Processes \ {u} : cur'[v] # cur'[u]
    BY <2>1, <2>2, <2>3, <2>6, <2>7 DEF Fresh, Typed, TypeOK, Ids, None
  <2>8. \A i \in Ids : Seen(i)' => i <= now'
    BY <2>1, <2>2 DEF Fresh
  <2> QED
    BY <2>5, <2>6, <2>7, <2>8 DEF Fresh, Seen
<1> QED
  BY <1>1, <1>2, <1>3, <1>4, <1>5, <1>6 DEF Next

LEMMA ContentsStep == Typed /\ Fresh /\ ContentsInv /\ [Next]_vars => ContentsInv'
<1> SUFFICES ASSUME Typed, Fresh, ContentsInv, [Next]_vars PROVE ContentsInv'
  OBVIOUS
<1> USE DEF ContentsInv, PayloadHasContents, Typed, TypeOK, Move
<1>1. ASSUME UNCHANGED <<payload, blobs, revived>>,
             \A u \in Processes : victim'[u] = victim[u] \/ victim'[u] = None,
             \A u \in Processes : pc'[u] = "payload" => pc[u] = "payload" /\ cur'[u] = cur[u]
      PROVE  ContentsInv'
  BY <1>1 DEF Ids, None
<1>2. ASSUME NEW w \in Processes,
             Load(w) \/ Stamp(w) \/ CreateFails(w) \/ Retained(w) \/ Merge(w)
               \/ WriteIndex(w) \/ WriteFails(w) \/ Crash(w)
               \/ ExtendReads(w) \/ ExtendEnds(w)
      PROVE  ContentsInv'
  BY <1>1, <1>2 DEF Load, Stamp, CreateFails, Retained, Merge, WriteIndex,
     WriteFails, Crash, ExtendReads, ExtendEnds
<1>3. ASSUME NEW w \in Processes, CopyBlobs(w) PROVE ContentsInv'
  BY <1>3 DEF CopyBlobs
<1>4. ASSUME NEW w \in Processes, SavePayload(w) PROVE ContentsInv'
  <2>1. \A u \in Processes : victim[u] # cur[w]
    BY <1>4, ClockAssumption DEF SavePayload, Fresh, Seen, Writing, Ids, None
  <2> QED
    BY <1>4, <2>1 DEF SavePayload
<1>5. ASSUME NEW w \in Processes, Evict(w) PROVE ContentsInv'
  BY <1>5 DEF Evict, Unlink
<1>6. ASSUME NEW w \in Processes, RemoveBlobs(w) PROVE ContentsInv'
  <2>1. \A u \in Processes : pc[u] = "payload" => cur[u] # victim[w]
    BY <1>6, ClockAssumption DEF RemoveBlobs, Settled, Fresh, Seen
  <2> QED
    BY <1>6, <2>1 DEF RemoveBlobs, Ids, None
<1>7. ASSUME NEW w \in Processes, NEW i \in Ids, Delete(w, i) PROVE ContentsInv'
  BY <1>7 DEF Delete, Unlink
<1>8. ASSUME NEW w \in Processes, ExtendWrites(w) PROVE ContentsInv'
  BY <1>8 DEF ExtendWrites
<1>9. CASE UNCHANGED vars
  BY <1>9 DEF vars
<1> QED
  BY <1>2, <1>3, <1>4, <1>5, <1>6, <1>7, <1>8, <1>9 DEF Next, Step

\* Whenever a process is killed, every payload on disk has its contents
\* (create(), delete() and _evict_oldest order their writes and unlinks so),
\* but for those extend() brought back after their checkpoint was removed.
THEOREM ContentsOutlivePayloads == Spec => []PayloadHasContents
<1>1. ContentsInv => PayloadHasContents
  BY DEF ContentsInv
<1> QED
  BY <1>1, InitTypes, StepTypes, InitContents, FreshStep, ContentsStep, PTL DEF Spec

\* The index on disk stays within the count cap (_enforce_retention).
THEOREM Bounded == Spec => []RetentionBounds
<1>1. Init => RetentionBounds
  BY FS_EmptySet, CapsAssumption DEF Init, RetentionBounds
<1>2. Typed /\ RetentionBounds /\ [Next]_vars => RetentionBounds'
  <2> SUFFICES ASSUME Typed, RetentionBounds, [Next]_vars PROVE RetentionBounds'
    OBVIOUS
  <2>1. CASE index' = index
    BY <2>1 DEF RetentionBounds
  <2>2. ASSUME NEW w \in Processes, WriteIndex(w) PROVE RetentionBounds'
    <3>1. IsFiniteSet(Ids)
      BY ClockAssumption, FS_Interval DEF Ids
    <3>2. Cardinality(mem[w]) \in Nat
      BY <3>1, FS_Subset, FS_CardinalityType DEF Typed, TypeOK
    <3> QED
      BY <2>2, <3>2, CapsAssumption DEF WriteIndex, Over, RetentionBounds
  <2>3. index' = index \/ \E w \in Processes : WriteIndex(w)
    BY DEF Next, Step, vars, Load, Stamp, CopyBlobs, SavePayload, CreateFails, Evict,
       RemoveBlobs, Retained, Merge, WriteFails, Delete, Crash, ExtendReads, ExtendWrites,
       ExtendEnds
  <2> QED
    BY <2>1, <2>2, <2>3
<1> QED
  BY <1>1, <1>2, InitTypes, StepTypes, PTL DEF Spec
==============================================================================
