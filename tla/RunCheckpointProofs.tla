------------------------- MODULE RunCheckpointProofs -------------------------
(***************************************************************************)
(* Proofs about RunCheckpoint, for any number of agents, files and         *)
(* contents.                                                               *)
(***************************************************************************)
EXTENDS RunCheckpoint, TLAPS

(***************************************************************************)
(* Type correctness, under every schedule and every fault.                 *)
(***************************************************************************)
LEMMA InitTypes == Init => TypeOK
BY NoHashAssumption, NoAgentAssumption
   DEF Init, TypeOK, Versions, Steps, NoSnapshot

\* What a capture leaves behind is well typed when it captures files.
LEMMA CaptureTypes ==
  ASSUME TypeOK,
         NEW S \in SUBSET Paths, \A p \in S : Exists(p),
         NEW A \in SUBSET Paths, NEW bad, NEW saved \in BOOLEAN,
         Capture(S, A, bad, saved)
  PROVE  /\ cp' \in {"none", "open", "lost"}
         /\ hashes' \in [Paths -> Contents \cup {NoHash}]
         /\ tombs' \subseteq Paths \X Spellings
BY DEF TypeOK, Capture, Exists, Versions, Tombstones, Spellings

\* And so is a tree that was written to.
LEMMA WriteTypes ==
  ASSUME TypeOK, NEW S \in SUBSET Paths, NEW new, \A p \in S : new[p] \in Versions,
         NEW who \in {"run", "outside"}, Write(S, new, who)
  PROVE  /\ tree' \in [Paths -> Versions]
         /\ maker' \in [Paths -> {"nobody", "start", "run", "outside"}]
BY DEF TypeOK, Write

LEMMA BeforeWriteTypes ==
  ASSUME TypeOK, NEW a \in Agents, NEW bad, NEW saved \in BOOLEAN,
         BeforeWrite(a, bad, saved)
  PROVE  TypeOK'
<1> DEFINE existing == {p \in targets[a] : Exists(p)}
<1>1. targets[a] \subseteq Paths
  BY DEF TypeOK
<1>2. snap' \in [Agents -> [Paths -> Versions]]
  BY DEF TypeOK, BeforeWrite, Versions
<1>3. pending' \subseteq Paths
  BY <1>1 DEF TypeOK, BeforeWrite
<1>4. /\ cp' \in {"none", "open", "lost"}
      /\ hashes' \in [Paths -> Contents \cup {NoHash}]
      /\ tombs' \subseteq Paths \X Spellings
  <2>1. CASE UNCHANGED <<cp, hashes, tombs>>
    BY <2>1 DEF TypeOK
  <2>2. CASE Capture({p \in Paths : Exists(p)}, {}, bad, saved)
    BY <2>2, CaptureTypes
  <2>3. CASE Capture(existing, {}, bad, saved)
    BY <1>1, <2>3, CaptureTypes
  <2> QED
    BY <2>1, <2>2, <2>3 DEF BeforeWrite
<1> QED
  BY <1>2, <1>3, <1>4 DEF TypeOK, BeforeWrite, Move, Steps, undoVars

LEMMA ConfirmTypes ==
  ASSUME TypeOK, NEW a \in Agents, NEW saved \in BOOLEAN, Confirm(a, saved)
  PROVE  TypeOK'
<1> DEFINE created == {p \in pending \cap targets[a] : Exists(p)}
<1>1. created \in SUBSET Paths
  BY DEF TypeOK
<1>2. /\ pending' \subseteq Paths
      /\ cp' \in {"none", "open", "lost"}
      /\ hashes' \in [Paths -> Contents \cup {NoHash}]
      /\ tombs' \subseteq Paths \X Spellings
  <2>1. CASE UNCHANGED gateVars
    BY <2>1 DEF TypeOK, gateVars
  <2>2. CASE Capture({}, created, {}, saved) /\ pending' = pending \ created
    <3>1. Capture({}, created, {}, saved)
      BY <2>2
    <3>2. /\ cp' \in {"none", "open", "lost"}
          /\ hashes' \in [Paths -> Contents \cup {NoHash}]
          /\ tombs' \subseteq Paths \X Spellings
      <4> HIDE DEF created
      <4> QED
        BY <1>1, <3>1, CaptureTypes
    <3> QED
      BY <2>2, <3>2 DEF TypeOK
  <2> QED
    BY <2>1, <2>2 DEF Confirm
<1> QED
  BY <1>2 DEF TypeOK, Confirm, Move, Steps, undoVars

LEMMA DispatchTypes ==
  ASSUME TypeOK, NEW a \in Agents, Dispatch(a)
  PROVE  TypeOK'
<1>1. targets[a] \in SUBSET Paths /\ snap[a] \in [Paths -> Versions]
  BY DEF TypeOK
<1>2. CASE Begin(a)
  BY <1>2 DEF TypeOK, Begin, Move, Steps, Locks!Acquire, gateVars, undoVars
<1>3. CASE BeforeWrite(a, {}, TRUE)
  BY <1>3, BeforeWriteTypes
<1>4. CASE HandlerRefuses(a)
  BY <1>4 DEF TypeOK, HandlerRefuses, Move, Steps, gateVars, undoVars
<1>5. ASSUME NEW new \in [Paths -> Versions], HandlerWrites(a, new)
      PROVE  TypeOK'
  <2>1. Write(targets[a], new, "run")
    BY <1>5 DEF HandlerWrites
  <2> QED
    BY <1>1, <1>5, <2>1, WriteTypes
       DEF TypeOK, HandlerWrites, Move, Steps, gateVars, undoVars
<1>6. ASSUME NEW new \in [Paths -> Versions], HandlerFails(a, new)
      PROVE  TypeOK'
  <2>1. Write(targets[a], new, "run")
    BY <1>6 DEF HandlerFails
  <2> QED
    BY <1>1, <1>6, <2>1, WriteTypes
       DEF TypeOK, HandlerFails, Move, Steps, gateVars, undoVars
<1>7. CASE VerifyKeeps(a)
  BY <1>7 DEF TypeOK, VerifyKeeps, Move, Steps, gateVars, undoVars
<1>8. CASE VerifyRollsBack(a)
  <2>1. Write(targets[a], snap[a], "run")
    BY <1>8 DEF VerifyRollsBack
  <2> QED
    BY <1>1, <1>8, <2>1, WriteTypes
       DEF TypeOK, VerifyRollsBack, Move, Steps, gateVars, undoVars
<1>9. CASE Confirm(a, TRUE)
  BY <1>9, ConfirmTypes
<1>10. CASE Release(a)
  BY <1>10 DEF TypeOK, Release, Move, Steps, NoSnapshot, Versions,
     Locks!Release, gateVars, undoVars
<1> QED
  BY <1>2, <1>3, <1>4, <1>5, <1>6, <1>7, <1>8, <1>9, <1>10 DEF Dispatch

LEMMA RestoringTypes == ASSUME TypeOK, Restoring PROVE TypeOK'
<1>1. CASE Undo
  <2>1. Made \subseteq Records
    BY DEF Made, Records, TypeOK
  <2> QED
    BY <1>1, <2>1 DEF TypeOK, Undo, gateVars, agentVars
<1>2. ASSUME NEW p \in Paths, RestoreContent(p) PROVE TypeOK'
  <2>1. Write({p}, hashes, "run") /\ hashes[p] \in Versions
    BY <1>2 DEF RestoreContent, TypeOK, Versions
  <2> QED
    BY <1>2, <2>1, WriteTypes DEF TypeOK, RestoreContent, gateVars, agentVars
<1>3. ASSUME NEW p \in Paths, RestoreAbsence(p) PROVE TypeOK'
  <2>1. Write({p}, [q \in Paths |-> Absent], "run")
    BY <1>3 DEF RestoreAbsence
  <2>2. Absent \in Versions
    BY DEF Versions
  <2> QED
    BY <1>3, <2>1, <2>2, WriteTypes DEF TypeOK, RestoreAbsence, gateVars, agentVars
<1>4. ASSUME NEW r \in Records, RestoreFails(r) PROVE TypeOK'
  BY <1>4 DEF TypeOK, RestoreFails, gateVars, agentVars
<1>5. CASE Restored
  BY <1>5 DEF TypeOK, Restored, gateVars, agentVars
<1> QED
  BY <1>1, <1>2, <1>3, <1>4, <1>5 DEF Restoring

LEMMA OutsideTypes ==
  ASSUME TypeOK, NEW p \in Paths, NEW v \in Versions, Outside(p, v)
  PROVE  TypeOK'
<1>1. Write({p}, [q \in Paths |-> v], "outside")
  BY DEF Outside
<1> QED
  BY <1>1, WriteTypes DEF TypeOK, Outside, gateVars, agentVars, undoVars

LEMMA SharedStepTypes == TypeOK /\ [NextShared]_vars => TypeOK'
<1> SUFFICES ASSUME TypeOK, [NextShared]_vars PROVE TypeOK'
  OBVIOUS
<1>1. CASE UNCHANGED vars
  BY <1>1 DEF TypeOK, vars, gateVars, agentVars, undoVars
<1>2. CASE EvictedElsewhere
  BY <1>2 DEF TypeOK, EvictedElsewhere, agentVars, undoVars
<1> QED
  BY <1>1, <1>2, DispatchTypes, RestoringTypes, OutsideTypes DEF NextShared, Next

LEMMA StepTypes == TypeOK /\ [NextFaulty]_vars => TypeOK'
BY SharedStepTypes, BeforeWriteTypes, ConfirmTypes DEF NextFaulty

\* Every variable keeps its type, whatever the agents, the user and the disk
\* do (RunCheckpointGate, CheckpointStore, ToolRegistry._dispatch_impl).
THEOREM TypeCorrect == SpecFaulty => []TypeOK
BY InitTypes, StepTypes, PTL DEF SpecFaulty

(***************************************************************************)
(* The invariant behind the rest, in parts.                                *)
(***************************************************************************)
\* An agent in a dispatch owns every file it targets.
LocksHeld ==
  \A a \in Agents :
    /\ pc[a] = "idle" => targets[a] = {}
    /\ \A p \in targets[a] : owner[p] = a

\* Between the gate and confirmation, a target extend() would record is one the
\* gate saw missing, and only this dispatch can have made it appear.
NewFilesTraced ==
  mode = "scoped" /\ cp # "lost" =>
    \A a \in Agents : \A p \in targets[a] : ~Known(p) =>
      /\ pc[a] = "handle" => tree[p] = Absent
      /\ pc[a] \in {"verify", "confirm"} /\ Exists(p) => maker[p] = "run"

\* While a success of Undo is still possible.
Sound == IF phase = "run" THEN cp # "lost" ELSE good

\* What a path is recorded as is what the run found there; the content of a
\* tombstoned one does not matter.
RecordsAreStart ==
  \A p \in Paths \ leaked : Recorded(p) => Record(p) = start[p]

\* In scoped mode a file without a record is as the run found it, or is being
\* created by a dispatch that has still to confirm it; a write that is rolled
\* back puts back the absence it started from.
InFlight(a, p) ==
  /\ p \in pending
  /\ start[p] = Absent
  /\ pc[a] \in {"handle", "verify"} => snap[a][p] = Absent
  /\ pc[a] = "handle" => tree[p] = Absent

UnrecordedUntouched ==
  mode = "scoped" /\ Sound =>
    \A p \in Paths \ leaked : ~Recorded(p) =>
      /\ \A a \in Agents :
           p \in targets[a] /\ pc[a] \in {"handle", "verify", "confirm"} => InFlight(a, p)
      /\ (\A a \in Agents : p \in targets[a] => pc[a] \notin {"verify", "confirm"})
           => tree[p] = start[p]

\* In full mode everything is captured before the first write.
FullSnapshotFirst ==
  mode = "full" =>
    /\ tombs = {} /\ pending = {}
    /\ cp = "none" => /\ tree = start
                      /\ \A p \in Paths : hashes[p] = NoHash
                      /\ \A a \in Agents : pc[a] \in {"idle", "gate"}
    /\ cp # "none" => \A p \in Paths : start[p] # Absent => hashes[p] = start[p]

\* Undo runs alone, on a checkpoint that was made.
UndoAlone ==
  /\ phase = "run" => good
  /\ phase # "run" => cp # "none" /\ \A a \in Agents : pc[a] = "idle"

\* What it has visited without an error is restored, contents first.
RestoreProgress ==
  /\ phase = "run" => left = {}
  /\ (\E r \in left : r \notin tombs) => tombs \subseteq left
  /\ phase # "run" /\ good =>
       \A p \in Paths : Recorded(p) =>
         tree[p] = Record(p) \/ \E r \in left : r[1] = p
  /\ phase = "undone" /\ good => left = {}

IInv ==
  /\ LocksHeld
  /\ UndoAlone
  /\ RecordsAreStart
  /\ UnrecordedUntouched
  /\ FullSnapshotFirst
  /\ RestoreProgress

(***************************************************************************)
(* What the store does in one step, and the first record decides.          *)
(***************************************************************************)
LEMMA StoreStep ==
  ASSUME TypeOK, [NextFaulty]_vars
  PROVE  \/ UNCHANGED <<hashes, tombs>>
         \/ \E S, A : \E bad, saved : Capture(S, A, bad, saved)
<1>1. ASSUME NEW a \in Agents, NEW bad, NEW saved, BeforeWrite(a, bad, saved)
      PROVE  \/ UNCHANGED <<hashes, tombs>>
             \/ \E S, A : \E b, s : Capture(S, A, b, s)
  BY <1>1 DEF BeforeWrite
<1>2. ASSUME NEW a \in Agents, NEW saved, Confirm(a, saved)
      PROVE  \/ UNCHANGED <<hashes, tombs>>
             \/ \E S, A : \E b, s : Capture(S, A, b, s)
  BY <1>2 DEF Confirm, gateVars
<1>3. ASSUME NEW a \in Agents, Dispatch(a)
      PROVE  \/ UNCHANGED <<hashes, tombs>>
             \/ \E S, A : \E b, s : Capture(S, A, b, s)
  <2>1. CASE BeforeWrite(a, {}, TRUE) \/ Confirm(a, TRUE)
    BY <1>1, <1>2, <2>1
  <2>2. CASE ~(BeforeWrite(a, {}, TRUE) \/ Confirm(a, TRUE))
    BY <1>3, <2>2 DEF Dispatch, Begin, HandlerRefuses, HandlerWrites, HandlerFails,
       VerifyKeeps, VerifyRollsBack, Release, gateVars
  <2> QED
    BY <2>1, <2>2
<1>4. CASE Restoring \/ EvictedElsewhere \/ UNCHANGED vars
  BY <1>4 DEF Restoring, Undo, RestoreContent, RestoreAbsence, RestoreFails, Restored,
     EvictedElsewhere, vars, gateVars
<1>5. ASSUME NEW p \in Paths, NEW v \in Versions, Outside(p, v)
      PROVE  UNCHANGED <<hashes, tombs>>
  BY <1>5 DEF Outside, gateVars
<1> QED
  BY <1>1, <1>2, <1>3, <1>4, <1>5 DEF NextFaulty, NextShared, Next

LEMMA RecordsStay ==
  ASSUME TypeOK, [NextFaulty]_vars, NEW p \in Paths, Recorded(p)
  PROVE  Recorded(p)' /\ Record(p)' = Record(p)
<1>1. CASE UNCHANGED <<hashes, tombs>>
  BY <1>1 DEF Recorded, Record, Tombstoned
<1>2. ASSUME NEW S, NEW A, NEW bad, NEW saved, Capture(S, A, bad, saved)
      PROVE  Recorded(p)' /\ Record(p)' = Record(p)
  <2>1. Tombstoned(p) => Tombstoned(p)'
    BY <1>2 DEF Capture, Tombstoned
  <2>2. CASE Tombstoned(p)
    BY <2>1, <2>2 DEF Recorded, Record
  <2>3. CASE ~Tombstoned(p)
    <3>1. Known(p) /\ hashes[p] # NoHash
      BY <2>3 DEF Recorded, Known
    <3>2. hashes'[p] = hashes[p]
      BY <1>2, <3>1 DEF Capture, TypeOK
    <3>3. ~Tombstoned(p)'
      BY <1>2, <2>3, <3>1 DEF Capture, Tombstones, Tombstoned
    <3> QED
      BY <2>3, <3>1, <3>2, <3>3 DEF Recorded, Record
  <2> QED
    BY <2>2, <2>3
<1> QED
  BY <1>1, <1>2, StoreStep

\* The first record of a path decides what Undo does to it, also when blobs
\* or payloads cannot be written and the user edits files meanwhile
\* (CheckpointStore.create and extend, and the order of restore).
THEOREM FirstRecord == SpecFaulty => FirstRecordDecides
<1>1. TypeOK /\ [NextFaulty]_vars =>
        [\A p \in Paths : Recorded(p) => Recorded(p)' /\ Record(p)' = Record(p)]_vars
  BY RecordsStay
<1> QED
  BY <1>1, TypeCorrect, PTL DEF SpecFaulty, FirstRecordDecides

(***************************************************************************)
(* Locks: every dispatch step but the first and the last leaves them alone.*)
(***************************************************************************)
LEMMA InitLocks == Init => LocksHeld
BY DEF Init, LocksHeld

Inside(a) ==
  \/ HandlerRefuses(a)
  \/ \E new \in [Paths -> Versions] : HandlerWrites(a, new) \/ HandlerFails(a, new)
  \/ VerifyKeeps(a)
  \/ VerifyRollsBack(a)
  \/ \E bad, saved : BeforeWrite(a, bad, saved) \/ Confirm(a, saved)

LEMMA InsideKeepsLocks ==
  ASSUME TypeOK, NEW a \in Agents, Inside(a)
  PROVE  /\ UNCHANGED <<owner, targets>>
         /\ pc[a] # "idle" /\ pc'[a] # "idle"
         /\ \A b \in Agents \ {a} : pc'[b] = pc[b]
BY DEF TypeOK, Inside, HandlerRefuses, HandlerWrites, HandlerFails, VerifyKeeps,
   VerifyRollsBack, BeforeWrite, Confirm, Move

LEMMA LocksStep == TypeOK /\ LocksHeld /\ [NextFaulty]_vars => LocksHeld'
<1> SUFFICES ASSUME TypeOK, LocksHeld, [NextFaulty]_vars PROVE LocksHeld'
  OBVIOUS
<1>1. ASSUME NEW a \in Agents, Inside(a) PROVE LocksHeld'
  BY <1>1, InsideKeepsLocks DEF LocksHeld
<1>2. ASSUME NEW a \in Agents, Begin(a) PROVE LocksHeld'
  BY <1>2, NoAgentAssumption DEF TypeOK, LocksHeld, Begin, Move, Locks!Acquire
<1>3. ASSUME NEW a \in Agents, Release(a) PROVE LocksHeld'
  BY <1>3 DEF TypeOK, LocksHeld, Release, Move, Locks!Release
<1>4. CASE Restoring \/ EvictedElsewhere \/ UNCHANGED vars
  BY <1>4 DEF LocksHeld, Restoring, Undo, RestoreContent, RestoreAbsence, RestoreFails,
     Restored, EvictedElsewhere, vars, agentVars
<1>5. ASSUME NEW p \in Paths, NEW v \in Versions, Outside(p, v) PROVE LocksHeld'
  BY <1>5 DEF LocksHeld, Outside, agentVars
<1> QED
  BY <1>1, <1>2, <1>3, <1>4, <1>5 DEF NextFaulty, NextShared, Next, Dispatch, Inside

\* Locks exclude: a file has one dispatch at most.
LEMMA OneDispatch ==
  ASSUME LocksHeld, NEW a \in Agents, NEW b \in Agents,
         NEW p \in targets[a], p \in targets[b]
  PROVE  a = b
BY DEF LocksHeld

LEMMA InitAlone == Init => UndoAlone
BY DEF Init, UndoAlone

LEMMA AloneStep == TypeOK /\ UndoAlone /\ [NextFaulty]_vars => UndoAlone'
<1> SUFFICES ASSUME TypeOK, UndoAlone, [NextFaulty]_vars PROVE UndoAlone'
  OBVIOUS
<1>1. ASSUME NEW a \in Agents, Inside(a) PROVE UndoAlone'
  <2>1. UNCHANGED <<phase, good>> /\ phase = "run"
    BY <1>1, InsideKeepsLocks DEF UndoAlone, Inside, HandlerRefuses, HandlerWrites,
       HandlerFails, VerifyKeeps, VerifyRollsBack, BeforeWrite, Confirm, undoVars
  <2> QED
    BY <2>1 DEF UndoAlone
<1>2. ASSUME NEW a \in Agents, Begin(a) \/ Release(a) PROVE UndoAlone'
  BY <1>2 DEF TypeOK, UndoAlone, Begin, Release, Move, undoVars
<1>3. CASE Restoring \/ EvictedElsewhere \/ UNCHANGED vars
  BY <1>3 DEF TypeOK, UndoAlone, Restoring, Undo, RestoreContent, RestoreAbsence,
     RestoreFails, Restored, EvictedElsewhere, vars, agentVars, gateVars, undoVars
<1>4. ASSUME NEW p \in Paths, NEW v \in Versions, Outside(p, v) PROVE UndoAlone'
  BY <1>4 DEF UndoAlone, Outside, agentVars, gateVars, undoVars
<1> QED
  BY <1>1, <1>2, <1>3, <1>4 DEF NextFaulty, NextShared, Next, Dispatch, Inside

LEMMA RestoringIsIdle ==
  ASSUME UndoAlone, Restoring
  PROVE  UNCHANGED <<agentVars, gateVars>> /\ \A a \in Agents : pc[a] = "idle"
BY DEF UndoAlone, Restoring, Undo, RestoreContent, RestoreAbsence, RestoreFails, Restored

(***************************************************************************)
(* Tombstones: NewFilesTraced is kept by every step of the shared run.     *)
(***************************************************************************)
Traced(b, q) ==
  /\ pc[b] = "handle" => tree[q] = Absent
  /\ pc[b] \in {"verify", "confirm"} /\ Exists(q) => maker[q] = "run"

LEMMA TracedMeans ==
  NewFilesTraced <=>
    (mode = "scoped" /\ cp # "lost" =>
       \A b \in Agents : \A q \in targets[b] : ~Known(q) => Traced(b, q))
BY DEF NewFilesTraced, Traced

LEMMA InitTrace == Init => NewFilesTraced
BY DEF Init, NewFilesTraced

\* Every action of a dispatch leaves the other dispatches' files alone.
LEMMA TraceDispatch ==
  ASSUME TypeOK, LocksHeld, NewFilesTraced, NEW a \in Agents, Dispatch(a),
         mode' = "scoped", cp' # "lost",
         NEW b \in Agents, NEW q \in targets'[b], ~Known(q)'
  PROVE  Traced(b, q)'
<1>1. mode = "scoped" /\ q \in Paths
  BY DEF TypeOK, Dispatch, Begin, BeforeWrite, HandlerRefuses, HandlerWrites, HandlerFails,
     VerifyKeeps, VerifyRollsBack, Confirm, Release, Locks!Acquire, Locks!Release
<1>2. CASE Begin(a)
  <2>1. CASE b = a
    BY <1>2, <2>1 DEF Traced, Begin, Move, TypeOK
  <2>2. CASE b # a
    BY <1>1, <1>2, <2>2, TracedMeans DEF Traced, Begin, Move, TypeOK, gateVars, Known, Exists
  <2> QED
    BY <2>1, <2>2
<1>3. CASE BeforeWrite(a, {}, TRUE)
  <2>1. q \in targets[b] /\ ~Known(q) /\ cp # "lost"
    BY <1>1, <1>3 DEF BeforeWrite, Capture, Known, TypeOK
  <2>2. CASE b = a
    <3>1. ~Exists(q)
      BY <1>1, <1>3, <2>1, <2>2, NoHashAssumption
         DEF BeforeWrite, Capture, Known, TypeOK, Exists
    <3> QED
      BY <1>3, <2>2, <3>1 DEF BeforeWrite, Move, TypeOK, Traced, Exists
  <2>3. CASE b # a
    BY <1>1, <1>3, <2>1, <2>3, TracedMeans DEF BeforeWrite, Move, TypeOK, Traced, Exists
  <2> QED
    BY <2>2, <2>3
<1>4. CASE HandlerRefuses(a) \/ VerifyKeeps(a) \/ Release(a)
  <2>1. q \in targets[b] /\ ~Known(q) /\ cp # "lost"
    BY <1>1, <1>4 DEF HandlerRefuses, VerifyKeeps, Release, gateVars, Known, TypeOK
  <2> QED
    BY <1>1, <1>4, <2>1, TracedMeans
       DEF HandlerRefuses, VerifyKeeps, Release, Move, TypeOK, Traced, Exists
<1>5. ASSUME NEW new \in [Paths -> Versions], HandlerWrites(a, new) \/ HandlerFails(a, new)
      PROVE  Traced(b, q)'
  <2>1. q \in targets[b] /\ ~Known(q) /\ cp # "lost"
    BY <1>1, <1>5 DEF HandlerWrites, HandlerFails, gateVars, Known
  <2>2. Traced(b, q)
    BY <1>1, <2>1, TracedMeans
  <2>3. CASE b = a
    BY <1>1, <1>5, <2>1, <2>2, <2>3
       DEF HandlerWrites, HandlerFails, Write, Move, TypeOK, Traced, Exists
  <2>4. CASE b # a
    <3>1. q \notin targets[a]
      BY <2>1, <2>4, OneDispatch
    <3> QED
      BY <1>1, <1>5, <2>2, <2>4, <3>1
         DEF HandlerWrites, HandlerFails, Write, Move, TypeOK, Traced, Exists
  <2> QED
    BY <2>3, <2>4
<1>6. CASE VerifyRollsBack(a)
  <2>1. q \in targets[b] /\ ~Known(q) /\ cp # "lost"
    BY <1>1, <1>6 DEF VerifyRollsBack, gateVars, Known
  <2>2. Traced(b, q)
    BY <1>1, <2>1, TracedMeans
  <2>3. CASE b = a
    BY <1>6, <2>3 DEF VerifyRollsBack, Move, TypeOK, Traced
  <2>4. CASE b # a
    <3>1. q \notin targets[a]
      BY <2>1, <2>4, OneDispatch
    <3> QED
      BY <1>1, <1>6, <2>2, <2>4, <3>1
         DEF VerifyRollsBack, Write, Move, TypeOK, Traced, Exists
  <2> QED
    BY <2>3, <2>4
<1>7. CASE Confirm(a, TRUE)
  <2>1. q \in targets[b] /\ ~Known(q) /\ cp # "lost"
    BY <1>1, <1>7 DEF Confirm, Capture, gateVars, Known, TypeOK
  <2> QED
    BY <1>1, <1>7, <2>1, TracedMeans DEF Confirm, Move, TypeOK, Traced, Exists
<1> QED
  BY <1>2, <1>3, <1>4, <1>5, <1>6, <1>7 DEF Dispatch

LEMMA TraceStep ==
  TypeOK /\ LocksHeld /\ UndoAlone /\ NewFilesTraced /\ [NextShared]_vars
    => NewFilesTraced'
<1> SUFFICES ASSUME TypeOK, LocksHeld, UndoAlone, NewFilesTraced, [NextShared]_vars
             PROVE  NewFilesTraced'
  OBVIOUS
<1>1. ASSUME NEW a \in Agents, Dispatch(a) PROVE NewFilesTraced'
  BY <1>1, TraceDispatch DEF NewFilesTraced, Traced
<1>2. CASE Restoring
  BY <1>2, RestoringIsIdle DEF LocksHeld, NewFilesTraced, agentVars
<1>3. CASE EvictedElsewhere
  BY <1>3 DEF EvictedElsewhere, NewFilesTraced
<1>4. ASSUME NEW p \in Paths, NEW v \in Versions, Outside(p, v) PROVE NewFilesTraced'
  BY <1>4, NoAgentAssumption
     DEF Outside, Write, NewFilesTraced, LocksHeld, TypeOK, gateVars, agentVars, Known, Exists
<1>5. CASE UNCHANGED vars
  BY <1>5 DEF vars, gateVars, agentVars, NewFilesTraced, Known, Exists
<1> QED
  BY <1>1, <1>2, <1>3, <1>4, <1>5 DEF NextShared, Next

LEMMA NewTombstones ==
  ASSUME TypeOK, LocksHeld, UndoAlone, NewFilesTraced, [NextShared]_vars,
         NEW t \in tombs' \ tombs
  PROVE  maker[t[1]] = "run"
<1>1. ASSUME NEW a \in Agents, Confirm(a, TRUE) PROVE maker[t[1]] = "run"
  <2>1. /\ mode = "scoped" /\ cp # "lost"
        /\ t[1] \in targets[a] /\ Exists(t[1]) /\ ~Known(t[1])
    BY <1>1 DEF Confirm, Capture, Tombstones, gateVars
  <2> QED
    BY <1>1, <2>1 DEF NewFilesTraced, Confirm, Move
<1>2. \A a \in Agents : ~BeforeWrite(a, {}, TRUE)
  BY DEF BeforeWrite, Capture, Tombstones
<1>3. \A a \in Agents : Dispatch(a) => Confirm(a, TRUE)
  BY <1>2 DEF Dispatch, Begin, HandlerRefuses, HandlerWrites, HandlerFails,
     VerifyKeeps, VerifyRollsBack, Release, gateVars
<1>4. ~(Restoring \/ EvictedElsewhere \/ UNCHANGED vars)
  BY RestoringIsIdle DEF EvictedElsewhere, vars, gateVars
<1>5. \A q \in Paths, v \in Versions : ~Outside(q, v)
  BY DEF Outside, gateVars
<1> QED
  BY <1>1, <1>3, <1>4, <1>5 DEF NextShared, Next

\* Only a file that a write of this run made appear is recorded as one that
\* Undo may delete, although the user creates files at the same time
\* (RunCheckpointGate.confirm_writes).  SpecFaulty does not satisfy it.
THEOREM TombstonesAreOurs == SpecShared => TombstonesAreRunCreations
<1> DEFINE Inv == TypeOK /\ LocksHeld /\ UndoAlone /\ NewFilesTraced
<1>1. Init => Inv
  BY InitTypes, InitLocks, InitAlone, InitTrace
<1>2. [NextShared]_vars => [NextFaulty]_vars
  BY DEF NextFaulty
<1>3. Inv /\ [NextShared]_vars => Inv'
  BY <1>2, SharedStepTypes, LocksStep, AloneStep, TraceStep
<1>4. Inv /\ [NextShared]_vars => [\A t \in tombs' \ tombs : maker[t[1]] = "run"]_vars
  BY NewTombstones
<1> QED
  BY <1>1, <1>3, <1>4, PTL DEF SpecShared, TombstonesAreRunCreations

(***************************************************************************)
(* Undo returns to the start: IInv is kept by every step of Spec.          *)
(***************************************************************************)
LEMMA InitIInv == Init => IInv
BY DEF Init, IInv, LocksHeld, UndoAlone, RecordsAreStart, UnrecordedUntouched,
   FullSnapshotFirst, RestoreProgress, Recorded, Tombstoned

LEMMA IInvImplies == TypeOK /\ IInv => UndoReturnsToStart
<1> SUFFICES ASSUME TypeOK, IInv, phase = "undone", good,
                    NEW p \in Paths \ leaked
             PROVE  tree[p] = start[p] \/ (mode = "full" /\ start[p] = Absent)
  BY DEF UndoReturnsToStart
<1>1. Recorded(p) => tree[p] = Record(p) /\ Record(p) = start[p]
  BY DEF IInv, RestoreProgress, RecordsAreStart
<1>2. CASE mode = "scoped"
  <2>1. ~Recorded(p) => tree[p] = start[p]
    BY <1>2 DEF IInv, LocksHeld, UndoAlone, UnrecordedUntouched, Sound
  <2> QED
    BY <1>1, <2>1
<1>3. CASE mode = "full"
  <2>1. start[p] # Absent => Recorded(p)
    BY <1>3, NoHashAssumption DEF IInv, UndoAlone, FullSnapshotFirst, Recorded, TypeOK
  <2> QED
    BY <1>1, <1>3, <2>1
<1> QED
  BY <1>2, <1>3 DEF TypeOK

\* While an agent is in a dispatch the run goes on.
LEMMA DispatchInRun ==
  ASSUME TypeOK, UndoAlone, NEW a \in Agents, Dispatch(a)
  PROVE  /\ phase = "run" /\ good
         /\ UNCHANGED <<mode, start, undoVars>>
         /\ cp = "lost" => cp' = "lost"
         /\ leaked \subseteq leaked'
         /\ \A b \in Agents \ {a} : pc'[b] = pc[b] /\ targets'[b] = targets[b]
                                      /\ snap'[b] = snap[b]
<1>1. phase = "run" /\ good
  BY DEF UndoAlone, Dispatch, Begin, BeforeWrite, HandlerRefuses, HandlerWrites,
     HandlerFails, VerifyKeeps, VerifyRollsBack, Confirm, Release, Move
<1>2. UNCHANGED <<mode, start, undoVars>> /\ leaked \subseteq leaked'
  BY DEF Dispatch, Begin, BeforeWrite, HandlerRefuses, HandlerWrites,
     HandlerFails, VerifyKeeps, VerifyRollsBack, Confirm, Release
<1>3. cp = "lost" => cp' = "lost"
  BY DEF Dispatch, Begin, BeforeWrite, HandlerRefuses, HandlerWrites, HandlerFails,
     VerifyKeeps, VerifyRollsBack, Confirm, Release, Capture, gateVars
<1>4. \A b \in Agents \ {a} : pc'[b] = pc[b] /\ targets'[b] = targets[b]
                              /\ snap'[b] = snap[b]
  BY DEF TypeOK, Dispatch, Begin, BeforeWrite, HandlerRefuses, HandlerWrites,
     HandlerFails, VerifyKeeps, VerifyRollsBack, Confirm, Release, Move
<1> QED
  BY <1>1, <1>2, <1>3, <1>4

\* A scoped file without a record, before and after a step of a dispatch.
Settled(p) == \A a \in Agents : p \in targets[a] => pc[a] \notin {"verify", "confirm"}

LEMMA UntouchedMeans ==
  UnrecordedUntouched <=>
    (mode = "scoped" /\ Sound =>
       \A p \in Paths \ leaked : ~Recorded(p) =>
         /\ \A a \in Agents : p \in targets[a] /\ pc[a] \in {"handle", "verify", "confirm"}
                             => InFlight(a, p)
         /\ Settled(p) => tree[p] = start[p])
BY DEF UnrecordedUntouched, Settled

LEMMA NotYetWritten ==
  ASSUME TypeOK, IInv, mode = "scoped", Sound, NEW a \in Agents, NEW p \in targets[a],
         pc[a] = "gate", p \notin leaked, ~Recorded(p)
  PROVE  tree[p] = start[p]
<1>1. Settled(p)
  BY OneDispatch DEF IInv, Settled
<1> QED
  BY <1>1, UntouchedMeans DEF IInv, TypeOK

(***************************************************************************)
(* RecordsAreStart.                                                        *)
(***************************************************************************)
\* A record stays; a new one is of the start when what it is made from is.
LEMMA CaptureStart ==
  ASSUME TypeOK, RecordsAreStart, UNCHANGED <<start, leaked>>,
         NEW S \in SUBSET Paths, NEW A \in SUBSET Paths, NEW bad, NEW saved \in BOOLEAN,
         Capture(S, A, bad, saved),
         \A p \in S \ leaked : ~Recorded(p) => tree[p] = start[p],
         \A p \in A \ leaked : ~Recorded(p) => start[p] = Absent
  PROVE  RecordsAreStart'
<1> SUFFICES ASSUME NEW p \in Paths \ leaked, Recorded(p)'
             PROVE  Record(p)' = start[p]
  BY DEF RecordsAreStart
<1>1. CASE Recorded(p)
  <2>1. Record(p)' = Record(p)
    <3>1. CASE Tombstoned(p)
      BY <3>1 DEF Capture, Tombstoned, Record
    <3>2. CASE ~Tombstoned(p)
      <4>1. Known(p)
        BY <1>1, <3>2 DEF Recorded, Known
      <4>2. ~Tombstoned(p)' /\ hashes'[p] = hashes[p]
        BY <3>2, <4>1 DEF Capture, Tombstones, Tombstoned, TypeOK
      <4> QED
        BY <3>2, <4>2 DEF Record
    <3> QED
      BY <3>1, <3>2
  <2> QED
    BY <1>1, <2>1 DEF RecordsAreStart
<1>2. CASE ~Recorded(p)
  <2>1. ~Tombstoned(p) /\ hashes[p] = NoHash
    BY <1>2 DEF Recorded
  <2>2. CASE p \in A /\ Tombstoned(p)'
    BY <1>2, <2>2 DEF Record
  <2>3. CASE ~Tombstoned(p)'
    <3>1. hashes'[p] # NoHash
      BY <2>3 DEF Recorded
    <3>2. p \in S /\ hashes'[p] = tree[p]
      BY <2>1, <3>1 DEF Capture, TypeOK
    <3> QED
      BY <1>2, <2>3, <3>2 DEF Record
  <2>4. Tombstoned(p)' => p \in A
    BY <2>1 DEF Capture, Tombstones, Tombstoned
  <2> QED
    BY <2>2, <2>3, <2>4
<1> QED
  BY <1>1, <1>2

LEMMA GateRecordsStart ==
  ASSUME TypeOK, IInv, NEW a \in Agents, BeforeWrite(a, {}, TRUE)
  PROVE  RecordsAreStart'
<1>1. UNCHANGED <<start, leaked>> /\ pc[a] = "gate" /\ phase = "run"
  BY DEF BeforeWrite, Move, IInv, UndoAlone
<1>2. CASE UNCHANGED <<hashes, tombs>>
  BY <1>1, <1>2 DEF IInv, RecordsAreStart, Recorded, Record, Tombstoned
<1>3. CASE mode = "full" /\ cp = "none" /\ Capture({p \in Paths : Exists(p)}, {}, {}, TRUE)
  <2>1. tree = start
    BY <1>3 DEF IInv, FullSnapshotFirst
  <2> DEFINE found == {p \in Paths : Exists(p)}
  <2>2. found \in SUBSET Paths /\ Capture(found, {}, {}, TRUE)
    BY <1>3
  <2>3. /\ \A p \in found \ leaked : ~Recorded(p) => tree[p] = start[p]
        /\ \A p \in {} \ leaked : ~Recorded(p) => start[p] = Absent
    BY <2>1
  <2> HIDE DEF found
  <2> QED
    BY <1>1, <2>2, <2>3, CaptureStart DEF IInv
<1>4. CASE /\ mode = "scoped"
           /\ Capture({p \in targets[a] : Exists(p)}, {}, {}, TRUE)
  <2>1. CASE cp = "lost"
    BY <1>1, <1>4, <2>1 DEF IInv, RecordsAreStart, Capture, Recorded, Record, Tombstoned
  <2>2. CASE cp # "lost"
    <3>1. \A p \in targets[a] \ leaked : ~Recorded(p) => tree[p] = start[p]
      BY <1>1, <1>4, <2>2, NotYetWritten DEF Sound
    <3> DEFINE existing == {p \in targets[a] : Exists(p)}
    <3>2. existing \in SUBSET Paths /\ Capture(existing, {}, {}, TRUE)
      BY <1>4 DEF TypeOK
    <3>3. /\ \A p \in existing \ leaked : ~Recorded(p) => tree[p] = start[p]
          /\ \A p \in {} \ leaked : ~Recorded(p) => start[p] = Absent
      BY <3>1
    <3> HIDE DEF existing
    <3> QED
      BY <1>1, <3>2, <3>3, CaptureStart DEF IInv
  <2> QED
    BY <2>1, <2>2
<1> QED
  BY <1>2, <1>3, <1>4 DEF BeforeWrite

LEMMA ConfirmRecordsStart ==
  ASSUME TypeOK, IInv, NEW a \in Agents, Confirm(a, TRUE)
  PROVE  RecordsAreStart'
<1> DEFINE created == {p \in pending \cap targets[a] : Exists(p)}
<1>1. UNCHANGED <<start, leaked>> /\ pc[a] = "confirm" /\ phase = "run"
  BY DEF Confirm, Move, IInv, UndoAlone
<1>2. CASE UNCHANGED gateVars
  BY <1>1, <1>2 DEF IInv, RecordsAreStart, gateVars, Recorded, Record, Tombstoned
<1>3. CASE mode = "scoped" /\ Capture({}, created, {}, TRUE)
  <2>1. CASE cp = "lost"
    BY <1>1, <1>3, <2>1 DEF IInv, RecordsAreStart, Capture, Recorded, Record, Tombstoned
  <2>2. CASE cp # "lost"
    <3>1. \A p \in targets[a] \ leaked : ~Recorded(p) => start[p] = Absent
      BY <1>1, <1>3, <2>2, UntouchedMeans DEF Sound, IInv, InFlight, TypeOK
    <3>2. created \in SUBSET Paths /\ Capture({}, created, {}, TRUE)
      BY <1>3 DEF TypeOK
    <3>3. /\ \A p \in {} \ leaked : ~Recorded(p) => tree[p] = start[p]
          /\ \A p \in created \ leaked : ~Recorded(p) => start[p] = Absent
      BY <3>1
    <3> HIDE DEF created
    <3> QED
      BY <1>1, <3>2, <3>3, CaptureStart DEF IInv
  <2> QED
    BY <2>1, <2>2
<1> QED
  BY <1>2, <1>3 DEF Confirm

LEMMA RecordsStartStep == TypeOK /\ IInv /\ [Next]_vars => RecordsAreStart'
<1> SUFFICES ASSUME TypeOK, IInv, [Next]_vars PROVE RecordsAreStart'
  OBVIOUS
<1>1. ASSUME UNCHANGED <<start, hashes, tombs>>, leaked \subseteq leaked'
      PROVE  RecordsAreStart'
  BY <1>1 DEF IInv, RecordsAreStart, Recorded, Record, Tombstoned
<1>2. ASSUME NEW a \in Agents, Dispatch(a) PROVE RecordsAreStart'
  <2>1. CASE BeforeWrite(a, {}, TRUE) \/ Confirm(a, TRUE)
    BY <2>1, GateRecordsStart, ConfirmRecordsStart
  <2>2. CASE ~(BeforeWrite(a, {}, TRUE) \/ Confirm(a, TRUE))
    BY <1>1, <1>2, <2>2 DEF Dispatch, Begin, HandlerRefuses, HandlerWrites, HandlerFails,
       VerifyKeeps, VerifyRollsBack, Release, gateVars
  <2> QED
    BY <2>1, <2>2
<1>3. CASE Restoring \/ EvictedElsewhere \/ UNCHANGED vars
  BY <1>1, <1>3 DEF Restoring, Undo, RestoreContent, RestoreAbsence, RestoreFails, Restored,
     EvictedElsewhere, vars, gateVars
<1> QED
  BY <1>2, <1>3 DEF Next

(***************************************************************************)
(* FullSnapshotFirst and RestoreProgress.                                  *)
(***************************************************************************)
LEMMA FullStep == TypeOK /\ IInv /\ [Next]_vars => FullSnapshotFirst'
<1> SUFFICES ASSUME TypeOK, IInv, [Next]_vars, mode' = "full" PROVE FullSnapshotFirst'
  BY DEF FullSnapshotFirst
<1>1. ASSUME NEW a \in Agents, Dispatch(a) PROVE FullSnapshotFirst'
  <2>1. mode = "full" /\ start' = start
    BY <1>1, DispatchInRun DEF IInv
  <2>2. CASE BeforeWrite(a, {}, TRUE)
    <3>1. CASE cp = "none"
      <4>1. Capture({p \in Paths : Exists(p)}, {}, {}, TRUE) /\ pending' = pending
        BY <2>1, <2>2, <3>1 DEF BeforeWrite
      <4>2. cp' = "open" /\ tombs' = {} /\ \A p \in Paths : Exists(p) => hashes'[p] = tree[p]
        BY <2>1, <3>1, <4>1 DEF Capture, Tombstones, IInv, FullSnapshotFirst, Known, TypeOK
      <4> QED
        BY <2>1, <3>1, <4>1, <4>2 DEF IInv, FullSnapshotFirst, Exists
    <3>2. CASE cp # "none"
      BY <2>1, <2>2, <3>2 DEF BeforeWrite, IInv, FullSnapshotFirst
    <3> QED
      BY <3>1, <3>2
  <2>3. CASE Begin(a)
    BY <2>1, <2>3 DEF Begin, Move, gateVars, IInv, FullSnapshotFirst, TypeOK
  <2>4. CASE ~(BeforeWrite(a, {}, TRUE) \/ Begin(a))
    <3>1. pc[a] \notin {"idle", "gate"} /\ UNCHANGED gateVars
      BY <1>1, <2>1, <2>4 DEF Dispatch, HandlerRefuses, HandlerWrites, HandlerFails,
         VerifyKeeps, VerifyRollsBack, Confirm, Release, Move
    <3>2. cp # "none"
      BY <2>1, <3>1 DEF IInv, FullSnapshotFirst
    <3> QED
      BY <2>1, <3>1, <3>2 DEF gateVars, IInv, FullSnapshotFirst
  <2> QED
    BY <2>2, <2>3, <2>4
<1>2. CASE Restoring
  <2>1. cp # "none" /\ UNCHANGED <<mode, start>>
    BY <1>2 DEF Restoring, Undo, RestoreContent, RestoreAbsence, RestoreFails, Restored,
       IInv, UndoAlone
  <2> QED
    BY <1>2, <2>1, RestoringIsIdle DEF gateVars, IInv, FullSnapshotFirst
<1>3. CASE EvictedElsewhere \/ UNCHANGED vars
  BY <1>3 DEF EvictedElsewhere, vars, gateVars, agentVars, IInv, FullSnapshotFirst
<1> QED
  BY <1>1, <1>2, <1>3 DEF Next

LEMMA ProgressStep == TypeOK /\ IInv /\ [Next]_vars => RestoreProgress'
<1> SUFFICES ASSUME TypeOK, IInv, [Next]_vars PROVE RestoreProgress'
  OBVIOUS
<1>1. ASSUME NEW a \in Agents, Dispatch(a) PROVE RestoreProgress'
  BY <1>1, DispatchInRun DEF IInv, RestoreProgress, undoVars
<1>2. CASE Undo
  <2>1. ASSUME NEW p \in Paths, Recorded(p) PROVE \E r \in Made : r[1] = p
    <3>1. CASE hashes[p] # NoHash
      <4>1. <<p, "content">> \in Made
        BY <3>1 DEF Made
      <4> QED
        BY <4>1
    <3>2. CASE Tombstoned(p)
      BY <3>2 DEF Made, Tombstoned
    <3> QED
      BY <2>1, <3>1, <3>2 DEF Recorded
  <2>2. CASE cp = "open"
    <3>1. phase' = "restore" /\ left' = Made /\ UNCHANGED <<tree, hashes, tombs>>
      BY <1>2, <2>2 DEF Undo, gateVars
    <3>2. tombs \subseteq Made
      BY DEF Made
    <3> QED
      BY <2>1, <3>1, <3>2 DEF RestoreProgress, Recorded, Tombstoned
  <2>3. CASE cp # "open"
    BY <1>2, <2>3 DEF Undo, gateVars, IInv, RestoreProgress
  <2> QED
    BY <2>2, <2>3
<1>3. ASSUME NEW p \in Paths, RestoreContent(p) PROVE RestoreProgress'
  <2>1. <<p, "content">> \notin tombs
    BY DEF TypeOK, Spellings
  <2>2. tombs \subseteq left'
    BY <1>3, <2>1 DEF RestoreContent, IInv, RestoreProgress
  <2>3. /\ UNCHANGED <<phase, good, tombs, hashes>> /\ phase = "restore"
        /\ left' = left \ {<<p, "content">>}
    BY <1>3 DEF RestoreContent, gateVars
  <2>4. /\ tree'[p] = hashes[p]
        /\ \A q \in Paths \ {p} : tree'[q] = tree[q]
    BY <1>3 DEF RestoreContent, Write, TypeOK
  <2>5. ASSUME NEW q \in Paths, Recorded(q), good
        PROVE  tree'[q] = Record(q) \/ \E r \in left' : r[1] = q
    <3>1. CASE Tombstoned(q)
      BY <2>2, <3>1 DEF Tombstoned
    <3>2. CASE ~Tombstoned(q) /\ q = p
      BY <2>4, <3>2 DEF Record
    <3>3. CASE q # p
      BY <2>3, <2>4, <2>5, <3>3 DEF IInv, RestoreProgress
    <3> QED
      BY <3>1, <3>2, <3>3
  <2> QED
    BY <2>2, <2>3, <2>5 DEF RestoreProgress, Recorded, Record, Tombstoned
<1>4. ASSUME NEW p \in Paths, RestoreAbsence(p) PROVE RestoreProgress'
  <2>1. PICK s \in Spellings : <<p, s>> \in left /\ left' = left \ {<<p, s>>}
    BY <1>4 DEF RestoreAbsence
  <2>2. /\ UNCHANGED <<phase, good, tombs, hashes>> /\ phase = "restore"
        /\ left \subseteq tombs
    BY <1>4 DEF RestoreAbsence, gateVars
  <2>3. /\ tree'[p] = Absent
        /\ \A q \in Paths \ {p} : tree'[q] = tree[q]
    BY <1>4 DEF RestoreAbsence, Write, TypeOK
  <2>4. Record(p) = Absent
    BY <2>1, <2>2 DEF Record, Tombstoned
  <2>5. ASSUME NEW q \in Paths, Recorded(q), good
        PROVE  tree'[q] = Record(q) \/ \E r \in left' : r[1] = q
    <3>1. CASE q = p
      BY <2>3, <2>4, <3>1
    <3>2. CASE q # p
      BY <2>1, <2>2, <2>3, <2>5, <3>2 DEF IInv, RestoreProgress
    <3> QED
      BY <3>1, <3>2
  <2> QED
    BY <2>1, <2>2, <2>5 DEF RestoreProgress, Recorded, Record, Tombstoned
<1>5. ASSUME NEW r \in Records, RestoreFails(r) PROVE RestoreProgress'
  <2>1. UNCHANGED <<phase, tombs>> /\ left' = left \ {r} /\ good' = FALSE
    BY <1>5 DEF RestoreFails, gateVars
  <2>2. (\E x \in left' : x \notin tombs) => tombs \subseteq left'
    BY <1>5, <2>1 DEF RestoreFails, IInv, RestoreProgress
  <2> QED
    BY <1>5, <2>1, <2>2 DEF RestoreFails, RestoreProgress
<1>6. CASE Restored \/ EvictedElsewhere \/ UNCHANGED vars
  <2>1. /\ UNCHANGED <<left, good, tree, hashes, tombs>>
        /\ \/ phase' = phase
           \/ phase = "restore" /\ phase' = "undone" /\ left = {}
    BY <1>6 DEF Restored, EvictedElsewhere, vars, gateVars, undoVars
  <2> QED
    BY <2>1 DEF IInv, RestoreProgress, Recorded, Record, Tombstoned
<1> QED
  BY <1>1, <1>2, <1>3, <1>4, <1>5, <1>6 DEF Next, Restoring

(***************************************************************************)
(* UnrecordedUntouched.                                                    *)
(***************************************************************************)
Untouched(p) ==
  /\ \A a \in Agents : p \in targets[a] /\ pc[a] \in {"handle", "verify", "confirm"}
                      => InFlight(a, p)
  /\ Settled(p) => tree[p] = start[p]

\* A dispatch leaves the files it does not target as they were.
LEMMA OthersUntouched ==
  ASSUME TypeOK, LocksHeld, UndoAlone, NEW a \in Agents, Dispatch(a),
         NEW p \in Paths, p \notin targets[a], p \notin targets'[a], Untouched(p)
  PROVE  Untouched(p)'
<1>1. /\ UNCHANGED <<mode, start>>
      /\ \A b \in Agents \ {a} : pc'[b] = pc[b] /\ targets'[b] = targets[b]
                                /\ snap'[b] = snap[b]
  BY DispatchInRun
<1>2. tree'[p] = tree[p]
  <2>1. ASSUME NEW new, Write(targets[a], new, "run") PROVE tree'[p] = tree[p]
    BY <2>1 DEF Write
  <2>2. ASSUME NEW new \in [Paths -> Versions], HandlerWrites(a, new) \/ HandlerFails(a, new)
        PROVE  tree'[p] = tree[p]
    BY <2>1, <2>2 DEF HandlerWrites, HandlerFails
  <2>3. CASE VerifyRollsBack(a)
    BY <2>1, <2>3 DEF VerifyRollsBack
  <2>4. CASE \/ Begin(a) \/ BeforeWrite(a, {}, TRUE) \/ HandlerRefuses(a)
             \/ VerifyKeeps(a) \/ Confirm(a, TRUE) \/ Release(a)
    BY <2>4 DEF Begin, BeforeWrite, HandlerRefuses, VerifyKeeps, Confirm, Release
  <2> QED
    BY <2>2, <2>3, <2>4 DEF Dispatch
<1>3. p \in pending => p \in pending'
  BY DEF Dispatch, Begin, BeforeWrite, HandlerRefuses, HandlerWrites, HandlerFails,
     VerifyKeeps, VerifyRollsBack, Confirm, Release, gateVars
<1>4. Settled(p)' => Settled(p)
  BY <1>1 DEF Settled
<1> QED
  BY <1>1, <1>2, <1>3, <1>4 DEF Untouched, InFlight

\* And those it targets are in flight until they are settled.
LEMMA TargetsUntouched ==
  ASSUME TypeOK, IInv, NEW a \in Agents, Dispatch(a), mode = "scoped", cp # "lost", cp' # "lost",
         NEW p \in Paths, p \in targets[a], p \notin leaked', ~Recorded(p)',
         ~Recorded(p), Untouched(p)
  PROVE  Untouched(p)'
<1>1. \A b \in Agents \ {a} : p \notin targets[b] /\ p \notin targets'[b]
  BY DispatchInRun, OneDispatch DEF IInv
<1>2. UNCHANGED start /\ pc[a] # "idle" /\ p \notin leaked
  BY DispatchInRun DEF IInv, LocksHeld
<1>3. ASSUME \/ pc'[a] \notin {"handle", "verify", "confirm"} /\ tree'[p] = start[p]
             \/ pc'[a] \in {"handle", "verify", "confirm"} /\ InFlight(a, p)'
                  /\ (pc'[a] = "handle" => tree'[p] = start[p])
                  /\ p \in targets'[a]
      PROVE  Untouched(p)'
  BY <1>1, <1>2, <1>3 DEF Untouched, Settled
<1>4. CASE Begin(a)
  BY <1>2, <1>4 DEF Begin, Move
<1>5. CASE BeforeWrite(a, {}, TRUE)
  <2>1. tree[p] = start[p]
    BY <1>2, <1>5, NotYetWritten DEF BeforeWrite, Move, Sound, IInv, UndoAlone
  <2>2. ~Exists(p)
    BY <1>5, NoHashAssumption DEF BeforeWrite, Capture, Recorded, Known, Tombstoned, Spellings, TypeOK, Exists
  <2>3. pc'[a] = "handle" /\ snap'[a][p] = Absent /\ p \in pending' /\ tree' = tree
    BY <1>5, <2>2 DEF BeforeWrite, Move, TypeOK, Exists
  <2> QED
    BY <1>2, <1>3, <1>5, <2>1, <2>2, <2>3 DEF InFlight, Exists, BeforeWrite
<1>6. CASE HandlerRefuses(a)
  BY <1>2, <1>3, <1>6 DEF HandlerRefuses, Move, TypeOK, Untouched, InFlight
<1>7. ASSUME NEW new \in [Paths -> Versions], HandlerWrites(a, new)
      PROVE  Untouched(p)'
  BY <1>2, <1>3, <1>7 DEF HandlerWrites, Move, TypeOK, Untouched, InFlight, gateVars
<1>8. ASSUME NEW new \in [Paths -> Versions], HandlerFails(a, new)
      PROVE  Untouched(p)'
  <2>1. tree[p] = Absent /\ start[p] = Absent /\ pc'[a] = "release"
    BY <1>8 DEF HandlerFails, Move, TypeOK, Untouched, InFlight
  <2>2. tree'[p] = new[p] /\ new[p] = Absent
    BY <1>8, <2>1 DEF HandlerFails, Write, TypeOK
  <2> QED
    BY <1>3, <2>1, <2>2
<1>9. CASE VerifyKeeps(a)
  BY <1>2, <1>3, <1>9 DEF VerifyKeeps, Move, TypeOK, Untouched, InFlight, gateVars
<1>10. CASE VerifyRollsBack(a)
  <2>1. snap[a][p] = Absent /\ start[p] = Absent /\ pc'[a] = "release"
    BY <1>10 DEF VerifyRollsBack, Move, TypeOK, Untouched, InFlight
  <2> QED
    BY <1>3, <1>10, <2>1 DEF VerifyRollsBack, Write, TypeOK
<1>11. CASE Confirm(a, TRUE)
  <2>1. p \in pending /\ start[p] = Absent /\ pc'[a] = "release"
    BY <1>11 DEF Confirm, Move, TypeOK, Untouched, InFlight
  <2>2. ~Exists(p)
    BY <1>11, <2>1 DEF Confirm, Capture, Tombstones, Spellings, Recorded, Known, Tombstoned, gateVars
  <2> QED
    BY <1>3, <1>11, <2>1, <2>2 DEF Confirm, Exists
<1>12. CASE Release(a)
  BY <1>1, <1>2, <1>12 DEF Release, Move, TypeOK, Untouched, Settled
<1> QED
  BY <1>4, <1>5, <1>6, <1>7, <1>8, <1>9, <1>10, <1>11, <1>12 DEF Dispatch

LEMMA UntouchedStep == TypeOK /\ IInv /\ [Next]_vars => UnrecordedUntouched'
<1> SUFFICES ASSUME TypeOK, IInv, [Next]_vars, mode' = "scoped", Sound',
                    NEW p \in Paths \ leaked', ~Recorded(p)'
             PROVE  Untouched(p)'
  BY UntouchedMeans DEF UnrecordedUntouched, Untouched, Settled
<1>1. [NextFaulty]_vars
  BY DEF NextFaulty, NextShared
<1>2. ~Recorded(p)
  BY <1>1, RecordsStay DEF Recorded
<1>3. ASSUME NEW a \in Agents, Dispatch(a) PROVE Untouched(p)'
  <2>1. mode = "scoped" /\ phase = "run" /\ phase' = "run" /\ cp # "lost" /\ cp' # "lost"
        /\ p \notin leaked
    BY <1>3, DispatchInRun DEF IInv, Sound, undoVars
  <2>2. Untouched(p)
    BY <1>2, <2>1, UntouchedMeans DEF IInv, Sound, Untouched
  <2>3. CASE p \in targets[a]
    BY <1>2, <1>3, <2>1, <2>2, <2>3, TargetsUntouched
  <2>4. CASE p \notin targets[a] /\ p \notin targets'[a]
    BY <1>3, <2>2, <2>4, OthersUntouched DEF IInv
  <2>5. CASE p \notin targets[a] /\ p \in targets'[a]
    <3>1. Begin(a)
      BY <1>3, <2>5 DEF TypeOK, Dispatch, BeforeWrite, HandlerRefuses, HandlerWrites,
         HandlerFails, VerifyKeeps, VerifyRollsBack, Confirm, Release
    <3> QED
      BY <2>2, <2>5, <3>1
         DEF Begin, Move, TypeOK, Untouched, Settled, InFlight, gateVars
  <2> QED
    BY <2>3, <2>4, <2>5
<1>4. CASE Restoring
  <2>1. /\ UNCHANGED <<mode, start, agentVars, pending>> /\ p \notin leaked /\ Sound
        /\ tree'[p] = tree[p]
    <3>1. UNCHANGED <<mode, start, agentVars, pending, leaked>>
      BY <1>4, RestoringIsIdle
         DEF Restoring, Undo, RestoreContent, RestoreAbsence, RestoreFails, Restored,
             IInv, gateVars
    <3>4. Sound
      <4>1. CASE phase = "run"
        BY <1>4, <4>1 DEF Restoring, Undo, RestoreContent, RestoreAbsence, RestoreFails,
           Restored, Sound
      <4>2. CASE phase # "run"
        <5>1. good' = FALSE \/ good' = good
          BY <1>4, <4>2 DEF Restoring, Undo, RestoreContent, RestoreAbsence, RestoreFails,
             Restored
        <5>2. phase' # "run"
          BY <1>4, <4>2 DEF Restoring, Undo, RestoreContent, RestoreAbsence, RestoreFails,
             Restored
        <5>3. good'
          BY <5>2 DEF Sound
        <5>4. good
          BY <5>1, <5>3
        <5> QED
          BY <4>2, <5>4 DEF Sound
      <4> QED
        BY <4>1, <4>2
    <3>2. ASSUME NEW q \in Paths, RestoreContent(q) PROVE tree'[p] = tree[p]
      BY <1>2, <3>2 DEF RestoreContent, Write, Recorded, TypeOK
    <3>3. ASSUME NEW q \in Paths, RestoreAbsence(q) PROVE tree'[p] = tree[p]
      <4>1. Tombstoned(q)
        BY <3>3 DEF RestoreAbsence, Tombstoned
      <4> QED
        BY <1>2, <3>3, <4>1 DEF RestoreAbsence, Write, Recorded, TypeOK
    <3> QED
      BY <1>4, <3>1, <3>2, <3>3, <3>4 DEF Restoring, Undo, RestoreFails, Restored
  <2>2. Untouched(p)
    BY <1>2, <2>1, UntouchedMeans DEF IInv, Untouched
  <2> QED
    BY <2>1, <2>2 DEF Untouched, Settled, InFlight, agentVars
<1>5. CASE EvictedElsewhere \/ UNCHANGED vars
  <2>1. UNCHANGED <<mode, start, agentVars, pending, tree, leaked>> /\ Sound
    BY <1>5 DEF EvictedElsewhere, vars, gateVars, undoVars, Sound
  <2>2. Untouched(p)
    BY <1>2, <2>1, UntouchedMeans DEF IInv, Untouched
  <2> QED
    BY <2>1, <2>2 DEF Untouched, Settled, InFlight, agentVars
<1> QED
  BY <1>3, <1>4, <1>5 DEF Next

LEMMA IInvStep == TypeOK /\ IInv /\ [Next]_vars => IInv'
<1> SUFFICES ASSUME TypeOK, IInv, [Next]_vars PROVE IInv'
  OBVIOUS
<1>1. [NextFaulty]_vars
  BY DEF NextFaulty, NextShared
<1> QED
  BY <1>1, LocksStep, AloneStep, RecordsStartStep, UntouchedStep, FullStep, ProgressStep
     DEF IInv

\* After a successful Undo every file is as the run found it, whatever its
\* agents did, for any number of agents and files; the exceptions are those
\* the property names (CheckpointStore.restore after the gate's captures).
THEOREM UndoIsExact == Spec => []UndoReturnsToStart
<1>1. TypeOK /\ [Next]_vars => TypeOK'
  BY StepTypes DEF NextFaulty, NextShared
<1> QED
  BY InitTypes, InitIInv, <1>1, IInvStep, IInvImplies, PTL DEF Spec
==============================================================================
