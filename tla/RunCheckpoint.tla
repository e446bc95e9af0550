---------------------------- MODULE RunCheckpoint ----------------------------
(***************************************************************************)
(* The write path of one agent run and its Undo: ToolRegistry._dispatch_   *)
(* impl for write tools (file locks, checkpoint gate, handler, syntax      *)
(* verification with rollback, confirmation), the RunCheckpointGate shared *)
(* by the run and its sub-agents, and the checkpoint it accumulates in     *)
(* CheckpointStore (create, extend, restore).                              *)
(*                                                                         *)
(* A path is content or Absent.  A record of the checkpoint is the content *)
(* of a path or a tombstone, and a tombstone has the path as its caller    *)
(* spelled it: the gate hands over absolute paths, which create() stores   *)
(* and extend() makes relative to the repository.  The per-file locks are  *)
(* those of PathLocks, which FileLocks implements.  before_write and       *)
(* confirm_writes run under the gate's own lock, so each of them is one    *)
(* step; CheckpointIndex has the steps of the store.                       *)
(***************************************************************************)
CONSTANTS
  Agents,      \* the run's agent and its in-process sub-agents
  Paths, Contents,
  Absent,      \* no such file
  NoHash,      \* no content captured for a path
  NoAgent

Versions == Contents \cup {Absent}

ASSUME AbsentAssumption == Absent \notin Contents
ASSUME NoHashAssumption == NoHash \notin Versions
ASSUME NoAgentAssumption == NoAgent \notin Agents

VARIABLES
  mode,        \* ASICODE_CHECKPOINT_ON_WRITE: scoped or full
  tree,        \* the working tree
  start,       \* the tree as the run found it
  pending,     \* gate._pending_absent
  cp,          \* the checkpoint: none, open, or lost to another run's retention
  hashes,      \* its file_hashes and blobs
  tombs,       \* its absent list, of paths as they are spelled there
  owner,       \* per-file locks
  pc, targets, guarded, snap,   \* each agent's dispatch
  phase,       \* run, then restore, then undone
  left,        \* records restore() has still to visit
  good,        \* restore()'s success flag
  leaked,      \* files a failing write created and nobody recorded
  maker        \* who made the file at a path appear

gateVars == <<pending, cp, hashes, tombs>>
agentVars == <<owner, pc, targets, guarded, snap>>
undoVars == <<phase, left, good>>
vars == <<mode, tree, start, gateVars, agentVars, undoVars, leaked, maker>>

Steps == {"idle", "gate", "handle", "verify", "confirm", "release"}
Spellings == {"absolute", "relative"}
Records == Paths \X (Spellings \cup {"content"})

TypeOK ==
  /\ mode \in {"scoped", "full"}
  /\ tree \in [Paths -> Versions]
  /\ start \in [Paths -> Versions]
  /\ pending \subseteq Paths
  /\ cp \in {"none", "open", "lost"}
  /\ hashes \in [Paths -> Contents \cup {NoHash}]
  /\ tombs \subseteq Paths \X Spellings
  /\ owner \in [Paths -> Agents \cup {NoAgent}]
  /\ pc \in [Agents -> Steps]
  /\ targets \in [Agents -> SUBSET Paths]
  /\ guarded \in [Agents -> BOOLEAN]
  /\ snap \in [Agents -> [Paths -> Versions]]
  /\ phase \in {"run", "restore", "undone"}
  /\ left \subseteq Records
  /\ good \in BOOLEAN
  /\ leaked \subseteq Paths
  /\ maker \in [Paths -> {"nobody", "start", "run", "outside"}]

NoSnapshot == [p \in Paths |-> Absent]

Init ==
  /\ mode \in {"scoped", "full"}
  /\ tree \in [Paths -> Versions]
  /\ start = tree
  /\ pending = {}
  /\ cp = "none"
  /\ hashes = [p \in Paths |-> NoHash]
  /\ tombs = {}
  /\ owner = [p \in Paths |-> NoAgent]
  /\ pc = [a \in Agents |-> "idle"]
  /\ targets = [a \in Agents |-> {}]
  /\ guarded = [a \in Agents |-> FALSE]
  /\ snap = [a \in Agents |-> NoSnapshot]
  /\ phase = "run"
  /\ left = {}
  /\ good = TRUE
  /\ leaked = {}
  /\ maker = [p \in Paths |-> IF tree[p] = Absent THEN "nobody" ELSE "start"]

Locks == INSTANCE PathLocks WITH
  Writers <- Agents, Keys <- Paths, NoWriter <- NoAgent

Move(a, from, to) == pc[a] = from /\ pc' = [pc EXCEPT ![a] = to]

Exists(p) == tree[p] # Absent
Tombstoned(p) == \E s \in Spellings : <<p, s>> \in tombs
Recorded(p) == hashes[p] # NoHash \/ Tombstoned(p)

\* What extend() finds recorded: it looks for relative paths only.
Known(p) == hashes[p] # NoHash \/ <<p, "relative">> \in tombs

\* What restore() leaves at a recorded path, contents before tombstones.
Record(p) == IF Tombstoned(p) THEN Absent ELSE hashes[p]

Made == {<<p, "content">> : p \in {q \in Paths : hashes[q] # NoHash}} \cup tombs

\* A file has the maker that brought it into being until it disappears.
Write(S, new, who) ==
  /\ tree' = [p \in Paths |-> IF p \in S THEN new[p] ELSE tree[p]]
  /\ maker' = [p \in Paths |->
                 IF p \notin S THEN maker[p]
                 ELSE IF new[p] = Absent THEN "nobody"
                 ELSE IF tree[p] = Absent THEN who ELSE maker[p]]

(***************************************************************************)
(* CheckpointStore.create and .extend.  S is captured with its content, A  *)
(* as tombstones; nothing extend() finds recorded is recorded again, and   *)
(* the tombstones of create() are spelled as it does not look for them.  A *)
(* path in bad is one whose blob could not be written (disk full,          *)
(* unreadable): it is logged and left out.  A payload that cannot be saved *)
(* records nothing and the gate swallows the error, nor does a checkpoint  *)
(* that another run's retention evicted take anything more.                *)
(***************************************************************************)
Tombstones(A) == A \X {IF cp = "none" THEN "absolute" ELSE "relative"}

\* Slip: every write captures its targets, the last one seen wins.
CaptureLatest(S, A, bad, saved) ==
  /\ cp' = IF cp = "none" /\ saved THEN "open" ELSE cp
  /\ hashes' = IF cp = "lost" \/ ~saved THEN hashes
               ELSE [p \in Paths |-> IF p \in S \ bad THEN tree[p] ELSE hashes[p]]
  /\ tombs' = IF cp = "lost" \/ ~saved THEN tombs ELSE tombs \cup Tombstones(A)

\* Slip: first seen wins within each kind of record, not over both.
CaptureEachKind(S, A, bad, saved) ==
  /\ cp' = IF cp = "none" /\ saved THEN "open" ELSE cp
  /\ hashes' = IF cp = "lost" \/ ~saved THEN hashes
               ELSE [p \in Paths |->
                       IF p \in S \ bad /\ hashes[p] = NoHash THEN tree[p] ELSE hashes[p]]
  /\ tombs' = IF cp = "lost" \/ ~saved THEN tombs ELSE tombs \cup Tombstones(A)

Capture(S, A, bad, saved) ==
  /\ cp' = IF cp = "none" /\ saved THEN "open" ELSE cp
  /\ hashes' = IF cp = "lost" \/ ~saved THEN hashes
               ELSE [p \in Paths |->
                       IF p \in S \ bad /\ ~Known(p) THEN tree[p] ELSE hashes[p]]
  /\ tombs' = IF cp = "lost" \/ ~saved THEN tombs
              ELSE tombs \cup Tombstones({p \in A : ~Known(p)})

(***************************************************************************)
(* Dispatch of one write tool call.                                        *)
(***************************************************************************)
\* Argument checks passed; acquire_relevant took every target's lock.
Begin(a) ==
  /\ phase = "run"
  /\ Move(a, "idle", "gate")
  /\ \E T \in SUBSET Paths \ {{}} :
       Locks!Acquire(a, T) /\ targets' = [targets EXCEPT ![a] = T]
  /\ \E g \in BOOLEAN : guarded' = [guarded EXCEPT ![a] = g]
  /\ UNCHANGED <<mode, tree, start, gateVars, snap, undoVars, leaked, maker>>

\* Slip: a target is captured whether or not it is a file.
BeforeWriteUnfiltered(a, bad, saved) ==
  /\ Move(a, "gate", "handle")
  /\ snap' = [snap EXCEPT ![a] =
                [p \in Paths |-> IF guarded[a] /\ p \in targets[a] THEN tree[p] ELSE Absent]]
  /\ Capture(targets[a], {}, bad, saved)
  /\ pending' = pending \cup {p \in targets[a] : ~Exists(p)}
  /\ UNCHANGED <<mode, tree, start, owner, targets, guarded, undoVars, leaked, maker>>

\* RunCheckpointGate.before_write, then the rollback snapshot.
BeforeWrite(a, bad, saved) ==
  /\ Move(a, "gate", "handle")
  /\ snap' = [snap EXCEPT ![a] =
                [p \in Paths |-> IF guarded[a] /\ p \in targets[a] THEN tree[p] ELSE Absent]]
  /\ LET existing == {p \in targets[a] : Exists(p)}
     IN  \/ /\ mode = "full"
            /\ IF cp = "none"
               THEN Capture({p \in Paths : Exists(p)}, {}, bad, saved)
               ELSE UNCHANGED <<cp, hashes, tombs>>
            /\ UNCHANGED pending
         \/ /\ mode = "scoped"
            /\ pending' = pending \cup (targets[a] \ existing)
            /\ IF existing # {}
               THEN Capture(existing, {}, bad, saved)
               ELSE UNCHANGED <<cp, hashes, tombs>>
  /\ UNCHANGED <<mode, tree, start, owner, targets, guarded, undoVars, leaked, maker>>

\* The handler refuses (bad argument, stale anchor, foreign lease, syntax).
HandlerRefuses(a) ==
  /\ Move(a, "handle", "release")
  /\ UNCHANGED <<mode, tree, start, gateVars, owner, targets, guarded, snap,
                 undoVars, leaked, maker>>

\* The handler writes, edits or deletes its targets and reports success.
HandlerWrites(a, new) ==
  /\ Move(a, "handle", IF guarded[a] THEN "verify" ELSE "confirm")
  /\ Write(targets[a], new, "run")
  /\ UNCHANGED <<mode, start, gateVars, owner, targets, guarded, snap,
                 undoVars, leaked>>

\* It raises, or reports an error, after some of them were written: dispatch
\* answers with the error and neither rolls back nor confirms.
HandlerFails(a, new) ==
  /\ Move(a, "handle", "release")
  /\ Write(targets[a], new, "run")
  /\ leaked' = leaked \cup
       {p \in targets[a] : tree[p] = Absent /\ new[p] # Absent /\ ~Recorded(p)}
  /\ UNCHANGED <<mode, start, gateVars, owner, targets, guarded, snap, undoVars>>

\* verify_after_write passes, a repair makes it pass, or it soft-fails.
VerifyKeeps(a) ==
  /\ Move(a, "verify", "confirm")
  /\ UNCHANGED <<mode, tree, start, gateVars, owner, targets, guarded, snap,
                 undoVars, leaked, maker>>

\* A syntax error: _restore_snapshots.
VerifyRollsBack(a) ==
  /\ Move(a, "verify", "release")
  /\ Write(targets[a], snap[a], "run")
  /\ UNCHANGED <<mode, start, gateVars, owner, targets, guarded, snap,
                 undoVars, leaked>>

\* Slip: every pending path that exists by now is taken for a creation.
ConfirmExisting(a, saved) ==
  /\ Move(a, "confirm", "release")
  /\ LET created == {p \in pending : Exists(p)}
     IN  IF mode = "scoped" /\ created # {}
         THEN Capture({}, created, {}, saved) /\ pending' = pending \ created
         ELSE UNCHANGED gateVars
  /\ UNCHANGED <<mode, tree, start, owner, targets, guarded, snap, undoVars,
                 leaked, maker>>

\* RunCheckpointGate.confirm_writes, from _after_write_success.
Confirm(a, saved) ==
  /\ Move(a, "confirm", "release")
  /\ LET created == {p \in pending \cap targets[a] : Exists(p)}
     IN  IF mode = "scoped" /\ created # {}
         THEN Capture({}, created, {}, saved) /\ pending' = pending \ created
         ELSE UNCHANGED gateVars
  /\ UNCHANGED <<mode, tree, start, owner, targets, guarded, snap, undoVars,
                 leaked, maker>>

\* release_all in dispatch's finally.
Release(a) ==
  /\ Move(a, "release", "idle")
  /\ Locks!Release(a, targets[a])
  /\ targets' = [targets EXCEPT ![a] = {}]
  /\ guarded' = [guarded EXCEPT ![a] = FALSE]
  /\ snap' = [snap EXCEPT ![a] = NoSnapshot]
  /\ UNCHANGED <<mode, tree, start, gateVars, undoVars, leaked, maker>>

(***************************************************************************)
(* Other runs share the store: their checkpoints push this one out.        *)
(***************************************************************************)
EvictedElsewhere ==
  /\ cp = "open"
  /\ cp' = "lost"
  /\ UNCHANGED <<mode, tree, start, pending, hashes, tombs, agentVars, undoVars,
                 leaked, maker>>

(***************************************************************************)
(* /undo: CheckpointStore.restore on the run's checkpoint, contents first, *)
(* then the files the run created.                                         *)
(***************************************************************************)
Undo ==
  /\ phase = "run"
  /\ \A a \in Agents : pc[a] = "idle"
  /\ cp # "none"
  /\ IF cp = "open"
     THEN /\ phase' = "restore"
          /\ left' = Made
          /\ UNCHANGED good
     ELSE /\ phase' = "undone"
          /\ good' = FALSE
          /\ UNCHANGED left
  /\ UNCHANGED <<mode, tree, start, gateVars, agentVars, leaked, maker>>

RestoreContent(p) ==
  /\ phase = "restore"
  /\ <<p, "content">> \in left /\ hashes[p] # NoHash
  /\ cp = "open" \/ tree[p] = hashes[p]
  /\ Write({p}, hashes, "run")
  /\ left' = left \ {<<p, "content">>}
  /\ UNCHANGED <<mode, start, gateVars, agentVars, phase, good, leaked>>

RestoreAbsence(p) ==
  /\ phase = "restore"
  /\ left \subseteq tombs
  /\ \E s \in Spellings : <<p, s>> \in left /\ left' = left \ {<<p, s>>}
  /\ Write({p}, [q \in Paths |-> Absent], "run")
  /\ UNCHANGED <<mode, start, gateVars, agentVars, phase, good, leaked>>

\* An unreadable blob, or a file that cannot be replaced or unlinked.
RestoreFails(r) ==
  /\ phase = "restore"
  /\ r \in left
  /\ r \in tombs => left \subseteq tombs
  /\ left' = left \ {r}
  /\ good' = FALSE
  /\ UNCHANGED <<mode, tree, start, gateVars, agentVars, phase, leaked, maker>>

Restored ==
  /\ phase = "restore"
  /\ left = {}
  /\ phase' = "undone"
  /\ UNCHANGED <<mode, tree, start, gateVars, agentVars, left, good, leaked, maker>>

Dispatch(a) ==
  \/ Begin(a)
  \/ BeforeWrite(a, {}, TRUE)
  \/ HandlerRefuses(a)
  \/ \E new \in [Paths -> Versions] : HandlerWrites(a, new)
  \/ \E new \in [Paths -> Versions] : HandlerFails(a, new)
  \/ VerifyKeeps(a)
  \/ VerifyRollsBack(a)
  \/ Confirm(a, TRUE)
  \/ Release(a)

Restoring ==
  \/ Undo
  \/ \E p \in Paths : RestoreContent(p) \/ RestoreAbsence(p)
  \/ \E r \in Records : RestoreFails(r)
  \/ Restored

Next == (\E a \in Agents : Dispatch(a)) \/ EvictedElsewhere \/ Restoring

Spec == Init /\ [][Next]_vars

(***************************************************************************)
(* The same with the user, or a bash command of the agent, editing files   *)
(* no write tool is busy with.                                             *)
(***************************************************************************)
Outside(p, v) ==
  /\ phase = "run"
  /\ owner[p] = NoAgent
  /\ v # tree[p]
  /\ Write({p}, [q \in Paths |-> v], "outside")
  /\ UNCHANGED <<mode, start, gateVars, agentVars, undoVars, leaked>>

NextShared == Next \/ \E p \in Paths, v \in Versions : Outside(p, v)

SpecShared == Init /\ [][NextShared]_vars

\* And with a store that cannot write some blobs, or the payload itself.
NextFaulty ==
  \/ NextShared
  \/ \E a \in Agents, bad \in SUBSET Paths, saved \in BOOLEAN : BeforeWrite(a, bad, saved)
  \/ \E a \in Agents : Confirm(a, FALSE)

SpecFaulty == Init /\ [][NextFaulty]_vars

(***************************************************************************)
(* Properties.                                                             *)
(***************************************************************************)
\* When restore() reports success, every file is back as the run found it,
\* whatever the agents wrote, in whatever order, refused and rolled-back
\* writes included.  A full snapshot does not delete what the run created,
\* and a file left by a failed write was never recorded.
UndoReturnsToStart ==
  phase = "undone" /\ good =>
    \A p \in Paths \ leaked :
      tree[p] = start[p] \/ (mode = "full" /\ start[p] = Absent)

\* The first record of a path decides what Undo does to it: whatever is
\* captured later, by whichever agent, a path to be put back stays one with
\* the same content, and a path to be deleted stays one.  A file created by
\* the first write of a run and edited later has two records, and it is the
\* order of restore() that makes the first of them decide.
FirstRecordDecides ==
  [][\A p \in Paths : Recorded(p) => Recorded(p)' /\ Record(p)' = Record(p)]_vars

\* First seen wins, over contents and tombstones together: a path that is
\* tombstoned is not captured as content later, nor one that was captured
\* tombstoned (extend() says so; create()'s spelling refutes it).
FirstSeenWins ==
  [][\A p \in Paths : Recorded(p) =>
       hashes'[p] = hashes[p] /\ (Tombstoned(p)' <=> Tombstoned(p))]_vars

\* A tombstone, which Undo acts on by deleting, is made only for a file that
\* a write of this run brought into being.
TombstonesAreRunCreations ==
  [][\A t \in tombs' \ tombs : maker[t[1]] = "run"]_vars
==============================================================================
