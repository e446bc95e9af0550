--------------------------- MODULE CheckpointIndex ---------------------------
(***************************************************************************)
(* CheckpointStore of external_llm/agent/checkpoint_store.py as several    *)
(* processes share it: one directory with a payload file and a blob        *)
(* directory per checkpoint, one index file that lists them, and in each   *)
(* process the list it loaded from the index and has changed since.        *)
(*                                                                         *)
(* The index is rewritten under a cross-process flock; payloads and blobs  *)
(* are written and unlinked outside it.  A process can be killed between   *)
(* any two steps, which frees its flock.  Checkpoints are numbered by      *)
(* their timestamps, the sort key of the index, so the oldest is the least.*)
(***************************************************************************)
EXTENDS Naturals, FiniteSets

CONSTANTS
  Processes,
  MaxCheckpoints, \* count cap of the retention
  MaxBytes,       \* byte cap, with every checkpoint of one unit
  Nobody,
  Clock           \* bound: timestamps handed out

Ids == 1..Clock
None == 0

ASSUME NobodyAssumption == Nobody \notin Processes
ASSUME ClockAssumption == Clock \in Nat
ASSUME CapsAssumption == MaxCheckpoints \in Nat \ {0} /\ MaxBytes \in Nat

VARIABLES
  now,         \* the last timestamp handed out
  payload,     \* checkpoint_<id>.json files
  blobs,       \* blob directories, complete
  index,       \* checkpoints.json, once it exists
  indexed,     \* whether it does
  flock,       \* holder of checkpoints.json.lock
  mem,         \* self.checkpoints of each process
  pc,          \* where each process is
  cur,         \* the checkpoint it is creating or extending
  own,         \* the checkpoint of its run, the one its gate created last
  victim,      \* unlinked, its blobs still to be removed
  done,        \* checkpoints whose create() returned
  gone,        \* checkpoints deleted or evicted
  revived      \* payloads extend() wrote after another process removed them

vars == <<now, payload, blobs, index, indexed, flock, mem, pc, cur, own, victim, done, gone,
          revived>>

Steps == {"off", "ready", "blobs", "payload", "retain", "save", "merged", "extend"}

TypeOK ==
  /\ now \in 0..Clock
  /\ payload \subseteq Ids /\ blobs \subseteq Ids /\ index \subseteq Ids
  /\ done \subseteq Ids /\ gone \subseteq Ids /\ revived \subseteq Ids
  /\ indexed \in BOOLEAN
  /\ flock \in Processes \cup {Nobody}
  /\ mem \in [Processes -> SUBSET Ids]
  /\ pc \in [Processes -> Steps]
  /\ cur \in [Processes -> Ids \cup {None}]
  /\ own \in [Processes -> Ids \cup {None}]
  /\ victim \in [Processes -> Ids \cup {None}]

Init ==
  /\ now = 0
  /\ payload = {} /\ blobs = {} /\ index = {} /\ done = {} /\ gone = {} /\ revived = {}
  /\ indexed = FALSE
  /\ flock = Nobody
  /\ mem = [w \in Processes |-> {}]
  /\ pc = [w \in Processes |-> "off"]
  /\ cur = [w \in Processes |-> None]
  /\ own = [w \in Processes |-> None]
  /\ victim = [w \in Processes |-> None]

Move(w, from, to) == pc[w] = from /\ pc' = [pc EXCEPT ![w] = to]
Settled(w) == victim[w] = None

\* Slip: a missing index is read as a list with a null in it.
LoadNull(w) ==
  /\ Move(w, "off", "ready")
  /\ mem' = [mem EXCEPT ![w] = IF indexed THEN index ELSE {None}]
  /\ UNCHANGED <<now, payload, blobs, index, indexed, flock, cur, victim, done, gone, own, revived>>

\* _load_checkpoints, which rebuilds a missing index from the payloads.
Load(w) ==
  /\ Move(w, "off", "ready")
  /\ mem' = [mem EXCEPT ![w] = IF indexed THEN index ELSE payload]
  /\ UNCHANGED <<now, payload, blobs, index, indexed, flock, cur, victim, done, gone, own, revived>>

(***************************************************************************)
(* create(): timestamp, blobs, payload, then the list and the index.       *)
(***************************************************************************)
Stamp(w) ==
  /\ Move(w, "ready", "blobs")
  /\ now < Clock
  /\ now' = now + 1
  /\ cur' = [cur EXCEPT ![w] = now + 1]
  /\ UNCHANGED <<payload, blobs, index, indexed, flock, mem, victim, done, gone, own, revived>>

CopyBlobs(w) ==
  /\ Move(w, "blobs", "payload")
  /\ blobs' = blobs \cup {cur[w]}
  /\ UNCHANGED <<now, payload, index, indexed, flock, mem, cur, victim, done, gone, own, revived>>

\* Slip: the payload is saved before the contents it names.
SavePayloadFirst(w) ==
  /\ pc[w] \in {"blobs", "payload"}
  /\ pc' = [pc EXCEPT ![w] = "retain"]
  /\ payload' = payload \cup {cur[w]}
  /\ mem' = [mem EXCEPT ![w] = @ \cup {cur[w]}]
  /\ UNCHANGED <<now, blobs, index, indexed, flock, cur, victim, done, gone, own, revived>>

SavePayload(w) ==
  /\ Move(w, "payload", "retain")
  /\ payload' = payload \cup {cur[w]}
  /\ mem' = [mem EXCEPT ![w] = @ \cup {cur[w]}]
  /\ UNCHANGED <<now, blobs, index, indexed, flock, cur, victim, done, gone, own, revived>>

\* The payload cannot be written: create() raises and leaves the blobs.
CreateFails(w) ==
  /\ Move(w, "payload", "ready")
  /\ cur' = [cur EXCEPT ![w] = None]
  /\ UNCHANGED <<now, payload, blobs, index, indexed, flock, mem, victim, done, gone, own, revived>>

(***************************************************************************)
(* _enforce_retention: the oldest of this process's list goes while the    *)
(* list is too long, or the store, orphans included, too large.  create()  *)
(* runs it before the index is locked, _save_checkpoints() again after.    *)
(***************************************************************************)
Over(w) ==
  \/ Cardinality(mem[w]) > MaxCheckpoints
  \/ MaxBytes > 0 /\ mem[w] # {} /\ Cardinality(blobs) > MaxBytes

Unlink(w, i) ==
  /\ payload' = payload \ {i}
  /\ mem' = [mem EXCEPT ![w] = @ \ {i}]
  /\ victim' = [victim EXCEPT ![w] = i]
  /\ gone' = gone \cup {i}

Evict(w) ==
  /\ pc[w] \in {"retain", "merged"}
  /\ Settled(w)
  /\ Over(w)
  /\ \E i \in mem[w] : (\A j \in mem[w] : i <= j) /\ Unlink(w, i)
  /\ UNCHANGED <<now, blobs, index, indexed, flock, pc, cur, done, own, revived>>

\* _remove_blobs, after the payload so that no payload lacks its contents.
RemoveBlobs(w) ==
  /\ ~Settled(w)
  /\ blobs' = blobs \ {victim[w]}
  /\ victim' = [victim EXCEPT ![w] = None]
  /\ UNCHANGED <<now, payload, index, indexed, flock, mem, pc, cur, done, gone, own, revived>>

Retained(w) ==
  /\ Settled(w)
  /\ ~Over(w)
  /\ Move(w, "retain", "save")
  /\ UNCHANGED <<now, payload, blobs, index, indexed, flock, mem, cur, victim, done, gone, own, revived>>

(***************************************************************************)
(* _save_checkpoints: merge what is on disk, retain, write, under flock.   *)
(***************************************************************************)
\* Slip: the list is written over the index as it is.
MergeNothing(w) ==
  /\ Settled(w)
  /\ Move(w, "save", "merged")
  /\ flock = Nobody
  /\ flock' = w
  /\ UNCHANGED <<now, payload, blobs, index, indexed, mem, cur, victim, done, gone, own, revived>>

\* An entry of the index this process does not know is another's addition if
\* its payload is there, and a removed checkpoint otherwise.
Merge(w) ==
  /\ Settled(w)
  /\ Move(w, "save", "merged")
  /\ flock = Nobody
  /\ flock' = w
  /\ mem' = [mem EXCEPT ![w] = @ \cup (index \cap payload)]
  /\ UNCHANGED <<now, payload, blobs, index, indexed, cur, victim, done, gone, own, revived>>

\* Slip: retention is not applied again to the merged list.
WriteUnretained(w) ==
  /\ Settled(w)
  /\ Move(w, "merged", "ready")
  /\ index' = mem[w]
  /\ indexed' = TRUE
  /\ flock' = Nobody
  /\ done' = IF cur[w] = None THEN done ELSE done \cup {cur[w]}
  /\ own' = [own EXCEPT ![w] = IF cur[w] = None THEN @ ELSE cur[w]]
  /\ cur' = [cur EXCEPT ![w] = None]
  /\ UNCHANGED <<now, payload, blobs, mem, victim, gone, revived>>

WriteIndex(w) ==
  /\ Settled(w)
  /\ ~Over(w)
  /\ Move(w, "merged", "ready")
  /\ index' = mem[w]
  /\ indexed' = TRUE
  /\ flock' = Nobody
  /\ done' = IF cur[w] = None THEN done ELSE done \cup {cur[w]}
  /\ own' = [own EXCEPT ![w] = IF cur[w] = None THEN @ ELSE cur[w]]
  /\ cur' = [cur EXCEPT ![w] = None]
  /\ UNCHANGED <<now, payload, blobs, mem, victim, gone, revived>>

\* The index cannot be written: the caller gets the error.
WriteFails(w) ==
  /\ Settled(w)
  /\ ~Over(w)
  /\ Move(w, "merged", "ready")
  /\ flock' = Nobody
  /\ cur' = [cur EXCEPT ![w] = None]
  /\ UNCHANGED <<now, payload, blobs, index, indexed, mem, victim, done, gone, own, revived>>

(***************************************************************************)
(* extend(), which a run calls on its own checkpoint: it reads the         *)
(* payload, adds to it and writes it back, outside the flock.  Another     *)
(* process may unlink it in between, and its contents.                     *)
(***************************************************************************)
ExtendReads(w) ==
  /\ own[w] \in mem[w] \cap payload
  /\ Move(w, "ready", "extend")
  /\ cur' = [cur EXCEPT ![w] = own[w]]
  /\ UNCHANGED <<now, payload, blobs, index, indexed, flock, mem, own, victim, done, gone, revived>>

ExtendWrites(w) ==
  /\ Move(w, "extend", "save")
  /\ payload' = payload \cup {cur[w]}
  /\ revived' = revived \cup ({cur[w]} \ payload)
  /\ cur' = [cur EXCEPT ![w] = None]
  /\ UNCHANGED <<now, blobs, index, indexed, flock, mem, own, victim, done, gone>>

\* Everything is recorded already, or the payload cannot be written back.
ExtendEnds(w) ==
  /\ Move(w, "extend", "ready")
  /\ cur' = [cur EXCEPT ![w] = None]
  /\ UNCHANGED <<now, payload, blobs, index, indexed, flock, mem, own, victim, done, gone, revived>>

(***************************************************************************)
(* delete() of a listed checkpoint, and the process is killed.             *)
(***************************************************************************)
Delete(w, i) ==
  /\ i \in mem[w]
  /\ Move(w, "ready", "save")
  /\ Unlink(w, i)
  /\ UNCHANGED <<now, blobs, index, indexed, flock, cur, done, own, revived>>

Crash(w) ==
  /\ pc[w] # "off"
  /\ pc' = [pc EXCEPT ![w] = "off"]
  /\ mem' = [mem EXCEPT ![w] = {}]
  /\ cur' = [cur EXCEPT ![w] = None]
  /\ own' = [own EXCEPT ![w] = None]
  /\ victim' = [victim EXCEPT ![w] = None]
  /\ flock' = IF flock = w THEN Nobody ELSE flock
  /\ UNCHANGED <<now, payload, blobs, index, indexed, done, gone, revived>>

Step(w) ==
  \/ Load(w)
  \/ Stamp(w) \/ CopyBlobs(w) \/ SavePayload(w) \/ CreateFails(w)
  \/ Evict(w) \/ RemoveBlobs(w) \/ Retained(w)
  \/ Merge(w) \/ WriteIndex(w) \/ WriteFails(w)
  \/ ExtendReads(w) \/ ExtendWrites(w) \/ ExtendEnds(w)
  \/ \E i \in Ids : Delete(w, i)
  \/ Crash(w)

Next == \E w \in Processes : Step(w)

Spec == Init /\ [][Next]_vars

(***************************************************************************)
(* Properties.                                                             *)
(***************************************************************************)
\* A checkpoint that create() returned and that nobody deleted or evicted
\* since is listed and has its payload and contents, whichever processes
\* saved, failed to save or were killed meanwhile: no update is lost.
KeptAreRestorable == done \ gone \subseteq index \cap payload \cap blobs

\* A payload never outlives its contents: killed between any two unlinks or
\* writes of create(), delete() or an eviction, a process leaves orphan blobs,
\* not a checkpoint that cannot be restored.  The only payloads without
\* contents are those that extend() wrote back after another process had
\* removed the checkpoint between its read and its write.
PayloadHasContents == payload \ revived \subseteq blobs

\* Those have their contents too, so that every checkpoint that is listed and
\* has a payload can be restored: delete() and _evict_oldest take the payload
\* first for that, and extend() undoes it.  (Refuted.)
RevivedHasContents == payload \cap revived \subseteq blobs

\* The index never lists more than the retention allows, although each
\* process counts on a list of its own before it merges.
RetentionBounds == Cardinality(index) <= MaxCheckpoints

\* A checkpoint that was listed, and was deleted or evicted and taken off the
\* list, is not listed again by another process.
RemovedStaysOut == [][\A i \in (done \cap gone) \ index : i \notin index']_vars
==============================================================================
