-------------------------- MODULE FailurePatterns --------------------------
(***************************************************************************)
(* The failure counts that sessions share in .asicode/failure_patterns.json*)
(* (agent/failure_pattern_store.py).                                       *)
(*                                                                         *)
(* Each process keeps the patterns in memory beside a baseline, the counts *)
(* it last saw on disk, and adds to the file what it counted since.  A     *)
(* write is a read, a merge and a rename under a lock file; a read and the *)
(* read of a deletion take no lock.  A pattern that is absent counts 0: a  *)
(* present one counts at least 1.                                          *)
(***************************************************************************)
EXTENDS Naturals, FiniteSets

CONSTANTS Processes, Keys,
          FlushInterval,  \* records between two writes
          MaxPatterns,    \* cap of the file
          MaxRecords,     \* bound: records of a key
          MaxCount,       \* bound: a count
          MaxDeletions    \* bound: deletions by the user

SizeAssumption ==
  /\ {FlushInterval, MaxPatterns} \subseteq Nat \ {0}
  /\ {MaxRecords, MaxCount, MaxDeletions} \subseteq Nat
  /\ IsFiniteSet(Processes) /\ IsFiniteSet(Keys)

VARIABLES
  disk,     \* the counts in the file
  life,     \* of each process: "live" or "gone"
  loaded,   \* of each process: whether it has the patterns in memory (_cache)
  mem,      \* of each process: the counts in memory
  base,     \* of each process: _baseline
  dirty,    \* of each process: records since its last write
  pc,       \* of each process: "idle", "read" or "save" of a deletion
  told,     \* records made of each key, without those a kill took
  deleted,  \* keys the user deleted, ever
  deletions,
  lapses    \* "decayed" once an old count was gone, "failed" once a write was,
            \* "evicted" once the cap left a pattern out

vars ==
  <<disk, life, loaded, mem, base, dirty, pc, told, deleted, deletions, lapses>>
users == <<told, deleted, deletions>>

None == [k \in Keys |-> 0]
Present(d) == {k \in Keys : d[k] > 0}
Bigger(a, b) == IF a > b THEN a ELSE b

Init ==
  /\ disk = None
  /\ life = [p \in Processes |-> "live"]
  /\ loaded = [p \in Processes |-> FALSE]
  /\ mem = [p \in Processes |-> None] /\ base = [p \in Processes |-> None]
  /\ dirty = [p \in Processes |-> 0]
  /\ pc = [p \in Processes |-> "idle"]
  /\ told = None /\ deleted = {} /\ deletions = 0 /\ lapses = {}

Ready(p) == life[p] = "live" /\ pc[p] = "idle"

\* Slip: the larger of the two counts.
MergeLarger(d, m, b) == [k \in Keys |-> Bigger(d[k], m[k])]

\* _merge_max: what the process counted since its baseline is added to the file;
\* a count below its baseline has decayed, and what others added is added to it.
Merge(d, m, b) ==
  [k \in Keys |->
     IF m[k] = 0 \/ d[k] = 0 THEN d[k] + m[k]
     ELSE IF m[k] >= b[k] THEN d[k] + (m[k] - b[k])
     ELSE m[k] + Bigger(0, d[k] - b[k])]

\* What the file keeps: all, or at the cap some of the better patterns.
Kept(d) ==
  IF Cardinality(Present(d)) <= MaxPatterns THEN {Present(d)}
  ELSE {ks \in SUBSET Present(d) : ks # {} /\ Cardinality(ks) <= MaxPatterns}

Only(d, ks) == [k \in Keys |-> IF k \in ks THEN d[k] ELSE 0]

\* The new file takes the place of the old one, or the write fails, which is
\* logged and otherwise taken for done.
Write(counts, ks, before) ==
  LET out == IF ks = Present(counts) THEN {} ELSE {"evicted"} IN
  \/ disk' = Only(counts, ks) /\ lapses' = before \cup out
  \/ UNCHANGED disk /\ lapses' = before \cup out \cup {"failed"}

\* _save_unsafe: the memory holds everything, file and baseline what is kept.
Save(p, counts, before) ==
  /\ \E ks \in Kept(counts) :
       /\ Write(counts, ks, before)
       /\ base' = [base EXCEPT ![p] = Only(counts, ks)]
  /\ mem' = [mem EXCEPT ![p] = counts]
  /\ loaded' = [loaded EXCEPT ![p] = TRUE]
  /\ dirty' = [dirty EXCEPT ![p] = 0]
  /\ \A k \in Keys : counts[k] <= MaxCount

\* The memory and the baseline, read from the file when there is no memory yet.
Memory(p) == IF loaded[p] THEN mem[p] ELSE disk
Baseline(p) == IF loaded[p] THEN base[p] ELSE disk

(***************************************************************************)
(* Recording and recalling                                                 *)
(***************************************************************************)
\* record: the old count, decayed or not, and one; every FlushInterval-th
\* record writes.
Record(p, k, gone) ==
  LET m == [Memory(p) EXCEPT ![k] = IF gone THEN 1 ELSE @ + 1]
      before == IF gone THEN lapses \cup {"decayed"} ELSE lapses
  IN
  /\ Ready(p) /\ told[k] < MaxRecords /\ m[k] <= MaxCount
  /\ told' = [told EXCEPT ![k] = @ + 1]
  /\ IF dirty[p] + 1 >= FlushInterval
     THEN Save(p, Merge(disk, m, Baseline(p)), before)
     ELSE /\ mem' = [mem EXCEPT ![p] = m]
          /\ base' = [base EXCEPT ![p] = Baseline(p)]
          /\ loaded' = [loaded EXCEPT ![p] = TRUE]
          /\ dirty' = [dirty EXCEPT ![p] = @ + 1]
          /\ lapses' = before
          /\ UNCHANGED disk
  /\ UNCHANGED <<life, pc, deleted, deletions>>

\* recall_for past its refresh time: the file is read and merged into memory.
Recall(p) ==
  /\ Ready(p) /\ Present(disk) # {}
  /\ mem' = [mem EXCEPT ![p] = Merge(disk, @, base[p])]
  /\ base' = [base EXCEPT ![p] = disk]
  /\ loaded' = [loaded EXCEPT ![p] = TRUE]
  /\ \A k \in Keys : mem'[p][k] <= MaxCount
  /\ UNCHANGED <<disk, life, dirty, pc, users, lapses>>

\* ... and an empty file empties a memory with nothing to write.
RecallEmpty(p) ==
  /\ Ready(p) /\ Present(disk) = {} /\ dirty[p] = 0 /\ Present(mem[p]) # {}
  /\ mem' = [mem EXCEPT ![p] = None] /\ base' = [base EXCEPT ![p] = None]
  /\ UNCHANGED <<disk, life, loaded, dirty, pc, users, lapses>>

\* A process ends: at exit it writes what is pending; killed, it does not.
Pending(p, k) == IF mem[p][k] >= base[p][k] THEN mem[p][k] - base[p][k] ELSE 0

Exit(p) ==
  /\ Ready(p) /\ dirty[p] > 0
  /\ Save(p, Merge(disk, mem[p], base[p]), lapses)
  /\ life' = [life EXCEPT ![p] = "gone"]
  /\ UNCHANGED <<pc, users>>

Kill(p) ==
  /\ life[p] = "live"
  /\ life' = [life EXCEPT ![p] = "gone"] /\ pc' = [pc EXCEPT ![p] = "idle"]
  /\ told' = [k \in Keys |-> told[k] - (IF Pending(p, k) > told[k] THEN told[k] ELSE Pending(p, k))]
  /\ mem' = [mem EXCEPT ![p] = None] /\ base' = [base EXCEPT ![p] = None]
  /\ dirty' = [dirty EXCEPT ![p] = 0] /\ loaded' = [loaded EXCEPT ![p] = FALSE]
  /\ UNCHANGED <<disk, deleted, deletions, lapses>>

(***************************************************************************)
(* Deletions by the user: drop, drop_key, prune and clear                  *)
(***************************************************************************)
MayDelete(p) ==
  /\ Ready(p) /\ deletions < MaxDeletions
  /\ deletions' = deletions + 1

\* What is pending is written first, and the memory is thrown away.
BeginDrop(p) ==
  /\ MayDelete(p)
  /\ IF dirty[p] > 0
     THEN LET counts == Merge(disk, mem[p], base[p])
          IN  \E ks \in Kept(counts) : Write(counts, ks, lapses)
     ELSE UNCHANGED <<disk, lapses>>
  /\ \A k \in Keys : disk'[k] <= MaxCount
  /\ mem' = [mem EXCEPT ![p] = None] /\ base' = [base EXCEPT ![p] = None]
  /\ loaded' = [loaded EXCEPT ![p] = FALSE] /\ dirty' = [dirty EXCEPT ![p] = 0]
  /\ pc' = [pc EXCEPT ![p] = "read"]
  /\ UNCHANGED <<life, told, deleted>>

\* The file is read without its lock ...
ReadToDrop(p) ==
  /\ pc[p] = "read"
  /\ mem' = [mem EXCEPT ![p] = disk] /\ base' = [base EXCEPT ![p] = disk]
  /\ loaded' = [loaded EXCEPT ![p] = TRUE]
  /\ pc' = [pc EXCEPT ![p] = IF Present(disk) = {} THEN "idle" ELSE "save"]
  /\ UNCHANGED <<disk, life, dirty, users, lapses>>

\* ... and what is left of it is written over the file.
SaveDropped(p, ks) ==
  /\ pc[p] = "save" /\ ks # {} /\ ks \subseteq Present(mem[p])
  /\ Save(p, Only(mem[p], Keys \ ks), lapses)
  /\ deleted' = deleted \cup ks
  /\ pc' = [pc EXCEPT ![p] = "idle"]
  /\ UNCHANGED <<life, told, deletions>>

Clear(p) ==
  /\ MayDelete(p)
  /\ Save(p, None, lapses)
  /\ deleted' = Keys
  /\ UNCHANGED <<life, pc, told>>

Next ==
  \E p \in Processes :
    \/ Recall(p) \/ RecallEmpty(p) \/ Exit(p) \/ Kill(p)
    \/ BeginDrop(p) \/ ReadToDrop(p) \/ Clear(p)
    \/ \E k \in Keys, gone \in BOOLEAN : Record(p, k, gone)
    \/ \E ks \in SUBSET Keys : SaveDropped(p, ks)

Spec == Init /\ [][Next]_vars

(***************************************************************************)
(* Properties                                                              *)
(***************************************************************************)
Counts == [Keys -> 0 .. MaxCount]

\* Types; the file stays within its cap, and a process within its interval.
TypeOK ==
  /\ disk \in Counts /\ Cardinality(Present(disk)) <= MaxPatterns
  /\ life \in [Processes -> {"live", "gone"}] /\ loaded \in [Processes -> BOOLEAN]
  /\ mem \in [Processes -> Counts] /\ base \in [Processes -> Counts]
  /\ dirty \in [Processes -> 0 .. FlushInterval - 1]
  /\ pc \in [Processes -> {"idle", "read", "save"}]
  /\ told \in [Keys -> 0 .. MaxRecords] /\ deleted \subseteq Keys
  /\ deletions \in 0 .. MaxDeletions /\ lapses \subseteq {"decayed", "failed", "evicted"}

\* The records of k that processes have not written yet, each a process and a
\* number of its own.
PendingRecords(k) ==
  UNION {{p} \X (1 .. Pending(p, k)) : p \in Processes}

OnDiskOrPending(k) == disk[k] + Cardinality(PendingRecords(k))

\* "No lost increments": each record of a key the user did not delete is on disk
\* or pending in one process, whatever the order of writes and refreshes.
NothingLost == \A k \in Keys \ deleted : OnDiskOrPending(k) >= told[k]

\* No record is counted twice.
NothingInvented == \A k \in Keys : disk[k] <= told[k]

\* So it is while nothing is deleted, decays, fails or meets the cap.
RecordsAddUp == deletions = 0 /\ lapses = {} => NothingLost /\ NothingInvented

\* A refresh leaves a process that has nothing to write only with patterns that
\* are on disk: deleted patterns stop being recalled.
RecallFollowsDisk ==
  [][\A p \in Processes :
       Recall(p) /\ dirty[p] = 0 => Present(mem'[p]) \subseteq Present(disk)]_vars

=============================================================================
