----------------------------- MODULE FlockFiles -----------------------------
(***************************************************************************)
(* A lock file of several processes and the sweep of old lock files        *)
(* (common/file_lock.py, with fcntl.flock).                                *)
(*                                                                         *)
(* A lock belongs to an inode, a name may be unlinked and made anew: who   *)
(* opened the name before holds, or waits for, an inode no one else will   *)
(* find.  The sweep opens an old file, tries its lock, compares the inode  *)
(* of the name and unlinks the name with the lock in hand.                 *)
(***************************************************************************)
EXTENDS Naturals, FiniteSets

CONSTANTS Users,      \* processes that take the lock
          Sweepers,   \* processes that sweep the directory at their start
          MaxAge,     \* in ticks
          MaxClock, MaxInodes   \* bounds

ASSUME BoundAssumption ==
  MaxAge \in Nat /\ MaxClock \in Nat /\ MaxInodes \in Nat \ {0}

VARIABLES
  clock,
  name,     \* the inode the file's name leads to, NoInode when there is none
  last,     \* the inode made last
  empty,    \* the inodes a sweep made and no user has opened yet
  mtime,    \* of each inode: the tick of its last change
  used,     \* of each inode: the tick of the last opening by a user
  holder,   \* of each inode: who has its lock
  pc,       \* of each process: its step
  fd        \* of each process: the inode it has open

vars == <<clock, name, last, empty, mtime, used, holder, pc, fd>>

NoInode == 0
Nobody == "nobody"
Inodes == 1 .. MaxInodes
Processes == Users \cup Sweepers

ASSUME ProcessAssumption == Users \cap Sweepers = {} /\ Nobody \notin Processes

\* The name may exist from an earlier session.
Init ==
  /\ clock = 0
  /\ name \in {NoInode, 1} /\ last = 1 /\ empty = {}
  /\ mtime = [i \in Inodes |-> 0] /\ used = [i \in Inodes |-> 0]
  /\ holder = [i \in Inodes |-> Nobody]
  /\ pc = [p \in Processes |-> "idle"]
  /\ fd = [p \in Processes |-> NoInode]

Tick ==
  /\ clock < MaxClock /\ clock' = clock + 1
  /\ UNCHANGED <<name, last, empty, mtime, used, holder, pc, fd>>

\* open() makes the file when the name is not there, and changes no other.
Open(p) ==
  IF name # NoInode
  THEN fd' = [fd EXCEPT ![p] = name] /\ UNCHANGED <<name, last>>
  ELSE /\ last < MaxInodes
       /\ last' = last + 1 /\ name' = last + 1
       /\ fd' = [fd EXCEPT ![p] = last + 1]

To(p, step) == pc' = [pc EXCEPT ![p] = step]

\* Slip: closing a descriptor keeps its lock.
CloseLocked(p) == To(p, "idle") /\ fd' = [fd EXCEPT ![p] = NoInode] /\ UNCHANGED holder

\* The end of a process, or of its with block: the descriptor is closed.
Close(p) ==
  /\ To(p, "idle")
  /\ fd' = [fd EXCEPT ![p] = NoInode]
  /\ holder' = [i \in Inodes |-> IF holder[i] = p THEN Nobody ELSE holder[i]]

(***************************************************************************)
(* cross_process_flock                                                     *)
(***************************************************************************)
\* The one byte is written when the file is empty, and only then.
OpenLock(p) ==
  /\ pc[p] = "idle" /\ Open(p) /\ To(p, "wait")
  /\ used' = [used EXCEPT ![fd'[p]] = clock]
  /\ IF name = NoInode \/ name \in empty
     THEN mtime' = [mtime EXCEPT ![fd'[p]] = clock]
     ELSE UNCHANGED mtime
  /\ empty' = empty \ {fd'[p]}
  /\ UNCHANGED <<clock, holder>>

\* The file cannot be opened: the caller goes on without a lock.
Degrade(p) ==
  /\ pc[p] = "idle" /\ To(p, "within")
  /\ UNCHANGED <<clock, name, last, empty, mtime, used, holder, fd>>

Lock(p) ==
  /\ pc[p] = "wait" /\ holder[fd[p]] = Nobody
  /\ holder' = [holder EXCEPT ![fd[p]] = p]
  /\ To(p, "within")
  /\ UNCHANGED <<clock, name, last, empty, mtime, used, fd>>

Unlock(p) ==
  /\ pc[p] \in {"wait", "within"} /\ Close(p)
  /\ UNCHANGED <<clock, name, last, empty, mtime, used>>

(***************************************************************************)
(* sweep_stale_lock_files                                                  *)
(***************************************************************************)
SweepStat(p) ==
  /\ pc[p] = "idle" /\ name # NoInode /\ clock - mtime[name] >= MaxAge
  /\ To(p, "probe")
  /\ UNCHANGED <<clock, name, last, empty, mtime, used, holder, fd>>

ProbeOpen(p) ==
  /\ pc[p] = "probe" /\ Open(p) /\ To(p, "try")
  /\ IF name = NoInode
     THEN mtime' = [mtime EXCEPT ![fd'[p]] = clock] /\ empty' = empty \cup {fd'[p]}
     ELSE UNCHANGED <<mtime, empty>>
  /\ UNCHANGED <<clock, used, holder>>

TryLock(p) ==
  /\ pc[p] = "try"
  /\ IF holder[fd[p]] = Nobody
     THEN /\ holder' = [holder EXCEPT ![fd[p]] = p]
          /\ To(p, "compare") /\ UNCHANGED fd
     ELSE Close(p)
  /\ UNCHANGED <<clock, name, last, empty, mtime, used>>

\* Slip: whoever has the lock need not look at the name.
CompareNothing(p) ==
  /\ pc[p] = "compare" /\ To(p, "unlink")
  /\ UNCHANGED <<clock, name, last, empty, mtime, used, holder, fd>>

\* The lock must be that of the inode the name leads to.
Compare(p) ==
  /\ pc[p] = "compare"
  /\ IF name = fd[p] THEN To(p, "unlink") /\ UNCHANGED <<fd, holder>> ELSE Close(p)
  /\ UNCHANGED <<clock, name, last, empty, mtime, used>>

Unlink(p) ==
  /\ pc[p] = "unlink" /\ name' = NoInode /\ To(p, "close")
  /\ UNCHANGED <<clock, last, empty, mtime, used, holder, fd>>

EndProbe(p) ==
  /\ pc[p] # "idle" /\ Close(p)
  /\ UNCHANGED <<clock, name, last, empty, mtime, used>>

Next ==
  \/ Tick
  \/ \E p \in Users : OpenLock(p) \/ Degrade(p) \/ Lock(p) \/ Unlock(p)
  \/ \E p \in Sweepers :
       \/ SweepStat(p) \/ ProbeOpen(p) \/ TryLock(p) \/ Compare(p) \/ Unlink(p)
       \/ EndProbe(p)

Spec == Init /\ [][Next]_vars

(***************************************************************************)
(* Properties                                                              *)
(***************************************************************************)
Ticks == 0 .. MaxClock

\* Types; who has a lock has its inode open: no lock outlives its descriptor.
TypeOK ==
  /\ clock \in Ticks /\ name \in 0 .. last /\ last \in Inodes
  /\ empty \subseteq Inodes /\ mtime \in [Inodes -> Ticks] /\ used \in [Inodes -> Ticks]
  /\ holder \in [Inodes -> Processes \cup {Nobody}]
  /\ pc \in [Processes -> {"idle", "wait", "within", "probe", "try", "compare",
                           "unlink", "close"}]
  /\ fd \in [Processes -> 0 .. last]
  /\ \A i \in Inodes : holder[i] # Nobody => fd[holder[i]] = i

\* The sweep takes away no name whose lock a user has, whatever other sweeps and
\* users unlink and make in between.
SweepLeavesHeld ==
  [][name # NoInode /\ name' # name => holder[name] \notin Users]_vars

\* "An actively used lock file is re-opened recently": what is taken for old was
\* not opened by a user for as long.
OldMeansUnused ==
  [][\A p \in Sweepers :
       pc[p] = "idle" /\ pc'[p] = "probe" => clock - used[name] >= MaxAge]_vars

=============================================================================
