------------------------------ MODULE FileLocks ------------------------------
(***************************************************************************)
(* FileLockManager of external_llm/agent/orchestrator.py: per-file locks   *)
(* shared by every manager of the process through one registry that holds  *)
(* its threading.Lock objects WEAKLY.  A Lock stays in the registry only   *)
(* while somebody refers to it: a thread's local variable between lookup   *)
(* and bookkeeping, or a manager's _held table while a writer is inside.   *)
(*                                                                         *)
(* Keys are numbers, so that sorted() is <.  Key 0 is the worktree mutex   *)
(* of acquire_repo, which is taken before any file and never waited for.   *)
(* A threading.Lock has no owner; holder[l] remembers who took it, so that *)
(* the properties can tell a release by its taker from any other.          *)
(***************************************************************************)
EXTENDS Naturals, FiniteSets

CONSTANTS
  Threads,     \* threads that dispatch write tools
  Managers,    \* FileLockManager instances, one per orchestrator
  ManagerOf,   \* the manager a thread's tool registry was given
  Files,       \* canonical file paths, as positive numbers
  Locks,       \* threading.Lock objects the process can mint
  NoLock, NoThread

WorktreeKey == 0
Keys == Files \cup {WorktreeKey}

ASSUME FilesAssumption == Files \subseteq Nat \ {0}
ASSUME ManagerOfAssumption == ManagerOf \in [Threads -> Managers]
ASSUME NoLockAssumption == NoLock \notin Locks
ASSUME NoThreadAssumption == NoThread \notin Threads

VARIABLES
  registry,    \* _file_locks, the WeakValueDictionary
  held,        \* _held of every manager
  holder,      \* who locked a Lock
  pc,          \* where a thread is in acquire_relevant / release_all
  todo,        \* keys acquire_relevant has still to take
  taken,       \* keys it has taken and not yet given back
  lock,        \* the thread's local variable "lock"
  resetting    \* locks_to_release of a reset() under way

vars == <<registry, held, holder, pc, todo, taken, lock, resetting>>

Phases == {"idle", "lookup", "acquire", "record", "write", "release", "unlock"}

TypeOK ==
  /\ registry \in [Keys -> Locks \cup {NoLock}]
  /\ held \in [Managers -> [Keys -> Locks \cup {NoLock}]]
  /\ holder \in [Locks -> Threads \cup {NoThread}]
  /\ pc \in [Threads -> Phases]
  /\ todo \in [Threads -> SUBSET Keys]
  /\ taken \in [Threads -> SUBSET Keys]
  /\ lock \in [Threads -> Locks \cup {NoLock}]
  /\ resetting \in [Managers -> SUBSET Locks]

Init ==
  /\ registry = [k \in Keys |-> NoLock]
  /\ held = [m \in Managers |-> [k \in Keys |-> NoLock]]
  /\ holder = [l \in Locks |-> NoThread]
  /\ pc = [t \in Threads |-> "idle"]
  /\ todo = [t \in Threads |-> {}]
  /\ taken = [t \in Threads |-> {}]
  /\ lock = [t \in Threads |-> NoLock]
  /\ resetting = [m \in Managers |-> {}]

Move(t, from, to) == pc[t] = from /\ pc' = [pc EXCEPT ![t] = to]

\* Slip: no sort, and each manager visits its paths in a set order of its own.
UnsortedNext(t, k) ==
  /\ k \in todo[t]
  /\ IF ManagerOf[t] = (CHOOSE m \in Managers : TRUE)
     THEN \A j \in todo[t] : k <= j
     ELSE \A j \in todo[t] : k >= j

\* norm_paths is sorted, so the next key is the least one left.
IsNext(t, k) == k \in todo[t] /\ \A j \in todo[t] : k <= j

\* Strong references to a Lock object.
Referenced(l) ==
  \/ \E t \in Threads : lock[t] = l
  \/ \E m \in Managers : l \in resetting[m] \/ \E k \in Keys : held[m][k] = l

Unused(l) == ~Referenced(l) /\ \A k \in Keys : registry[k] # l

(***************************************************************************)
(* acquire_relevant and acquire_repo.                                      *)
(***************************************************************************)
Start(t) ==
  /\ Move(t, "idle", "lookup")
  /\ \E S \in SUBSET Keys : S # {} /\ todo' = [todo EXCEPT ![t] = S]
  /\ UNCHANGED <<registry, held, holder, taken, lock, resetting>>

\* lock = _file_locks.setdefault(key, threading.Lock()), under the meta lock.
FindLock(t, k) ==
  /\ IsNext(t, k)
  /\ registry[k] # NoLock
  /\ Move(t, "lookup", "acquire")
  /\ lock' = [lock EXCEPT ![t] = registry[k]]
  /\ UNCHANGED <<registry, held, holder, todo, taken, resetting>>

\* Slip: the registry entry is assigned instead of setdefault.
MintOver(t, k, l) ==
  /\ IsNext(t, k)
  /\ Unused(l)
  /\ Move(t, "lookup", "acquire")
  /\ registry' = [registry EXCEPT ![k] = l]
  /\ holder' = [holder EXCEPT ![l] = NoThread]
  /\ lock' = [lock EXCEPT ![t] = l]
  /\ UNCHANGED <<held, todo, taken, resetting>>

MintLock(t, k, l) ==
  /\ IsNext(t, k)
  /\ registry[k] = NoLock
  /\ Unused(l)
  /\ Move(t, "lookup", "acquire")
  /\ registry' = [registry EXCEPT ![k] = l]
  /\ holder' = [holder EXCEPT ![l] = NoThread]
  /\ lock' = [lock EXCEPT ![t] = l]
  /\ UNCHANGED <<held, todo, taken, resetting>>

\* Slip: every lock is tried without blocking and the answer is ignored.
AcquireUnchecked(t) ==
  /\ Move(t, "acquire", "record")
  /\ holder' = [holder EXCEPT ![lock[t]] = t]
  /\ UNCHANGED <<registry, held, todo, taken, lock, resetting>>

\* lock.acquire(), blocking for a file and not for the worktree.
Acquire(t) ==
  /\ Move(t, "acquire", "record")
  /\ holder[lock[t]] = NoThread
  /\ holder' = [holder EXCEPT ![lock[t]] = t]
  /\ UNCHANGED <<registry, held, todo, taken, lock, resetting>>

\* acquire_repo returns None; its caller answers 409 and takes nothing.
WorktreeBusy(t) ==
  /\ WorktreeKey \in todo[t]
  /\ Move(t, "acquire", "idle")
  /\ holder[lock[t]] # NoThread
  /\ lock' = [lock EXCEPT ![t] = NoLock]
  /\ todo' = [todo EXCEPT ![t] = {}]
  /\ UNCHANGED <<registry, held, holder, taken, resetting>>

\* Slip: the strong reference is not kept.
RecordWeakly(t, k) ==
  /\ IsNext(t, k)
  /\ Move(t, "record", IF todo[t] = {k} THEN "write" ELSE "lookup")
  /\ todo' = [todo EXCEPT ![t] = @ \ {k}]
  /\ taken' = [taken EXCEPT ![t] = @ \cup {k}]
  /\ lock' = [lock EXCEPT ![t] = NoLock]
  /\ UNCHANGED <<registry, held, holder, resetting>>

\* self._held[key] = lock, under the meta lock; the local reference goes.
Record(t, k) ==
  /\ IsNext(t, k)
  /\ Move(t, "record", IF todo[t] = {k} THEN "write" ELSE "lookup")
  /\ LET m == ManagerOf[t]
     IN  held' = IF held[m][k] = NoLock \/ k = WorktreeKey
                 THEN [held EXCEPT ![m][k] = lock[t]]
                 ELSE held
  /\ todo' = [todo EXCEPT ![t] = @ \ {k}]
  /\ taken' = [taken EXCEPT ![t] = @ \cup {k}]
  /\ lock' = [lock EXCEPT ![t] = NoLock]
  /\ UNCHANGED <<registry, holder, resetting>>

\* Slip: an exception leaves the locks taken so far to reset().
UnwindOrphans(t) ==
  /\ pc[t] \in {"acquire", "record"}
  /\ pc' = [pc EXCEPT ![t] = "idle"]
  /\ lock' = [lock EXCEPT ![t] = NoLock]
  /\ todo' = [todo EXCEPT ![t] = {}]
  /\ taken' = [taken EXCEPT ![t] = {}]
  /\ UNCHANGED <<registry, held, holder, resetting>>

\* An exception (Ctrl-C in lock.acquire, MemoryError in the bookkeeping)
\* unwinds: a lock just taken is released, then every key taken before.
Unwind(t) ==
  /\ pc[t] \in {"acquire", "record"}
  /\ pc' = [pc EXCEPT ![t] = IF taken[t] = {} THEN "idle" ELSE "release"]
  /\ holder' = IF pc[t] = "record"
               THEN [holder EXCEPT ![lock[t]] = NoThread] ELSE holder
  /\ lock' = [lock EXCEPT ![t] = NoLock]
  /\ todo' = [todo EXCEPT ![t] = {}]
  /\ UNCHANGED <<registry, held, taken, resetting>>

(***************************************************************************)
(* The write itself, then release_all from dispatch's finally.             *)
(***************************************************************************)
Finish(t) ==
  /\ Move(t, "write", "release")
  /\ UNCHANGED <<registry, held, holder, todo, taken, lock, resetting>>

\* Files go in the order they were taken, the worktree after all of them.
IsNextBack(t, k) ==
  /\ k \in taken[t]
  /\ \A j \in taken[t] \ {k} : j = WorktreeKey \/ (k # WorktreeKey /\ k <= j)

\* lock = self._held.pop(key, None) or _file_locks.get(key)
Forget(t, k) ==
  /\ IsNextBack(t, k)
  /\ Move(t, "release", "unlock")
  /\ LET m == ManagerOf[t]
     IN  /\ lock' = [lock EXCEPT ![t] =
                       IF held[m][k] # NoLock THEN held[m][k] ELSE registry[k]]
         /\ held' = [held EXCEPT ![m][k] = NoLock]
  /\ taken' = [taken EXCEPT ![t] = @ \ {k}]
  /\ UNCHANGED <<registry, holder, todo, resetting>>

\* lock.release(); nothing to do when no Lock was found, and RuntimeError
\* from an unlocked Lock is swallowed.
Unlock(t) ==
  /\ Move(t, "unlock", IF taken[t] = {} THEN "idle" ELSE "release")
  /\ holder' = IF lock[t] = NoLock THEN holder
               ELSE [holder EXCEPT ![lock[t]] = NoThread]
  /\ lock' = [lock EXCEPT ![t] = NoLock]
  /\ UNCHANGED <<registry, held, todo, taken, resetting>>

(***************************************************************************)
(* The weak registry drops an entry once nothing refers to its Lock.       *)
(***************************************************************************)
\* Slip: a dead entry is left behind under a value of another type.
CollectBadly(k) ==
  /\ registry[k] # NoLock
  /\ ~Referenced(registry[k])
  /\ registry' = [registry EXCEPT ![k] = NoThread]
  /\ UNCHANGED <<held, holder, pc, todo, taken, lock, resetting>>

Collect(k) ==
  /\ registry[k] # NoLock
  /\ ~Referenced(registry[k])
  /\ registry' = [registry EXCEPT ![k] = NoLock]
  /\ UNCHANGED <<held, holder, pc, todo, taken, lock, resetting>>

(***************************************************************************)
(* reset(): an orchestration starts or ends.                               *)
(***************************************************************************)
ResetBegin(m) ==
  /\ resetting[m] = {}
  /\ resetting' = [resetting EXCEPT ![m] = {held[m][k] : k \in Keys} \ {NoLock}]
  /\ held' = [held EXCEPT ![m] = [k \in Keys |-> NoLock]]
  /\ UNCHANGED <<registry, holder, pc, todo, taken, lock>>

ResetRelease(m, l) ==
  /\ l \in resetting[m]
  /\ holder' = [holder EXCEPT ![l] = NoThread]
  /\ resetting' = [resetting EXCEPT ![m] = @ \ {l}]
  /\ UNCHANGED <<registry, held, pc, todo, taken, lock>>

Dispatch(t) ==
  \/ Start(t)
  \/ \E k \in Keys : FindLock(t, k)
  \/ \E k \in Keys, l \in Locks : MintLock(t, k, l)
  \/ Acquire(t)
  \/ WorktreeBusy(t)
  \/ \E k \in Keys : Record(t, k)
  \/ Unwind(t)
  \/ Finish(t)
  \/ \E k \in Keys : Forget(t, k)
  \/ Unlock(t)

\* The writers of orchestrators that are reset only between dispatches; such
\* a reset finds _held empty, so it is no step here.
Next == (\E t \in Threads : Dispatch(t)) \/ (\E k \in Keys : Collect(k))

Spec == Init /\ [][Next]_vars

\* A cancelled run() resets its manager two seconds after it asked the
\* sub-agents to stop, whether or not they are still inside a write.
Reset(m) == ResetBegin(m) \/ \E l \in Locks : ResetRelease(m, l)

NextWithReset == Next \/ \E m \in Managers : Reset(m)

SpecWithReset == Init /\ [][NextWithReset]_vars

(***************************************************************************)
(* Properties.                                                             *)
(***************************************************************************)
Owns(t, k) == k \in taken[t]

\* Two dispatches never write the same file, nor hold the worktree, at the
\* same time, whichever managers they belong to (FileLockManager).
MutualExclusion ==
  \A k \in Keys : \A t, u \in Threads : Owns(t, k) /\ Owns(u, k) => t = u

\* While a writer is inside, the registry still names the very Lock it took,
\* so a newcomer waits on that Lock instead of minting a second one: the
\* strong reference in _held is what keeps the weak entry alive.
InsideIsRegistered ==
  \A t \in Threads, k \in Keys :
    Owns(t, k) => /\ registry[k] \in Locks
                  /\ held[ManagerOf[t]][k] = registry[k]
                  /\ holder[registry[k]] = t

\* Taking several files in sorted order, with the worktree first and never
\* waited for, leaves no cycle of waiters: while dispatches are under way, at
\* least one of them is not blocked in lock.acquire().
Blocked(t) ==
  /\ pc[t] = "acquire"
  /\ holder[lock[t]] # NoThread
  /\ WorktreeKey \notin todo[t]

NeverAllBlocked ==
  LET busy == {t \in Threads : pc[t] # "idle"}
  IN  busy # {} => \E t \in busy : ~Blocked(t)

\* Reset or not, exceptions or not, no Lock is left locked behind: when no
\* dispatch and no reset is under way, whoever comes next can take any key.
IdleMeansFree ==
  (\A t \in Threads : pc[t] = "idle") /\ (\A m \in Managers : resetting[m] = {})
    => \A k \in Keys : registry[k] # NoLock => holder[registry[k]] = NoThread

\* A Lock is unlocked only by the thread that locked it, or by reset() of
\* that thread's own manager: one orchestrator never frees another's lock.
Acts(m) ==
  \/ resetting'[m] # resetting[m]
  \/ \E t \in Threads : ManagerOf[t] = m /\ pc'[t] # pc[t]

ForeignLockNeverReleased ==
  [][\A l \in Locks :
       holder[l] # NoThread /\ holder'[l] = NoThread => Acts(ManagerOf[holder[l]])]_vars

\* The managers together implement one table of key owners.
OwnerOf(k) ==
  IF \E t \in Threads : Owns(t, k)
  THEN CHOOSE t \in Threads : Owns(t, k) ELSE NoThread

Table == INSTANCE PathLocks WITH
  Writers <- Threads, NoWriter <- NoThread, owner <- [k \in Keys |-> OwnerOf(k)]

ImplementsPathLocks == Table!Spec
==============================================================================
