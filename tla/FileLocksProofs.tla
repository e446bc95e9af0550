--------------------------- MODULE FileLocksProofs ---------------------------
(***************************************************************************)
(* Mutual exclusion of FileLockManager and its refinement of PathLocks,    *)
(* for any threads, managers and files, as long as no manager is reset     *)
(* while one of its writers is inside (Spec of FileLocks).                 *)
(* With such resets (SpecWithReset): no deadlock, and nothing left locked. *)
(***************************************************************************)
EXTENDS FileLocks, WellFoundedInduction, TLAPS

(***************************************************************************)
(* The inductive invariant.  MutualExclusion is not inductive: a second    *)
(* writer is kept out because the key still names the Lock the first one   *)
(* took, which in turn depends on every reference that keeps the weak      *)
(* registry entry alive at each point of acquire_relevant and release_all. *)
(***************************************************************************)

\* A thread between lookup and bookkeeping works on its least key, under the
\* Lock the registry names for it.
LocalLock ==
  \A t \in Threads :
    /\ pc[t] \in {"acquire", "record"} =>
         /\ lock[t] \in Locks
         /\ \E k \in Keys : IsNext(t, k) /\ registry[k] = lock[t]
    /\ pc[t] = "record" => holder[lock[t]] = t

\* A thread about to unlock has the Lock of a key it no longer owns.
Leaving ==
  \A t \in Threads :
    pc[t] = "unlock" =>
      /\ lock[t] \in Locks
      /\ holder[lock[t]] = t
      /\ \E k \in Keys \ taken[t] : registry[k] = lock[t]

\* One Lock serves one key.
OneKeyPerLock ==
  \A j, k \in Keys : registry[j] = registry[k] /\ registry[j] # NoLock => j = k

\* _held names the keys of writers that are inside, and no others.
HeldIsOwned ==
  \A m \in Managers, k \in Keys :
    held[m][k] # NoLock => \E t \in Threads : ManagerOf[t] = m /\ Owns(t, k)

\* Keys are taken in ascending order.
Ascending == \A t \in Threads : \A j \in taken[t], k \in todo[t] : j < k

\* What a thread has in hand at each point.
InHand ==
  \A t \in Threads :
    /\ pc[t] = "idle" => taken[t] = {}
    /\ pc[t] \in {"idle", "write", "release", "unlock"} => todo[t] = {}

IInv ==
  /\ TypeOK
  /\ InsideIsRegistered
  /\ LocalLock
  /\ Leaving
  /\ OneKeyPerLock
  /\ HeldIsOwned
  /\ Ascending
  /\ InHand

USE FilesAssumption, ManagerOfAssumption, NoLockAssumption, NoThreadAssumption

LEMMA InitEstablishes == Init => IInv
  BY DEF Init, IInv, TypeOK, InsideIsRegistered, LocalLock, Leaving,
         OneKeyPerLock, HeldIsOwned, Ascending, InHand, Owns, Phases

LEMMA StartKeeps == \A t \in Threads : IInv /\ Start(t) => IInv'
  BY DEF Start, Move, IInv, TypeOK, InsideIsRegistered, LocalLock, Leaving,
         OneKeyPerLock, HeldIsOwned, Ascending, InHand, Owns, Phases, IsNext

LEMMA FindLockKeeps == \A t \in Threads, k \in Keys : IInv /\ FindLock(t, k) => IInv'
  BY DEF FindLock, Move, IInv, TypeOK, InsideIsRegistered, LocalLock, Leaving,
         OneKeyPerLock, HeldIsOwned, Ascending, InHand, Owns, Phases, IsNext

LEMMA AcquireKeeps == \A t \in Threads : IInv /\ Acquire(t) => IInv'
  BY DEF Acquire, Move, IInv, TypeOK, InsideIsRegistered, LocalLock, Leaving,
         OneKeyPerLock, HeldIsOwned, Ascending, InHand, Owns, Phases, IsNext

LEMMA FinishKeeps == \A t \in Threads : IInv /\ Finish(t) => IInv'
  BY DEF Finish, Move, IInv, TypeOK, InsideIsRegistered, LocalLock, Leaving,
         OneKeyPerLock, HeldIsOwned, Ascending, InHand, Owns, Phases, IsNext

LEMMA MintLockKeeps == \A t \in Threads, k \in Keys, l \in Locks : IInv /\ MintLock(t, k, l) => IInv'
  BY DEF MintLock, Move, Unused, Referenced, IInv, TypeOK, InsideIsRegistered, LocalLock, Leaving,
         OneKeyPerLock, HeldIsOwned, Ascending, InHand, Owns, Phases, IsNext

\* The worktree is the least key, so a thread that gives up on it has taken
\* nothing.
LEMMA WorktreeBusyKeeps == \A t \in Threads : IInv /\ WorktreeBusy(t) => IInv'
<1> SUFFICES ASSUME NEW t \in Threads, IInv, WorktreeBusy(t)
             PROVE  IInv'
  OBVIOUS
<1>1. \A k \in Keys : k \in Nat
  BY DEF Keys, WorktreeKey
<1>2. taken[t] = {}
  <2>1. \A j \in taken[t] : j < WorktreeKey
    BY DEF IInv, Ascending, WorktreeBusy
  <2>2. taken[t] \subseteq Keys
    BY DEF IInv, TypeOK
  <2> QED
    BY <1>1, <2>1, <2>2 DEF WorktreeKey
<1> QED
  BY <1>2 DEF WorktreeBusy, Move, IInv, TypeOK, InsideIsRegistered, LocalLock,
      Leaving, OneKeyPerLock, HeldIsOwned, Ascending, InHand, Owns, Phases, IsNext

LEMMA RecordFacts ==
  \A t \in Threads, k \in Keys : IInv /\ Record(t, k) =>
    /\ lock[t] \in Locks /\ registry[k] = lock[t] /\ holder[lock[t]] = t
    /\ k \in todo[t] /\ k \notin taken[t]
<1> SUFFICES ASSUME NEW t \in Threads, NEW k \in Keys, IInv, Record(t, k)
             PROVE  /\ lock[t] \in Locks /\ registry[k] = lock[t] /\ holder[lock[t]] = t
                    /\ k \in todo[t] /\ k \notin taken[t]
  OBVIOUS
<1>1. PICK j \in Keys : IsNext(t, j) /\ registry[j] = lock[t]
  BY DEF IInv, LocalLock, Record, Move
<1>2. j = k
  BY <1>1 DEF Record, IsNext, Keys, WorktreeKey
<1>3. lock[t] \in Locks /\ registry[k] = lock[t] /\ holder[lock[t]] = t
  BY <1>1, <1>2 DEF IInv, LocalLock, Record, Move
<1>4. k \in todo[t]
  BY DEF Record, IsNext
<1>5. k \notin taken[t]
  <2>1. k \in taken[t] => k < k
    BY <1>4 DEF IInv, Ascending
  <2>2. k \in Nat
    BY DEF Keys, WorktreeKey
  <2> QED
    BY <2>1, <2>2
<1> QED
  BY <1>3, <1>4, <1>5

LEMMA RecordKeeps == \A t \in Threads, k \in Keys : IInv /\ Record(t, k) => IInv'
<1> SUFFICES ASSUME NEW t \in Threads, NEW k \in Keys, IInv, Record(t, k)
             PROVE  IInv'
  OBVIOUS
<1> DEFINE m == ManagerOf[t]
<1>1. m \in Managers
  OBVIOUS
<1>2. lock[t] \in Locks /\ registry[k] = lock[t] /\ holder[lock[t]] = t
  BY RecordFacts
<1>3. k \in todo[t] /\ k \notin taken[t]
  BY RecordFacts
<1>4. held[m][k] = NoLock
  <2> SUFFICES ASSUME held[m][k] # NoLock
               PROVE  FALSE
    OBVIOUS
  <2>1. PICK u \in Threads : Owns(u, k)
    BY <1>1 DEF IInv, HeldIsOwned
  <2>2. holder[registry[k]] = u
    BY <2>1 DEF IInv, InsideIsRegistered
  <2> QED
    BY <1>2, <1>3, <2>1, <2>2 DEF Owns
<1>5. held' = [held EXCEPT ![m][k] = lock[t]]
  BY <1>4 DEF Record
<1>6. TypeOK'
  BY <1>1, <1>2, <1>5 DEF Record, Move, IInv, TypeOK, Phases
<1>7. InsideIsRegistered'
  <2> SUFFICES ASSUME NEW u \in Threads, NEW j \in Keys, Owns(u, j)'
               PROVE  /\ registry[j] \in Locks
                      /\ held'[ManagerOf[u]][j] = registry[j]
                      /\ holder[registry[j]] = u
    BY DEF InsideIsRegistered, Record
  <2>1. CASE u = t /\ j = k
    BY <1>1, <1>2, <1>5, <2>1 DEF IInv, TypeOK
  <2>2. CASE ~(u = t /\ j = k)
    <3>1. Owns(u, j)
      BY <2>2 DEF Owns, Record, IInv, TypeOK
    <3>2. j # k
      BY <1>2, <2>2, <3>1 DEF IInv, InsideIsRegistered
    <3>3. held'[ManagerOf[u]][j] = held[ManagerOf[u]][j]
      BY <1>1, <1>5, <3>2 DEF IInv, TypeOK
    <3> QED
      BY <3>1, <3>3 DEF IInv, InsideIsRegistered
  <2> QED
    BY <2>1, <2>2
<1>8. LocalLock' /\ Leaving' /\ OneKeyPerLock'
  BY DEF Record, Move, IInv, TypeOK, LocalLock, Leaving, OneKeyPerLock, IsNext, Phases
<1>9. HeldIsOwned'
  <2> SUFFICES ASSUME NEW n \in Managers, NEW j \in Keys, held'[n][j] # NoLock
               PROVE  \E u \in Threads : ManagerOf[u] = n /\ Owns(u, j)'
    BY DEF HeldIsOwned
  <2>1. CASE n = m /\ j = k
    BY <2>1 DEF Owns, Record, IInv, TypeOK
  <2>2. CASE ~(n = m /\ j = k)
    <3>1. held[n][j] # NoLock
      BY <1>1, <1>5, <2>2 DEF IInv, TypeOK
    <3>2. PICK u \in Threads : ManagerOf[u] = n /\ Owns(u, j)
      BY <3>1 DEF IInv, HeldIsOwned
    <3> QED
      BY <3>2 DEF Owns, Record, IInv, TypeOK
  <2> QED
    BY <2>1, <2>2
<1>10. Ascending'
  <2> SUFFICES ASSUME NEW u \in Threads, NEW i \in taken'[u], NEW j \in todo'[u]
               PROVE  i < j
    BY DEF Ascending
  <2>1. CASE u = t
    <3>1. j \in todo[t] /\ j # k /\ k <= j
      BY <2>1 DEF Record, IsNext, IInv, TypeOK
    <3>2. i \in taken[t] \/ i = k
      BY <2>1 DEF Record, IInv, TypeOK
    <3>3. j \in Keys
      BY <3>1 DEF IInv, TypeOK
    <3>4. k < j
      BY <3>1, <3>3 DEF Keys, WorktreeKey
    <3> QED
      BY <3>1, <3>2, <3>4 DEF IInv, Ascending
  <2>2. CASE u # t
    BY <2>2 DEF Record, IInv, TypeOK, Ascending
  <2> QED
    BY <2>1, <2>2
<1>11. InHand'
  BY DEF Record, Move, IInv, TypeOK, InHand, Phases
<1> QED
  BY <1>6, <1>7, <1>8, <1>9, <1>10, <1>11 DEF IInv

\* The Lock given back on the way out belongs to a key not yet taken, hence,
\* with one key per Lock, to none of the keys taken.
LEMMA UnwindKeeps == \A t \in Threads : IInv /\ Unwind(t) => IInv'
<1> SUFFICES ASSUME NEW t \in Threads, IInv, Unwind(t)
             PROVE  IInv'
  OBVIOUS
<1>1. PICK k \in Keys : IsNext(t, k) /\ registry[k] = lock[t]
  BY DEF Unwind, IInv, LocalLock
<1>2. lock[t] \in Locks /\ k \notin taken[t]
  BY <1>1 DEF Unwind, IInv, LocalLock, Ascending, IsNext, Keys, WorktreeKey
<1>3. holder' = holder \/ (holder' = [holder EXCEPT ![lock[t]] = NoThread]
                            /\ holder[lock[t]] = t)
  BY DEF Unwind, IInv, LocalLock
<1>4. TypeOK' /\ OneKeyPerLock' /\ HeldIsOwned' /\ Ascending' /\ InHand'
  BY <1>2 DEF Unwind, IInv, TypeOK, OneKeyPerLock, HeldIsOwned, Ascending,
              InHand, Owns, Phases
<1>5. InsideIsRegistered'
  BY <1>1, <1>2, <1>3 DEF Unwind, IInv, TypeOK, InsideIsRegistered,
                          OneKeyPerLock, Owns
<1>6. LocalLock'
  BY <1>2, <1>3 DEF Unwind, IInv, TypeOK, LocalLock, IsNext
<1>7. Leaving'
  BY <1>2, <1>3 DEF Unwind, IInv, TypeOK, Leaving, Phases
<1> QED
  BY <1>4, <1>5, <1>6, <1>7 DEF IInv

LEMMA ForgetKeeps == \A t \in Threads, k \in Keys : IInv /\ Forget(t, k) => IInv'
  BY DEF Forget, IsNextBack, Move, IInv, TypeOK, InsideIsRegistered, LocalLock, Leaving,
         OneKeyPerLock, HeldIsOwned, Ascending, InHand, Owns, Phases, IsNext

LEMMA UnlockKeeps == \A t \in Threads : IInv /\ Unlock(t) => IInv'
  BY DEF Unlock, Move, IInv, TypeOK, InsideIsRegistered, LocalLock, Leaving,
         OneKeyPerLock, HeldIsOwned, Ascending, InHand, Owns, Phases, IsNext

LEMMA CollectKeeps == \A k \in Keys : IInv /\ Collect(k) => IInv'
  BY DEF Collect, Referenced, IInv, TypeOK, InsideIsRegistered, LocalLock, Leaving,
         OneKeyPerLock, HeldIsOwned, Ascending, InHand, Owns, Phases, IsNext

(***************************************************************************)
(* The invariant and what follows from it.                                 *)
(***************************************************************************)
LEMMA NextKeeps == IInv /\ [Next]_vars => IInv'
<1> SUFFICES ASSUME IInv, [Next]_vars
             PROVE  IInv'
  OBVIOUS
<1>1. ASSUME NEW t \in Threads, Dispatch(t)
      PROVE  IInv'
  BY <1>1, StartKeeps, FindLockKeeps, MintLockKeeps, AcquireKeeps,
     WorktreeBusyKeeps, RecordKeeps, UnwindKeeps, FinishKeeps, ForgetKeeps,
     UnlockKeeps DEF Dispatch
<1>2. ASSUME NEW k \in Keys, Collect(k)
      PROVE  IInv'
  BY <1>2, CollectKeeps
<1>3. CASE UNCHANGED vars
  BY <1>3 DEF vars, IInv, TypeOK, InsideIsRegistered, LocalLock, Leaving,
      OneKeyPerLock, HeldIsOwned, Ascending, InHand, Owns, IsNext
<1> QED
  BY <1>1, <1>2, <1>3 DEF Next

\* Every variable keeps its type.
THEOREM TypeCorrect == Spec => []TypeOK
<1>1. Spec => []IInv
  BY InitEstablishes, NextKeeps, PTL DEF Spec
<1>2. IInv => TypeOK
  BY DEF IInv
<1> QED
  BY <1>1, <1>2, PTL

\* A writer that is inside is the holder of the Lock its key is registered
\* under (FileLockManager._held against the weak registry).
THEOREM Registered == Spec => []InsideIsRegistered
<1>1. Spec => []IInv
  BY InitEstablishes, NextKeeps, PTL DEF Spec
<1>2. IInv => InsideIsRegistered
  BY DEF IInv
<1> QED
  BY <1>1, <1>2, PTL

LEMMA RegisteredExcludes == InsideIsRegistered => MutualExclusion
  BY DEF InsideIsRegistered, MutualExclusion

\* No two dispatches are inside the same key.
THEOREM Exclusion == Spec => []MutualExclusion
  BY Registered, RegisteredExcludes, PTL

(***************************************************************************)
(* Absence of deadlock, with resets (SpecWithReset).  A reset breaks       *)
(* MutualExclusion, but not the books: a _held entry is the Lock the       *)
(* registry names, and the holder of a registered Lock owns its key, or is *)
(* about to record or to unlock it.  So a blocked thread waits for a key   *)
(* whose owner is under way; were the owner blocked too, it would wait for *)
(* a larger key, and so on for ever.                                       *)
(***************************************************************************)

\* LocalLock without the claim that the thread still holds the Lock.
LookedUp ==
  \A t \in Threads :
    pc[t] \in {"acquire", "record"} =>
      /\ lock[t] \in Locks
      /\ \E k \in Keys : IsNext(t, k) /\ registry[k] = lock[t]

HeldIsRegistered ==
  \A m \in Managers, k \in Keys : held[m][k] # NoLock => held[m][k] = registry[k]

Books ==
  /\ TypeOK
  /\ LookedUp
  /\ HeldIsRegistered
  /\ OneKeyPerLock
  /\ Ascending
  /\ InHand

HolderAccounts ==
  \A k \in Keys, t \in Threads :
    registry[k] \in Locks /\ holder[registry[k]] = t =>
      Owns(t, k) \/ (pc[t] \in {"record", "unlock"} /\ lock[t] = registry[k])

RInv == Books /\ HolderAccounts

LEMMA StartBooks == \A t \in Threads : Books /\ Start(t) => Books'
  BY DEF Start, Move, Books, TypeOK, LookedUp, HeldIsRegistered,
         OneKeyPerLock, Ascending, InHand, Phases, IsNext

LEMMA FindLockBooks == \A t \in Threads, k \in Keys : Books /\ FindLock(t, k) => Books'
  BY DEF FindLock, Move, Books, TypeOK, LookedUp, HeldIsRegistered,
         OneKeyPerLock, Ascending, InHand, Phases, IsNext

LEMMA MintLockBooks ==
  \A t \in Threads, k \in Keys, l \in Locks : Books /\ MintLock(t, k, l) => Books'
<1> SUFFICES ASSUME NEW t \in Threads, NEW k \in Keys, NEW l \in Locks,
                    Books, MintLock(t, k, l)
             PROVE  Books'
  OBVIOUS
<1>1. registry' = [registry EXCEPT ![k] = l] /\ lock' = [lock EXCEPT ![t] = l]
  BY DEF MintLock
<1>2. registry[k] = NoLock /\ \A j \in Keys : registry[j] # l
  BY DEF MintLock, Unused
<1>3. TypeOK' /\ Ascending' /\ InHand'
  BY DEF MintLock, Move, Books, TypeOK, Ascending, InHand, Phases
<1>4. HeldIsRegistered'
  BY <1>1, <1>2 DEF MintLock, Books, TypeOK, HeldIsRegistered
<1>5. OneKeyPerLock'
  BY <1>1, <1>2 DEF Books, TypeOK, OneKeyPerLock
<1>6. LookedUp'
  <2> SUFFICES ASSUME NEW u \in Threads, pc'[u] \in {"acquire", "record"}
               PROVE  /\ lock'[u] \in Locks
                      /\ \E j \in Keys : IsNext(u, j)' /\ registry'[j] = lock'[u]
    BY DEF LookedUp
  <2>1. todo' = todo
    BY DEF MintLock
  <2>2. CASE u = t
    BY <1>1, <2>1, <2>2 DEF MintLock, Books, TypeOK, IsNext
  <2>3. CASE u # t
    <3>1. pc[u] \in {"acquire", "record"} /\ lock'[u] = lock[u]
      BY <1>1, <2>3 DEF MintLock, Move, Books, TypeOK
    <3>2. PICK j \in Keys : IsNext(u, j) /\ registry[j] = lock[u]
      BY <3>1 DEF Books, LookedUp
    <3>3. lock[u] \in Locks /\ j # k
      BY <1>2, <3>1, <3>2 DEF Books, LookedUp
    <3> QED
      BY <1>1, <2>1, <3>1, <3>2, <3>3 DEF Books, TypeOK, IsNext
  <2> QED
    BY <2>2, <2>3
<1> QED
  BY <1>3, <1>4, <1>5, <1>6 DEF Books

LEMMA AcquireBooks == \A t \in Threads : Books /\ Acquire(t) => Books'
  BY DEF Acquire, Move, Books, TypeOK, LookedUp, HeldIsRegistered,
         OneKeyPerLock, Ascending, InHand, Phases, IsNext

LEMMA UnwindBooks == \A t \in Threads : Books /\ Unwind(t) => Books'
  BY DEF Unwind, Books, TypeOK, LookedUp, HeldIsRegistered,
         OneKeyPerLock, Ascending, InHand, Phases, IsNext

LEMMA FinishBooks == \A t \in Threads : Books /\ Finish(t) => Books'
  BY DEF Finish, Move, Books, TypeOK, LookedUp, HeldIsRegistered,
         OneKeyPerLock, Ascending, InHand, Phases, IsNext

LEMMA ForgetBooks == \A t \in Threads, k \in Keys : Books /\ Forget(t, k) => Books'
  BY DEF Forget, IsNextBack, Move, Books, TypeOK, LookedUp, HeldIsRegistered,
         OneKeyPerLock, Ascending, InHand, Phases, IsNext

LEMMA UnlockBooks == \A t \in Threads : Books /\ Unlock(t) => Books'
  BY DEF Unlock, Move, Books, TypeOK, LookedUp, HeldIsRegistered,
         OneKeyPerLock, Ascending, InHand, Phases, IsNext

LEMMA CollectBooks == \A k \in Keys : Books /\ Collect(k) => Books'
  BY DEF Collect, Referenced, Books, TypeOK, LookedUp, HeldIsRegistered,
         OneKeyPerLock, Ascending, InHand, Phases, IsNext

LEMMA ResetBeginBooks == \A m \in Managers : Books /\ ResetBegin(m) => Books'
  BY DEF ResetBegin, Books, TypeOK, LookedUp, HeldIsRegistered,
         OneKeyPerLock, Ascending, InHand, Phases, IsNext

LEMMA ResetReleaseBooks == \A m \in Managers, l \in Locks : Books /\ ResetRelease(m, l) => Books'
  BY DEF ResetRelease, Books, TypeOK, LookedUp, HeldIsRegistered,
         OneKeyPerLock, Ascending, InHand, Phases, IsNext

LEMMA WorktreeBusyBooks == \A t \in Threads : Books /\ WorktreeBusy(t) => Books'
<1> SUFFICES ASSUME NEW t \in Threads, Books, WorktreeBusy(t)
             PROVE  Books'
  OBVIOUS
<1>1. \A k \in Keys : k \in Nat
  BY DEF Keys, WorktreeKey
<1>2. taken[t] = {}
  <2>1. \A j \in taken[t] : j < WorktreeKey
    BY DEF Books, Ascending, WorktreeBusy
  <2>2. taken[t] \subseteq Keys
    BY DEF Books, TypeOK
  <2> QED
    BY <1>1, <2>1, <2>2 DEF WorktreeKey
<1> QED
  BY <1>2 DEF WorktreeBusy, Move, Books, TypeOK, LookedUp, HeldIsRegistered,
      OneKeyPerLock, Ascending, InHand, Phases, IsNext

LEMMA RecordsRegistered ==
  ASSUME NEW t \in Threads, NEW k \in Keys, Books, Record(t, k)
  PROVE  lock[t] \in Locks /\ registry[k] = lock[t]
<1>1. PICK j \in Keys : IsNext(t, j) /\ registry[j] = lock[t]
  BY DEF Books, LookedUp, Record, Move
<1>2. j = k
  BY <1>1 DEF Record, IsNext, Keys, WorktreeKey
<1> QED
  BY <1>1, <1>2 DEF Books, LookedUp, Record, Move

LEMMA RecordBooks == \A t \in Threads, k \in Keys : Books /\ Record(t, k) => Books'
<1> SUFFICES ASSUME NEW t \in Threads, NEW k \in Keys, Books, Record(t, k)
             PROVE  Books'
  OBVIOUS
<1> DEFINE m == ManagerOf[t]
<1>1. m \in Managers
  OBVIOUS
<1>2. lock[t] \in Locks /\ registry[k] = lock[t]
  BY RecordsRegistered
<1>3. held' = [held EXCEPT ![m][k] = lock[t]] \/ held' = held
  BY DEF Record
<1>4. TypeOK'
  BY <1>1, <1>2, <1>3 DEF Record, Move, Books, TypeOK, Phases
<1>5. HeldIsRegistered'
  BY <1>1, <1>2, <1>3 DEF Record, Books, TypeOK, HeldIsRegistered
<1>6. LookedUp' /\ OneKeyPerLock' /\ InHand'
  BY DEF Record, Move, Books, TypeOK, LookedUp, OneKeyPerLock, InHand, IsNext, Phases
<1>7. Ascending'
  <2> SUFFICES ASSUME NEW u \in Threads, NEW i \in taken'[u], NEW j \in todo'[u]
               PROVE  i < j
    BY DEF Ascending
  <2>1. CASE u = t
    <3>1. j \in todo[t] /\ j # k /\ k <= j
      BY <2>1 DEF Record, IsNext, Books, TypeOK
    <3>2. i \in taken[t] \/ i = k
      BY <2>1 DEF Record, Books, TypeOK
    <3>3. j \in Keys
      BY <3>1 DEF Books, TypeOK
    <3>4. k < j
      BY <3>1, <3>3 DEF Keys, WorktreeKey
    <3> QED
      BY <3>1, <3>2, <3>4 DEF Books, Ascending
  <2>2. CASE u # t
    BY <2>2 DEF Record, Books, TypeOK, Ascending
  <2> QED
    BY <2>1, <2>2
<1> QED
  BY <1>4, <1>5, <1>6, <1>7 DEF Books

LEMMA DispatchAccounts ==
  ASSUME NEW t \in Threads, RInv, Dispatch(t)
  PROVE  HolderAccounts'
<1>1. CASE \/ Start(t) \/ WorktreeBusy(t) \/ Finish(t)
           \/ \E k \in Keys : FindLock(t, k)
  <2>1. /\ pc[t] \notin {"record", "unlock"}
        /\ UNCHANGED <<registry, taken, holder>>
        /\ \A u \in Threads \ {t} : pc'[u] = pc[u] /\ lock'[u] = lock[u]
    BY <1>1 DEF RInv, Books, TypeOK, Start, WorktreeBusy, Finish, FindLock, Move, Phases
  <2> QED
    BY <2>1 DEF RInv, HolderAccounts, Owns
<1>2. CASE Acquire(t)
  BY <1>2 DEF RInv, Books, TypeOK, HolderAccounts, Owns, Acquire, Move, Phases
<1>3. ASSUME NEW k \in Keys, NEW l \in Locks, MintLock(t, k, l)
      PROVE  HolderAccounts'
  BY <1>3 DEF RInv, Books, TypeOK, HolderAccounts, Owns, MintLock, Unused, Move, Phases
<1>4. ASSUME NEW k \in Keys, Record(t, k)
      PROVE  HolderAccounts'
  <2>1. lock[t] \in Locks /\ registry[k] = lock[t]
    BY <1>4, RecordsRegistered DEF RInv
  <2>2. taken' = [taken EXCEPT ![t] = @ \cup {k}] /\ taken \in [Threads -> SUBSET Keys]
    BY <1>4 DEF Record, RInv, Books, TypeOK
  <2>3. \A j \in Keys : registry[j] = lock[t] => j = k
    BY <2>1 DEF RInv, Books, OneKeyPerLock
  <2> QED
    BY <1>4, <2>1, <2>2, <2>3 DEF RInv, Books, TypeOK, HolderAccounts, Owns, Record, Move, Phases
<1>5. CASE Unwind(t)
  <2>1. lock[t] \in Locks
    BY <1>5 DEF Unwind, RInv, Books, LookedUp
  <2> QED
    BY <1>5, <2>1 DEF RInv, Books, TypeOK, HolderAccounts, Owns, Unwind, Phases
<1>6. ASSUME NEW k \in Keys, Forget(t, k)
      PROVE  HolderAccounts'
  <2>1. lock' = [lock EXCEPT ![t] = registry[k]]
    BY <1>6 DEF Forget, RInv, Books, HeldIsRegistered
  <2>2. taken' = [taken EXCEPT ![t] = @ \ {k}] /\ taken \in [Threads -> SUBSET Keys]
    BY <1>6 DEF Forget, RInv, Books, TypeOK
  <2> QED
    BY <1>6, <2>1, <2>2 DEF RInv, Books, TypeOK, HolderAccounts, Owns, Forget, Move, Phases
<1>7. CASE Unlock(t)
  BY <1>7 DEF RInv, Books, TypeOK, HolderAccounts, Owns, Unlock, Move, Phases
<1> QED
  BY <1>1, <1>2, <1>3, <1>4, <1>5, <1>6, <1>7 DEF Dispatch

LEMMA OthersAccount ==
  ASSUME RInv, \/ \E k \in Keys : Collect(k)
               \/ \E m \in Managers : Reset(m)
               \/ UNCHANGED vars
  PROVE  HolderAccounts'
<1>1. CASE \E k \in Keys : Collect(k)
  BY <1>1 DEF RInv, Books, TypeOK, HolderAccounts, Owns, Collect
<1>2. CASE \E m \in Managers : Reset(m)
  BY <1>2 DEF RInv, Books, TypeOK, HolderAccounts, Owns, Reset, ResetBegin, ResetRelease
<1>3. CASE UNCHANGED vars
  BY <1>3 DEF vars, RInv, HolderAccounts, Owns
<1> QED
  BY <1>1, <1>2, <1>3

LEMMA NextBooks == RInv /\ [NextWithReset]_vars => RInv'
<1> SUFFICES ASSUME RInv, [NextWithReset]_vars
             PROVE  RInv'
  OBVIOUS
<1>1. Books
  BY DEF RInv
<1>2. ASSUME NEW t \in Threads, Dispatch(t)
      PROVE  Books'
  BY <1>1, <1>2, StartBooks, FindLockBooks, MintLockBooks, AcquireBooks,
     WorktreeBusyBooks, RecordBooks, UnwindBooks, FinishBooks, ForgetBooks,
     UnlockBooks DEF Dispatch
<1>3. ASSUME NEW k \in Keys, Collect(k)
      PROVE  Books'
  BY <1>1, <1>3, CollectBooks
<1>4. ASSUME NEW m \in Managers, Reset(m)
      PROVE  Books'
  BY <1>1, <1>4, ResetBeginBooks, ResetReleaseBooks DEF Reset
<1>5. ASSUME UNCHANGED vars
      PROVE  Books'
  BY <1>1, <1>5 DEF vars, Books, TypeOK, LookedUp, HeldIsRegistered,
      OneKeyPerLock, Ascending, InHand, IsNext
<1>6. Books'
  BY <1>2, <1>3, <1>4, <1>5 DEF NextWithReset, Next
<1>7. HolderAccounts'
  BY DispatchAccounts, OthersAccount DEF NextWithReset, Next
<1> QED
  BY <1>6, <1>7 DEF RInv

LEMMA InitBooks == Init => RInv
  BY DEF Init, RInv, Books, TypeOK, LookedUp, HeldIsRegistered, OneKeyPerLock,
         Ascending, InHand, HolderAccounts, Phases

\* When no dispatch is under way, every Lock the registry still names is free:
\* whichever way a dispatch ended and whoever was reset meanwhile, nothing that
\* was taken stays locked.
THEOREM NothingLeftLocked == SpecWithReset => []IdleMeansFree
<1>1. SpecWithReset => []RInv
  BY InitBooks, NextBooks, PTL DEF SpecWithReset
<1>2. RInv => IdleMeansFree
  BY DEF RInv, Books, TypeOK, HolderAccounts, InHand, IdleMeansFree, Owns
<1> QED
  BY <1>1, <1>2, PTL

LEMMA LargestExists ==
  ASSUME NEW N \in Nat, NEW W, W \subseteq 0 .. N, W # {}
  PROVE  \E k \in W : \A j \in W : j <= k
<1> DEFINE T == {N - k : k \in W}
<1>1. T \subseteq Nat /\ T # {}
  <2>1. \A k \in W : N - k \in Nat
    OBVIOUS
  <2> QED
    BY <2>1
<1>2. PICK x \in T : \A y \in T : ~ (<<y, x>> \in OpToRel(<, Nat))
  BY <1>1, NatLessThanWellFounded, WFMin
<1>3. \A y \in T : ~ (y < x)
  BY <1>1, <1>2 DEF OpToRel
<1>4. PICK k \in W : x = N - k
  OBVIOUS
<1>5. ASSUME NEW j \in W
      PROVE  j <= k
  <2>1. ~ (N - j < N - k)
    BY <1>3, <1>4
  <2> QED
    BY <2>1
<1> QED
  BY <1>5

\* The owner of what a blocked thread waits for is under way.
LEMMA BlockedAwaits ==
  ASSUME RInv, NEW t \in Threads, Blocked(t)
  PROVE  \E k \in Keys, u \in Threads :
           IsNext(t, k) /\ (Owns(u, k) \/ pc[u] \in {"record", "unlock"})
<1>1. PICK k \in Keys : IsNext(t, k) /\ registry[k] = lock[t]
  BY DEF Blocked, RInv, Books, LookedUp
<1>2. lock[t] \in Locks /\ holder[lock[t]] \in Threads
  BY DEF Blocked, RInv, Books, LookedUp, TypeOK
<1>3. PICK u \in Threads : holder[lock[t]] = u
  BY <1>2
<1> QED
  BY <1>1, <1>2, <1>3 DEF RInv, HolderAccounts

\* Whatever the files (any finite set of them), the threads and the managers,
\* dispatches under way are never all blocked in lock.acquire(), reset or not.
THEOREM NoDeadlock ==
  ASSUME NEW N \in Nat, Files \subseteq 1 .. N
  PROVE  SpecWithReset => []NeverAllBlocked
<1>1. SpecWithReset => []RInv
  BY InitBooks, NextBooks, PTL DEF SpecWithReset
<1>2. RInv => NeverAllBlocked
  <2> SUFFICES ASSUME RInv, NEW t0 \in Threads, pc[t0] # "idle",
                      \A t \in Threads : pc[t] # "idle" => Blocked(t)
               PROVE  FALSE
    BY DEF NeverAllBlocked
  <2> DEFINE W == {k \in Keys : \E t \in Threads : pc[t] # "idle" /\ IsNext(t, k)}
  <2>1. W \subseteq 0 .. N
    <3>1. Keys \subseteq 0 .. N
      <4>1. \A f \in Files : f \in 0 .. N
        OBVIOUS
      <4>2. 0 \in 0 .. N
        OBVIOUS
      <4> QED
        BY <4>1, <4>2 DEF Keys, WorktreeKey
    <3> QED
      BY <3>1
  <2>2. W # {}
    BY BlockedAwaits
  <2>3. PICK k \in W : \A j \in W : j <= k
    BY <2>1, <2>2, LargestExists
  <2>4. PICK t \in Threads : pc[t] # "idle" /\ IsNext(t, k)
    OBVIOUS
  <2>5. PICK u \in Threads : Owns(u, k) \/ pc[u] \in {"record", "unlock"}
    <3>1. PICK j \in Keys, u \in Threads :
            IsNext(t, j) /\ (Owns(u, j) \/ pc[u] \in {"record", "unlock"})
      BY <2>4, BlockedAwaits
    <3>2. j = k
      BY <2>1, <2>4, <3>1 DEF IsNext, Keys, WorktreeKey
    <3> QED
      BY <3>1, <3>2
  <2>6. pc[u] # "idle"
    BY <2>5 DEF RInv, Books, InHand, Owns
  <2>7. PICK j \in Keys : IsNext(u, j)
    BY <2>6, BlockedAwaits
  <2>8. Owns(u, k)
    BY <2>5, <2>6 DEF Blocked
  <2>9. k < j
    BY <2>7, <2>8 DEF RInv, Books, Ascending, Owns, IsNext
  <2>10. j <= k
    BY <2>3, <2>6, <2>7
  <2> QED
    BY <2>1, <2>9, <2>10 DEF Keys, WorktreeKey
<1> QED
  BY <1>1, <1>2, PTL

(***************************************************************************)
(* Refinement: a step that takes or gives back a key is a step of          *)
(* PathLocks, every other step leaves the table of owners alone.           *)
(***************************************************************************)
LEMMA OwnerIsUnique ==
  MutualExclusion => \A t \in Threads, k \in Keys : Owns(t, k) => OwnerOf(k) = t
  BY DEF MutualExclusion, OwnerOf

LEMMA OwnerIsUniqueNext ==
  MutualExclusion' =>
    \A t \in Threads, k \in Keys : Owns(t, k)' => OwnerOf(k)' = t
  BY DEF MutualExclusion, OwnerOf

\* A key keeps its owner when nobody takes it or gives it back.
LEMMA SameOwner ==
  ASSUME MutualExclusion, MutualExclusion', NEW k \in Keys,
         \A t \in Threads : Owns(t, k)' <=> Owns(t, k)
  PROVE  OwnerOf(k)' = OwnerOf(k)
<1>1. CASE \E t \in Threads : Owns(t, k)
  BY <1>1, OwnerIsUnique, OwnerIsUniqueNext
<1>2. CASE ~ \E t \in Threads : Owns(t, k)
  BY <1>2 DEF OwnerOf
<1> QED
  BY <1>1, <1>2

LEMMA RecordTakes ==
  ASSUME IInv, IInv', NEW t \in Threads, NEW k \in Keys, Record(t, k)
  PROVE  Table!Acquire(t, {k})
<1>1. MutualExclusion /\ MutualExclusion'
  <2>1. InsideIsRegistered /\ InsideIsRegistered'
    BY DEF IInv
  <2> QED
    BY <2>1 DEF InsideIsRegistered, MutualExclusion
<1>2. taken' = [taken EXCEPT ![t] = @ \cup {k}] /\ taken \in [Threads -> SUBSET Keys]
  BY DEF Record, IInv, TypeOK
<1>3. OwnerOf(k) = NoThread
  <2>1. \A u \in Threads : ~Owns(u, k)
    BY RecordFacts DEF IInv, InsideIsRegistered, Owns
  <2> QED
    BY <2>1 DEF OwnerOf
<1>4. OwnerOf(k)' = t
  BY <1>1, <1>2, OwnerIsUniqueNext DEF Owns
<1>5. ASSUME NEW j \in Keys, j # k
      PROVE  OwnerOf(j)' = OwnerOf(j)
  <2>1. \A u \in Threads : Owns(u, j)' <=> Owns(u, j)
    BY <1>2, <1>5 DEF Owns
  <2> QED
    BY <1>1, <2>1, SameOwner
<1> QED
  BY <1>3, <1>4, <1>5 DEF Table!Acquire

LEMMA ForgetGivesBack ==
  ASSUME IInv, IInv', NEW t \in Threads, NEW k \in Keys, Forget(t, k)
  PROVE  Table!Release(t, {k})
<1>1. MutualExclusion /\ MutualExclusion'
  <2>1. InsideIsRegistered /\ InsideIsRegistered'
    BY DEF IInv
  <2> QED
    BY <2>1 DEF InsideIsRegistered, MutualExclusion
<1>2. taken' = [taken EXCEPT ![t] = @ \ {k}] /\ taken \in [Threads -> SUBSET Keys]
  BY DEF Forget, IInv, TypeOK
<1>3. Owns(t, k)
  BY DEF Forget, IsNextBack, Owns
<1>4. OwnerOf(k) = t
  BY <1>1, <1>3, OwnerIsUnique
<1>5. OwnerOf(k)' = NoThread
  <2>1. \A u \in Threads : ~Owns(u, k)'
    BY <1>1, <1>2, <1>3 DEF Owns, MutualExclusion
  <2> QED
    BY <2>1 DEF OwnerOf
<1>6. ASSUME NEW j \in Keys, j # k
      PROVE  OwnerOf(j)' = OwnerOf(j)
  <2>1. \A u \in Threads : Owns(u, j)' <=> Owns(u, j)
    BY <1>2, <1>6 DEF Owns
  <2> QED
    BY <1>1, <2>1, SameOwner
<1> QED
  BY <1>4, <1>5, <1>6 DEF Table!Release

LEMMA StepImplements ==
  ASSUME IInv, IInv', [Next]_vars
  PROVE  [Table!Next]_([k \in Keys |-> OwnerOf(k)])
<1>1. ASSUME taken' = taken
      PROVE  [k \in Keys |-> OwnerOf(k)]' = [k \in Keys |-> OwnerOf(k)]
  BY <1>1 DEF OwnerOf, Owns
<1>2. ASSUME NEW t \in Threads, NEW k \in Keys, Record(t, k)
      PROVE  Table!Next
  BY <1>2, RecordTakes DEF Table!Next
<1>3. ASSUME NEW t \in Threads, NEW k \in Keys, Forget(t, k)
      PROVE  Table!Next
  BY <1>3, ForgetGivesBack DEF Table!Next
<1>4. \/ taken' = taken
      \/ \E t \in Threads, k \in Keys : Record(t, k) \/ Forget(t, k)
  BY DEF Next, Dispatch, Start, FindLock, MintLock, Acquire, WorktreeBusy,
         Unwind, Finish, Unlock, Collect, vars
<1> QED
  BY <1>1, <1>2, <1>3, <1>4

\* The managers implement one table of key owners (PathLocks): the registry
\* and the _held tables of all managers act as a single lock per key.
THEOREM Refinement == Spec => ImplementsPathLocks
<1>1. Init => Table!Init
  BY DEF Init, Table!Init, OwnerOf, Owns
<1>2. IInv /\ IInv' /\ [Next]_vars => [Table!Next]_([k \in Keys |-> OwnerOf(k)])
  BY StepImplements
<1>3. Spec => []IInv
  BY InitEstablishes, NextKeeps, PTL DEF Spec
<1> QED
  BY <1>1, <1>2, <1>3, PTL DEF Spec, ImplementsPathLocks, Table!Spec
==============================================================================
