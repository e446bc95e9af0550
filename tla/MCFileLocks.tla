----------------------------- MODULE MCFileLocks -----------------------------
(***************************************************************************)
(* Two writers of one orchestrator and one of another: on two files and    *)
(* the worktree, so that every pair of overlapping key sets is asked for;  *)
(* or on one file, while the managers are reset.  Three Lock objects are   *)
(* enough, since a Lock that is referred to is registered.                 *)
(*                                                                         *)
(* The two scenarios share no variable and one run takes steps in one of   *)
(* them only, so that their states add up.                                 *)
(***************************************************************************)
EXTENDS FileLocks, TLC

CONSTANTS t1, t2, t3, m1, m2, l1, l2, l3

MCThreads == {t1, t2, t3}
MCManagers == {m1, m2}
MCManagerOf == (t1 :> m1) @@ (t2 :> m1) @@ (t3 :> m2)
MCFiles == {1, 2}
MCOneFile == {1}
MCLocks == {l1, l2, l3}

VARIABLES
  scenario,   \* "calls" or "resets"
  rRegistry, rHeld, rHolder, rPc, rTodo, rTaken, rLock, rResetting

Resets == INSTANCE FileLocks WITH
  Files <- MCOneFile, registry <- rRegistry, held <- rHeld,
  holder <- rHolder, pc <- rPc, todo <- rTodo, taken <- rTaken,
  lock <- rLock, resetting <- rResetting

resetVars ==
  <<rRegistry, rHeld, rHolder, rPc, rTodo, rTaken, rLock, rResetting>>

MCInit ==
  /\ scenario \in {"calls", "resets"}
  /\ Init /\ Resets!Init

MCNext ==
  \/ scenario = "calls" /\ Next /\ UNCHANGED <<scenario, resetVars>>
  \/ scenario = "resets" /\ Resets!NextWithReset /\ UNCHANGED <<scenario, vars>>

MCSpec == MCInit /\ [][MCNext]_<<scenario, vars, resetVars>>

\* With resets under way too, threads never wait for one another in a circle,
\* and when every dispatch is over no Lock stays locked for the next one
\* (NeverAllBlocked and IdleMeansFree of FileLocks).
ResetsLeaveFree == Resets!NeverAllBlocked /\ Resets!IdleMeansFree

\* A Lock is unlocked only by the thread that locked it, or by reset() of that
\* thread's own manager (ForeignLockNeverReleased of FileLocks).
ResetsSpareOthers == Resets!ForeignLockNeverReleased

\* Lock objects are alike, and so are the two threads of manager m1.
Alike == Permutations(MCLocks) \cup Permutations({t1, t2})
==============================================================================
