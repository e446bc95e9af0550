------------------------------ MODULE PathLocks ------------------------------
(***************************************************************************)
(* What per-file locking promises to the writers of a repository: a key    *)
(* (one file, or the worktree as a whole) has at most one owner, an owner  *)
(* takes only free keys, and only an owner gives its own keys back.        *)
(* FileLocks implements it; RunCheckpoint builds its write path on it.     *)
(***************************************************************************)
CONSTANTS Writers, Keys, NoWriter

VARIABLE owner

TypeOK == owner \in [Keys -> Writers \cup {NoWriter}]

Init == owner = [k \in Keys |-> NoWriter]

Acquire(w, S) ==
  /\ \A k \in S : owner[k] = NoWriter
  /\ owner' = [k \in Keys |-> IF k \in S THEN w ELSE owner[k]]

Release(w, S) ==
  /\ \A k \in S : owner[k] = w
  /\ owner' = [k \in Keys |-> IF k \in S THEN NoWriter ELSE owner[k]]

Next == \E w \in Writers, S \in SUBSET Keys : Acquire(w, S) \/ Release(w, S)

Spec == Init /\ [][Next]_owner
==============================================================================
