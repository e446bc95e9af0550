-------------------------- MODULE MCCheckpointIndex --------------------------
(***************************************************************************)
(* Two processes and three checkpoints, with room for two of them and for  *)
(* two blob directories: the merge of two lists passes the count cap, and  *)
(* blobs left without a payload pass the byte cap.                         *)
(***************************************************************************)
EXTENDS CheckpointIndex, TLC

CONSTANTS w1, w2

MCProcesses == {w1, w2}

Alike == Permutations(MCProcesses)
==============================================================================
