------------------------------ MODULE MCAgents -------------------------------
(***************************************************************************)
(* Small instances of Agents.  One run takes steps in one of the three     *)
(* parts only, so that their states add up; the others rest in an initial  *)
(* state.                                                                  *)
(***************************************************************************)
EXTENDS Agents, TLC

VARIABLE scenario

MCInit ==
  /\ scenario \in {"calls", "overlap", "cancel", "evictions", "kills", "worker"}
  /\ AgentsInit
  /\ scenario # "worker" => ~swCancelFile /\ ~swShutdownFile
  /\ maxSubagents = IF scenario = "overlap" THEN 2 ELSE 1

\* Threads of tool calls are alike.
Alike == Permutations(Callers)

\* One tool call at a time.
OneAtATime ==
  \A c, d \in Callers : calls'[c].pc # "idle" /\ calls'[d].pc # "idle" => c = d

\* The jobs are alike: they start in the order of their names.
InOrder == /\ bjRc'["j2"] # "unborn" => bjRc'["j1"] # "unborn"
           /\ bjRc'["j3"] # "unborn" => bjRc'["j2"] # "unborn"

\* Three jobs that nobody kills but the evictions, so that two overlap and the
\* stale jobs reach their cap; or two that both callers may kill.
Evicting ==
  /\ \A c \in Callers : bjPc'[c] = "kill" => bjGoal'[c] = "evict"
  /\ \A j \in Commands : bjRc'[j] # "error"
TwoJobs == bjRc'["j3"] = "unborn"

MCNext ==
  /\ UNCHANGED scenario
  /\ \/ /\ LoopStep
        /\ \/ scenario = "calls" /\ ~cancelled'
           \/ scenario = "overlap" /\ ~cancelled' /\ OneAtATime
           \/ scenario = "cancel" /\ gaveUp' = {} /\ OneAtATime
     \/ /\ RegistryStep /\ InOrder
        /\ \/ scenario = "evictions" /\ Evicting
           \/ scenario = "kills" /\ TwoJobs
     \/ scenario = "worker" /\ WorkerStep

\* Behaviours of AgentsSpec with fewer interleavings.
MCSpec == MCInit /\ [][MCNext]_<<scenario, agentsVars>>
==============================================================================
