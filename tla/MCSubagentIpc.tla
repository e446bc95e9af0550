---------------------------- MODULE MCSubagentIpc ----------------------------
(***************************************************************************)
(* A team of three sub-agents in one run, so that two of them can want the *)
(* worker of the third; or a single sub-agent whose process from a first   *)
(* run outlives it and polls the same directory as its successor.          *)
(***************************************************************************)
EXTENDS SubagentIpc, FiniteSets, TLC

CONSTANTS a, b, c, p, q

MCAgents == {a, b, c}
MCProcs == {p, q}

VARIABLE scenario   \* "team", or the single sub-agent

Launched == {x \in Procs : pc[x] # "absent"}

MCInit == Init /\ scenario \in {"team"} \cup Agents

\* The second run of a team dispatches nobody: it only cleans up.
Team ==
    /\ scenario = "team"
    /\ Next
    /\ Cardinality(Launched') <= 1
    /\ runs' = 1 \/ (runs' = 2 /\ at' = [x \in Agents |-> "todo"])

Single ==
    /\ scenario \in Agents
    /\ Next
    /\ epoch' <= 2
    /\ \A x \in Agents \ {scenario} : at'[x] = "todo"

MCNext == (Team \/ Single) /\ UNCHANGED scenario

MCSpec == MCInit /\ [][MCNext]_<<scenario, vars>>

Alike == Permutations(MCAgents) \cup Permutations(MCProcs)
==============================================================================
