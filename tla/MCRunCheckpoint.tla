--------------------------- MODULE MCRunCheckpoint ---------------------------
(***************************************************************************)
(* Two agents, two files and two contents: enough for one agent to create  *)
(* what the other edits, and for a dispatch to span both files.  In one    *)
(* scenario the agents are alone, and the run may lose its checkpoint and  *)
(* be undone.  In the others the user edits the tree beside them, all with *)
(* the same content, until the run ends: what Undo does to the user's      *)
(* edits is not promised, and a lost checkpoint records nothing more.      *)
(***************************************************************************)
EXTENDS RunCheckpoint, TLC

CONSTANTS a1, a2, p1, p2, c1, c2

MCAgents == {a1, a2}
MCPaths == {p1, p2}
MCContents == {c1, c2}

VARIABLE scenario   \* "alone", or the content everybody writes

Trees(c) == [Paths -> {Absent, c}]

MCInit ==
  /\ Init
  /\ \/ scenario = "alone"
     \/ scenario \in Contents /\ tree \in Trees(scenario)

MCNext ==
  /\ UNCHANGED scenario
  /\ \/ scenario = "alone" /\ Next
     \/ /\ scenario # "alone" /\ NextShared
        /\ tree' \in Trees(scenario) /\ phase' = "run" /\ cp' # "lost"

MCSpec == MCInit /\ [][MCNext]_<<scenario, vars>>

Alike == Permutations(MCAgents) \cup Permutations(MCPaths) \cup Permutations(MCContents)
==============================================================================
