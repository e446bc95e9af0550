----------------------------- MODULE MCServices ------------------------------
(***************************************************************************)
(* Small instances of the services.  One run takes steps in one of the     *)
(* four only, so that their states add up; the others rest in an initial   *)
(* state.                                                                  *)
(***************************************************************************)
EXTENDS Services

\* A kind about a file, routed to a fix, and schedules, which have neither file
\* nor window.  The longest window is that of files, as in the code.
MCKindWindow == [import_error |-> 1, schedule |-> 0]

VARIABLE scenario

\* Two sessions have two request threads, one has three.
MCInit ==
  /\ scenario \in {"triggers", "tasks", "two sessions", "three requests", "stdio"}
  /\ ServicesInit
  /\ scenario # "triggers" => tier = "none"

\* What is alike takes its turns in the order of its names.
LoopsInOrder == aqLoop'["l2"] # "unborn" => aqLoop'["l1"] # "unborn"
SessionsInOrder == "s2" \in msBorn' => "s1" \in msBorn'
CallsInOrder == /\ moCall'["c2"] # "unsent" => moCall'["c1"] # "unsent"
                /\ moCall'["c3"] # "unsent" => moCall'["c2"] # "unsent"

MCNext ==
  /\ UNCHANGED scenario
  /\ \/ scenario = "triggers" /\ TriggersStep
     \/ scenario = "tasks" /\ TasksStep /\ LoopsInOrder
     \/ /\ scenario = "two sessions" /\ HttpStep
        /\ SessionsInOrder /\ msThread'["t3"] = Http!Rest
     \/ scenario = "three requests" /\ HttpStep /\ "s2" \notin msBorn'
     \/ scenario = "stdio" /\ StdioStep /\ CallsInOrder

\* A behaviour of ServicesSpec, with fewer interleavings.
MCSpec == MCInit /\ [][MCNext]_<<scenario, servicesVars>>
==============================================================================
