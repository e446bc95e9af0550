------------------------------- MODULE Agents --------------------------------
(***************************************************************************)
(* What one asicode process has at work beside the model's turn: the       *)
(* sub-agents of the tool loop, one worker process of a sub-agent, and the *)
(* shell commands in the background.  The three share no variable, and     *)
(* each runs at its own pace.                                              *)
(***************************************************************************)
EXTENDS ToolLoopAgents

CONSTANTS
  Commands,   \* ids of background commands
  Nobody, Reaper, Exits, MaxJobs, RingCap, MaxTasks

VARIABLES
  bjRc, bjTold, bjWords, bjStatus, bjKiller, bjMgr, bjActive, bjSince, bjRing,
  bjStale, bjPc, bjJob, bjGoal, bjSweep, bjTodo, bjSeen,
  swTask, swCancelFile, swShutdownFile, swPc, swCur, swCancel, swShutdown,
  swWatch, swStopped, swAnswer, swWhy, swOpc, swSent, swGiven, swCleanup,
  swOrphan

\* The commands, started and killed by the same tool calls.
Registry == INSTANCE BackgroundJobs WITH
  Jobs <- Commands, rc <- bjRc, told <- bjTold, words <- bjWords,
  status <- bjStatus, killer <- bjKiller, mgr <- bjMgr, active <- bjActive,
  since <- bjSince, ring <- bjRing, stale <- bjStale, pc <- bjPc, job <- bjJob,
  goal <- bjGoal, sweep <- bjSweep, todo <- bjTodo, seen <- bjSeen

\* A worker of a sub-agent.
Worker == INSTANCE SubagentWorker WITH
  task <- swTask, cancelFile <- swCancelFile, shutdownFile <- swShutdownFile,
  pc <- swPc, cur <- swCur, cancel <- swCancel, shutdown <- swShutdown,
  watch <- swWatch, stopped <- swStopped, answer <- swAnswer, why <- swWhy,
  opc <- swOpc, sent <- swSent, given <- swGiven, cleanup <- swCleanup,
  orphan <- swOrphan

jobVars ==
  <<bjRc, bjTold, bjWords, bjStatus, bjKiller, bjMgr, bjActive, bjSince,
    bjRing, bjStale, bjPc, bjJob, bjGoal, bjSweep, bjTodo, bjSeen>>
workerVars ==
  <<swTask, swCancelFile, swShutdownFile, swPc, swCur, swCancel, swShutdown,
    swWatch, swStopped, swAnswer, swWhy, swOpc, swSent, swGiven, swCleanup,
    swOrphan>>

ASSUME AgentsAssumption ==
  /\ SizeAssumption /\ AssignmentsAssumption /\ CallersAssumption
  /\ Registry!NamesAssumption /\ Registry!ExitsAssumption /\ Registry!BoundsAssumption
  /\ Worker!TasksAssumption

AgentsInit == Init /\ Registry!Init /\ Worker!Init

LoopStep     == Next /\ UNCHANGED <<jobVars, workerVars>>
RegistryStep == Registry!Next /\ UNCHANGED <<vars, workerVars>>
WorkerStep   == Worker!Next /\ UNCHANGED <<vars, jobVars>>

AgentsNext == LoopStep \/ RegistryStep \/ WorkerStep

agentsVars == <<vars, jobVars, workerVars>>

AgentsSpec == AgentsInit /\ [][AgentsNext]_agentsVars

-----------------------------------------------------------------------------
\* The types of the three; whoever holds the lock of a job is killing it, and a
\* task of the worker runs once.
TypesOK == TypeOK /\ Registry!TypeOK /\ Worker!TypeOK

\* However polls, calls handed over together and the drain see the same futures
\* resolve, a finished sub-agent is counted once, reported by the poll that
\* found it finished, and in what the run returns (_check_bg_subagent,
\* _drain_bg_subagents; CountedOnce, PollSeesFinished, NothingSpawnedIsLost of
\* ToolLoopAgents).  Where one spawn is over before the next begins, two
\* sub-agents that share a file were named in a warning, and max_subagents bounds
\* those at work unless the run is cancelled (OverlapIsWarned, SlotsRespected).
SpawnsAreKept ==
  /\ CountedOnce /\ PollSeesFinished /\ NothingSpawnedIsLost
  /\ ~crowded => OverlapIsWarned
  /\ ~crowded /\ ~cancelled => SlotsRespected

\* However evictions, kills and sweeps overlap, the registries stay within their
\* caps with no job twice, and while the ring has room a living process can be
\* found (start, _evict_over_capacity_locked, cleanup, _reap_stale;
\* RegistriesBounded, LivingIsFindable of BackgroundJobs).
LivingIsFindable == Registry!RegistriesBounded /\ Registry!LivingIsFindable

\* A shutdown.json that an earlier run left in the directory ends no worker,
\* whenever it is cleared (write_task; ShutdownIsWanted of SubagentWorker).
ShutdownIsWanted == Worker!ShutdownIsWanted
==============================================================================
