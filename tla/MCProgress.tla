----------------------------- MODULE MCProgress ------------------------------
(***************************************************************************)
(* What the threads of one asicode process must come to in the end: the    *)
(* run with its sub-agents, the registry of background jobs, a worker      *)
(* process, the queue of autonomous tasks and the two MCP servers.         *)
(*                                                                         *)
(* The six have no variable in common and one run takes steps in one of    *)
(* them only, so that their states add up; the others rest in an initial   *)
(* state.  The fairness of each is the one its module justifies, asked of  *)
(* the one that runs: the others have stopped.                             *)
(***************************************************************************)
EXTENDS Naturals

CONSTANT Scenarios   \* those that are checked

VARIABLES
  scenario,
  tlPhase, tlCancelled, tlCalls, tlCounter, tlMaxSubagents, tlExecutor,
  tlMade, tlClosed, tlQueue, tlHome, tlJob, tlFiles, tlEntries, tlSettled,
  tlResults, tlWarned, tlGaveUp, tlReturned, tlCrowded,
  bjRc, bjTold, bjWords, bjStatus, bjKiller, bjMgr, bjActive, bjSince, bjRing,
  bjStale, bjPc, bjJob, bjGoal, bjSweep, bjTodo, bjSeen,
  swTask, swCancelFile, swShutdownFile, swPc, swCur, swCancel, swShutdown,
  swWatch, swStopped, swAnswer, swWhy, swOpc, swSent, swGiven, swCleanup,
  swOrphan,
  aqCounter, aqQueue, aqNewest, aqRunning, aqExec, aqFreeing, aqWake, aqUp,
  aqStops, aqStopping, aqLoop,
  msSessions, msActive, msIdle, msKnown, msBorn, msQueue, msFree, msThread,
  msCalls, msAcked, msWritten, msCut, msSweep, msSwept, msUp,
  moReader, moStarting, moInflight, moCall, moSlots, moOut, moWhy

\* One caller, two sub-agents on one slot, and a user who may cancel.
Calls == INSTANCE ToolLoopAgents WITH
  Callers <- {"c1"}, MaxAgents <- 2, MaxSubagents <- 1,
  Assignments <- {{"f"}}, MayCancel <- TRUE, MayGiveUp <- FALSE,
  phase <- tlPhase, cancelled <- tlCancelled, calls <- tlCalls,
  counter <- tlCounter, maxSubagents <- tlMaxSubagents,
  executor <- tlExecutor, made <- tlMade,
  closed <- tlClosed, queue <- tlQueue, home <- tlHome, job <- tlJob,
  files <- tlFiles, entries <- tlEntries, settled <- tlSettled,
  results <- tlResults, warned <- tlWarned, gaveUp <- tlGaveUp,
  returned <- tlReturned, crowded <- tlCrowded

\* Two jobs on one slot, and kills.
Registry == INSTANCE BackgroundJobs WITH
  Jobs <- {"j1", "j2"}, Callers <- {"t1"}, Nobody <- "nobody",
  Reaper <- "reaper", Exits <- {"zero"}, MaxJobs <- 1,
  RingCap <- 2, rc <- bjRc, told <- bjTold, words <- bjWords,
  status <- bjStatus, killer <- bjKiller, mgr <- bjMgr, active <- bjActive,
  since <- bjSince, ring <- bjRing, stale <- bjStale, pc <- bjPc, job <- bjJob,
  goal <- bjGoal, sweep <- bjSweep, todo <- bjTodo, seen <- bjSeen

\* Two tasks of one worker.
Worker == INSTANCE SubagentWorker WITH
  MaxTasks <- 2, task <- swTask, cancelFile <- swCancelFile,
  shutdownFile <- swShutdownFile, pc <- swPc, cur <- swCur,
  cancel <- swCancel, shutdown <- swShutdown, watch <- swWatch,
  stopped <- swStopped, answer <- swAnswer, why <- swWhy, opc <- swOpc,
  sent <- swSent, given <- swGiven, cleanup <- swCleanup, orphan <- swOrphan

\* Three tasks on one slot, and a stop.
Tasks == INSTANCE AutonomousQueue WITH
  Files <- {"f"}, NoFile <- "none", Priorities <- {0}, Loops <- {"l1"},
  MaxConcurrent <- 1, MaxPending <- 2, MaxTasks <- 3, MaxStops <- 1,
  counter <- aqCounter, queue <- aqQueue, newest <- aqNewest,
  running <- aqRunning, exec <- aqExec, freeing <- aqFreeing,
  wake <- aqWake, up <- aqUp, stops <- aqStops, stopping <- aqStopping,
  loop <- aqLoop

\* A session with one event of room, and two request threads.
Http == INSTANCE McpSessions WITH
  Sessions <- {"s1"}, NoSession <- "none", Threads <- {"t1", "t2"},
  Backlog <- 1, MaxConcurrent <- 1, MaxCalls <- 2, sessions <- msSessions,
  active <- msActive, idle <- msIdle, known <- msKnown, born <- msBorn,
  queue <- msQueue, free <- msFree, thread <- msThread, calls <- msCalls,
  acked <- msAcked, written <- msWritten, cut <- msCut, sweep <- msSweep,
  swept <- msSwept, up <- msUp

\* Two calls on one slot.
Stdio == INSTANCE McpStdio WITH
  ToolCalls <- {"c1", "c2"}, MaxConcurrent <- 1, reader <- moReader,
  starting <- moStarting, inflight <- moInflight, call <- moCall,
  slots <- moSlots, out <- moOut, why <- moWhy

ASSUME ConstantsAssumption ==
  /\ Scenarios \subseteq {"calls", "registry", "worker", "backlog", "http", "stdio"}
  /\ Calls!SizeAssumption /\ Calls!CallersAssumption
  /\ Registry!NamesAssumption /\ Worker!TasksAssumption
  /\ Tasks!BoundsAssumption /\ Http!McpAssumption
  /\ Stdio!SlotsAssumption /\ Stdio!ReaderAssumption

callVars ==
  <<tlPhase, tlCancelled, tlCalls, tlCounter, tlMaxSubagents, tlExecutor,
    tlMade, tlClosed, tlQueue, tlHome, tlJob, tlFiles, tlEntries, tlSettled,
    tlResults, tlWarned, tlGaveUp, tlReturned, tlCrowded>>
jobVars ==
  <<bjRc, bjTold, bjWords, bjStatus, bjKiller, bjMgr, bjActive, bjSince,
    bjRing, bjStale, bjPc, bjJob, bjGoal, bjSweep, bjTodo, bjSeen>>
workerVars ==
  <<swTask, swCancelFile, swShutdownFile, swPc, swCur, swCancel, swShutdown,
    swWatch, swStopped, swAnswer, swWhy, swOpc, swSent, swGiven, swCleanup,
    swOrphan>>
queueVars ==
  <<aqCounter, aqQueue, aqNewest, aqRunning, aqExec, aqFreeing, aqWake,
    aqUp, aqStops, aqStopping, aqLoop>>
httpVars ==
  <<msSessions, msActive, msIdle, msKnown, msBorn, msQueue, msFree,
    msThread, msCalls, msAcked, msWritten, msCut, msSweep, msSwept, msUp>>
stdioVars ==
  <<moReader, moStarting, moInflight, moCall, moSlots, moOut, moWhy>>

MCInit ==
  /\ scenario \in Scenarios
  /\ Calls!Init /\ Registry!Init /\ Worker!Init /\ Tasks!Init /\ Http!Init /\ Stdio!Init
  /\ ~swCancelFile /\ ~swShutdownFile   \* both are cleared before a task is written

\* The jobs are alike: they start in the order of their names.
InOrder == bjRc'["j2"] # "unborn" => bjRc'["j1"] # "unborn"

MCNext ==
  /\ UNCHANGED scenario
  /\ \/ scenario = "calls" /\ Calls!Next
        /\ UNCHANGED <<jobVars, workerVars, queueVars, httpVars, stdioVars>>
     \/ scenario = "registry" /\ Registry!Next /\ InOrder
        /\ UNCHANGED <<callVars, workerVars, queueVars, httpVars, stdioVars>>
     \/ scenario = "worker" /\ Worker!Uninterrupted
        /\ UNCHANGED <<callVars, jobVars, queueVars, httpVars, stdioVars>>
     \/ scenario = "backlog" /\ Tasks!Next
        /\ UNCHANGED <<callVars, jobVars, workerVars, httpVars, stdioVars>>
     \/ scenario = "http" /\ Http!Next
        /\ UNCHANGED <<callVars, jobVars, workerVars, queueVars, stdioVars>>
     \/ scenario = "stdio" /\ Stdio!Next
        /\ UNCHANGED <<callVars, jobVars, workerVars, queueVars, httpVars>>

CallsFairness ==
  /\ WF_callVars(scenario = "calls" /\ Calls!RunStep)
  /\ WF_callVars(scenario = "calls" /\ Calls!CallStep("c1"))
  /\ \A a \in 1 .. 2 : /\ WF_callVars(scenario = "calls" /\ Calls!Start(a))
                       /\ WF_callVars(scenario = "calls" /\ Calls!Finish(a))

RegistryFairness ==
  /\ SF_jobVars(scenario = "registry" /\ Registry!CallSteps("t1"))
  /\ SF_jobVars(scenario = "registry" /\ Registry!SweepSteps)

WorkerFairness ==
  /\ WF_workerVars(scenario = "worker" /\ Worker!Launch)
  /\ WF_workerVars(scenario = "worker" /\ Worker!Main)
  /\ \A t \in 1 .. 2 : WF_workerVars(scenario = "worker" /\ Worker!Watch(t))

BacklogFairness ==
  /\ WF_queueVars(scenario = "backlog" /\ Tasks!Drain("l1"))
  /\ \A i \in 1 .. 3 : WF_queueVars(/\ scenario = "backlog"
                                   /\ \E t \in aqExec \cup aqFreeing :
                                        t.id = i /\ Tasks!TaskEnds(t))
  /\ WF_queueVars(scenario = "backlog" /\ Tasks!StopWakes)

HttpFairness ==
  /\ \A t \in {"t1", "t2"} : WF_httpVars(scenario = "http" /\ Http!Serve(t))
  /\ WF_httpVars(scenario = "http" /\ Http!SweepLooks)
  /\ WF_httpVars(scenario = "http" /\ Http!SweepPops)
  /\ WF_httpVars(scenario = "http" /\ Http!SweepSignals)
  /\ WF_httpVars(scenario = "http" /\ Http!ListenerStops)

StdioFairness ==
  /\ \A c \in {"c1", "c2"} :
       /\ WF_stdioVars(scenario = "stdio" /\ Stdio!Goes(c))
       /\ SF_stdioVars(scenario = "stdio" /\ Stdio!Waits(c))
  /\ WF_stdioVars(scenario = "stdio" /\ Stdio!StartThread)
  /\ WF_stdioVars(scenario = "stdio" /\ Stdio!ReaderWrites)
  /\ SF_stdioVars(scenario = "stdio" /\ Stdio!ReaderLocks)
  /\ WF_stdioVars(scenario = "stdio" /\ (Stdio!Drained \/ Stdio!DrainBreaks))

MCSpec ==
  /\ MCInit
  /\ [][MCNext]_<<scenario, callVars, jobVars, workerVars, queueVars, httpVars, stdioVars>>
  /\ CallsFairness /\ RegistryFairness /\ WorkerFairness
  /\ BacklogFairness /\ HttpFairness /\ StdioFairness

\* The run returns once its turn has ended, and a sub-agent queued for a slot
\* starts whatever becomes of the run (_drain_bg_subagents; RunReturns,
\* QueuedStarts of ToolLoopAgents).
RunReturns ==
  scenario = "calls" => Calls!RunReturns /\ Calls!QueuedStarts

\* A job that ended leaves the registry and the stale jobs though nobody asks
\* for it, and the mark of a kill in flight is replaced by what became of it
\* (_drain_finished, cleanup, _reap_stale; EndedIsReaped, StaleConverges,
\* PlaceholderSettles of BackgroundJobs).
JobsConverge ==
  scenario = "registry" =>
    Registry!EndedIsReaped /\ Registry!StaleConverges /\ Registry!PlaceholderSettles

\* However long its tasks go on, a queued task is taken or its worker ends, a
\* worker whose run is over or whose orchestrator is gone ends, and a sentinel
\* that lies there ends the task at work (poll_for_task, the watcher;
\* QueuedIsTaken, EndedRunEndsWorker, CancelIsHeard of SubagentWorker).
WorkerListens ==
  scenario = "worker" =>
    Worker!QueuedIsTaken /\ Worker!EndedRunEndsWorker /\ Worker!CancelIsHeard

\* A task that waits runs or is superseded though no poll interval ever ends,
\* unless the runner is stopped (_drain_loop, task_done; WaitingRuns of
\* AutonomousQueue).
WaitingRuns == scenario = "backlog" => Tasks!WaitingRuns

\* An answer acknowledged with 202 is written unless a client of the session
\* left, and a call read by the stdio server is answered or the server has
\* left (_enqueue_if_current, _run_stdio_server; AckedIsWritten of McpSessions,
\* EveryCallEnds of McpStdio).
AnswersAreWritten ==
  /\ scenario = "http" => Http!AckedIsWritten
  /\ scenario = "stdio" => Stdio!EveryCallEnds
==============================================================================
