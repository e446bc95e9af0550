------------------------------ MODULE Services -------------------------------
(***************************************************************************)
(* What asicode does beside its user: the trigger policy and the queue of  *)
(* the autonomous runner, and the two servers of the MCP interface.  They  *)
(* share no variable, and each runs at its own pace.                       *)
(***************************************************************************)
EXTENDS TriggerPolicy

CONSTANTS
  TaskFiles, NoTaskFile,  \* source files of tasks
  Priorities, DrainLoops, TaskSlots, MaxPending, MaxTasks, MaxStops,
  Sessions, NoSession, Requests, Backlog, RequestSlots, MaxCalls,
  ToolCalls, ToolSlots

VARIABLES
  aqCounter, aqQueue, aqNewest, aqRunning, aqExec, aqFreeing, aqWake, aqUp,
  aqStops, aqStopping, aqLoop,
  msSessions, msActive, msIdle, msKnown, msBorn, msQueue, msFree, msThread,
  msCalls, msAcked, msWritten, msCut, msSweep, msSwept, msUp,
  moReader, moStarting, moInflight, moCall, moSlots, moOut, moWhy

\* The tasks of the autonomous runner.
Tasks == INSTANCE AutonomousQueue WITH
  Files <- TaskFiles, NoFile <- NoTaskFile, Loops <- DrainLoops,
  MaxConcurrent <- TaskSlots, counter <- aqCounter, queue <- aqQueue,
  newest <- aqNewest, running <- aqRunning, exec <- aqExec,
  freeing <- aqFreeing, wake <- aqWake, up <- aqUp, stops <- aqStops,
  stopping <- aqStopping, loop <- aqLoop

\* The HTTP server.
Http == INSTANCE McpSessions WITH
  Threads <- Requests, MaxConcurrent <- RequestSlots,
  sessions <- msSessions, active <- msActive, idle <- msIdle,
  known <- msKnown, born <- msBorn, queue <- msQueue, free <- msFree,
  thread <- msThread, calls <- msCalls, acked <- msAcked,
  written <- msWritten, cut <- msCut, sweep <- msSweep, swept <- msSwept,
  up <- msUp

\* The stdio server.
Stdio == INSTANCE McpStdio WITH
  MaxConcurrent <- ToolSlots, reader <- moReader, starting <- moStarting,
  inflight <- moInflight, call <- moCall, slots <- moSlots, out <- moOut,
  why <- moWhy

queueVars ==
  <<aqCounter, aqQueue, aqNewest, aqRunning, aqExec, aqFreeing, aqWake,
    aqUp, aqStops, aqStopping, aqLoop>>
httpVars ==
  <<msSessions, msActive, msIdle, msKnown, msBorn, msQueue, msFree,
    msThread, msCalls, msAcked, msWritten, msCut, msSweep, msSwept, msUp>>
stdioVars ==
  <<moReader, moStarting, moInflight, moCall, moSlots, moOut, moWhy>>

ASSUME ServicesAssumption ==
  /\ Tasks!NamesAssumption /\ Tasks!BoundsAssumption /\ Http!McpAssumption
  /\ Stdio!SlotsAssumption /\ Stdio!ReaderAssumption

ServicesInit == Init /\ Tasks!Init /\ Http!Init /\ Stdio!Init

TriggersStep == Next /\ UNCHANGED <<queueVars, httpVars, stdioVars>>
TasksStep    == Tasks!Next /\ UNCHANGED <<vars, httpVars, stdioVars>>
HttpStep     == Http!Next /\ UNCHANGED <<vars, queueVars, stdioVars>>
StdioStep    == Stdio!Next /\ UNCHANGED <<vars, queueVars, httpVars>>

ServicesNext == TriggersStep \/ TasksStep \/ HttpStep \/ StdioStep

servicesVars == <<vars, queueVars, httpVars, stdioVars>>

ServicesSpec == ServicesInit /\ [][ServicesNext]_servicesVars

-----------------------------------------------------------------------------
\* The types of the four, and the caps that several threads or a long history
\* might break: decisions about a file are spaced by its window and fixes capped
\* per hour (TriggerPolicy.evaluate; EmissionsSpaced, AutoFixBounded); the slots
\* in use are those of the tasks, handlers and calls at work, and the backlog of
\* tasks stays within its cap (AutonomousTaskQueue, _session_queue, server.py;
\* SlotsCounted, PendingBounded, MapTracksPending, CapCounted).
CapsHold ==
  /\ TypeOK /\ EmissionsSpaced /\ AutoFixBounded
  /\ Tasks!TypeOK /\ Tasks!SlotsCounted
  /\ Tasks!PendingBounded /\ Tasks!MapTracksPending
  /\ Http!TypeOK /\ Http!CapCounted
  /\ Stdio!TypeOK /\ Stdio!SlotsCounted

\* A task leaves the backlog only by running or by a successor, and what starts
\* for a file is newer than all that waits or runs for it, whatever the cap, the
\* tombstones and the drain threads do (enqueue, get_nowait; AcceptedIsKept,
\* NewestWins of AutonomousQueue).
TasksAreKept == Tasks!AcceptedIsKept /\ Tasks!NewestWins

\* An answer acknowledged with 202 keeps a reader unless a client of its session
\* left, nothing lies behind a sentinel and no stamp outlives its session
\* (_enqueue_if_current, _close_session, sweep_idle_sessions, shutdown;
\* AckedHasReader, SentinelIsLast, StampsHaveOwners of McpSessions).  A drained
\* stdio server has answered every call it read, one line at a time
\* (_run_stdio_server; DrainedMeansAnswered, OneWriter of McpStdio).
AckedHasReader ==
  /\ Http!AckedHasReader /\ Http!SentinelIsLast /\ Http!StampsHaveOwners
  /\ Stdio!DrainedMeansAnswered /\ Stdio!OneWriter
==============================================================================
