--------------------------- MODULE SubagentWorker ---------------------------
(***************************************************************************)
(* One worker process of a sub-agent and the three ways to stop it         *)
(* (repl/repl_subagent.py, poll_for_task in agent/subagent_ipc.py):        *)
(* cancel.json aborts the task it runs, shutdown.json ends the worker      *)
(* between tasks, Ctrl-C does both.                                        *)
(*                                                                         *)
(* The main thread polls, runs a task, answers and polls again.  Each task *)
(* has a watcher thread that looks for cancel.json; it is told to stop     *)
(* when the task is answered, and nobody waits until it has.               *)
(* SubagentIpc has many workers and dispatches; here every test, file      *)
(* operation and event of one worker is a step of its own.                 *)
(***************************************************************************)
EXTENDS Naturals, FiniteSets

CONSTANTS MaxTasks   \* bound: how often the orchestrator dispatches

TasksAssumption == MaxTasks \in Nat \ {0}

Tasks == 1 .. MaxTasks
NoTask == 0

VARIABLES
  \* files of the worker's directory
  task,          \* task.json, or NoTask
  cancelFile,    \* whether cancel.json is there
  shutdownFile,  \* whether shutdown.json is there
  \* the worker
  pc,            \* where the main thread is
  cur,           \* the task it has taken last
  cancel,        \* cancel_event
  shutdown,      \* shutdown_event: set by Ctrl-C only
  watch,         \* of each task: where its watcher is
  stopped,       \* the tasks whose _watcher_stop is set
  answer,        \* of each task: its result
  why,           \* why the worker ended
  \* the orchestrator
  opc,           \* where the thread is that dispatches to this worker
  sent,          \* the task it has dispatched last
  given,         \* the tasks it has told the worker to abort
  cleanup,       \* how far _cleanup_ipc_workers is
  orphan         \* whether the orchestrator's process is gone

files == <<task, cancelFile, shutdownFile>>
worker == <<pc, cur, cancel, shutdown, watch, stopped, answer, why>>
orchestrator == <<opc, sent, given, cleanup, orphan>>
vars == <<files, worker, orchestrator>>

\* Sentinels of an earlier run may be in the directory.
Init ==
  /\ task = NoTask /\ cancelFile \in BOOLEAN /\ shutdownFile \in BOOLEAN
  /\ pc = "off" /\ cur = NoTask /\ cancel = FALSE /\ shutdown = FALSE
  /\ watch = [t \in Tasks |-> "none"] /\ stopped = {}
  /\ answer = [t \in Tasks |-> "none"] /\ why = "none"
  /\ opc = "free" /\ sent = NoTask /\ given = {} /\ cleanup = "none" /\ orphan = FALSE

Alive == pc \notin {"off", "exited"}

-----------------------------------------------------------------------------
(***************************************************************************)
(* The main thread                                                         *)
(***************************************************************************)
Exit(reason) == pc' = "exited" /\ why' = reason

\* The process is started once its first task is written.
Launch ==
  /\ pc = "off" /\ sent # NoTask /\ pc' = "test"
  /\ UNCHANGED <<files, cur, cancel, shutdown, watch, stopped, answer, why, orchestrator>>

LoopTest ==
  /\ pc = "test"
  /\ IF shutdown THEN Exit("interrupt") ELSE pc' = "clear" /\ UNCHANGED why
  /\ UNCHANGED <<files, cur, cancel, shutdown, watch, stopped, answer, orchestrator>>

ClearCancel ==
  /\ pc = "clear" /\ cancel' = FALSE /\ pc' = "poll"
  /\ UNCHANGED <<files, cur, shutdown, watch, stopped, answer, why, orchestrator>>

\* The top of poll_for_task: a cancellation, then the orphan tests.
PollTest ==
  /\ pc = "poll"
  /\ IF cancel THEN Exit("cancel")
     ELSE IF orphan THEN Exit("orphan")
     ELSE pc' = "take" /\ UNCHANGED why
  /\ UNCHANGED <<files, cur, cancel, shutdown, watch, stopped, answer, orchestrator>>

\* The cap on idle polling.
PollCap ==
  /\ pc = "poll" /\ Exit("idle")
  /\ UNCHANGED <<files, cur, cancel, shutdown, watch, stopped, answer, orchestrator>>

\* Slip: the task is read and stays.
TakeCopy ==
  /\ pc = "take"
  /\ IF task = NoTask THEN pc' = "sentinel" /\ UNCHANGED cur
                      ELSE pc' = "taken" /\ cur' = task
  /\ UNCHANGED <<files, cancel, shutdown, watch, stopped, answer, why, orchestrator>>

\* A task goes before the sentinel.
Take ==
  /\ pc = "take"
  /\ IF task = NoTask
     THEN pc' = "sentinel" /\ UNCHANGED <<task, cur>>
     ELSE pc' = "taken" /\ cur' = task /\ task' = NoTask
  /\ UNCHANGED <<cancelFile, shutdownFile, cancel, shutdown, watch, stopped, answer, why,
                 orchestrator>>

PollShutdown ==
  /\ pc = "sentinel"
  /\ IF shutdownFile
     THEN Exit("shutdown") /\ shutdownFile' = FALSE
     ELSE pc' = "sleep" /\ UNCHANGED <<why, shutdownFile>>
  /\ UNCHANGED <<task, cancelFile, cur, cancel, shutdown, watch, stopped, answer,
                 orchestrator>>

Sleep ==
  /\ pc = "sleep"
  /\ IF cancel THEN Exit("cancel") ELSE pc' = "poll" /\ UNCHANGED why
  /\ UNCHANGED <<files, cur, cancel, shutdown, watch, stopped, answer, orchestrator>>

StartTask ==
  /\ pc = "taken"
  /\ IF shutdown
     THEN Exit("interrupt") /\ UNCHANGED watch
     ELSE /\ pc' = "run" /\ watch' = [watch EXCEPT ![cur] = "test"]
          /\ UNCHANGED why
  /\ UNCHANGED <<files, cur, cancel, shutdown, stopped, answer, orchestrator>>

Respond(result) ==
  /\ answer' = [answer EXCEPT ![cur] = result] /\ pc' = "answered"
  /\ UNCHANGED <<files, cur, cancel, shutdown, watch, stopped, why, orchestrator>>

\* A turn begins and finds the event set: AgentCancelled.
TurnAborts == pc = "run" /\ cancel /\ Respond("cancelled")

\* The task ends by itself, in whatever way.
TaskEnds == pc = "run" /\ Respond("ended")

StopWatcher ==
  /\ pc = "answered" /\ stopped' = stopped \cup {cur} /\ pc' = "test"
  /\ UNCHANGED <<files, cur, cancel, shutdown, watch, answer, why, orchestrator>>

\* Ctrl-C; the handler runs in the main thread.
Interrupt ==
  /\ Alive /\ ~shutdown
  /\ cancel' = TRUE /\ shutdown' = TRUE
  /\ UNCHANGED <<files, pc, cur, watch, stopped, answer, why, orchestrator>>

-----------------------------------------------------------------------------
(***************************************************************************)
(* The watcher of task t                                                   *)
(***************************************************************************)
Watcher(t, from, to) ==
  /\ pc # "exited" /\ watch[t] = from /\ watch' = [watch EXCEPT ![t] = to]
  /\ UNCHANGED <<task, shutdownFile, pc, cur, shutdown, stopped, answer, why, orchestrator>>

WatchTest(t) ==
  /\ Watcher(t, "test", IF t \in stopped \/ cancel THEN "end" ELSE "look")
  /\ UNCHANGED <<cancelFile, cancel>>

WatchLook(t) ==
  /\ Watcher(t, "look", IF cancelFile THEN "found" ELSE "test")
  /\ UNCHANGED <<cancelFile, cancel>>

WatchUnlink(t) ==
  Watcher(t, "found", "set") /\ cancelFile' = FALSE /\ UNCHANGED cancel

\* Slip: a watcher told to stop sets no event, though it took the sentinel away.
WatchSetUnlessStopped(t) ==
  Watcher(t, "set", "end") /\ UNCHANGED cancelFile /\ cancel' = (cancel \/ t \notin stopped)

WatchSet(t) ==
  Watcher(t, "set", "end") /\ cancel' = TRUE /\ UNCHANGED cancelFile

Watch(t) == WatchTest(t) \/ WatchLook(t) \/ WatchUnlink(t) \/ WatchSet(t)

-----------------------------------------------------------------------------
(***************************************************************************)
(* The orchestrator                                                        *)
(***************************************************************************)
\* Slip: only the cancel sentinel is cleared.
ClearCancelSentinel ==
  /\ opc = "free" /\ ~orphan /\ cleanup = "none" /\ pc # "exited" /\ sent < MaxTasks
  /\ cancelFile' = FALSE
  /\ opc' = "write" /\ UNCHANGED <<task, shutdownFile, worker, sent, given, cleanup, orphan>>

\* write_task, first part; a worker known to have ended gets no task.
ClearSentinels ==
  /\ opc = "free" /\ ~orphan /\ cleanup = "none" /\ pc # "exited" /\ sent < MaxTasks
  /\ cancelFile' = FALSE /\ shutdownFile' = FALSE
  /\ opc' = "write" /\ UNCHANGED <<task, worker, sent, given, cleanup, orphan>>

WriteTask ==
  /\ opc = "write" /\ ~orphan
  /\ sent' = sent + 1 /\ task' = sent' /\ opc' = "wait"
  /\ UNCHANGED <<cancelFile, shutdownFile, worker, given, cleanup, orphan>>

\* The answer is there: the worker may be reused.
ReadAnswer ==
  /\ opc \in {"wait", "quiesce"} /\ answer[sent] # "none" /\ ~orphan /\ opc' = "free"
  /\ UNCHANGED <<files, worker, sent, given, cleanup, orphan>>

\* The time is over: _abandon_ipc_worker.
GiveUp ==
  /\ opc = "wait" /\ ~orphan /\ opc' = "quiesce"
  /\ cancelFile' = TRUE /\ given' = given \cup {sent}
  /\ UNCHANGED <<task, shutdownFile, worker, sent, cleanup, orphan>>

\* No answer within the grace either: the worker is not used again, and is
\* terminated where the orchestrator has its process.
GraceOver ==
  /\ opc = "quiesce" /\ ~orphan /\ opc' = "gone"
  /\ \/ UNCHANGED worker
     \/ /\ Alive /\ Exit("terminated")
        /\ UNCHANGED <<cur, cancel, shutdown, watch, stopped, answer>>
  /\ UNCHANGED <<files, sent, given, cleanup, orphan>>

\* _cleanup_ipc_workers, while a dispatching thread may still be under way.
CleanupCancels ==
  /\ cleanup = "none" /\ ~orphan /\ sent # NoTask
  /\ cleanup' = "cancelled" /\ cancelFile' = TRUE
  /\ UNCHANGED <<task, shutdownFile, worker, opc, sent, given, orphan>>

CleanupShutsDown ==
  /\ cleanup = "cancelled" /\ ~orphan
  /\ cleanup' = "done" /\ shutdownFile' = TRUE
  /\ UNCHANGED <<task, cancelFile, worker, opc, sent, given, orphan>>

OrchestratorDies ==
  /\ Alive /\ ~orphan /\ orphan' = TRUE
  /\ UNCHANGED <<files, worker, opc, sent, given, cleanup>>

-----------------------------------------------------------------------------
Main == \/ LoopTest \/ ClearCancel \/ PollTest \/ Take \/ PollShutdown \/ Sleep
        \/ StartTask \/ TurnAborts \/ StopWatcher

Orchestrate == \/ ClearSentinels \/ WriteTask \/ ReadAnswer \/ GiveUp \/ GraceOver
               \/ CleanupCancels \/ CleanupShutsDown

Uninterrupted ==
  \/ Launch \/ Main \/ TaskEnds \/ PollCap \/ Orchestrate \/ OrchestratorDies
  \/ \E t \in Tasks : Watch(t)

Next == Uninterrupted \/ Interrupt

Spec == Init /\ [][Next]_vars

\* The operating system runs the threads.  That a task ends is not assumed, and
\* nobody presses Ctrl-C.
ThreadsRun == WF_vars(Launch) /\ WF_vars(Main) /\ \A t \in Tasks : WF_vars(Watch(t))

FairSpec == Init /\ [][Uninterrupted]_vars /\ ThreadsRun

-----------------------------------------------------------------------------
(***************************************************************************)
(* Properties                                                              *)
(***************************************************************************)
\* Types; a task runs once, and its watcher is told to stop after its answer.
TypeOK ==
  /\ task \in Tasks \cup {NoTask} /\ cancelFile \in BOOLEAN /\ shutdownFile \in BOOLEAN
  /\ pc \in {"off", "test", "clear", "poll", "take", "sentinel", "sleep", "taken", "run",
             "answered", "exited"}
  /\ cur \in 0 .. sent /\ cancel \in BOOLEAN /\ shutdown \in BOOLEAN
  /\ watch \in [Tasks -> {"none", "test", "look", "found", "set", "end"}]
  /\ stopped \subseteq Tasks /\ answer \in [Tasks -> {"none", "cancelled", "ended"}]
  /\ why \in {"none", "interrupt", "cancel", "orphan", "idle", "shutdown", "terminated"}
  /\ opc \in {"free", "write", "wait", "quiesce", "gone"} /\ sent \in 0 .. MaxTasks
  /\ given \subseteq Tasks /\ cleanup \in {"none", "cancelled", "done"}
  /\ orphan \in BOOLEAN
  /\ pc = "run" => answer[cur] = "none"
  /\ \A t \in stopped : answer[t] # "none"

\* A shutdown.json that an earlier run left in the directory ends no worker.
ShutdownIsWanted == why = "shutdown" => cleanup = "done"

\* "NOT on a task-level cancel.json": the worker outlives the cancellation of a
\* task; it ends on Ctrl-C, on shutdown.json or as an orphan.
CancelSparesWorker == why = "cancel" => shutdown

\* "abort the current task only": a task is cut short when it was itself told to,
\* at the end of the run, or by Ctrl-C.
CancelHitsItsTask ==
  \A t \in Tasks : answer[t] = "cancelled" => t \in given \/ cleanup # "none" \/ shutdown

\* "A pending task ALWAYS wins over the shutdown sentinel".
ShutdownLeavesNoTask == [][why' = "shutdown" /\ why # "shutdown" => task = NoTask]_vars

\* A sentinel that lies there while a task runs ends that task at the end of a
\* turn, however long the task would go on and whichever watcher reads it.
CancelIsHeard == cancelFile /\ pc = "run" ~> pc # "run"

\* A worker whose run is over, or whose orchestrator is gone, ends, unless a
\* task it has taken goes on for ever.
EndedRunEndsWorker == (cleanup = "done" \/ orphan) /\ pc # "off" ~> pc \in {"run", "exited"}

\* A task that is queued for a worker is taken, or the worker ends.
QueuedIsTaken == task # NoTask ~> task = NoTask \/ pc = "exited"

\* "Ctrl-C to exit": after it the worker does not go on polling.
InterruptEndsPolling == shutdown /\ pc = "sleep" => cancel

=============================================================================
