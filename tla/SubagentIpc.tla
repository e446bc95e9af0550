---------------------------- MODULE SubagentIpc ----------------------------
(***************************************************************************)
(* Sub-agents in IPC mode: an orchestrator and worker processes that talk  *)
(* through files only (agent/subagent_ipc.py, the IPC half of              *)
(* agent/orchestrator.py and the worker loop of repl/repl_subagent.py).    *)
(*                                                                         *)
(* A sub-agent has a directory of its own name.  A worker polls the        *)
(* directory it was launched for; a reused worker is handed the task of    *)
(* another sub-agent there, and answers in that sub-agent's directory.     *)
(*                                                                         *)
(* Deadlines, stale heartbeats and the startup guard only ever make a      *)
(* waiter give up: giving up is possible at any time.  A process started   *)
(* with a Popen handle can be terminated; one in a Terminal window cannot, *)
(* and may outlive the run that launched it.                               *)
(***************************************************************************)
EXTENDS Naturals

CONSTANTS
    Agents,     \* sub-agents of the orchestrator, and their directories
    Procs,      \* worker processes; each is launched at most once
    Nobody,     \* no worker process, or no directory
    MaxRuns,    \* bound: orchestrator runs, each dispatching an agent once
    MaxRetries, \* orchestrator.review_max_retries
    MaxEpoch    \* bound: epochs minted

ASSUME SetsAssumption == Nobody \notin Agents \cup Procs
ASSUME BoundsAssumption == /\ MaxRuns \in Nat \ {0}
                           /\ MaxRetries \in Nat
                           /\ MaxEpoch \in Nat \ {0}

VARIABLES
    (* the orchestrator *)
    runs,       \* number of the current run
    epoch,      \* last epoch nonce minted
    pool,       \* _reusable_worker_ids
    used,       \* _ipc_worker_ids
    handle,     \* _ipc_worker_procs
    (* the thread that dispatches agent a *)
    at,         \* where it is
    slot,       \* _worker_id: the directory its task goes to
    nonce,      \* task.epoch of its last write_task
    got,        \* the result wait_for_result returned
    retries,    \* retry_count
    settled,    \* _abandon_ipc_worker saw the worker quiesce
    (* the files *)
    task,       \* task.json of a worker's directory
    cancel,     \* cancel.json
    shutdown,   \* shutdown.json
    exited,     \* worker.heartbeat.json says "exited"
    expected,   \* expected.json of an agent's directory, 0 when missing
    result,     \* result.json
    dirty,      \* assigned files differ from the snapshot of the dispatch
    (* worker process p *)
    home,       \* the directory it polls
    pc,         \* where its main loop is
    job,        \* the task it runs
    flag,       \* cancel_event
    quit,       \* shutdown_event
    watch,      \* cancel watcher of the current task
    late,       \* watcher of an earlier task that was told to stop too late
    loose       \* job whose tool call outlived it in the thread pool

run  == <<runs, used, handle>>
disp == <<at, slot, nonce, got, retries, settled>>
sent == <<task, cancel, shutdown, exited>>
wrk  == <<home, pc, job, flag, quit, watch, late, loose>>
vars == <<run, epoch, pool, disp, sent, expected, result, dirty, wrk>>

Outcomes == {"success", "error", "cancelled"}
Epochs   == 1 .. MaxEpoch
NoTask   == [agent |-> Nobody, epoch |-> 0]
NoResult == [epoch |-> 0, status |-> "none"]
Tasks    == [agent : Agents, epoch : Epochs]
Results  == [epoch : Epochs, status : Outcomes]

Init ==
    /\ runs = 1 /\ epoch = 0 /\ pool = {} /\ used = {}
    /\ handle = [a \in Agents |-> Nobody]
    /\ at = [a \in Agents |-> "todo"]
    /\ slot = [a \in Agents |-> Nobody]
    /\ nonce = [a \in Agents |-> 0]
    /\ got = [a \in Agents |-> NoResult]
    /\ retries = [a \in Agents |-> 0]
    /\ settled = [a \in Agents |-> FALSE]
    /\ task = [a \in Agents |-> NoTask]
    /\ cancel = [a \in Agents |-> FALSE]
    /\ shutdown = [a \in Agents |-> FALSE]
    /\ exited = [a \in Agents |-> FALSE]
    /\ expected = [a \in Agents |-> 0]
    /\ result = [a \in Agents |-> NoResult]
    /\ dirty = [a \in Agents |-> FALSE]
    /\ home = [p \in Procs |-> Nobody]
    /\ pc = [p \in Procs |-> "absent"]
    /\ job = [p \in Procs |-> NoTask]
    /\ flag = [p \in Procs |-> FALSE]
    /\ quit = [p \in Procs |-> FALSE]
    /\ watch = [p \in Procs |-> "off"]
    /\ late = [p \in Procs |-> "off"]
    /\ loose = [p \in Procs |-> NoTask]

Alive(p) == pc[p] \notin {"absent", "gone"}

-----------------------------------------------------------------------------
(* The orchestrator: _run_subagent_ipc, one thread per sub-agent.          *)

(* clear_result and _capture_assigned_snapshots *)
Prepare(a) ==
    /\ at[a] = "todo" /\ runs <= MaxRuns /\ epoch < MaxEpoch
    /\ at' = [at EXCEPT ![a] = "claim"]
    /\ result' = [result EXCEPT ![a] = NoResult]
    /\ expected' = [expected EXCEPT ![a] = 0]
    /\ dirty' = [dirty EXCEPT ![a] = FALSE]
    /\ UNCHANGED <<run, epoch, pool, slot, nonce, got, retries, settled,
                   sent, wrk>>

(* A pooled worker is dropped when its heartbeat says it exited or its     *)
(* handle says it is dead; one without a handle may be found stale.        *)
KnownDead(w) == exited[w] \/ (handle[w] # Nobody /\ ~Alive(handle[w]))
SeemsDead(w) == KnownDead(w) \/ handle[w] = Nobody

\* Slip: the check and the removal are not one step under _bg_lock.
LeaveIn(ids, w) == ids

Discard(ids, w) == ids \ {w}

(* _claim_reusable_worker *)
Claim(a) ==
    /\ at[a] = "claim"
    /\ at' = [at EXCEPT ![a] = "write"]
    /\ \E drop \in SUBSET {w \in pool : task[w] = NoTask /\ SeemsDead(w)} :
          \/ \E w \in pool \ drop :
                /\ task[w] = NoTask
                /\ ~KnownDead(w)
                /\ slot' = [slot EXCEPT ![a] = w]
                /\ pool' = Discard(pool \ drop, w)
          \/ /\ \A w \in pool \ drop : task[w] # NoTask
             /\ slot' = [slot EXCEPT ![a] = Nobody]
             /\ pool' = pool \ drop
    /\ UNCHANGED <<run, epoch, nonce, got, retries, settled, sent, expected,
                   result, dirty, wrk>>

Dir(a) == IF slot[a] = Nobody THEN a ELSE slot[a]

(* write_task up to the sidecar: remove the sentinels, mint the epoch and  *)
(* write expected.json.                                                    *)
WriteExpected(a) ==
    /\ at[a] = "write"
    /\ epoch < MaxEpoch
    /\ at' = [at EXCEPT ![a] = "publish"]
    /\ epoch' = epoch + 1
    /\ nonce' = [nonce EXCEPT ![a] = epoch + 1]
    /\ expected' = [expected EXCEPT ![a] = epoch + 1]
    /\ cancel' = [cancel EXCEPT ![Dir(a)] = FALSE]
    /\ shutdown' = [shutdown EXCEPT ![Dir(a)] = FALSE]
    /\ UNCHANGED <<run, pool, slot, got, retries, settled, task, exited,
                   result, dirty, wrk>>

(* write_task: task.json *)
WriteTask(a) ==
    /\ at[a] = "publish"
    /\ at' = [at EXCEPT ![a] = IF slot[a] = Nobody THEN "launch" ELSE "wait"]
    /\ slot' = [slot EXCEPT ![a] = Dir(a)]
    /\ task' = [task EXCEPT ![Dir(a)] = [agent |-> a, epoch |-> nonce[a]]]
    /\ used' = used \cup {Dir(a)}
    /\ UNCHANGED <<runs, handle, epoch, pool, nonce, got, retries,
                   settled, cancel, shutdown, exited, expected, result,
                   dirty, wrk>>

(* _spawn_ipc_worker_background keeps a handle,                            *)
(* _launch_ipc_worker_terminal_macos does not; either may fail.            *)
Launch(a) ==
    /\ at[a] = "launch"
    /\ at' = [at EXCEPT ![a] = "wait"]
    /\ \/ UNCHANGED <<handle, home, pc, exited>>
       \/ \E p \in Procs :
             /\ pc[p] = "absent"
             /\ pc' = [pc EXCEPT ![p] = "clear"]
             /\ home' = [home EXCEPT ![p] = slot[a]]
             /\ exited' = [exited EXCEPT ![slot[a]] = FALSE]
             /\ \/ handle' = [handle EXCEPT ![slot[a]] = p]
                \/ UNCHANGED handle
    /\ UNCHANGED <<runs, used, epoch, pool, slot, nonce, got, retries,
                   settled, task, cancel, shutdown, expected, result, dirty,
                   job, flag, quit, watch, late, loose>>

(* wait_for_result: an answer without a mismatching epoch is returned, any *)
(* other goes to the quarantine.                                           *)

\* Slip: any answer will do.
FreshWhateverEpoch(a, r) == r # NoResult

Fresh(a, r) == r # NoResult /\ (expected[a] = 0 \/ r.epoch = expected[a])

Adopt(a, r) == /\ got' = [got EXCEPT ![a] = r]
               /\ at' = [at EXCEPT ![a] = "review"]

ReadResult(a) ==
    /\ at[a] = "wait"
    /\ result[a] # NoResult
    /\ IF Fresh(a, result[a])
         THEN Adopt(a, result[a])
         ELSE at' = [at EXCEPT ![a] = "stale"] /\ UNCHANGED got
    /\ UNCHANGED <<run, epoch, pool, slot, nonce, retries, settled, sent,
                   expected, result, dirty, wrk>>

\* Slip: the stale file is removed with os.unlink.
NothingRecovered(a) == FALSE

Recovered(a) == Fresh(a, result[a])

(* _quarantine_and_recheck: the file moved aside may be a newer one than   *)
(* the file that was read.                                                 *)
Quarantine(a) ==
    /\ at[a] = "stale"
    /\ result' = [result EXCEPT ![a] = NoResult]
    /\ IF Recovered(a)
         THEN Adopt(a, result[a])
         ELSE at' = [at EXCEPT ![a] = "wait"] /\ UNCHANGED got
    /\ UNCHANGED <<run, epoch, pool, slot, nonce, retries, settled, sent,
                   expected, dirty, wrk>>

(* wait_for_result returns None; _abandon_ipc_worker writes cancel.json.   *)
GiveUp(a) ==
    /\ at[a] = "wait"
    /\ at' = [at EXCEPT ![a] = "abandon"]
    /\ cancel' = [cancel EXCEPT ![slot[a]] = TRUE]
    /\ UNCHANGED <<run, epoch, pool, slot, nonce, got, retries, settled,
                   task, shutdown, exited, expected, result, dirty, wrk>>

(* The dispatch of a returns, and its locals are gone.                     *)
Return(a) ==
    /\ at' = [at EXCEPT ![a] = "done"]
    /\ slot' = [slot EXCEPT ![a] = Nobody]
    /\ nonce' = [nonce EXCEPT ![a] = 0]
    /\ got' = [got EXCEPT ![a] = NoResult]
    /\ retries' = [retries EXCEPT ![a] = 0]

(* The processes P end, with their threads.                                *)
Kill(P) ==
    LET Reset(f, v) == [p \in Procs |-> IF p \in P THEN v ELSE f[p]]
    IN  /\ pc' = Reset(pc, "gone")
        /\ job' = Reset(job, NoTask) /\ loose' = Reset(loose, NoTask)
        /\ watch' = Reset(watch, "off") /\ late' = Reset(late, "off")
        /\ flag' = Reset(flag, FALSE) /\ quit' = Reset(quit, FALSE)
        /\ home' = Reset(home, Nobody)

(* _abandon_ipc_worker: a hard cancel waits for the process or terminates  *)
(* it; a timeout waits for result.json, whatever it holds, and terminates  *)
(* the process when none appears.  The snapshot is restored in each case.  *)
(* Either may be the case: the run's cancel_event can be set at any time.  *)
Abandon(a) ==
    /\ at[a] = "abandon"
    /\ Return(a)
    /\ dirty' = [dirty EXCEPT ![a] = FALSE]
    /\ \/ /\ result[a] # NoResult
          /\ handle[slot[a]] # Nobody => Alive(handle[slot[a]])
          /\ settled' = [settled EXCEPT ![a] = TRUE]
          /\ pool' = pool \cup {slot[a]}
          /\ UNCHANGED wrk
       \/ /\ Kill({p \in {handle[slot[a]]} \ {Nobody} : Alive(p)})
          /\ UNCHANGED <<settled, pool>>
    /\ UNCHANGED <<run, epoch, sent, expected, result>>

(* The review approves, or there is none: the worker goes to the pool.  An *)
(* answer other than a success restores the snapshot; a cancelled one      *)
(* waits a moment for the worker to say that it exited.                    *)
Finish(a) ==
    /\ at[a] = "review"
    /\ Return(a)
    /\ dirty' = [dirty EXCEPT ![a] = @ /\ got[a].status = "success"]
    /\ pool' = IF got[a].status = "cancelled" /\ exited[slot[a]]
                 THEN pool ELSE pool \cup {slot[a]}
    /\ UNCHANGED <<run, epoch, settled, sent, expected, result, wrk>>

(* The review rejects: restore, clear_result, and write_task again.        *)
Reject(a) ==
    /\ at[a] = "review"
    /\ got[a].status = "success"
    /\ retries[a] < MaxRetries
    /\ at' = [at EXCEPT ![a] = "write"]
    /\ retries' = [retries EXCEPT ![a] = @ + 1]
    /\ got' = [got EXCEPT ![a] = NoResult]
    /\ result' = [result EXCEPT ![a] = NoResult]
    /\ expected' = [expected EXCEPT ![a] = 0]
    /\ dirty' = [dirty EXCEPT ![a] = FALSE]
    /\ UNCHANGED <<run, epoch, pool, slot, nonce, settled, sent, wrk>>

\* Slip: workers of the last run stay in the pool.
KeepPool == pool' = pool

ClearPool == pool' = {}

(* The end of a run, _cleanup_ipc_workers, and the reset that starts the   *)
(* next one.  A run need not plan every agent.  After the last run the     *)
(* orchestrator process ends.                                              *)
NextRun ==
    /\ runs <= MaxRuns
    /\ \A a \in Agents : at[a] \in {"todo", "done"}
    /\ runs' = runs + 1
    /\ cancel' = [w \in Agents |-> cancel[w] \/ w \in used]
    /\ shutdown' = [w \in Agents |-> shutdown[w] \/ w \in used]
    /\ Kill({p \in Procs : Alive(p) /\ \E w \in Agents : handle[w] = p})
    /\ handle' = [a \in Agents |-> Nobody]
    /\ used' = {} /\ ClearPool
    /\ at' = [a \in Agents |-> "todo"]
    /\ settled' = [a \in Agents |-> FALSE]
    /\ UNCHANGED <<epoch, slot, nonce, got, retries, task, exited, expected,
                   result, dirty>>

-----------------------------------------------------------------------------
(* The worker process: the loop of repl_subagent.py and poll_for_task.     *)

(* cancel_event.clear(), after the test of shutdown_event                  *)
ClearFlag(p) ==
    /\ pc[p] = "clear"
    /\ pc' = [pc EXCEPT ![p] = "poll"]
    /\ flag' = [flag EXCEPT ![p] = FALSE]
    /\ UNCHANGED <<run, epoch, pool, disp, sent, expected, result, dirty,
                   home, job, quit, watch, late, loose>>

\* Slip: the task is read and left for the removal that follows.
Copied(d) == task

Taken(d) == [task EXCEPT ![d] = NoTask]

(* poll_for_task wins the rename; a worker told to quit drops the task,    *)
(* any other starts the cancel watcher and runs it.                        *)
PickUp(p) ==
    /\ pc[p] = "poll" /\ ~flag[p]
    /\ task[home[p]] # NoTask
    /\ task' = Taken(home[p])
    /\ IF quit[p]
         THEN pc' = [pc EXCEPT ![p] = "exit"] /\ UNCHANGED <<job, watch>>
         ELSE /\ pc' = [pc EXCEPT ![p] = "work"]
              /\ job' = [job EXCEPT ![p] = task[home[p]]]
              /\ watch' = [watch EXCEPT ![p] = "looking"]
    /\ UNCHANGED <<run, epoch, pool, disp, cancel, shutdown, exited,
                   expected, result, dirty, home, flag, quit, late,
                   loose>>

(* poll_for_task returns None: cancel_event is set, shutdown.json is there *)
(* and no task is, or the orchestrator process is gone.                    *)
StopPolling(p) ==
    /\ pc[p] = "poll"
    /\ pc' = [pc EXCEPT ![p] = "exit"]
    /\ \/ flag[p] /\ UNCHANGED shutdown
       \/ /\ ~flag[p] /\ task[home[p]] = NoTask /\ shutdown[home[p]]
          /\ shutdown' = [shutdown EXCEPT ![home[p]] = FALSE]
       \/ runs > MaxRuns /\ UNCHANGED shutdown
    /\ UNCHANGED <<run, epoch, pool, disp, task, cancel, exited, expected,
                   result, dirty, home, job, flag, quit, watch, late,
                   loose>>

(* The dispatches tool calls of p work for: the current one, and one an    *)
(* earlier task left behind in the thread pool.                            *)
Running(p) == (IF pc[p] = "work" THEN {job[p], loose[p]} ELSE {loose[p]})
                  \ {NoTask}

(* A tool call writes to the files of the agent it works for.              *)
Edit(p) ==
    /\ \E t \in Running(p) :
          /\ ~dirty[t.agent]
          /\ dirty' = [dirty EXCEPT ![t.agent] = TRUE]
    /\ UNCHANGED <<run, epoch, pool, disp, sent, expected, result, wrk>>

(* A tool call left behind returns.                                        *)
LooseEnds(p) ==
    /\ loose[p] # NoTask
    /\ loose' = [loose EXCEPT ![p] = NoTask]
    /\ UNCHANGED <<run, epoch, pool, disp, sent, expected, result, dirty,
                   home, pc, job, flag, quit, watch, late>>

\* Slip: no end of a turn waits for its tool calls.
LeftBehindAnyway(p, s) == {loose[p], job[p]}

(* What may be left in the thread pool: AgentCancelled is raised without   *)
(* waiting for the tool call in flight.  Bound: one call per process.      *)
LeftBehind(p, s) == IF s = "cancelled" /\ loose[p] = NoTask
                      THEN {loose[p], job[p]} ELSE {loose[p]}

(* The task ends and its result is written, unless both attempts fail.     *)
Complete(p) ==
    /\ pc[p] = "work"
    /\ pc' = [pc EXCEPT ![p] = "wrote"]
    /\ \E s \in Outcomes :
          /\ s = "cancelled" => flag[p]
          /\ \E t \in LeftBehind(p, s) : loose' = [loose EXCEPT ![p] = t]
          /\ result' \in {result, [result EXCEPT ![job[p].agent] =
                                      [epoch |-> job[p].epoch, status |-> s]]}
    /\ UNCHANGED <<run, epoch, pool, disp, sent, expected, dirty, home, job,
                   flag, quit, watch, late>>

(* _watcher_stop.set(): the watcher is not joined.  It may be past its     *)
(* test of the stop flag, or hold a sentinel it has already removed.       *)
(* Bound: one such watcher per process.                                    *)
StopWatcher(p) ==
    /\ pc[p] = "wrote"
    /\ pc' = [pc EXCEPT ![p] = IF quit[p] THEN "exit" ELSE "clear"]
    /\ job' = [job EXCEPT ![p] = NoTask]
    /\ watch' = [watch EXCEPT ![p] = "off"]
    /\ late' \in {late, [late EXCEPT ![p] = watch[p]]}
    /\ watch[p] = "holding" /\ late[p] = "off" => late' # late
    /\ UNCHANGED <<run, epoch, pool, disp, sent, expected, result, dirty,
                   home, flag, quit, loose>>

(* _cancel_watcher: find and remove cancel.json, then set cancel_event.    *)
Watch(p) ==
    /\ Alive(p)
    /\ \/ /\ watch[p] = "looking" /\ cancel[home[p]]
          /\ cancel' = [cancel EXCEPT ![home[p]] = FALSE]
          /\ watch' = [watch EXCEPT ![p] = "holding"]
          /\ UNCHANGED <<late, flag>>
       \/ /\ late[p] = "looking" /\ cancel[home[p]]
          /\ cancel' = [cancel EXCEPT ![home[p]] = FALSE]
          /\ late' = [late EXCEPT ![p] = "holding"]
          /\ UNCHANGED <<watch, flag>>
       \/ /\ late[p] = "looking"
          /\ late' = [late EXCEPT ![p] = "off"]
          /\ UNCHANGED <<cancel, watch, flag>>
       \/ /\ watch[p] = "holding"
          /\ flag' = [flag EXCEPT ![p] = TRUE]
          /\ watch' = [watch EXCEPT ![p] = "off"]
          /\ UNCHANGED <<cancel, late>>
       \/ /\ late[p] = "holding"
          /\ flag' = [flag EXCEPT ![p] = TRUE]
          /\ late' = [late EXCEPT ![p] = "off"]
          /\ UNCHANGED <<cancel, watch>>
    /\ UNCHANGED <<run, epoch, pool, disp, task, shutdown, exited, expected,
                   result, dirty, home, pc, job, quit, loose>>

(* Ctrl-C in the worker's own terminal window *)
Interrupt(p) ==
    /\ Alive(p) /\ ~quit[p] /\ handle[home[p]] # p
    /\ flag' = [flag EXCEPT ![p] = TRUE]
    /\ quit' = [quit EXCEPT ![p] = TRUE]
    /\ UNCHANGED <<run, epoch, pool, disp, sent, expected, result, dirty,
                   home, pc, job, watch, late, loose>>

(* The loop is over: say so in worker.heartbeat.json.  The interpreter     *)
(* ends when the thread pool is idle.                                      *)
Exit(p) ==
    /\ pc[p] = "exit"
    /\ pc' = [pc EXCEPT ![p] = "ending"]
    /\ exited' = [exited EXCEPT ![home[p]] = TRUE]
    /\ UNCHANGED <<run, epoch, pool, disp, task, cancel, shutdown, expected,
                   result, dirty, home, job, flag, quit, watch, late,
                   loose>>

(* The process ends, or crashes or is killed at any moment without a word. *)
End(p) ==
    /\ Alive(p)
    /\ Kill({p})
    /\ UNCHANGED <<run, epoch, pool, disp, sent, expected, result, dirty>>

Next ==
    \/ \E a \in Agents :
          \/ Prepare(a) \/ Claim(a) \/ WriteExpected(a) \/ WriteTask(a)
          \/ Launch(a) \/ ReadResult(a) \/ Quarantine(a) \/ GiveUp(a)
          \/ Abandon(a) \/ Finish(a) \/ Reject(a)
    \/ NextRun
    \/ \E p \in Procs :
          \/ ClearFlag(p) \/ PickUp(p) \/ StopPolling(p)
          \/ Edit(p) \/ LooseEnds(p) \/ Complete(p)
          \/ StopWatcher(p) \/ Watch(p) \/ Interrupt(p) \/ Exit(p)
          \/ End(p)

Spec == Init /\ [][Next]_vars

-----------------------------------------------------------------------------
(* The state of the files and of both sides has the shape the code gives   *)
(* it.                                                                     *)
TypeOK ==
    /\ runs \in 1 .. MaxRuns + 1
    /\ epoch \in 0 .. MaxEpoch
    /\ pool \subseteq used /\ used \subseteq Agents
    /\ handle \in [Agents -> Procs \cup {Nobody}]
    /\ at \in [Agents -> {"todo", "claim", "write", "publish", "launch",
                          "wait", "stale", "review", "abandon", "done"}]
    /\ slot \in [Agents -> Agents \cup {Nobody}]
    /\ nonce \in [Agents -> 0 .. epoch] /\ expected \in [Agents -> 0 .. epoch]
    /\ got \in [Agents -> Results \cup {NoResult}]
    /\ retries \in [Agents -> 0 .. MaxRetries]
    /\ settled \in [Agents -> BOOLEAN]
    /\ task \in [Agents -> Tasks \cup {NoTask}]
    /\ cancel \in [Agents -> BOOLEAN] /\ shutdown \in [Agents -> BOOLEAN]
    /\ exited \in [Agents -> BOOLEAN] /\ dirty \in [Agents -> BOOLEAN]
    /\ result \in [Agents -> Results \cup {NoResult}]
    /\ home \in [Procs -> Agents \cup {Nobody}]
    /\ pc \in [Procs -> {"absent", "clear", "poll", "work", "wrote",
                         "exit", "ending", "gone"}]
    /\ job \in [Procs -> Tasks \cup {NoTask}]
    /\ loose \in [Procs -> Tasks \cup {NoTask}]
    /\ flag \in [Procs -> BOOLEAN] /\ quit \in [Procs -> BOOLEAN]
    /\ watch \in [Procs -> {"off", "looking", "holding"}]
    /\ late \in [Procs -> {"off", "looking", "holding"}]

(* wait_for_result never returns the answer to an earlier dispatch of the  *)
(* same sub-agent, though workers of earlier runs still write answers into *)
(* its directory.                                                          *)
AdoptedIsCurrent ==
    \A a \in Agents : at[a] = "review" => got[a].epoch = nonce[a]

(* An answer other than a cancellation, once adopted, means that no thread *)
(* of any worker still runs that dispatch: the review reads files nobody   *)
(* is writing for it, and a retry starts alone.                            *)
AdoptedIsFinished ==
    \A a \in Agents, p \in Procs :
        at[a] = "review" /\ got[a].status # "cancelled" =>
            [agent |-> a, epoch |-> got[a].epoch] \notin Running(p)

(* Two workers that poll one directory never run the same dispatch: the    *)
(* rename of task.json has one winner.                                     *)
OneRunnerPerDispatch ==
    \A p, q \in Procs : p # q /\ job[p] # NoTask => job[p] # job[q]

(* The orchestrator never throws away the answer it is waiting for: when   *)
(* it lands between the read of a stale file and its removal, the          *)
(* quarantine adopts it.                                                   *)
FreshResultKept ==
    [][\A a \in Agents :
          /\ at[a] \in {"wait", "stale"} /\ result[a].epoch = nonce[a]
          /\ result'[a] = NoResult
          => got'[a] = result[a]]_vars

(* A task somebody waits for leaves its directory only in the hands of a   *)
(* worker there, never because another dispatch writes over it.            *)
QueuedTaskKept ==
    [][\A w \in Agents :
          /\ task[w] # NoTask /\ task'[w] # task[w]
          /\ at[task[w].agent] = "wait" /\ nonce[task[w].agent] = task[w].epoch
          => /\ task'[w] = NoTask
             /\ \E p \in Procs : home[p] = w /\ (job'[p] = task[w] \/ quit[p])]_vars

(* "A present result.json means all in-flight edits have landed and the    *)
(* worker is idle": files restored after the worker quiesced stay as they  *)
(* were restored.                                                          *)
RestoredStaysRestored ==
    [][\A a \in Agents :
          at[a] = "done" /\ settled[a] /\ at'[a] = "done" /\ ~dirty[a]
          => ~dirty'[a]]_vars
=============================================================================
