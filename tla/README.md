# A verification of asicode's shared state

asicode is a coding agent for a terminal. A run of it talks to a model, calls
tools that read and write the repository of the user, may split the work among
sub-agents (threads of the process, or worker processes of their own), keeps a
checkpoint of every file it is about to change so that `/undo` can return to
the start of the run, and keeps its state in files which several asicode
processes share. This directory holds TLA+ modules of the parts of the program
where those actors meet, the TLC configurations that check them on small
instances, and TLAPS proofs of what matters most about them.

Paths below are relative to `src/external_llm/` unless they start with `src/`.

## 1. The system

### 1.1 Components that carry the program's own state

| component | state | operations | hard because | module |
|---|---|---|---|---|
| **File locks** `agent/orchestrator.py` (`FileLockManager`) | a process-wide *weak* registry path → `threading.Lock`; a `_held` table per manager | `acquire_relevant`, `release_all`, `acquire_repo`, `reset` | several managers and threads; Locks vanish when nobody refers to them; exceptions while blocked; `reset()` while writes are in flight | FileLocks |
| **Write dispatch, gate, Undo** `agent/tool_registry.py`, `agent/run_checkpoint.py`, `/undo` in `repl/repl_impl.py` | locks and snapshot of a call; checkpoint id, pending absences | lock, gate, handle, verify, roll back, confirm, release; restore | a write may be refused, fail half-way, or be rolled back after the gate has seen it; the user edits the same files; captures fail | RunCheckpoint |
| **Checkpoint store** `agent/checkpoint_store.py` | index, payloads, blob directories, a list in each process | `create`, `extend`, `delete`, retention, `restore`, rebuild | several processes, crashes between any two file operations, stale lists | CheckpointIndex |
| **Sub-agents in IPC mode** `agent/subagent_ipc.py`, `agent/orchestrator.py`, `repl/repl_subagent.py` | `task.json`, `expected.json`, `result.json`, `cancel.json`, `shutdown.json`; pool of workers; events and threads of a worker | dispatch, claim, wait, quarantine, review, retry, abandon, cleanup; poll, run, answer, watch, exit | processes that only share files, outlive runs, crash, and are handed the tasks of others | SubagentIpc, SubagentWorker |
| **Tool loop of the orchestrator** `agent/orchestrator.py` | executor, table of sub-agents under `_bg_lock`, results | spawn, poll, drain, cancel, return | tool calls of one answer run on several threads; polls and the drain see the same futures | ToolLoopAgents |
| **Cross-process lock files** `common/file_lock.py` | `*.lock` files and their inodes | take, release, sweep, degrade | an unlinked name leaves a held lock nobody finds | FlockFiles |
| **Edit leases** `common/edit_lease.py`, two write mixins | a lease file per path | check, record, expire, sweep | check, write and record are three steps; process ids are used again | EditLeases |
| **Tool result cache** `agent/tool_result_cache.py`, `agent/tool_registry.py` | results with signatures, LRU order | get, set, invalidate | reads that go on after their turn; writes of other processes | ToolCache |
| **Background jobs** `agent/background_job_manager.py` | job table, stale jobs, ring of results | start, evict, kill, clean up, reap | kills run outside the lock; processes that do not die | BackgroundJobs |
| **Design session** `design_session.py`, `agent/context_manager.py` | session file, archive, a cached copy per process | open, add a turn, compress, archive, fold, merge | two terminals on one session, crashes between append and save | DesignSession |
| **Failure patterns** `agent/failure_pattern_store.py` | counts in a file, memory and baseline of each process | record, flush, recall, drop, prune, clear | lost or doubled increments | FailurePatterns |
| **Autonomous tasks** `editor/agent/autonomous` | heap with tombstones, slots, wake flag; cooldown tables | enqueue, claim, finish, start, stop; evaluate | lost wake-ups, pruning, caps | AutonomousQueue, TriggerPolicy |
| **MCP servers** `editor/agent/mcp` | a queue and a stamp per session; threads, slots and stdout | the HTTP verbs, sweep, shutdown; read, call, drain | an answer queued for a session that closes | McpSessions, McpStdio |
| Agent loops, tool handlers, patching, languages, graph, classifiers, model clients, REPL, collaboration, plan state | texts | | transformations of text and input/output; no state shared with other actors except through the components above | none |

`PROJECT.json` lists the same components with their status, and under `hazards`
the places, line by line, where this code can go wrong in a way a test would
hardly reach, each with the properties that watch it.

### 1.2 How they interact

* A write tool call goes through `ToolRegistry._dispatch_impl`: it takes the
  locks of its target files from the `FileLockManager` of its orchestrator, lets
  the run's `RunCheckpointGate` capture the targets, runs the handler, verifies
  the syntax of the result and rolls back if it is broken, lets the gate confirm
  what the write created, invalidates the tool cache, and gives the locks back in
  a `finally`. The handler checks the edit leases first and records its own.
* The gate creates one checkpoint per run in the `CheckpointStore` at the first
  write and extends it afterwards. Sub-agents in the process share the gate.
* Stores shared by processes (checkpoint index, design session, failure
  patterns) are rewritten under a lock file of `common/file_lock.py`.
* In the tool loop the model spawns sub-agents, which run on an executor; each
  either runs in a thread or hands its task to a worker process by writing files
  in the worker's directory, and reads the answer from the sub-agent's directory,
  which is another one when the worker is reused. An epoch names a dispatch.
* A worker runs its tool calls in a thread pool. A cancelled task raises
  `AgentCancelled` without waiting for the tool call in flight.
* The autonomous runner turns events into tasks through the trigger policy; the
  MCP servers offer the tools to other programs. Both run beside the REPL.

### 1.3 What makes each component correct

* *File locks*: at most one writer inside a file over all managers; the weak
  entry lives as long as somebody is inside; no cycle of waiters; no Lock left
  locked by anybody who is gone; a Lock is only released by those it belongs to.
* *Write path and Undo*: a restored run leaves the files exactly as it found
  them; the first record of a path decides; only creations of the run are deleted.
* *Store*: no checkpoint is lost to another process's save; no payload without
  contents; retention bounds the index; what was removed stays out.
* *IPC*: answers are matched with dispatches; no answer that is awaited is thrown
  away; a task runs once and is not overwritten while queued; an adopted answer
  means that the work is over. *Worker*: no sentinel of an old run ends it, one
  meant for it does.
* *Tool loop*: every spawn is counted once and returned; the run returns.
* *Lock files*: a held name is not unlinked. *Leases*: who edits is guarded.
  *Cache*: a session never reads what its own writes replaced.
* *Background jobs*: a living process is in a registry; what ended is reaped.
* *Design session, patterns*: no turn and no record is lost or doubled.
* *Autonomous tasks*: the policy decides as its rules say over the whole history;
  accepted tasks run or are superseded, newest last, within the slots.
* *MCP*: an acknowledged answer has a reader and is written; slots are given back.

## 2. The modules

    PathLocks          what per-file locking promises                (abstract)
      ^ implemented by              ^ used by (INSTANCE Locks)
    FileLocks          RunCheckpoint     CheckpointIndex     SubagentIpc     SubagentWorker
    TriggerHistory     what the trigger policy promises              (abstract)
      ^ implemented by                TriggerRules  the tables both are built on
    TriggerPolicy
    FlockFiles  EditLeases  ToolCache  DesignSession  FailurePatterns   (files processes share)
    ToolLoopAgents  BackgroundJobs  AutonomousQueue  McpSessions  McpStdio   (threads of one)
    Selections         what a filter keeps of a sequence (of ToolCache and DesignSession)
    SharedFiles        FlockFiles, EditLeases, ToolCache, DesignSession and FailurePatterns
                       side by side
    Services           TriggerPolicy, AutonomousQueue, McpSessions and McpStdio side by side
    Agents             ToolLoopAgents, BackgroundJobs and SubagentWorker side by side

    proofs: FileLocksProofs RunCheckpointProofs CheckpointIndexProofs SubagentIpcProofs
            ServicesProofs DesignSessionProofs SharedFilesProofs AgentsProofs
    TLC:    MCFileLocks MCRunCheckpoint MCCheckpointIndex MCSubagentIpc
            MCSharedFiles MCAgents MCServices MCProgress

`PROJECT.json` maps each definition to its lines. Definitions whose comment
starts with `Slip:` are not part of any specification: each is a plausible mistake
in the code next to it, kept to show that a property notices it.

**Scenarios.** Several MC modules hold more than one instance: a variable
`scenario`, chosen in the initial state, says which of them takes steps, and the
others rest in an initial state. The instances share no variable and nothing in
the code couples them that the models know of (each component's interface to the
others is part of its own module, as choices of its environment), so the states
add up instead of multiplying, and a property of the MC module is the conjunction of
the properties its instances have under the scenarios that concern them. `Services`,
`SharedFiles` and `Agents` are the compositions themselves: four, five and three parts,
each at its own pace, with what is promised of them stated and proved without scenarios;
`MCServices`, `MCSharedFiles` and `MCAgents` pick one part at a time for TLC and break
symmetries.

### 2.1 PathLocks

One variable, `owner`, from keys to writers. `Acquire` takes a set of free keys,
`Release` gives own keys back. `FileLocks` is shown, by TLC and by proof, to
implement it with `owner` mapped to the writer whose `taken` set has the key.
`RunCheckpoint` takes its locks with `Locks!Acquire` and `Locks!Release`, so that
its write path stands on what the detailed module implements. It uses one step
for all targets of a call; the detailed module takes them one by one.

### 2.2 FileLocks

| variable | code |
|---|---|
| `registry` | `_file_locks`, the `WeakValueDictionary` |
| `held[m]` | `_held` of manager `m` |
| `holder[l]` | whether Lock `l` is locked, and by whom (a `threading.Lock` does not know) |
| `pc`, `todo`, `taken`, `lock` | a thread's place in `acquire_relevant` / `release_all` and its locals |
| `resetting[m]` | the Locks a `reset()` has taken out of `_held` and not yet released |

Every step is what happens under the meta lock, or one Lock operation: look up
(`FindLock`, `MintLock`), block and acquire (`Acquire`), enter in `_held`
(`Record`), an exception (`Unwind`), release in two steps (`Forget` takes the
entry out of `_held`, or finds the Lock in the registry when there is none;
`Unlock` releases it, locked or not, because the `RuntimeError` is swallowed).
`Collect` is the weak dictionary: an entry goes once no local variable, no `_held`
and no `reset()` refers to its Lock. Keys are numbers so that `sorted` is `<`; key
0 is the worktree mutex of `acquire_repo`, taken before any file, without
blocking, and released last. In the sources only tests call `acquire_repo`.

`Spec` has no `reset()`: one between runs finds `_held` empty. `SpecWithReset` adds
`ResetBegin` and `ResetRelease` at any time, which is what `run()` may do in its
`finally` after a cancelled batch.

### 2.3 RunCheckpoint

| variable | code |
|---|---|
| `mode` | `ASICODE_CHECKPOINT_ON_WRITE`, scoped or full |
| `tree`, `start` | the files now, and when the run began |
| `pending` | `_pending_absent` of the gate |
| `cp`, `hashes`, `tombs` | the run's checkpoint, its `file_hashes` with blobs, its `absent` list of paths as they are spelled there |
| `owner` | the file locks (PathLocks) |
| `pc`, `targets`, `guarded`, `snap` | each agent's write in flight; whether the tool is one whose result is verified; its rollback snapshot |
| `phase`, `left`, `good` | `/undo` and `restore()`, with the records it has still to visit |
| `leaked`, `maker` | history: files created by a write that failed, and who made each file appear |

A dispatch is `Begin`, `BeforeWrite`, a handler that refuses, writes or fails,
`VerifyKeeps` or `VerifyRollsBack`, `Confirm`, `Release`. What a handler writes is any
contents for its targets, deletion included. `before_write` and `confirm_writes`
run under the gate's lock, so each is one action, with the extension of the
checkpoint inside. `EvictedElsewhere` is the retention of another run. `Undo` starts
when the agents are idle; `restore()` then goes record by record, contents before
tombstones, and may fail at any of them.

A tombstone keeps the spelling of its path. The gate hands over absolute paths; `create()`
stores its `absent` argument as it is, `extend()` makes it relative and finds recorded only
what is relative (`Known`). So a file created by the first confirmed write of a run that has
no checkpoint yet gets an absolute tombstone, the next write to it captures its content
beside, and `restore()` visits both records: `Record` is what they leave.

`SpecShared` adds `Outside`: the user, or a shell command, changes a file no write
tool holds. `SpecFaulty` adds captures that skip some files, and payloads
that cannot be saved.

### 2.4 CheckpointIndex

| variable | code |
|---|---|
| `payload`, `blobs` | `checkpoint_<id>.json` files and blob directories |
| `index`, `indexed` | `checkpoints.json` and whether it exists |
| `flock` | the holder of `checkpoints.json.lock` |
| `mem[w]` | `self.checkpoints` in process `w` |
| `pc`, `cur`, `victim` | where `w` is; the checkpoint it makes or extends; the one whose blobs it still has to remove |
| `own` | the checkpoint the gate of `w` created last, the only one it extends |
| `done`, `gone`, `revived` | history: creations that returned, checkpoints deleted or evicted, and payloads `extend()` wrote back after that |

`create()` is `Stamp`, `CopyBlobs`, `SavePayload` (or `CreateFails`), the retention
before the flock (`Evict`, `RemoveBlobs`, `Retained`), then `_save_checkpoints`:
`Merge` under the flock, the retention again, `WriteIndex` or `WriteFails`. `Delete`
unlinks first and saves afterwards. `Load` rebuilds a missing index from the
payloads. `Crash` may come between any two steps and frees the flock.
`extend()` reads the payload (`ExtendReads`) and writes it back (`ExtendWrites`) in two steps
outside the flock, or ends between them because nothing is new or the write fails
(`ExtendEnds`). Identifiers are timestamps, so the oldest is the least; a
checkpoint counts one unit towards the byte cap, and blob directories
without a payload count too.

### 2.5 SubagentIpc

The orchestrator's part has one dispatching thread per sub-agent:

    todo -Prepare-> claim -Claim-> write -WriteExpected-> publish -WriteTask-> launch | wait
    launch -Launch-> wait -ReadResult-> review | stale;  stale -Quarantine-> review | wait
    wait -GiveUp-> abandon -Abandon-> done;  review -Finish-> done | -Reject-> write

`write_task` is two actions, since `expected.json` and `task.json` are two files and
their order matters. `Claim` is `_claim_reusable_worker` under `_bg_lock`: it drops
workers known or thought to be dead and takes one without a queued task. `NextRun`
is the end of a run, `_cleanup_ipc_workers`, and the start of the next.

The worker's part follows the loop of `repl_subagent.py`: `ClearFlag` (the clearing of
`cancel_event`), `PickUp` (the rename of `task.json`), `Complete` (the result),
`StopWatcher` (the watcher is told to stop and not joined), `StopPolling` and `Exit`;
beside it the cancel watcher (`Watch`: find the sentinel, remove it, set the
event), Ctrl-C (`Interrupt`), and the end or crash of the process (`End`).
`Running(p)` is the set of dispatches whose tool calls threads of `p` still
carry out: the current one, and one that an earlier cancelled task left in the
thread pool (`loose`). `dirty[a]` says that the files assigned to `a` differ from
their snapshot.

### 2.6 SubagentWorker

One worker with every test, file operation and event as a step of its own, where
`SubagentIpc` has many workers with coarser steps. `pc` is the main thread
(`LoopTest`, `ClearCancel`, `PollTest`, `Take`, `PollShutdown`, `Sleep`, `StartTask`,
`TaskEnds`, `TurnAborts`, `StopWatcher`), `watch[t]` the watcher of task `t` (`WatchTest`,
`WatchLook`, `WatchUnlink`, `WatchSet`), `cancel` and `shutdown` the two events, and
`task`, `cancelFile`, `shutdownFile` the files. Of the orchestrator there are the
two halves of `write_task` (`ClearSentinels`, `WriteTask`), the waiting and giving up,
and the two passes of `_cleanup_ipc_workers`. `Interrupt` is Ctrl-C, `OrchestratorDies`
leaves an orphan; the files may hold sentinels of an earlier run at the start.

### 2.7 ToolLoopAgents

| variable | code |
|---|---|
| `executor`, `made`, `closed`, `queue`, `home`, `job` | `_bg_executor` and its replacements, futures |
| `entries`, `settled`, `results` | `_bg_subagents`, `entry["result"]`, `_bg_results` |
| `calls[c]` | a tool call on a pool thread: its step and locals |
| `phase`, `cancelled`, `gaveUp`, `returned` | the run: turn, drain, cleanup, return |
| `warned` | the conflicts a spawn named |
| `maxSubagents` | `orch_config.max_subagents`, fixed for a run |
| `crowded` | history: whether a spawn was asked for while another was under way |

A spawn is `SpawnCheck`, `EnsureExecutor`, `CreateExecutor`, `TakeExecutor`, `Submit`,
`Register`, as the locks in the code divide it; a poll is `PollRead`, `Look`, `Store`,
`Answer`, `WaitEnds`; the drain runs the same `Look` and `Store`. `Start` and `Finish` are
the executor's threads. `SpawnsAreKept` claims the bound on sub-agents and the warnings
while `crowded` is FALSE, for overlapping spawns break both (section 5); that results are
counted once and returned it claims always.

### 2.8 BackgroundJobs

| variable | code |
|---|---|
| `active`, `since` | `_jobs`, and the order in which jobs were inserted |
| `ring`, `stale` | `_reaped_results`, `_stale_jobs`, oldest first |
| `status`, `killer` | `job.status`, holder of `job._lock` |
| `mgr` | holder of the manager's lock across a step |
| `rc`, `told`, `words` | the process: how it ended, whether a signal reached it, its last output |
| `pc`, `job`, `goal` / `sweep`, `todo`, `seen` | a tool call / the current sweep |

`Start` inserts where there is room, drops the oldest job polled as ended, or keeps the
lock and chooses the oldest as its victim: `Mark` takes it out and leaves the placeholder
`killing` in the ring, the kill runs outside the lock (`KillBegins`, `Signal`,
`AfterTimeout`, `Waited`), and `DrainVictim` and `StoreVictim` settle it. A kill of the user
goes the same way. In the sweep, `cleanup()` under the lock is `CleanupBegins`, a
`CleanupStore` for each job from the oldest on, and `CleanupRemove`, which polls again; a
process may end between them. `Over` are the jobs that were taken from the registry or have
ended: only those enter the ring, and while they are no more than it holds, none is lost.

### 2.9 AutonomousQueue, TriggerPolicy

`AutonomousQueue` has the heap (`queue`), the map of the newest task per file
(`newest`), the slots (`running`), the wake flag and one `loop` per drain thread.
`enqueue` supersedes, purges tombstones and refuses at the cap in one action, as it
does under its lock; the drain loop is `TestRunning`, `ClearWake`, `GetTask` or
`GetNothing`, then the wait (`Woken` or `IntervalOver`); a task ends in two steps
(`TaskDone`, then the wake). `Stop` clears the flag and then wakes.

`TriggerPolicy` has the three tables of `evaluate()` with their pruning; its
abstract counterpart `TriggerHistory` keeps the whole history and defines a decision
by windows over it. The two share `TriggerRules`. `DecidesByHistory` is the refinement.

### 2.10 FlockFiles, EditLeases, ToolCache

`FlockFiles`: `name` is the inode a path leads to, `holder` the owner of an inode's
lock, `fd` what each process has open. A user opens, waits, holds and closes; a
sweeper stats, opens, tries the lock, compares inodes and unlinks with the lock in
hand. `Degrade` is the no-op when the file cannot be opened.

`EditLeases`: `lease` is the record on disk, `life`, `pid` and `taken` the processes, their
ids and the ids other programs have, `edited` and `wip` are history. `Check` or
`Refuse`, `Write` or `WriteFails`, `Acquire`, and the sweep (`SweepStat`, `SweepUnlink`) are
steps; time is a clock. `Check` chooses whether the tool at hand records a lease,
since `write_plan` does not.

`ToolCache`: `disk` is the files' contents with their signatures, `entry` and `order` the
cache, `pc`, `query`, `sig`, `seen` the reads in flight, `target` the write. A read signs
(`Hit` or `Miss`), runs (`Read`) and stores (`Store`) in three steps, a write changes the
file and then invalidates. `OtherWrites` is the user or another process, `Cancel` the end
of a turn whose reads go on. An entry may expire at any look. A signature
changes with every change of its file (the code documents the exception), a
directory's signature never does. Two things make a cached answer old for good: a turn
that is cancelled while a read goes on, and a command that fails after it has changed
files. `lapses` remembers which of them has happened, and `OwnWritesAreSeen` is about
behaviours without them; section 5 has what each does.

`SharedFiles` puts these three and the two below side by side, with one tool call at a
time for the leases (`MayOverlap` is FALSE; section 5 has two that overlap). Its properties
are `EditorIsGuarded`, `CacheIsHonest`, `TurnsAreKept`, `RecordsAddUp`, the types of all
five (`TypesOK`), and, of the lock files, `SweepLeavesHeld`.

### 2.11 DesignSession, FailurePatterns

`DesignSession`: `file` (active turns, index archived, compressed-up-to), `archive`
(records with their absolute index), `torn` (a partial last line), and per process
`mem`, `synced`, the steps of its request thread (`main`) and of its background
compression (`back`). `lock` is the session's cross-process and thread lock. `AddTurn`,
`Open`, `Choose`, `Summarise`, `ArchiveTurns`, `CutOff`, `Save`, `WriteFile`, with
failing writes, torn appends and kills. What a
summary covers is kept as a set of turns; its text is not. Two variables are history:
`compressors`, the processes that have compressed, and `spoilt`, whether a write broke off
such that the archive was left with a partial line, or with an index past the file's that
belongs to another turn of the file (`InPlace`). `TurnsAreKept` claims the archive's order
always, that no turn is lost until `spoilt` (section 5 has what happens then), that
summaries cover what was archived while one process compresses and no write fails, and
the flags of requests until somebody compresses.

`FailurePatterns`: `disk`, and per process `mem`, `base` (`_baseline`), `dirty`. `Record`, `Recall`,
`Exit`, the two-step deletions, and `Merge` as the delta the code adds. `told` is the
history: the records made, without those a kill took from memory; so is `lapses`, which
of decay, a failed write and an eviction at the cap have happened. `RecordsAddUp` is claimed
while nothing was deleted and there was no lapse; section 5 has what each does.

### 2.12 McpSessions, McpStdio

`McpSessions`: `sessions`, `active` and `idle` are the registry and its stamps, `queue`
the events of each session, `free` the semaphore, `thread` what each request thread
does. POST opens a stream or leaves its answer (`PostNew`, `PostKnown`, `Enqueue`), GET
attaches a stream (`Resume`), DELETE and the sweep close one (`Delete`, `SweepLooks`,
`SweepPops`, `SweepSignals`), `Shutdown` and `ListenerStops` end the server. A client
may leave at any write. `acked` remembers the answers acknowledged with 202, each
with the session whose queue took it.

`McpStdio`: the `reader` loop starts a thread per call, `slots` is the semaphore a thread
waits for, `out` the lock of stdout; the end of the input drains (`Drained`,
`DrainTimesOut`, or `DrainBreaks` when a thread could not be started).

## 3. What TLC checks

| run | instances (bounds) | states | shows |
|---|---|---|---|
| FileLocks | 3 threads, 2 managers, 3 Locks: 2 files and the worktree; or 1 file with `reset()` at any time | 1.5 million | exclusion, the registry names the Lock in use, no cycle of waiters, refinement of PathLocks; with resets, nobody blocked for ever and no Lock left locked |
| RunCheckpoint | 2 agents, 2 files: 2 contents, both modes, Undo; or 1 content and the user editing | 1.3 million | exact Undo; the first record of a path decides; only creations of the run are tombstoned |
| CheckpointIndex | 2 processes, 3 checkpoints, count cap 2, byte cap 2 | 1.5 million | nothing kept is lost; payloads have contents, except for what `extend()` brings back; the cap holds |
| SubagentIpc | 3 sub-agents, 1 worker, 3 epochs; or 1 sub-agent, 2 workers, 2 runs, 2 epochs | 1.9 million | one runner per dispatch; adopted answers are current and final; no fresh answer and no queued task lost |
| SharedFiles | lock files: 2 users, 2 sweepers, 3 inodes, clock 2; leases: 3 sessions on 2 machines, 1 file, clock 4; cache: 1 file, a directory and the repository, 2 readers, 2 entries; session: 2 processes, 3 turns with a kill and a failing write or torn append, or 5 turns with a kill and at most one compressor; patterns: 2 processes, 2 keys, 5 records, or 3 keys, 1 record of each, with deletion, decay and failing writes | 1.2 million | no turn or record is lost, no guard passed, no stale answer, no held name unlinked |
| Agents | tool loop: 2 callers, 2 sub-agents, 1 or 2 slots, 1 file; jobs: 3 on 1 slot with a ring of 2, or 2 with both callers killing; worker: 2 tasks, Ctrl-C, old sentinels, crash of the orchestrator | 0.9 million | spawns counted once and returned; living processes findable; old sentinels harmless |
| Services | policy: 2 kinds, 1 file, windows 0 to 2, cap 1, time 3; tasks: 2 files, 2 priorities, 2 loops, 2 slots, backlog 2, 3 tasks, 1 stop; HTTP: 2 sessions and 2 threads, or 1 and 3, queue of 2, 1 slot; stdio: 3 calls, 2 slots | 1.0 million | decisions by history; caps and slots; accepted tasks and acknowledged answers kept |
| Progress | 1 caller and 2 sub-agents; 2 jobs; 2 tasks of a worker; 3 tasks on 1 slot; 1 session, 2 threads; 2 stdio calls | 85 thousand | liveness, below |
| FileLocksReset, RunCheckpointLostCapture, CheckpointIndexDelete, SubagentIpcRestore | smallest that show it | (violated) | findings 1 to 4 |

**Bounds.** *FileLocks*: two threads of one manager and one of another is the
least that has both kinds of neighbour; with two files and the worktree every
pair of overlapping key sets occurs; three Locks suffice for three keys because a
Lock that is referred to is registered. With resets one file is enough: the
hazard is a second Lock, or a second holder, of one key. *RunCheckpoint*: one
agent creates what the other edits, a call spans both files, and two contents
tell a capture from a later one; beside the user one content is enough, because
tombstones are about existence, and the checkpoint is not lost there, since a lost one
records nothing more. *CheckpointIndex*: the third checkpoint passes
the cap of two, in the list of one process or when two lists are merged; blobs without
payload, which a kill or a failed write leaves, pass the byte cap. *SubagentIpc*: three sub-agents are needed for two of them to want
the worker of the third; two processes in one directory are a straggler and its
successor. *SharedFiles*: two users and two sweepers give a name that is unlinked
and made again under a probe; three sessions give a neighbour on the same machine, one
elsewhere, and a process id used again (s1 and s3 have it on two machines); the
archive cap of one makes every second archiving fold; a cached answer that a lapse made
old shows at once, so that after one a file has changed once at most; five records with a
flush interval of two give two merges and a rest. All scenarios have the constants and the
variables of one instance, and each is a restriction of its steps: the three with few turns
or records have every kind of failure, the others run longer with fewer. In the scenario
`worn` the counts lose records (section 5), so that it is about types and the cap. *Agents*: two callers are the least whose spawns and
polls overlap; three jobs on one slot make evictions overlap, and pass the ring of two;
with two tasks the watcher of one meets the next. *Services*: three
ticks pass both windows of 2. `MaxRuns`, `MaxEpoch`, `MaxRetries`, `Clock`, `MaxClock`,
`MaxTurns`, `MaxTasks`, `MaxStops`, `MaxRecords`, `MaxCalls`, `MaxAgents` and the like bound
counters that have no bound in the code (the retries have: `review_max_retries`); one
late watcher and one loose tool call per process are bounds of SubagentIpc too.

**Symmetry** is used over threads of one manager, Locks, agents, files, contents
and processes, in runs without liveness properties. Files of `FileLocks` are
ordered and therefore not symmetric. Elsewhere, what is alike starts in the order of
its names (`InOrder` and the like), which removes the same copies.

**Fairness.** Only `Progress` assumes any; each component's is stated in its module
(`FairSpec`) and repeated in `MCProgress` with the scenario as a guard.

* *Tool loop*: weak fairness of the run, of each tool call, and of the start and end of
  sub-agents: threads are scheduled, and a sub-agent ends (its time limits).
* *Background jobs*: strong fairness of the steps of each tool call and of a sweep, because the
  manager's lock and a job's lock are held for a moment or a bounded wait, so that a thread
  is not for ever passed over; nothing is assumed of the processes.
* *Worker*: weak fairness of its launch, its main thread and each watcher. No task is
  assumed to end, and nobody presses Ctrl-C.
* *Tasks*: weak fairness of the drain loop, of the end of a task (it runs under a
  timeout) and of the wake of `stop()`. Nothing is assumed of the poll interval: a
  lost wake-up would be a violation even though the interval would heal it.
* *HTTP*: weak fairness of each request thread (heartbeats bound its waits), of the
  sweep and of the listener. *stdio*: weak fairness of each worker and of the reader,
  strong fairness of taking a slot and the lock of stdout.

Deadlock is checked in `FileLocks` and `CheckpointIndex`. It is switched off
where the system really stops: after an Undo, when the orchestrator has ended, when a
server has left, or when a bound is reached. `NeverAllBlocked` states the freedom
from deadlock that TLC's test would miss, since another thread can nearly always
take a step.

Each property of a passing run is paired with a definition that goes wrong in a
plausible way (`mutants` in `PROJECT.json`), under which TLC finds it violated.

## 4. What is proved

| theorem | for every number of | argument |
|---|---|---|
| `FileLocksProofs!TypeCorrect`, `Registered`, `Exclusion` | threads, managers, files, Locks | `IInv` below |
| `FileLocksProofs!Refinement` | the same | step simulation under `IInv` |
| `FileLocksProofs!NothingLeftLocked` | the same, with resets (`SpecWithReset`) | `RInv` below |
| `FileLocksProofs!NoDeadlock` | the same, with resets and finitely many files | `RInv`, and the largest key anybody waits for |
| `RunCheckpointProofs!TypeCorrect`, `FirstRecord` | agents, files, contents | `SpecFaulty`, so for the other two as well |
| `RunCheckpointProofs!TombstonesAreOurs` | the same | `SpecShared` |
| `RunCheckpointProofs!UndoIsExact` | the same | `Spec` |
| `CheckpointIndexProofs!TypeCorrect`, `NoLostCheckpoint`, `ContentsOutlivePayloads`, `Bounded` | processes, timestamps, caps | `KeptInv` and `ContentsInv` below |
| `SubagentIpcProofs!TypeCorrect`, `NoStaleAnswer`, `FreshAnswerKept`, `OneRunner`, `AnswerIsFinal`, `TaskKept` | sub-agents, processes, runs, retries, epochs | layers of invariants, below |
| `ServicesProofs!TypeCorrect`, `TablesHold`, `HistoryRefined`, `CooldownsHold`, `CapHolds` | kinds, files, windows, caps, any time | `Tables` below |
| `SharedFilesProofs!TypeCorrect`, `HeldNamesStay` | processes, inodes, ages (`FlockFiles`) | `Descriptors` below |
| `SharedFilesProofs!GuardHolds`, `HonestCache`, `LocksInShared` | sessions, machines, files, process ids; reading threads, queries, entries | `LeasesInv`, `CacheInv` below |
| `SharedFilesProofs!TurnsStay` | processes, turns, compressions, kills, failing writes, torn appends, caps of the archive | `DesignInvariant` below |
| `SharedFilesProofs!CountsAddUp` | processes, patterns, records, flush intervals | `AddsUp` below |
| `SharedFilesProofs!TypesInShared` | all of these, the cap of the cache included | the invariants above, and `CacheFacts` |
| `ServicesProofs!TasksKept`, `CapsHeld`, `AckedIsRead` | tasks, files, drain threads, sessions, request threads, calls, slots, caps | `ServicesInv` below |
| `AgentsProofs!TypesKept`, `SpawnsKept`, `LivingFound`, `ShutdownsWanted` | pool threads, sub-agents, slots, commands, callers, caps, tasks | `AgentsInv` below |

The assumptions are those the modules name: special values differ from the sets
they stand beside, files are positive numbers, every thread has a manager, the
count cap is at least 1 (0 switches it off in the code and is not modelled).
TLC evaluates them in every run.

*FileLocks.* `MutualExclusion` follows from `InsideIsRegistered`, for two
writers inside one key would both be the holder of the one registered Lock. That one
needs: a thread that is about to record a Lock holds it and the registry
still names it (`InHand`), what a thread has looked up is registered (`LocalLock`), a
thread that releases has nothing left to take (`Leaving`), no Lock is registered for
two keys (`OneKeyPerLock`), a `_held` entry is owned by some thread of its manager
(`HeldIsOwned`), and keys are taken in ascending order, which keeps a thread
from recording a key twice (`Ascending`).

A reset breaks all of that, yet not the freedom from deadlock. `RInv` is what is left
of `IInv` (`Books`): a `_held` entry is still the Lock the registry names
(`HeldIsRegistered`), so whoever holds a registered Lock owns its key or is about to
record or unlock it (`HolderAccounts`). A blocked thread hence waits for a key whose
owner is under way, and if the owner is blocked too, then on a larger key; with
finitely many files there is a largest key waited for.

*RunCheckpoint.* `FirstRecord` says that a recorded path keeps what Undo will leave there. It
needs only types: a tombstone is never taken away and outweighs a content, and a path
recorded as content alone is `Known`, so that it is neither captured nor tombstoned again.
`TombstonesAreOurs` needs that a path which is pending, targeted and not `Known` when its
write succeeds was missing when the write began, since otherwise the capture had recorded
it, and that nobody but the lock's owner changed it meanwhile (`NewFilesTraced`, `Traced`).
`UndoIsExact` needs that what a path is recorded as is what it was at the start, whether it
has one record or two (`RecordsAreStart`), that what has no record is untouched or in the
hands of a write in flight (`UnrecordedUntouched`), that a full snapshot was taken before the
first write (`FullSnapshotFirst`), that locks are where the dispatches are (`LocksHeld`), that
no dispatch runs during Undo (`UndoAlone`), and how far `restore()` has come: no tombstone is
visited while a content is left, so what was visited last is `Record` (`RestoreProgress`).
`UnrecordedUntouched` is claimed only while Undo may still succeed (`Sound`): until the
checkpoint is lost or a record fails.

*CheckpointIndex.* What a creation finished is in the index unless removed, and
a process that holds the flock has merged it into its list (`MergedKnowsAll`). That
needs to know where a creation is (`UnderWay`), that an evicted checkpoint is
recorded as gone before its files go (`VictimsGone`), and that an idle process
creates nothing (`IdleCreatesNothing`). `Bounded` needs that the list fits when the
index is written. `ContentsOutlivePayloads` needs that nobody has seen a checkpoint that is
being written (`Fresh`), so that nobody is about to remove its blobs, and that what lost its
payload has none unless `extend()` wrote it (`ContentsInv`).

*SubagentIpc.* The proof goes in layers, each an invariant that uses those before.
`SyncInv`: from the moment `write_task` publishes until the review, `expected.json`
of a sub-agent is the epoch of its dispatch, since no other dispatch writes it;
`NoStaleAnswer` and `FreshAnswerKept` follow, whatever stragglers of earlier runs
write. `Minted` and `Once`: every epoch in a file or a worker was minted, and a
dispatch is about to be published, queued in one directory, or the job of one
worker, and only one of these; `OneRunner` is part of it, and rests on the rename
of `task.json` having one winner. `Spent` and `Quiet`: answers, and tool calls left
in a thread pool, belong to dispatches that are in none of these places, and an
answer other than a cancellation left no tool call behind; this is
`AnswerIsFinal`. `Lodged` and `QueuedHere`: a directory in use belongs to one
dispatching thread and is not in the pool, and a task somebody waits for lies in
the directory its dispatcher was given; so a second `write_task` can never hit it,
which is `TaskKept`.

*TriggerPolicy.* The inductive invariant `Tables` says how the pruned tables and
the whole history are related: the last decision of a kind, and of a file and kind,
is in its table or is too old for any window (`KindTable`, `FileTable`), and the
stamps of fixes are exactly those of the last hour (`FixTable`). It needs that no
window is longer than `MaxWindow`, by which the tables are pruned; with it each
step of `TriggerPolicy` is one of `TriggerHistory` (`HistoryRefined`). The cooldowns and
the cap then follow for the history.

*FlockFiles.* `Descriptors`: a lock's holder has its inode open, nothing is open in a
process that is idle (`ClosedWhenIdle`), and a sweeper past its comparison holds the
inode the name leads to (`SweepersHold`). So what it unlinks is held by itself, and by
no user: `HeldNamesStay`, for any number of sweeps and users.

*SharedFiles.* `LeasesInv`: the last edit of a file by a living session is on record, with
its time or a later one, but for the moment before it is recorded and for edits older
than any guard (`EditIsLeased`). Three things could take the record away. Another session's
record: its check refused, or came when the guard had lapsed, and no call runs between
that check and its record (`OneAtWork`). A sweep, whose stat is old when it unlinks: what it
is about to unlink is gone already or was past the sweep's age at the stat (`DoomedIsOld`),
and nobody renews it meanwhile. And a process id used again, which makes a dead session look
alive and never the reverse: living sessions of a machine have ids apart (`PidsApart`).

`CacheInv`: changes of a file are numbered, and what was read under a signature is what the
file held under it (`NumbersGrow`, `SignedIsTrue`); so a file's answer that matches is true,
lapses or not. A directory's signature never changes, and there only the dropping of
entries helps. Without lapses a turn waits for every thread at work (`TurnWaits`), so no
read spans a change, and no answer, kept or about to be, has what calls have replaced,
or what the call at work has written and may yet roll back (`AnswersAreNew`,
`ContentIsNew`). That the order lists exactly the entries, each once, is `CacheFacts`
(`BoundsKept`, `OrderKept`); with it the length of the order is the number of entries, and
so within the cap, which `TypesOK` states.

*Design session.* `DesignInvariant` has six parts, for the things the code relies on.

* `Control`: who holds the lock is the one thread past its merge (`LockFollows`), the dead
  remember nothing, whoever compresses or writes has a turn in memory, and the file
  begins with the first write.
* `SessionsSound`: in every copy of the session (the file, each memory) turns are there
  once, were made, and the summary ends within them.
* `DiskIsAhead`: until a failed write leaves the file behind its archive no memory is ahead of the file, except that of the
  thread that is writing, which merged under the lock: hence a merge takes the file as its base,
  and what it archives continues the file.
* `ArchiveInPlace`: no turn is lost, the archive reaches to where the file begins, and an
  index of the archive past that is the index of a turn of the file which is archived
  (of the session being written, between the append and the write). This is what the code's skipping
  of records by index needs, and it is more than `NoTurnLost`: without it a crash between
  append and write would make the next archiving skip a turn it does not have. The
  invariant stops at `spoilt`, since it is exactly what a broken write can violate.
* `SummariesFollow`: with one compressor the sessions are ordered by how far their summary
  goes, equal ends mean equal summaries, and a summary covers what the archive took.
* `RequestsFollow`: the requests in progress in the file are those at work, those of
  processes killed, and the one the holder of the lock is about to answer.

For every action a lemma says what it changes (`AddFacts`, `ArchiveFacts`, `KillFacts`, ...)
and for every part another that each action keeps it. `AppendedFacts` and `PartFacts`
describe what an append, whole or in part, makes of an archive that may be torn or folded on
the way; the fold carries the last index of its block, so the last index never falls.

*Failure patterns.* `AddsUp`: no process's baseline of a key is above the file's count, nor
above its own memory, and file and pending records together are the records told. A merge
moves pending records into the file, a refresh moves the baseline and the memory by the
same amount. The sum over processes is the size of a set, one element for each pending
record (`PendingRecords`), so that what one process does to it is a matter of
two disjoint sets (`PendingCount`, `Sums`).

*Services.* Each part keeps an invariant of its own, whatever the others do
(`ServicesInv`); the policy's is `Tables`, and its theorems carry over because a step
of the whole is a step or a stutter of the policy (`PolicyInServices`).

* Tasks (`TasksInv`): the number of claimed slots is the number of tasks at work, the
  map names the newest pending task of each file, and a task at work is older than the
  one that waits for its file (`TasksApart`). The last is what makes a claim safe: the
  task `get_nowait` takes is the one the map names. The cap survives an enqueue over
  the cap because the successor is let in for the task it supersedes.
* HTTP (`HttpInv`): a session that leaves the registry is signalled once, by the one
  thread that took it out (`Closers`), hence nothing lies behind a sentinel
  (`QueuesShaped`). A registered session whose client knows its id has a stream, or a
  client of it left (`Readers`): a stream ends only by its client, or when its session
  is out of the registry. An acknowledged answer is written, held by the thread about to
  write it, or lies in the queue of its session (`Held`). `_enqueue_if_current` tests the registry
  under the lock, and so joins the three; without the test (`CurrentAlways`) `Readers`
  is not inductive. Most steps leave queues alone and only move threads on
  (`Forward`); what those keep is proved once (`QuietKeeps`).
* stdio (`StdioInv`): who holds the lock of stdout is the one that writes (`Writers`), a
  call that was read is in flight until it ended (`InFlight`), and the slots taken are
  those of the calls that hold one.

*Agents.* Each part has an invariant of its own (`AgentsInv`), whatever the others do.

* Tool loop (`LoopInv`): a number is taken under the lock and belongs to one spawn
  until it is registered (`SpawnsApart`), so every sub-agent at work has an entry or a
  spawn that is about to make it (`JobsKnown`). A result is appended only for an entry
  not yet settled, in the step that settles it, hence once (`ResultsOnce`); what a poll saw
  finished when it began is in `todo`, in `got` or at hand until it answers
  (`LooksAreWhole`). The drain starts when no call is under way, unless cancelled, and
  has all entries before it (`DrainIsWhole`). Spawns one at a time (`SpawnsInTurn`) find an
  executor or make the only one, and see the entries of all earlier spawns.
* Registry (`RegistryInv`): a final status, of a job or in the ring, is never said of a
  process that lives (`OverIsTrue`), though `_settle_status` writes what it polled a moment
  earlier. So what leaves the registry unseen has ended, and a victim is in the ring from
  the moment it is marked. It leaves the ring only when a result pushes it out, which takes
  one job more in `Over` than the ring holds: `Over` only grows, and each of its jobs is in
  the ring once (`ListsAreSets`, `RoomInRing`). The lists are within their caps because the
  lock is held from an insertion to the removal of its victim (`CallersApart`), and a
  `cleanup()` knows which jobs it has stored (`SweepInOrder`).
* Worker (`WorkerInv`): `shutdown.json` is there when a task was written only if
  `CleanupShutsDown` put it there, since `write_task` clears it before its task
  (`SentinelIsLate`); a task taken is not queued any more and has no answer (`TasksInTurn`).

**Only model-checked**: `ResetsLeaveFree` of `MCFileLocks` states for its second instance what
`NothingLeftLocked` and `NoDeadlock` prove. **Out of the prover's reach**: liveness under
fairness (`Progress`). The provers have no induction over data, and no theorem about a
filter with a condition (`SelectSeq` takes an operator). Both are got round where they are
needed: an induction over numbers is the choice of a least counterexample (lemma `Least`,
from `NatLessThanWellFounded`), and what a filter keeps is `Pick` of `Selections`, whose n-th
position is a choice about which first-order facts can be proved.

## 5. Where the code does not do what it says

1. **`reset()` frees the Locks of other orchestrators** (`FileLocksReset`).
   `orchestrator.py:394-395` says it must not. `run()` calls it in its `finally`
   while a sub-agent of a cancelled batch may still be inside a write. Its Lock
   is freed, a writer of another orchestrator takes it, and when the first write
   ends, `_release_by_normalized_path` falls back to the registry and releases the
   Lock a second time.
2. **Undo may delete a file of the user** (`RunCheckpointLostCapture`), which
   `run_checkpoint.py:165-169` says the design rules out. A refused write leaves
   its path pending; the user creates the file; the next write of the run fails
   to capture it (the error is logged and skipped) and then confirms it as its own.
3. **A deleted checkpoint comes back** (`CheckpointIndexDelete`), though
   `checkpoint_store.py:948-951` says it cannot: another process that still lists
   it in memory writes it back.
4. **`result.json` is not the worker's last write** (`SubagentIpcRestore`), though
   `orchestrator.py:5361-5365` says so: the tool call a cancelled task left in the
   thread pool writes over the restored files.

The following are stated as properties in their modules as well, and TLC refutes them
in the instance given (with one process, file, session or thread of a kind where nothing
else is said, and small bounds). They are no runs of their own.

| property | what happens | what the code says |
|---|---|---|
| `RunCheckpoint!FirstSeenWins` | the first confirmed write of a run without a checkpoint tombstones its file under the absolute path, as `create()` stores it (`agent/checkpoint_store.py:542`); the next write does not find that (666-671) and captures the run's own content beside. Undo is exact all the same (`FirstRecordDecides`, `UndoReturnsToStart`), because `restore()` writes contents (823) before it unlinks (891) | 632-635: "a path already tombstoned must NOT later be captured as content" |
| `CheckpointIndex!RevivedHasContents`, 2 processes | another process deletes or evicts the checkpoint between the read (654) and the write (697) of `extend()`: the payload comes back without its blobs and is listed again, and its Undo cannot read what it stored | 962-963: orphan blobs "rather than an index pointing at content that is already gone" |
| `ToolLoopAgents!SlotsRespected`, 2 callers | `_ensure_bg_executor` (`agent/orchestrator.py:4252`) tests and assigns without a lock: two spawns of one answer make two executors, twice `max_subagents` sub-agents work, one executor is never shut down | 1407: "created lazily on first spawn" |
| `ToolLoopAgents!OverlapIsWarned`, 2 callers | check (4437) and entry are two locked sections: two spawns for one file both pass | 4430-4434: "Warn (don't block)", for "a lost update is otherwise silent" |
| `ToolLoopAgents!WarnedIsAtWork` | a finished sub-agent nobody polled is named as still running (4441) | 4615-4617 describe this mistake |
| `ToolLoopAgents!NoStartAfterReturn`, cancelled | the executor is shut down without cancelling its queue (5067): a sub-agent starts after the run's cleanup | 5082: "Prevents terminal/process leaks once orchestration ends" |
| `SubagentWorker!CancelSparesWorker`, `CancelHitsItsTask`, 2 tasks | a watcher told to stop, not joined, sets `cancel_event` in the next poll, which ends the worker, or in the next task, which is answered as cancelled (`repl/repl_subagent.py:246`, 217) | 237-240: not on a task-level cancel; 126: "abort the current task only" |
| `SubagentWorker!ShutdownLeavesNoTask` | task and sentinel both arrive between the two looks of a poll (`agent/subagent_ipc.py:1255`): the worker leaves the task | 1192-1194: "A pending task ALWAYS wins" |
| `SubagentWorker!InterruptEndsPolling` | Ctrl-C between the loop's test and `cancel_event.clear()` is half erased, the worker polls on | 247: "(Ctrl-C to exit)" |
| `BackgroundJobs!RemovedIsRemembered`, 2 jobs | `cleanup()` polls twice (`agent/background_job_manager.py:784-788`): what ends in between is removed without a snapshot | 775-777: "each job's final state is snapshotted" |
| `BackgroundJobs!OutputPreserved`, 2 jobs | the eviction of a finished job snapshots without draining (858) | 857: "so output is preserved" |
| `BackgroundJobs!KilledMeansSignalled` | a job that had exited by itself is recorded as killed (393) | 363-365: the two "must stay distinguishable" |
| `BackgroundJobs!AnswerIsTrue` | a sweep removes the job during the kill: the answer is the constant "killed" (744) | 731: "Returns the final status string" |
| `AutonomousQueue!StopIsPrompt` | a drain loop past its test clears the flag `stop()` has set (`proactive_runner.py:307`) and sleeps out its interval | 259-260: "instead of sleeping out the poll interval" |
| `McpSessions!StreamsEnd`, 2 threads | of two streams of a session one drops it; `shutdown()` does not wake the other (`_session_queue.py:138`) | 135-136: "Wake every stream thread" |
| `McpSessions!ActiveIsNotSwept`, 2 threads | the sweep closes what it found idle a moment ago without looking again (228) | 54-56: "an *active* client is never swept" |
| `McpStdio!ThreadsBounded`, 3 calls | a thread is started per request, and waits for its slot inside (`server.py:230`) | 218-220: "cannot spawn unbounded threads" |
| `EditLeases!LastEditorIsGuarded` | `write_plan` records no lease (`write_tools_patch_mixin.py:703`) | `edit_lease.py:13`: "Every successful write-tool edit records" one |
| `EditLeases!RecordedEditorIsGuarded`, `MayOverlap` | two sessions whose calls overlap both pass the check (`edit_lease.py:204`) | mixin 1914-1917: seen "before their own write tools touch them" |
| `EditLeases!SweptIsOld` | a lease renewed between stat and unlink is removed (173) | 161-163: "Unlink races ... are benign" |
| `EditLeases!CommittedIsFree` | committing frees nothing for 12 hours (254) | mixin 1987: "Let the other session commit or finish first" |
| `ToolCache!CancelledIsDiscarded` | a read of a cancelled turn stores its old answer after a later write (`tool_registry.py:2913`) | `design_chat_loop.py:2298`: "its result is simply discarded" |
| `ToolCache!ChangesInvalidate` | a command that changes files and fails does not invalidate (2475) | 2471-2472 give the change, not the success, as criterion |
| `FailurePatterns!NothingLost`, 1 deletion | deletions read before they lock and write without merging (`failure_pattern_store.py:573`) | 191-193: "no lost increments" |
| `FailurePatterns!NothingLost`, a failed write | the baseline moves before the write, which fails (305) | 371-372: "at most _FLUSH_INTERVAL-1 records behind" |
| `FailurePatterns!NothingInvented`, cap 1 | an evicted pattern stays in memory without baseline and is added whole again (256) | 283-286: no double counting |
| `FailurePatterns!RecallFollowsDisk`, 1 deletion | a pattern another process deleted is kept and recalled (451) | 460-464: "cleared patterns stop firing" |
| `FlockFiles!OldMeansUnused` | use never changes the mtime (`file_lock.py:211`), only the try-lock gate protects | 119-120: "An actively used lock file is re-opened recently" |
| `DesignSession!PointersAreMonotone`, 4 turns | the pointer captured before a model call overwrites a more advanced one (`context_manager.py:930`) | `design_session.py:222`: "monotonic" |
| `DesignSession!ArchivedLeavesActive`, 5 turns | the merge brings archived turns back and archives them again (243) | 563-564: moved, "leaving only the summary + recent turns" |
| `DesignSession!NoTurnLost`, 4 turns, failing write and kill | a record of an unsaved turn makes another process skip its own turn of that index (629) | 607-609: "no duplicates even if the process dies" |
| `DesignSession!NoTurnLost`, 5 turns, one kill | a process with an older copy merges turns already archived behind newer ones (243) and archives them in this order; killed before its write, it leaves indices which belong to other turns in the file, whose next turns are skipped (629) and cut off | 236-240: a merge must not "silently drop" a turn |
| `DesignSession!NoTurnLost`, a torn append | the next append continues the torn line; both records are unreadable (626) | 757-759: "corrupt lines are skipped" |

## 6. What the models leave out

* *FileLocks*: path normalisation (a key is a canonical path); which paths a tool
  call targets.
* *RunCheckpoint*: read tools (see ToolCache); permissions and loop guards; a checkpoint-based `/undo` exists only
  outside git repositories, inside them `/undo` uses git; hashing and copying a
  file are one step; a file created by a handler that fails is remembered in
  `leaked` and excepted from `UndoReturnsToStart`, as are creations in full mode,
  which the code does not delete.
* *CheckpointIndex*: a corrupt index, the legacy payloads, the flock's degradation to
  a no-op when the lock file cannot be opened.
* *SubagentIpc*: time. Deadlines, heartbeats and the startup guard only ever make
  a waiter give up, so giving up is always possible; hard and soft abandonment
  are chosen freely. Malformed tasks, the removal of old claimed files, the policy
  for edits out of scope, and dispatcher threads that outlive a cancelled batch
  are left out. `clear_result` with the snapshot, quiescence with the restore, and
  the cleanup of all workers are one action each; `terminate()` acts at once.
* *SubagentWorker*: heartbeats; the cap on idle polling is a choice.
* *ToolLoopAgents*: the decomposition mode with its dependency batches, because both production
  constructors of the orchestrator (`repl_impl.py:5798`, 6743) enable the tool loop; review
  and synthesis texts; the counter of names, which starts again with every orchestrator.
* *BackgroundJobs*: `shutdown()`, which no production code calls; output is
  reduced to whether the last words were read.
* *FlockFiles*: the Windows lock. The sweep has one production caller
  (`repl_impl.py:3941`, on `.asicode/locks`). *EditLeases*: skew between clocks.
  *ToolCache*: queries of the network; a change that keeps
  mtime, size and inode.
* *DesignSession*: `delete_session` (tests only); the background thread's unlocked read of two
  fields is one step. *FailurePatterns*: decay as a number, files damaged from outside.
* *AutonomousQueue, TriggerPolicy*: the watchers that raise events, the push channel, what a
  task does; the two are not composed (a refused task leaves its event stamped, about
  which nothing is promised). *McpSessions*: the older SSE server, which has the same queues;
  JSON-RPC. *McpStdio*: the client.
* `HubStore` of `run_store.py` (adaptive statistics) is not modelled: each agent loop owns
  its hub, the last write wins, and no comment promises more.
* Not modelled at all, for the reasons `PROJECT.json` gives: the agent loop and its
  classifiers, tool handlers, patching, languages, graph and analysis, model clients,
  the REPL's terminal, collaboration between models, plan state. They are the greater
  part of the code: transformations of text by one thread, whose correctness is in the
  text and not in the order of steps.

## 7. Plan

1. Composition of `FlockFiles` with `CheckpointIndex`: the exclusive lock the
   store assumes, with the degradation to a no-op.
2. Liveness of the sub-agents' waits in `SubagentIpc`, whose time limits are choices now.
