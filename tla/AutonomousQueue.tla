-------------------------- MODULE AutonomousQueue --------------------------
(***************************************************************************)
(* The queue of autonomous tasks (editor/agent/autonomous/task_queue.py)   *)
(* and the runner that drains it (proactive_runner.py): any thread may     *)
(* enqueue a task, the drain loop starts at most MaxConcurrent of them,    *)
(* each in a thread of its own, and sleeps on the wake flag while there is *)
(* nothing to start.                                                       *)
(*                                                                         *)
(* A newer task for a file supersedes the one that waits: the old one      *)
(* stays in the heap as a tombstone until a scan drops it.  Start and Stop *)
(* are the lifecycle of the runner; each Start makes a new drain thread.   *)
(***************************************************************************)
EXTENDS Naturals, FiniteSets

CONSTANTS
    Files,          \* source files of events
    NoFile,         \* an event that concerns no file
    Priorities,     \* 0 is served first
    Loops,          \* drain threads; each is started at most once
    MaxConcurrent,  \* MAX_CONCURRENT
    MaxPending,     \* MAX_PENDING
    MaxTasks,       \* bound: tasks enqueued
    MaxStops        \* bound: calls of stop()

NamesAssumption == NoFile \notin Files
BoundsAssumption == /\ Priorities \subseteq Nat
                    /\ MaxConcurrent \in Nat \ {0}
                    /\ MaxPending \in Nat \ {0}
                    /\ MaxTasks \in Nat /\ MaxStops \in Nat

VARIABLES
    counter,    \* _counter
    queue,      \* _pq
    newest,     \* _pending_file_map, 0 for no entry
    running,    \* _running_count
    exec,       \* tasks whose thread runs
    freeing,    \* threads in task_done, before wake.set()
    wake,       \* the wake flag is set
    up,         \* runner._running
    stops,      \* calls of stop()
    stopping,   \* stop() before its wake.set()
    loop        \* where a drain thread is

tasks == <<counter, queue, newest>>
slots == <<running, exec, freeing>>
life  == <<up, stops, stopping>>
vars  == <<tasks, slots, wake, life, loop>>

Ids  == 1 .. MaxTasks
Task == [id : Ids, file : Files \cup {NoFile}, priority : Priorities]

Init ==
    /\ counter = 0 /\ queue = {} /\ newest = [f \in Files |-> 0]
    /\ running = 0 /\ exec = {} /\ freeing = {}
    /\ wake = FALSE
    /\ up = FALSE /\ stops = 0 /\ stopping = FALSE
    /\ loop = [l \in Loops |-> "unborn"]

\* Slip: a superseded task is not recognised.
LiveAlways(t) == TRUE

(* Not superseded, and not overtaken by a newer task that has run already  *)
Live(t) == t.file = NoFile \/ newest[t.file] = t.id
Pending == {t \in queue : Live(t)}

\* Slip: every task for a file is exempt.
FilesExempt(f, q) == f \in Files \/ Cardinality(q) < MaxPending

(* A task for a file that has one waiting is exempt from the cap.          *)
Admitted(f, q) ==
    \/ f \in Files /\ newest[f] # 0
    \/ Cardinality(q) < MaxPending

NextId == counter + 1

(* enqueue: at the cap the tombstones are purged before a task is rejected *)
Enqueue(f, p) ==
    LET purged == IF Admitted(f, queue) THEN queue ELSE Pending
        new == [id |-> NextId, file |-> f, priority |-> p]
    IN  /\ counter < MaxTasks
        /\ IF Admitted(f, purged)
             THEN /\ counter' = counter + 1
                  /\ queue' = purged \cup {new}
                  /\ newest' = [g \in Files |-> IF g = f THEN NextId ELSE newest[g]]
                  /\ wake' = TRUE
             ELSE /\ queue' = purged
                  /\ UNCHANGED <<counter, newest, wake>>
        /\ UNCHANGED <<slots, life, loop>>

-----------------------------------------------------------------------------
(* The drain loop                                                          *)

Goes(l, from, to) == loop[l] = from /\ loop' = [loop EXCEPT ![l] = to]

TestRunning(l) ==
    /\ IF up THEN Goes(l, "test", "clear") ELSE Goes(l, "test", "ended")
    /\ UNCHANGED <<tasks, slots, wake, life>>

ClearWake(l) ==
    /\ Goes(l, "clear", "get")
    /\ wake' = FALSE
    /\ UNCHANGED <<tasks, slots, life>>

SlotFree == running < MaxConcurrent

(* get_nowait: every tombstone goes, and the first live task if a slot is  *)
(* free                                                                    *)
Claimable == IF SlotFree
               THEN {t \in Pending : \A u \in Pending : t.priority <= u.priority}
               ELSE {}

Untracked(t) == [f \in Files |-> IF f = t.file THEN 0 ELSE newest[f]]

Requeued == Pending

GetTask(l) ==
    /\ \E t \in Claimable :
          /\ Goes(l, "get", "test")
          /\ queue' = Requeued \ {t}
          /\ newest' = Untracked(t)
          /\ running' = running + 1
          /\ exec' = exec \cup {t}
    /\ UNCHANGED <<counter, freeing, wake, life>>

GetNothing(l) ==
    /\ Claimable = {}
    /\ Goes(l, "get", "wait")
    /\ queue' = Requeued
    /\ UNCHANGED <<counter, newest, slots, wake, life>>

Woken(l) ==
    /\ wake
    /\ Goes(l, "wait", "test")
    /\ UNCHANGED <<tasks, slots, wake, life>>

(* wake.wait(DRAIN_INTERVAL) times out.                                    *)
IntervalOver(l) ==
    /\ Goes(l, "wait", "test")
    /\ UNCHANGED <<tasks, slots, wake, life>>

-----------------------------------------------------------------------------
(* _execute_task ends in task_done: the slot is freed, then the flag set.  *)
TaskDone(t) ==
    /\ t \in exec
    /\ exec' = exec \ {t}
    /\ freeing' = freeing \cup {t}
    /\ running' = IF running = 0 THEN 0 ELSE running - 1
    /\ UNCHANGED <<tasks, wake, life, loop>>

\* Slip: the end of a task wakes nobody.
NoWake == wake' = wake

SetWake == wake' = TRUE

WakeLoop(t) ==
    /\ t \in freeing
    /\ freeing' = freeing \ {t}
    /\ SetWake
    /\ UNCHANGED <<tasks, running, exec, life, loop>>

Start(l) ==
    /\ ~up /\ ~stopping
    /\ Goes(l, "unborn", "test")
    /\ up' = TRUE
    /\ UNCHANGED <<tasks, slots, wake, stops, stopping>>

Stop ==
    /\ up /\ stops < MaxStops
    /\ up' = FALSE /\ stops' = stops + 1 /\ stopping' = TRUE
    /\ UNCHANGED <<tasks, slots, wake, loop>>

StopWakes ==
    /\ stopping
    /\ stopping' = FALSE
    /\ wake' = TRUE
    /\ UNCHANGED <<tasks, slots, up, stops, loop>>

-----------------------------------------------------------------------------
Drain(l) == TestRunning(l) \/ ClearWake(l) \/ GetTask(l) \/ GetNothing(l) \/ Woken(l)
TaskEnds(t) == TaskDone(t) \/ WakeLoop(t)

Next ==
    \/ \E f \in Files \cup {NoFile}, p \in Priorities : Enqueue(f, p)
    \/ \E l \in Loops : Drain(l) \/ IntervalOver(l) \/ Start(l)
    \/ \E t \in exec \cup freeing : TaskEnds(t)
    \/ Stop \/ StopWakes

Spec == Init /\ [][Next]_vars

(* Threads that can go on do, and every task ends.  Nothing is assumed of  *)
(* the poll interval: what must happen happens because somebody is woken.  *)
Fairness ==
    /\ \A l \in Loops : WF_vars(Drain(l))
    /\ \A i \in Ids : WF_vars(\E t \in exec \cup freeing : t.id = i /\ TaskEnds(t))
    /\ WF_vars(StopWakes)

FairSpec == Spec /\ Fairness

-----------------------------------------------------------------------------
(* The state has its shape, and an id names one task.                      *)
TypeOK ==
    /\ counter \in 0 .. MaxTasks
    /\ queue \subseteq Task /\ exec \subseteq Task /\ freeing \subseteq Task
    /\ \A t, u \in queue \cup exec \cup freeing :
          t.id <= counter /\ (t.id = u.id => t = u)
    /\ newest \in [Files -> 0 .. counter]
    /\ running \in Nat
    /\ wake \in BOOLEAN /\ up \in BOOLEAN /\ stopping \in BOOLEAN
    /\ stops \in 0 .. MaxStops
    /\ loop \in [Loops -> {"unborn", "test", "clear", "get", "wait", "ended"}]

(* The count of slots is the number of tasks that run, whoever claims and  *)
(* whoever finishes in between, and never above the limit.                 *)
SlotsCounted == running = Cardinality(exec) /\ running <= MaxConcurrent

(* A file has an entry exactly while a task for it waits, and the entry    *)
(* names it: the exemption from the cap is for real successors only, and a *)
(* successor leaves its predecessor for dead.                              *)
MapTracksPending ==
    \A f \in Files :
        /\ newest[f] # 0 => \E t \in queue : t.id = newest[f] /\ t.file = f
        /\ \A t \in queue : t.file = f => t.id <= newest[f] \/ newest[f] = 0

(* The tasks that wait and may still run are never more than the cap,      *)
(* though tombstones and successors are let in beyond it.                  *)
PendingBounded == Cardinality(Pending) <= MaxPending

(* What starts to run for a file is newer than everything that waits or    *)
(* runs for it.                                                            *)
NewestWins ==
    [][\A t \in exec' \ exec : t.file # NoFile =>
          \A u \in queue \cup exec : u # t /\ u.file = t.file => u.id < t.id]_vars

(* A task leaves the backlog only by running or by a successor: a cap that *)
(* is reached, or a purge, never costs a task that was accepted.           *)
AcceptedIsKept ==
    [][\A t \in Pending :
          \/ t \in Pending' \/ t \in exec'
          \/ t.file # NoFile /\ newest'[t.file] > t.id]_vars

(* A task that waits runs, or is superseded, though no poll interval ever  *)
(* ends: no wake-up is lost between get_nowait and wait.  (Or the runner   *)
(* is stopped.)                                                            *)
WaitingRuns ==
    \A i \in Ids : (up /\ \E t \in Pending : t.id = i)
                      ~> (~up \/ ~\E t \in Pending : t.id = i)

(* "Wake the drain thread so it exits on the next loop check instead of    *)
(* sleeping out the poll interval": a stopped drain thread ends, though no *)
(* interval ever does.                                                     *)
StopIsPrompt ==
    \A l \in Loops : (~up /\ loop[l] # "unborn") ~> (up \/ loop[l] = "ended")
=============================================================================
