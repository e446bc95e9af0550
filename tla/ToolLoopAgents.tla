--------------------------- MODULE ToolLoopAgents ---------------------------
(***************************************************************************)
(* The sub-agents of the orchestrator's tool loop (orchestrator.py): the   *)
(* spawn_subagent and poll_subagent tools, which the chat loop runs on     *)
(* pool threads, several at once when the model asks for several; the      *)
(* lazily created executor that runs the sub-agents; the table of entries  *)
(* under _bg_lock; and the end of the run: drain, shutdown of the          *)
(* executor, clean-up of the workers and the list of results.              *)
(*                                                                         *)
(* A sub-agent is the number of its id dev_N.  What it does while it runs  *)
(* (SubagentIpc) and the text of the answers are left out.                 *)
(***************************************************************************)
EXTENDS Naturals, Sequences, FiniteSets, SequencesExt

CONSTANTS Callers,        \* threads that run tool calls of one turn
          MaxAgents,      \* bound: sub-agents spawned in the run
          MaxSubagents,   \* bound: the largest orch_config.max_subagents
          Assignments,    \* the sets of files the model may assign
          MayCancel,      \* whether the user may cancel the run
          MayGiveUp       \* whether the drain's budget may run out

SizeAssumption == MaxAgents \in Nat \ {0} /\ MaxSubagents \in Nat \ {0}
AssignmentsAssumption == \A fs \in Assignments : IsFiniteSet(fs)

Agents == 1 .. MaxAgents
Executors == 1 .. MaxAgents
Main == "run"
CallersAssumption == IsFiniteSet(Callers) /\ Main \notin Callers
Threads == Callers \cup {Main}

VARIABLES
  phase,      \* of the run: "turn", "drain", "cleanup" or "returned"
  cancelled,  \* cancel_event
  calls,      \* what each thread is doing, see Call
  counter,    \* _bg_counter
  maxSubagents, \* orch_config.max_subagents
  executor,   \* _bg_executor, 0 for None
  made,       \* executors made so far
  closed,     \* executors that were shut down
  queue,      \* of each executor: submitted sub-agents not yet started
  home,       \* of each sub-agent: the executor it was submitted to
  job,        \* of each sub-agent: the state of its future
  files,      \* of each sub-agent: its assigned files
  entries,    \* sub-agents with an entry in _bg_subagents
  settled,    \* those whose entry["result"] is set
  results,    \* _bg_results
  warned,     \* of each sub-agent: those its spawn named as conflicting
  gaveUp,     \* those the drain stopped waiting for
  returned,   \* subtask_results of the returned OrchestratorResult
  crowded     \* history: whether two spawns were under way at once

pools == <<maxSubagents, executor, made, closed>>
jobs == <<queue, home, job>>
table == <<entries, settled, results, warned>>
outcome == <<gaveUp, returned, crowded>>
vars == <<phase, cancelled, calls, counter, pools, jobs, files, table, outcome>>

\* pc, the sub-agent or assignment at hand, the executor taken, the ids asked
\* for, those still to look at, those found finished, those that had finished
\* when the look began, and whether the call may wait.
Call == [pc : {"idle", "spawn", "ensure", "create", "take", "submit",
               "register", "poll", "scan", "append", "wait"},
         agent : 0 .. MaxAgents, files : Assignments \cup {{}},
         pool : 0 .. MaxAgents, asked : SUBSET Agents, todo : SUBSET Agents,
         got : SUBSET Agents, was : SUBSET Agents, blocking : BOOLEAN]

Idle == [pc |-> "idle", agent |-> 0, files |-> {}, pool |-> 0, asked |-> {},
         todo |-> {}, got |-> {}, was |-> {}, blocking |-> FALSE]

Init ==
  /\ phase = "turn" /\ cancelled = FALSE
  /\ calls = [t \in Threads |-> Idle]
  /\ counter = 0 /\ executor = 0 /\ made = 0 /\ closed = {}
  /\ maxSubagents \in 1 .. MaxSubagents
  /\ queue = [e \in Executors |-> <<>>]
  /\ home = [a \in Agents |-> 0]
  /\ job = [a \in Agents |-> "none"]
  /\ files = [a \in Agents |-> {}]
  /\ entries = {} /\ settled = {} /\ results = <<>>
  /\ warned = [a \in Agents |-> {}]
  /\ gaveUp = {} /\ returned = <<>> /\ crowded = FALSE

Goto(t, pc) == calls' = [calls EXCEPT ![t] = [@ EXCEPT !.pc = pc]]
Finished == {a \in Agents : job[a] = "done"}
Running(e) == {a \in Agents : job[a] = "running" /\ home[a] = e}

(***************************************************************************)
(* The turn: the chat loop hands the calls of an answer to pool threads.   *)
(* A call handed over before a cancellation still runs after it.  What     *)
(* would exceed the bound on sub-agents is not asked for.                  *)
(***************************************************************************)
Spawns == {c \in Callers : calls[c].pc \in
             {"spawn", "ensure", "create", "take", "submit", "register"}}

AskSpawn(c, fs) ==
  /\ phase = "turn" /\ calls[c].pc = "idle"
  /\ counter + Cardinality({d \in Callers : calls[d].pc = "spawn"}) < MaxAgents
  /\ calls' = [calls EXCEPT ![c] = [Idle EXCEPT !.pc = "spawn", !.files = fs]]
  /\ crowded' = (crowded \/ Spawns # {})
  /\ UNCHANGED <<phase, cancelled, counter, pools, jobs, files, table, gaveUp, returned>>

AskPoll(c, A, blocking) ==
  /\ phase = "turn" /\ calls[c].pc = "idle"
  /\ calls' = [calls EXCEPT ![c] = [Idle EXCEPT !.pc = "poll", !.asked = A,
                                                !.blocking = blocking]]
  /\ UNCHANGED <<phase, cancelled, counter, pools, jobs, files, table, outcome>>

Cancel ==
  /\ MayCancel /\ ~cancelled /\ phase # "returned"
  /\ cancelled' = TRUE
  /\ UNCHANGED <<phase, calls, counter, pools, jobs, files, table, outcome>>

(***************************************************************************)
(* spawn_subagent                                                          *)
(***************************************************************************)
\* The entries a spawn of files fs names: those without a stored result.
Conflicts(fs) == {b \in entries \ settled : files[b] \cap fs # {}}

SpawnCheck(c) ==
  /\ calls[c].pc = "spawn"
  /\ counter' = counter + 1
  /\ files' = [files EXCEPT ![counter'] = calls[c].files]
  /\ warned' = [warned EXCEPT ![counter'] = Conflicts(calls[c].files)]
  /\ calls' = [calls EXCEPT ![c] = [@ EXCEPT !.pc = "ensure", !.agent = counter']]
  /\ UNCHANGED <<phase, cancelled, pools, jobs, entries, settled, results, outcome>>

EnsureExecutor(c) ==
  /\ calls[c].pc = "ensure"
  /\ Goto(c, IF executor = 0 THEN "create" ELSE "take")
  /\ UNCHANGED <<phase, cancelled, counter, pools, jobs, files, table, outcome>>

CreateExecutor(c) ==
  /\ calls[c].pc = "create"
  /\ made' = made + 1 /\ executor' = made'
  /\ Goto(c, "take")
  /\ UNCHANGED <<phase, cancelled, counter, maxSubagents, closed, jobs, files, table, outcome>>

\* The attribute is read again for the return value; None has no submit.
TakeExecutor(c) ==
  /\ calls[c].pc = "take"
  /\ calls' = [calls EXCEPT ![c] = IF executor = 0 THEN Idle
                                   ELSE [@ EXCEPT !.pc = "submit", !.pool = executor]]
  /\ UNCHANGED <<phase, cancelled, counter, pools, jobs, files, table, outcome>>

\* A closed executor refuses: the call answers with an error.
Submit(c) ==
  LET e == calls[c].pool a == calls[c].agent IN
  /\ calls[c].pc = "submit"
  /\ IF e \in closed
     THEN calls' = [calls EXCEPT ![c] = Idle] /\ UNCHANGED jobs
     ELSE /\ Goto(c, "register")
          /\ queue' = [queue EXCEPT ![e] = Append(@, a)]
          /\ home' = [home EXCEPT ![a] = e]
          /\ job' = [job EXCEPT ![a] = "queued"]
  /\ UNCHANGED <<phase, cancelled, counter, pools, files, table, outcome>>

Register(c) ==
  /\ calls[c].pc = "register"
  /\ entries' = entries \cup {calls[c].agent}
  /\ calls' = [calls EXCEPT ![c] = Idle]
  /\ UNCHANGED <<phase, cancelled, counter, pools, jobs, files, settled, results,
                 warned, outcome>>

(***************************************************************************)
(* The executors                                                           *)
(***************************************************************************)
\* First come, first served; shutdown(wait=False) leaves the queue alone.
Start(a) ==
  LET e == home[a] IN
  /\ job[a] = "queued" /\ Head(queue[e]) = a
  /\ Cardinality(Running(e)) < maxSubagents
  /\ queue' = [queue EXCEPT ![e] = Tail(@)]
  /\ job' = [job EXCEPT ![a] = "running"]
  /\ UNCHANGED <<phase, cancelled, calls, counter, pools, home, files, table, outcome>>

\* _bg_job turns every exception into a result.
Finish(a) ==
  /\ job[a] = "running"
  /\ job' = [job EXCEPT ![a] = "done"]
  /\ UNCHANGED <<phase, cancelled, calls, counter, pools, queue, home, files, table, outcome>>

(***************************************************************************)
(* poll_subagent, and the drain that ends the run: _check_bg_subagent for  *)
(* each sub-agent asked for.                                               *)
(***************************************************************************)
\* The call of thread c as it starts to look at the sub-agents it asks for.
Looking(c) == [calls[c] EXCEPT !.pc = "scan", !.todo = calls[c].asked,
                               !.was = calls[c].asked \cap Finished]

\* An unknown id is an error.
PollRead(c) ==
  /\ calls[c].pc = "poll"
  /\ calls' = [calls EXCEPT ![c] = IF calls[c].asked \subseteq entries
                                   THEN Looking(c) ELSE Idle]
  /\ UNCHANGED <<phase, cancelled, counter, pools, jobs, files, table, outcome>>

\* What thread t has found of sub-agent a, or given up on, it looks at no more.
Passed(t, a) == [calls[t] EXCEPT !.todo = @ \ {a}]
Collected(t, a) == [calls[t] EXCEPT !.pc = "scan", !.todo = @ \ {a},
                                    !.got = @ \cup {a}]

\* Slip: the drain waits for the sub-agents whose result was already collected.
LookForNew(t, a) ==
  /\ calls[t].pc = "scan" /\ a \in calls[t].todo
  /\ \/ /\ a \in settled /\ t # Main
        /\ calls' = [calls EXCEPT ![t] = Collected(t, a)]
     \/ /\ a \notin settled /\ job[a] = "done"
        /\ calls' = [calls EXCEPT ![t] = [@ EXCEPT !.pc = "append", !.agent = a]]
  /\ UNCHANGED <<phase, cancelled, counter, pools, jobs, files, table, outcome>>

\* Without the lock: a stored result is used, a finished future is stored
\* next, and a sub-agent still at work is left to a later poll; the drain
\* comes round to it again.
Look(t, a) ==
  /\ calls[t].pc = "scan" /\ a \in calls[t].todo
  /\ \/ /\ a \in settled
        /\ calls' = [calls EXCEPT ![t] = Collected(t, a)]
     \/ /\ a \notin settled /\ job[a] = "done"
        /\ calls' = [calls EXCEPT ![t] = [@ EXCEPT !.pc = "append", !.agent = a]]
     \/ /\ a \notin settled /\ job[a] # "done" /\ t # Main
        /\ calls' = [calls EXCEPT ![t] = Passed(t, a)]
  /\ UNCHANGED <<phase, cancelled, counter, pools, jobs, files, table, outcome>>

\* Slip: the test made before the lock is not made again inside it.
StoreUnchecked(t) ==
  LET a == calls[t].agent IN
  /\ calls[t].pc = "append"
  /\ settled' = settled \cup {a}
  /\ results' = Append(results, a)
  /\ calls' = [calls EXCEPT ![t] = Collected(t, a)]
  /\ UNCHANGED <<phase, cancelled, counter, pools, jobs, files, entries, warned, outcome>>

\* Under the lock: the first to arrive appends, the others use what it stored.
Store(t) ==
  LET a == calls[t].agent IN
  /\ calls[t].pc = "append"
  /\ settled' = settled \cup {a}
  /\ results' = IF a \in settled THEN results ELSE Append(results, a)
  /\ calls' = [calls EXCEPT ![t] = Collected(t, a)]
  /\ UNCHANGED <<phase, cancelled, counter, pools, jobs, files, entries, warned, outcome>>

\* The call answers, or waits for the first of its sub-agents to finish.
Answer(c) ==
  /\ c # Main /\ calls[c].pc = "scan" /\ calls[c].todo = {}
  /\ calls' = [calls EXCEPT ![c] =
       IF @.got = {} /\ @.blocking THEN [@ EXCEPT !.pc = "wait"] ELSE Idle]
  /\ UNCHANGED <<phase, cancelled, counter, pools, jobs, files, table, outcome>>

\* The wait ends with a finished sub-agent or with its time, and the call looks
\* once more; a wait for several ends with a cancellation and looks no more.
WaitEnds(c) ==
  /\ calls[c].pc = "wait"
  /\ \/ calls' = [calls EXCEPT ![c] = [Looking(c) EXCEPT !.blocking = FALSE]]
     \/ /\ cancelled /\ Cardinality(calls[c].asked) > 1
        /\ calls' = [calls EXCEPT ![c] = Idle]
  /\ UNCHANGED <<phase, cancelled, counter, pools, jobs, files, table, outcome>>

(***************************************************************************)
(* The end of the run                                                      *)
(***************************************************************************)
\* The chat loop returns when its calls have, or raises AgentCancelled and
\* leaves them running; the drain then takes the entries there are.
EndTurn ==
  /\ phase = "turn"
  /\ cancelled \/ \A c \in Callers : calls[c].pc = "idle"
  /\ phase' = "drain"
  /\ calls' = [calls EXCEPT ![Main] = [Idle EXCEPT !.pc = "scan", !.todo = entries]]
  /\ UNCHANGED <<cancelled, counter, pools, jobs, files, table, outcome>>

DrainGivesUp(a) ==
  /\ MayGiveUp /\ calls[Main].pc = "scan" /\ a \in calls[Main].todo
  /\ gaveUp' = gaveUp \cup {a}
  /\ calls' = [calls EXCEPT ![Main] = Passed(Main, a)]
  /\ UNCHANGED <<phase, cancelled, counter, pools, jobs, files, table, returned, crowded>>

ShutdownExecutor ==
  /\ phase = "drain" /\ calls[Main].pc = "scan"
  /\ cancelled \/ calls[Main].todo = {}
  /\ phase' = "cleanup"
  /\ calls' = [calls EXCEPT ![Main] = Idle]
  /\ executor' = 0 /\ closed' = closed \cup ({executor} \ {0})
  /\ UNCHANGED <<cancelled, counter, maxSubagents, made, jobs, files, table, outcome>>

\* The sentinels for the workers are written; then the results are copied.
Return ==
  /\ phase = "cleanup"
  /\ phase' = "returned" /\ returned' = results
  /\ UNCHANGED <<cancelled, calls, counter, pools, jobs, files, table, gaveUp, crowded>>

CallStep(c) ==
  \/ SpawnCheck(c) \/ EnsureExecutor(c) \/ CreateExecutor(c)
  \/ TakeExecutor(c) \/ Submit(c) \/ Register(c)
  \/ PollRead(c) \/ \E a \in Agents : Look(c, a)
  \/ Store(c) \/ Answer(c) \/ WaitEnds(c)

RunStep ==
  \/ \E a \in Agents : Look(Main, a)
  \/ Store(Main) \/ ShutdownExecutor \/ Return

Next ==
  \/ \E c \in Callers : \/ \E fs \in Assignments : AskSpawn(c, fs)
                        \/ \E A \in SUBSET (1 .. counter), b \in BOOLEAN :
                              A # {} /\ AskPoll(c, A, b)
                        \/ CallStep(c)
  \/ \E a \in Agents : Start(a) \/ Finish(a) \/ DrainGivesUp(a)
  \/ RunStep \/ EndTurn \/ Cancel

Spec == Init /\ [][Next]_vars

(***************************************************************************)
(* The threads of the calls, of the executors and of the run are scheduled *)
(* by the operating system, and a sub-agent ends: its turns and the waits  *)
(* for its worker are bounded.  When the model ends its turn, what it asks *)
(* for and when the user cancels is up to them.                            *)
(***************************************************************************)
Fairness ==
  /\ WF_vars(RunStep)
  /\ \A c \in Callers : WF_vars(CallStep(c))
  /\ \A a \in Agents : WF_vars(Start(a)) /\ WF_vars(Finish(a))

FairSpec == Spec /\ Fairness

(***************************************************************************)
(* Properties                                                              *)
(***************************************************************************)
TypeOK ==
  /\ phase \in {"turn", "drain", "cleanup", "returned"} /\ cancelled \in BOOLEAN
  /\ calls \in [Threads -> Call]
  /\ maxSubagents \in 1 .. MaxSubagents /\ crowded \in BOOLEAN
  /\ counter \in 0 .. MaxAgents /\ executor \in 0 .. made /\ made \in 0 .. MaxAgents
  /\ closed \subseteq 1 .. made
  /\ queue \in [Executors -> Seq(Agents)] /\ home \in [Agents -> 0 .. MaxAgents]
  /\ job \in [Agents -> {"none", "queued", "running", "done"}]
  /\ files \in [Agents -> Assignments \cup {{}}]
  /\ entries \subseteq Agents /\ settled \subseteq entries
  /\ results \in Seq(Agents) /\ returned \in Seq(Agents)
  /\ warned \in [Agents -> SUBSET Agents] /\ gaveUp \subseteq Agents

\* A finished sub-agent is counted once, however many polls and the drain see
\* its future resolve at the same time (the check repeated inside _bg_lock).
CountedOnce == IsInjective(results)

\* A run that was not cancelled returns the result of every sub-agent it
\* spawned, except those its drain stopped waiting for.
NothingSpawnedIsLost ==
  phase = "returned" /\ ~cancelled => entries \ gaveUp \subseteq ToSet(returned)

\* A poll reports every sub-agent asked for that had finished when the poll
\* looked, even if nobody had stored its result yet.
PollSeesFinished ==
  \A c \in Callers :
    calls[c].pc = "scan" /\ calls[c].todo = {} => calls[c].was \subseteq calls[c].got

\* Two sub-agents at work on a common file: the spawn of one of them said so.
OverlapIsWarned ==
  \A a, b \in Agents :
    /\ a # b /\ job[a] = "running" /\ job[b] = "running"
    /\ files[a] \cap files[b] # {}
    => a \in warned[b] \/ b \in warned[a]

\* A sub-agent named in a warning as still running has not finished.
WarnedIsAtWork ==
  [][\A a \in Agents : warned'[a] # warned[a] => warned'[a] \cap Finished = {}]_vars

\* At most max_subagents sub-agents are at work at once.
SlotsRespected == Cardinality({a \in Agents : job[a] = "running"}) <= maxSubagents

\* Once the run has returned, its workers told to stop, it starts no sub-agent.
NoStartAfterReturn ==
  [][phase = "returned" => \A a \in Agents : job'[a] = "running" => job[a] = "running"]_vars

\* A queued sub-agent starts when a slot is free, whatever becomes of the run.
QueuedStarts == \A a \in Agents : job[a] = "queued" ~> job[a] = "running"

\* The run returns once its turn has ended: a sub-agent collected by a poll,
\* or never finishing before a cancellation, does not hold the drain.
RunReturns == phase = "drain" ~> phase = "returned"

=============================================================================
