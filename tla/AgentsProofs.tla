---------------------------- MODULE AgentsProofs -----------------------------
(***************************************************************************)
(* What Agents keeps for any number of threads, sub-agents, commands and   *)
(* tasks.                                                                  *)
(***************************************************************************)
EXTENDS Agents, FiniteSetTheorems, SequenceTheorems, TLAPS

-----------------------------------------------------------------------------
(***************************************************************************)
(* The tool loop                                                           *)
(***************************************************************************)
At(pcs) == {c \in Callers : calls[c].pc \in pcs}

\* Where the spawn of a counted sub-agent is before and after it is submitted.
Unsubmitted == {"ensure", "create", "take", "submit"}
Counted == Unsubmitted \cup {"register"}

\* Who may still count a sub-agent has a number left for it, and who may still
\* make an executor has counted a sub-agent none was made for.
NumbersLast ==
  /\ counter + Cardinality(At({"spawn"})) <= MaxAgents
  /\ made + Cardinality(At({"ensure", "create"})) <= counter

\* Every spawn has a sub-agent of its own, which is not yet at work, or just
\* submitted to an executor that exists.
SpawnsApart ==
  /\ \A c \in At(Counted) : calls[c].agent \in 1 .. counter /\ calls[c].agent \notin entries
  /\ \A c, d \in At(Counted) : calls[c].agent = calls[d].agent => c = d
  /\ \A c \in At(Unsubmitted) : job[calls[c].agent] = "none"
  /\ \A c \in At({"submit"}) : calls[c].pool \in 1 .. made
  /\ \A c \in At({"register"}) : job[calls[c].agent] # "none"

\* A sub-agent at work is counted, is in an executor, and has an entry or is
\* about to; a queued one is in the queue of its executor.
JobsKnown ==
  /\ \A a \in entries : job[a] # "none"
  /\ \A a \in Agents : job[a] # "none" =>
       /\ a <= counter /\ home[a] \in 1 .. made
       /\ a \in entries \/ \E c \in At({"register"}) : calls[c].agent = a
  /\ \A a \in Agents : job[a] = "queued" =>
       \E i \in DOMAIN queue[home[a]] : queue[home[a]][i] = a
  /\ \A e \in Executors : Cardinality(Running(e)) <= maxSubagents

\* A look is at known sub-agents, and has or will come to all that had finished.
LooksAreWhole ==
  \A t \in Threads :
    /\ calls[t].pc \in {"scan", "append", "wait"} =>
         calls[t].asked \subseteq entries /\ calls[t].todo \subseteq entries
    /\ calls[t].pc = "append" =>
         calls[t].agent \in calls[t].todo /\ job[calls[t].agent] = "done"
    /\ t # Main /\ calls[t].pc \in {"scan", "append"} =>
         /\ calls[t].was \subseteq Finished
         /\ calls[t].was \subseteq calls[t].got \cup calls[t].todo

\* What is stored is in the results, once, and has finished.
ResultsOnce ==
  /\ settled = ToSet(results) /\ IsInjective(results)
  /\ settled \subseteq Finished

\* The run is one thread; once it drains, uncancelled, no call is under way, and
\* what it has not seen yet it still has to look at.
DrainIsWhole ==
  /\ calls[Main].pc = CASE phase = "drain" -> IF calls[Main].pc = "append" THEN "append" ELSE "scan"
                        [] OTHER -> "idle"
  /\ ~cancelled /\ phase # "turn" => \A c \in Callers : calls[c].pc = "idle"
  /\ ~cancelled /\ phase = "drain" =>
       entries \subseteq settled \cup gaveUp \cup calls[Main].todo
  /\ ~cancelled /\ phase = "cleanup" => entries \subseteq settled \cup gaveUp
  /\ ~cancelled /\ phase = "returned" => entries \subseteq ToSet(returned) \cup gaveUp

\* One spawn at a time: it is of the newest sub-agent, it named those at work on
\* its files, and no second executor is made.
SpawnsInTurn ==
  ~crowded =>
    /\ \A c, d \in Spawns : c = d
    /\ \A c \in At(Counted) : calls[c].agent = counter
    /\ \A a, b \in Agents :
         a < b /\ b <= counter /\ job[a] \in {"queued", "running"}
         /\ files[a] \cap files[b] # {} => a \in warned[b]
    /\ ~cancelled => /\ made <= 1 /\ (phase = "turn" => executor = made)
                     /\ At({"create"}) # {} => executor = 0

LoopInv ==
  /\ TypeOK /\ NumbersLast /\ SpawnsApart /\ JobsKnown /\ LooksAreWhole
  /\ ResultsOnce /\ DrainIsWhole /\ SpawnsInTurn

-----------------------------------------------------------------------------
(***************************************************************************)
(* The background commands                                                 *)
(***************************************************************************)
JobsIn(r) == {r[i].job : i \in DOMAIN r}
OneEach(r) == \A i, k \in DOMAIN r : r[i].job = r[k].job => i = k
InRing == JobsIn(bjRing)
Stales == ToSet(bjStale)
Final == Registry!Final

\* Nothing is known of a command before it starts.
StartedOnce ==
  /\ IsFiniteSet(Registry!Born)
  /\ \A j \in Commands :
       bjRc[j] = "unborn" =>
         bjStatus[j] = "running" /\ j \notin bjActive \cup InRing \cup Stales

\* A status that says it is over is true, in the registry and in the ring; what
\* is being evicted has left the registry.
OverIsTrue ==
  /\ \A j \in Commands : bjStatus[j] \in Final => bjRc[j] \in Registry!Ended
  /\ \A i \in DOMAIN bjRing :
       bjRing[i].status \in Final => bjRc[bjRing[i].job] \in Registry!Ended
  /\ \A j \in bjActive : bjStatus[j] # "killing"

\* The ring and the stale jobs are within their caps, with each command once.
ListsAreSets ==
  /\ Len(bjRing) <= RingCap /\ OneEach(bjRing)
  /\ Len(bjStale) <= MaxJobs /\ IsInjective(bjStale) /\ bjActive \cap Stales = {}

\* Each command of the past has a place in the ring; with room for all, each
\* that lives is in it, or in the registry.
RoomInRing ==
  /\ InRing \subseteq Registry!Over
  /\ Cardinality(Registry!Over) <= RingCap =>
       \A j \in Commands : bjRc[j] = "alive" => j \in bjActive \cup InRing

\* A command taken out of the registry is evicted by one caller, and becomes
\* stale at most once.
CallerApart(c) ==
  /\ bjPc[c] = "mark" <=> bjMgr = c
  /\ bjPc[c] = "mark" => bjJob[c] \in bjActive
  /\ bjGoal[c] = "evict" =>
       /\ bjPc[c] \in {"kill", "signal", "wait", "drain", "store"}
       /\ bjJob[c] \notin bjActive \cup Stales
  /\ bjPc[c] \in {"drain", "store"} => bjGoal[c] = "evict"
  /\ bjPc[c] # "idle" => bjRc[bjJob[c]] # "unborn"

CallersApart ==
  /\ \A c \in Callers : CallerApart(c)
  /\ \A c, d \in Callers :
       bjGoal[c] = "evict" /\ bjGoal[d] = "evict" /\ bjJob[c] = bjJob[d] => c = d

\* While a sweep stores what ended, that has ended and is looked at no more; at
\* any other time what is in the registry is not in the ring.
SweepInOrder ==
  /\ bjMgr = Reaper <=> bjSweep = "store"
  /\ bjTodo \cup {bjSeen.job} \subseteq Registry!Born \cup {Nobody}
  /\ bjSeen # Registry!NoCheck => bjRc[bjSeen.job] = bjSeen.rc \/ bjSeen.rc = "alive"
  /\ bjSweep = "store" =>
       /\ bjTodo \subseteq bjActive
       /\ \A j \in bjActive \cap InRing : j \notin bjTodo /\ bjStatus[j] \in Final
  /\ bjSweep # "store" => bjActive \cap InRing = {}
  /\ Cardinality(bjActive) <= MaxJobs + 1
  /\ bjMgr \notin Callers => Cardinality(bjActive) <= MaxJobs

RegistryInv ==
  /\ Registry!TypeOK /\ StartedOnce /\ OverIsTrue /\ ListsAreSets /\ RoomInRing
  /\ CallersApart /\ SweepInOrder

-----------------------------------------------------------------------------
(***************************************************************************)
(* The worker                                                              *)
(***************************************************************************)
\* A worker started has a task written for it, and the writing of a task cleared
\* the sentinel; so what lies there since was written at the end.
SentinelIsLate ==
  /\ swPc # "off" => swSent # Worker!NoTask
  /\ (swSent # Worker!NoTask \/ swOpc = "write") /\ swShutdownFile => swCleanup = "done"
  /\ swWhy = "shutdown" => swCleanup = "done"

\* A task in the file is the last one sent and newer than any taken; a task taken
\* is answered before the next is.
TasksInTurn ==
  /\ swTask \in {Worker!NoTask, swSent} /\ (swTask # Worker!NoTask => swCur < swTask)
  /\ swPc \in {"taken", "run", "answered"} => swCur # Worker!NoTask
  /\ swPc \in {"taken", "run"} => swAnswer[swCur] = "none"
  /\ swPc = "answered" => swAnswer[swCur] # "none"
  /\ \A t \in Worker!Tasks : swAnswer[t] # "none" => t <= swCur
  /\ swOpc = "write" => swSent < MaxTasks
  /\ swOpc \in {"wait", "quiesce"} => swSent # Worker!NoTask

\* The part of the types that is about truth values.
Flags ==
  /\ swCancelFile \in BOOLEAN /\ swShutdownFile \in BOOLEAN /\ swCancel \in BOOLEAN
  /\ swShutdown \in BOOLEAN /\ swOrphan \in BOOLEAN

WorkerInv == Worker!TypeOK /\ SentinelIsLate /\ TasksInTurn

-----------------------------------------------------------------------------
(***************************************************************************)
(* Proofs: the worker                                                      *)
(***************************************************************************)
LEMMA WorkerInit == Worker!Init => WorkerInv
<1> SUFFICES ASSUME Worker!Init PROVE WorkerInv
  OBVIOUS
<1>1. Flags
  BY Zenon DEF Worker!Init, Flags
<1> QED
  BY <1>1, AgentsAssumption DEF Worker!Init, WorkerInv, Worker!TypeOK, SentinelIsLate, TasksInTurn,
     Flags, Worker!Tasks, Worker!NoTask, Worker!TasksAssumption

\* The worker's main thread.
LEMMA WorkerMainKeeps ==
  ASSUME WorkerInv, Worker!Launch \/ Worker!Main \/ Worker!TaskEnds \/ Worker!PollCap
                    \/ Worker!Interrupt
  PROVE  WorkerInv'
<1> USE AgentsAssumption DEF Worker!TasksAssumption, Worker!Tasks, Worker!NoTask,
        WorkerInv, Worker!TypeOK, SentinelIsLate, TasksInTurn,
        Worker!files, Worker!worker, Worker!orchestrator, Worker!Exit, Worker!Alive, Flags
<1>1. CASE Worker!Launch
  <2>1. Flags' BY <1>1, Zenon DEF Worker!Launch
  <2> QED BY <1>1, <2>1 DEF Worker!Launch
<1>2. CASE Worker!LoopTest
  <2>1. Flags' BY <1>2, Zenon DEF Worker!LoopTest
  <2> QED BY <1>2, <2>1 DEF Worker!LoopTest
<1>3. CASE Worker!ClearCancel
  <2>1. Flags' BY <1>3, Zenon DEF Worker!ClearCancel
  <2> QED BY <1>3, <2>1 DEF Worker!ClearCancel
<1>4. CASE Worker!PollTest
  <2>1. Flags' BY <1>4, Zenon DEF Worker!PollTest
  <2> QED BY <1>4, <2>1 DEF Worker!PollTest
<1>5. CASE Worker!Take
  <2>1. Flags' BY <1>5, Zenon DEF Worker!Take
  <2> QED BY <1>5, <2>1 DEF Worker!Take
<1>6. CASE Worker!PollShutdown
  <2>1. Flags' BY <1>6, Zenon DEF Worker!PollShutdown
  <2> QED BY <1>6, <2>1 DEF Worker!PollShutdown
<1>7. CASE Worker!Sleep
  <2>1. Flags' BY <1>7, Zenon DEF Worker!Sleep
  <2> QED BY <1>7, <2>1 DEF Worker!Sleep
<1>8. CASE Worker!StartTask
  <2>1. Flags' BY <1>8, Zenon DEF Worker!StartTask
  <2> QED BY <1>8, <2>1 DEF Worker!StartTask
<1>9. CASE Worker!TurnAborts \/ Worker!TaskEnds
  <2>1. PICK result \in {"cancelled", "ended"} : swPc = "run" /\ Worker!Respond(result)
    BY <1>9, Zenon DEF Worker!TurnAborts, Worker!TaskEnds
  <2>2. Flags' BY <2>1, Zenon DEF Worker!Respond
  <2> QED BY <2>1, <2>2 DEF Worker!Respond
<1>10. CASE Worker!StopWatcher
  <2>1. Flags' BY <1>10, Zenon DEF Worker!StopWatcher, Worker!Watcher
  <2> QED BY <1>10, <2>1 DEF Worker!StopWatcher, Worker!Watcher
<1>11. CASE Worker!PollCap
  <2>1. Flags' BY <1>11, Zenon DEF Worker!PollCap
  <2> QED BY <1>11, <2>1 DEF Worker!PollCap
<1>12. CASE Worker!Interrupt
  <2>1. Flags' BY <1>12, Zenon DEF Worker!Interrupt
  <2> QED BY <1>12, <2>1 DEF Worker!Interrupt
<1> QED
  BY <1>1, <1>2, <1>3, <1>4, <1>5, <1>6, <1>7, <1>8, <1>9, <1>10, <1>11, <1>12 DEF Worker!Main

\* Its watchers.
LEMMA WatchersKeep ==
  ASSUME WorkerInv, NEW t \in Worker!Tasks, Worker!Watch(t)
  PROVE  WorkerInv'
<1> USE AgentsAssumption DEF Worker!TasksAssumption, Worker!Tasks, Worker!NoTask,
        WorkerInv, Worker!TypeOK, SentinelIsLate, TasksInTurn,
        Worker!files, Worker!worker, Worker!orchestrator, Worker!Exit, Worker!Alive, Flags
<1>1. CASE Worker!WatchTest(t)
  <2>1. Flags' BY <1>1, Zenon DEF Worker!WatchTest, Worker!Watcher
  <2> QED BY <1>1, <2>1 DEF Worker!WatchTest, Worker!Watcher
<1>2. CASE Worker!WatchLook(t)
  <2>1. Flags' BY <1>2, Zenon DEF Worker!WatchLook, Worker!Watcher
  <2> QED BY <1>2, <2>1 DEF Worker!WatchLook, Worker!Watcher
<1>3. CASE Worker!WatchUnlink(t)
  <2>1. Flags' BY <1>3, Zenon DEF Worker!WatchUnlink, Worker!Watcher
  <2> QED BY <1>3, <2>1 DEF Worker!WatchUnlink, Worker!Watcher
<1>4. CASE Worker!WatchSet(t)
  <2>1. Flags' BY <1>4, Zenon DEF Worker!WatchSet, Worker!Watcher
  <2> QED BY <1>4, <2>1 DEF Worker!WatchSet, Worker!Watcher
<1> QED
  BY <1>1, <1>2, <1>3, <1>4 DEF Worker!Watch

\* The orchestrator.
LEMMA OrchestratorKeeps ==
  ASSUME WorkerInv, Worker!Orchestrate \/ Worker!OrchestratorDies
  PROVE  WorkerInv'
<1> USE AgentsAssumption DEF Worker!TasksAssumption, Worker!Tasks, Worker!NoTask,
        WorkerInv, Worker!TypeOK, SentinelIsLate, TasksInTurn,
        Worker!files, Worker!worker, Worker!orchestrator, Worker!Exit, Worker!Alive, Flags
<1>1. CASE Worker!ClearSentinels
  <2>1. Flags' BY <1>1, Zenon DEF Worker!ClearSentinels
  <2> QED BY <1>1, <2>1 DEF Worker!ClearSentinels
<1>2. CASE Worker!WriteTask
  <2>1. Flags' BY <1>2, Zenon DEF Worker!WriteTask
  <2> QED BY <1>2, <2>1 DEF Worker!WriteTask
<1>3. CASE Worker!ReadAnswer
  <2>1. Flags' BY <1>3, Zenon DEF Worker!ReadAnswer
  <2> QED BY <1>3, <2>1 DEF Worker!ReadAnswer
<1>4. CASE Worker!GiveUp
  <2>1. Flags' BY <1>4, Zenon DEF Worker!GiveUp
  <2> QED BY <1>4, <2>1 DEF Worker!GiveUp
<1>5. CASE Worker!GraceOver
  <2>1. Flags' BY <1>5, Zenon DEF Worker!GraceOver
  <2>2. CASE UNCHANGED Worker!worker
    BY <1>5, <2>1, <2>2 DEF Worker!GraceOver
  <2>3. CASE Worker!Alive /\ Worker!Exit("terminated")
             /\ UNCHANGED <<swCur, swCancel, swShutdown, swWatch, swStopped, swAnswer>>
    BY <1>5, <2>1, <2>3 DEF Worker!GraceOver
  <2> QED BY <1>5, <2>2, <2>3 DEF Worker!GraceOver
<1>6. CASE Worker!CleanupCancels
  <2>1. Flags' BY <1>6, Zenon DEF Worker!CleanupCancels
  <2> QED BY <1>6, <2>1 DEF Worker!CleanupCancels
<1>7. CASE Worker!CleanupShutsDown
  <2>1. Flags' BY <1>7, Zenon DEF Worker!CleanupShutsDown
  <2> QED BY <1>7, <2>1 DEF Worker!CleanupShutsDown
<1>8. CASE Worker!OrchestratorDies
  <2>1. Flags' BY <1>8, Zenon DEF Worker!OrchestratorDies
  <2> QED BY <1>8, <2>1 DEF Worker!OrchestratorDies
<1> QED
  BY <1>1, <1>2, <1>3, <1>4, <1>5, <1>6, <1>7, <1>8 DEF Worker!Orchestrate

LEMMA WorkerNext == WorkerInv /\ [Worker!Next]_workerVars => WorkerInv'
<1> SUFFICES ASSUME WorkerInv, [Worker!Next]_workerVars PROVE WorkerInv'
  OBVIOUS
<1>1. CASE UNCHANGED workerVars
  BY <1>1 DEF workerVars, WorkerInv, Worker!TypeOK, SentinelIsLate, TasksInTurn
<1>2. CASE Worker!Next
  BY <1>2, WorkerMainKeeps, WatchersKeep, OrchestratorKeeps
     DEF Worker!Next, Worker!Uninterrupted
<1> QED BY <1>1, <1>2

-----------------------------------------------------------------------------
(***************************************************************************)
(* Proofs: the tool loop                                                   *)
(***************************************************************************)
LEMMA IdleIsCall == Idle \in Call
  BY AgentsAssumption DEF SizeAssumption, Call, Idle

LEMMA LoopInit == Init => LoopInv
<1> SUFFICES ASSUME Init PROVE LoopInv
  OBVIOUS
<1>1. calls = [t \in Threads |-> Idle] /\ MaxAgents \in Nat \ {0} /\ MaxSubagents \in Nat \ {0}
      /\ counter = 0 /\ made = 0 /\ executor = 0 /\ entries = {} /\ settled = {}
      /\ job = [a \in Agents |-> "none"] /\ results = <<>> /\ phase = "turn"
  BY AgentsAssumption DEF SizeAssumption, Init
<1>2. \A P : "idle" \notin P => At(P) = {}
  BY <1>1 DEF At, Idle, Threads
<1>3. TypeOK
  <2>1. calls \in [Threads -> Call]
    BY <1>1, IdleIsCall
  <2>2. cancelled \in BOOLEAN /\ crowded \in BOOLEAN
    BY Zenon DEF Init
  <2> QED
    BY <1>1, <2>1, <2>2 DEF Init, TypeOK, Agents, Executors
<1>4. NumbersLast
  <2>1. Cardinality(At({"spawn"})) = 0 /\ Cardinality(At({"ensure", "create"})) = 0
    BY <1>2, FS_EmptySet
  <2> QED
    BY <1>1, <2>1 DEF NumbersLast
<1>5. SpawnsApart
  BY <1>2 DEF SpawnsApart, Counted, Unsubmitted
<1>6. JobsKnown
  <2>1. \A e \in Executors : Running(e) = {}
    BY <1>1 DEF Running
  <2>2. \A e \in Executors : Cardinality(Running(e)) = 0
    BY <2>1, FS_EmptySet
  <2> QED
    BY <1>1, <2>2 DEF JobsKnown, Init
<1>7. LooksAreWhole
  BY <1>1 DEF LooksAreWhole, Idle
<1>8. ResultsOnce
  BY <1>1 DEF ResultsOnce, IsInjective, ToSet
<1>9. DrainIsWhole
  BY <1>1 DEF DrainIsWhole, Idle, Threads
<1>10. SpawnsInTurn
  <2>1. At({"create"}) = {} /\ At(Counted) = {} /\ Spawns = {}
    BY <1>1 DEF At, Spawns, Counted, Unsubmitted, Idle, Threads
  <2> QED
    BY <1>1, <2>1 DEF SpawnsInTurn
<1> QED
  BY <1>3, <1>4, <1>5, <1>6, <1>7, <1>8, <1>9, <1>10 DEF LoopInv

\* A record is replaced, and the sets of callers at some step move with it.
LEMMA Replaced ==
  ASSUME TypeOK, NEW t \in Threads, NEW r \in Call, calls' = [calls EXCEPT ![t] = r]
  PROVE  /\ calls' \in [Threads -> Call]
         /\ calls'[t] = r /\ \A u \in Threads \ {t} : calls'[u] = calls[u]
  BY DEF TypeOK

LEMMA AtIsFinite ==
  ASSUME NEW P
  PROVE  /\ IsFiniteSet(At(P)) /\ Cardinality(At(P)) \in Nat
<1>1. IsFiniteSet(Callers) /\ At(P) \subseteq Callers
  BY AgentsAssumption DEF CallersAssumption, At
<1> QED
  BY <1>1, FS_Subset, FS_CardinalityType

LEMMA AtMoves ==
  ASSUME TypeOK, NEW c \in Callers, calls' \in [Threads -> Call],
         \A u \in Callers \ {c} : calls'[u].pc = calls[u].pc, NEW P
  PROVE  /\ (calls[c].pc \in P <=> calls'[c].pc \in P) => At(P)' = At(P)
         /\ calls[c].pc \notin P /\ calls'[c].pc \in P =>
              Cardinality(At(P)') = Cardinality(At(P)) + 1
         /\ calls[c].pc \in P /\ calls'[c].pc \notin P =>
              Cardinality(At(P)') = Cardinality(At(P)) - 1
<1>1. IsFiniteSet(At(P))
  BY AtIsFinite
<1>2. ASSUME calls[c].pc \in P <=> calls'[c].pc \in P PROVE At(P)' = At(P)
  BY <1>2 DEF At
<1>3. ASSUME calls[c].pc \notin P, calls'[c].pc \in P
      PROVE  Cardinality(At(P)') = Cardinality(At(P)) + 1
  <2>1. At(P)' = At(P) \cup {c} /\ c \notin At(P)
    BY <1>3 DEF At
  <2> QED BY <1>1, <2>1, FS_AddElement
<1>4. ASSUME calls[c].pc \in P, calls'[c].pc \notin P
      PROVE  Cardinality(At(P)') = Cardinality(At(P)) - 1
  <2>1. At(P)' = At(P) \ {c} /\ c \in At(P)
    BY <1>4 DEF At
  <2> QED BY <1>1, <2>1, FS_RemoveElement
<1> QED BY <1>2, <1>3, <1>4

LEMMA MainIsNoCaller == Main \notin Callers /\ Main \in Threads /\ Callers \subseteq Threads
  BY AgentsAssumption DEF CallersAssumption, Threads

\* The records that the steps write.
LEMMA AgentsAreNumbers == Agents \subseteq 0 .. MaxAgents
  BY AgentsAssumption DEF SizeAssumption, Agents

LEMMA CallRecords ==
  ASSUME NEW r \in Call
  PROVE  /\ \A p \in {"create", "take", "register", "wait"} : [r EXCEPT !.pc = p] \in Call
         /\ \A a \in Agents : [r EXCEPT !.pc = "ensure", !.agent = a] \in Call
         /\ \A e \in 0 .. MaxAgents : [r EXCEPT !.pc = "submit", !.pool = e] \in Call
         /\ \A A \in SUBSET Agents : [r EXCEPT !.pc = "scan", !.todo = A] \in Call
         /\ \A a \in Agents : [r EXCEPT !.pc = "append", !.agent = a] \in Call
<1>1. \A p \in {"create", "take", "register", "wait"} : [r EXCEPT !.pc = p] \in Call
  BY DEF Call
<1>2. \A a \in Agents : [r EXCEPT !.pc = "ensure", !.agent = a] \in Call
  BY AgentsAreNumbers DEF Call
<1>3. \A e \in 0 .. MaxAgents : [r EXCEPT !.pc = "submit", !.pool = e] \in Call
  BY DEF Call
<1>4. \A A \in SUBSET Agents : [r EXCEPT !.pc = "scan", !.todo = A] \in Call
  BY DEF Call
<1>5. \A a \in Agents : [r EXCEPT !.pc = "append", !.agent = a] \in Call
  BY AgentsAreNumbers DEF Call
<1> QED BY <1>1, <1>2, <1>3, <1>4, <1>5

LEMMA CallRecordsSeen ==
  ASSUME NEW t \in Threads, calls[t] \in Call, NEW a \in Agents
  PROVE  /\ Passed(t, a) \in Call /\ Collected(t, a) \in Call
<1>1. Passed(t, a) \in Call
  BY DEF Call, Passed
<1>2. Collected(t, a) \in Call
  BY DEF Call, Collected
<1> QED BY <1>1, <1>2

LEMMA CallRecordSpawn ==
  ASSUME NEW fs \in Assignments
  PROVE  [Idle EXCEPT !.pc = "spawn", !.files = fs] \in Call
  BY IdleIsCall DEF Call

LEMMA CallRecordPoll ==
  ASSUME NEW A \in SUBSET Agents, NEW b \in BOOLEAN
  PROVE  [Idle EXCEPT !.pc = "poll", !.asked = A, !.blocking = b] \in Call
  BY IdleIsCall DEF Call

LEMMA CallRecordsLooking ==
  ASSUME NEW c \in Threads, calls[c] \in Call
  PROVE  /\ Looking(c) \in Call /\ [Looking(c) EXCEPT !.blocking = FALSE] \in Call
  BY DEF Looking, Call, Finished

LEMMA LoopTypes == LoopInv /\ Next => TypeOK'
<1> SUFFICES ASSUME LoopInv, Next PROVE TypeOK'
  OBVIOUS
<1>0. MaxAgents \in Nat \ {0} /\ MaxSubagents \in Nat \ {0}
  BY AgentsAssumption DEF SizeAssumption
<1>a. /\ TypeOK /\ Idle \in Call /\ counter \in 0 .. MaxAgents /\ executor \in 0 .. MaxAgents
      /\ \A t \in Threads : calls[t] \in Call
      /\ entries \subseteq Agents /\ settled \subseteq entries
  BY <1>0, IdleIsCall DEF LoopInv, TypeOK
<1>b. Callers \subseteq Threads /\ Main \in Threads
  BY MainIsNoCaller
<1> USE <1>0, <1>b DEF TypeOK, Agents, Executors, pools, jobs, table, outcome, Goto
<1>1. ASSUME NEW c \in Callers, NEW fs \in Assignments, AskSpawn(c, fs) PROVE TypeOK'
  <2>1. [Idle EXCEPT !.pc = "spawn", !.files = fs] \in Call
    BY CallRecordSpawn, Zenon
  <2>2. crowded' \in BOOLEAN
    BY <1>1, Zenon DEF AskSpawn
  <2> QED BY <1>1, <1>a, <2>1, <2>2 DEF AskSpawn
<1>2. ASSUME NEW c \in Callers, NEW A \in SUBSET (1 .. counter), NEW b \in BOOLEAN, AskPoll(c, A, b)
      PROVE  TypeOK'
  <2>1. [Idle EXCEPT !.pc = "poll", !.asked = A, !.blocking = b] \in Call
    <3>1. A \in SUBSET Agents
      BY <1>a
    <3> HIDE DEF Agents
    <3> QED BY <3>1, CallRecordPoll, Zenon
  <2> QED BY <1>2, <1>a, <2>1 DEF AskPoll
<1>3. ASSUME NEW c \in Callers, SpawnCheck(c) PROVE TypeOK'
  <2>1. counter + 1 \in Agents
    <3>1. At({"spawn"}) # {} /\ IsFiniteSet(At({"spawn"}))
      BY <1>3, AtIsFinite DEF SpawnCheck, At
    <3>2. Cardinality(At({"spawn"})) # 0 /\ Cardinality(At({"spawn"})) \in Nat
      BY <3>1, AtIsFinite, FS_EmptySet
    <3> QED BY <3>2 DEF LoopInv, NumbersLast
  <2>2. [calls[c] EXCEPT !.pc = "ensure", !.agent = counter + 1] \in Call
    <3> HIDE DEF Agents
    <3> QED BY <1>a, <1>b, <2>1, CallRecords, Zenon
  <2>3. Conflicts(calls[c].files) \subseteq Agents /\ calls[c].files \in Assignments \cup {{}}
    BY <1>a DEF Conflicts, Call
  <2>4. /\ counter' = counter + 1
        /\ calls' = [calls EXCEPT ![c] = [calls[c] EXCEPT !.pc = "ensure", !.agent = counter + 1]]
        /\ files' = [files EXCEPT ![counter + 1] = calls[c].files]
        /\ warned' = [warned EXCEPT ![counter + 1] = Conflicts(calls[c].files)]
        /\ UNCHANGED <<phase, cancelled, pools, jobs, entries, settled, results, outcome>>
    BY <1>3, <1>a DEF SpawnCheck
  <2>5. calls' \in [Threads -> Call]
    BY <1>a, <2>2, <2>4
  <2>6. files' \in [Agents -> Assignments \cup {{}}]
    <3> HIDE DEF Agents
    <3> QED BY <1>a, <2>3, <2>4
  <2>7. warned' \in [Agents -> SUBSET Agents]
    <3> HIDE DEF Conflicts, Agents
    <3> QED BY <1>a, <2>3, <2>4
  <2>8. counter' \in 0 .. MaxAgents
    BY <1>a, <2>1, <2>4
  <2> HIDE DEF Conflicts, Agents, Executors
  <2> QED BY <1>a, <2>4, <2>5, <2>6, <2>7, <2>8
<1>4. ASSUME NEW c \in Callers, EnsureExecutor(c) \/ CreateExecutor(c) \/ TakeExecutor(c)
      PROVE  TypeOK'
  <2>1. \A p \in {"create", "take"} : [calls[c] EXCEPT !.pc = p] \in Call
    BY <1>a, <1>b, CallRecords
  <2>2. CASE EnsureExecutor(c)
    BY <1>a, <2>1, <2>2 DEF EnsureExecutor
  <2>3. CASE CreateExecutor(c)
    <3>1. At({"ensure", "create"}) # {} /\ IsFiniteSet(At({"ensure", "create"}))
      BY <2>3, AtIsFinite DEF CreateExecutor, At
    <3>2. Cardinality(At({"ensure", "create"})) # 0 /\ Cardinality(At({"ensure", "create"})) \in Nat
      BY <3>1, AtIsFinite, FS_EmptySet
    <3>3. made + 1 <= MaxAgents
      BY <3>2 DEF LoopInv, NumbersLast
    <3>4. /\ calls' = [calls EXCEPT ![c] = [@ EXCEPT !.pc = "take"]]
          /\ made' = made + 1 /\ executor' = made + 1
          /\ UNCHANGED <<phase, cancelled, counter, maxSubagents, closed, jobs, files, table,
                         outcome>>
      BY <2>3 DEF CreateExecutor
    <3>5. /\ executor' \in 0 .. made' /\ made' \in 0 .. MaxAgents /\ closed' \subseteq 1 .. made'
      BY <1>a, <3>3, <3>4
    <3>6. calls' \in [Threads -> Call]
      BY <1>a, <2>1, <3>4
    <3> HIDE DEF Agents, Executors
    <3> QED BY <1>a, <3>4, <3>5, <3>6
  <2>4. CASE TakeExecutor(c)
    <3>1. [calls[c] EXCEPT !.pc = "submit", !.pool = executor] \in Call
      BY <1>a, <1>b, CallRecords, Zenon
    <3> QED BY <1>a, <2>4, <3>1 DEF TakeExecutor
  <2> QED BY <1>4, <2>2, <2>3, <2>4
<1>5. ASSUME NEW c \in Callers, Submit(c) PROVE TypeOK'
  <2>1. calls[c].pool \in Executors /\ calls[c].agent \in Agents
    <3> HIDE DEF TypeOK
    <3>1. calls[c].pc = "submit"
      BY <1>5, Zenon DEF Submit
    <3>2. c \in At({"submit"}) /\ c \in At(Counted)
      BY <3>1 DEF At, Counted, Unsubmitted
    <3>3. calls[c].agent \in 1 .. counter /\ calls[c].pool \in 1 .. made
      BY <3>2, Zenon DEF LoopInv, SpawnsApart
    <3>4. made \in 0 .. MaxAgents
      BY <1>a DEF TypeOK
    <3> QED BY <1>a, <3>3, <3>4
  <2>2. [calls[c] EXCEPT !.pc = "register"] \in Call
    BY <1>a, <1>b, CallRecords, Zenon
  <2>3. Append(queue[calls[c].pool], calls[c].agent) \in Seq(Agents)
    BY <1>a, <2>1
  <2>4. CASE calls[c].pool \in closed
    BY <1>5, <1>a, <2>4 DEF Submit
  <2>5. CASE calls[c].pool \notin closed
    <3>1. /\ calls' = [calls EXCEPT ![c] = [@ EXCEPT !.pc = "register"]]
          /\ queue' = [queue EXCEPT ![calls[c].pool] = Append(@, calls[c].agent)]
          /\ home' = [home EXCEPT ![calls[c].agent] = calls[c].pool]
          /\ job' = [job EXCEPT ![calls[c].agent] = "queued"]
          /\ UNCHANGED <<phase, cancelled, counter, pools, files, table, outcome>>
      BY <1>5, <2>5 DEF Submit
    <3>2. calls' \in [Threads -> Call]
      BY <1>a, <2>2, <3>1
    <3>3. queue' \in [Executors -> Seq(Agents)]
      <4> HIDE DEF Agents, Executors
      <4> QED BY <1>a, <2>1, <2>3, <3>1
    <3>4. home' \in [Agents -> 0 .. MaxAgents]
      <4>1. home \in [Agents -> 0 .. MaxAgents]
        BY <1>a
      <4>2. calls[c].pool \in 0 .. MaxAgents
        BY <2>1
      <4> HIDE DEF Agents, TypeOK
      <4> QED BY <3>1, <4>1, <4>2
    <3>5. job' \in [Agents -> {"none", "queued", "running", "done"}]
      <4>1. job \in [Agents -> {"none", "queued", "running", "done"}]
        BY <1>a
      <4> HIDE DEF Agents, TypeOK
      <4> QED BY <3>1, <4>1
    <3>6. UNCHANGED <<phase, cancelled, counter, pools, files, table, outcome>>
      BY <3>1
    <3> HIDE DEF Agents, Executors
    <3> QED BY <1>a, <3>2, <3>3, <3>4, <3>5, <3>6
  <2> QED BY <2>4, <2>5
<1>6. ASSUME NEW c \in Callers, Register(c) PROVE TypeOK'
  <2>1. calls[c].agent \in Agents
    BY <1>6 DEF LoopInv, SpawnsApart, At, Register, Counted
  <2> QED BY <1>6, <1>a, <2>1 DEF Register
<1>7. ASSUME NEW c \in Callers, PollRead(c) \/ Answer(c) \/ WaitEnds(c) PROVE TypeOK'
  <2>1. Looking(c) \in Call /\ [Looking(c) EXCEPT !.blocking = FALSE] \in Call
        /\ [calls[c] EXCEPT !.pc = "wait"] \in Call
    BY <1>a, <1>b, CallRecords, CallRecordsLooking, Zenon
  <2>2. calls[c] \in Call /\ Idle \in Call /\ c \in Threads
    BY <1>a, <1>b
  <2>3. \E r \in Call : calls' = [calls EXCEPT ![c] = r]
    <3>1. CASE PollRead(c)
      BY <2>1, <2>2, <3>1, Zenon DEF PollRead
    <3>2. CASE Answer(c)
      <4>1. \/ calls' = [calls EXCEPT ![c] = [calls[c] EXCEPT !.pc = "wait"]]
            \/ calls' = [calls EXCEPT ![c] = Idle]
        BY <1>a, <2>2, <3>2 DEF Answer
      <4> QED BY <2>1, <2>2, <4>1, Zenon
    <3>3. CASE WaitEnds(c)
      BY <2>1, <2>2, <3>3, Zenon DEF WaitEnds
    <3> QED BY <1>7, <3>1, <3>2, <3>3
  <2>4. calls' \in [Threads -> Call]
    BY <1>a, <2>2, <2>3, Replaced, Zenon
  <2>5. UNCHANGED <<phase, cancelled, counter, pools, jobs, files, table, outcome>>
    BY <1>7, Zenon DEF PollRead, Answer, WaitEnds
  <2> HIDE DEF Agents, Executors
  <2> QED BY <1>a, <2>4, <2>5
<1>8. ASSUME NEW t \in Threads, Store(t) PROVE TypeOK'
  <2>1. calls[t].agent \in entries
    BY <1>8 DEF LoopInv, LooksAreWhole, Store
  <2>2. Collected(t, calls[t].agent) \in Call
    <3>1. calls[t].agent \in Agents
      BY <1>a, <2>1
    <3> HIDE DEF Agents
    <3> QED BY <1>a, <3>1, CallRecordsSeen, Zenon
  <2>3. results' \in Seq(Agents)
    <3>1. results' = results \/ results' = Append(results, calls[t].agent)
      BY <1>8, Zenon DEF Store
    <3>2. calls[t].agent \in Agents /\ results \in Seq(Agents)
      BY <1>a, <2>1
    <3> HIDE DEF Agents
    <3> QED BY <3>1, <3>2, AppendProperties
  <2>4. calls' \in [Threads -> Call]
    <3>1. calls' = [calls EXCEPT ![t] = Collected(t, calls[t].agent)]
      BY <1>8, Zenon DEF Store
    <3> HIDE DEF TypeOK, Agents, Executors
    <3> QED BY <1>a, <2>2, <3>1, Replaced, Zenon
  <2>5. settled' = settled \cup {calls[t].agent}
        /\ UNCHANGED <<phase, cancelled, counter, pools, jobs, files, entries, warned, outcome>>
    BY <1>8 DEF Store
  <2> HIDE DEF Agents, Executors
  <2> QED BY <1>a, <2>1, <2>3, <2>4, <2>5
<1>9. ASSUME NEW t \in Threads, NEW a \in Agents, Look(t, a) PROVE TypeOK'
  <2> HIDE DEF Agents
  <2>1. Collected(t, a) \in Call
    BY <1>a, CallRecordsSeen, Zenon
  <2>2. [calls[t] EXCEPT !.pc = "append", !.agent = a] \in Call
    BY <1>a, CallRecords, Zenon
  <2>3. Passed(t, a) \in Call
    BY <1>a, CallRecordsSeen, Zenon
  <2>4. calls' \in [Threads -> Call]
    <3>1. \/ calls' = [calls EXCEPT ![t] = Collected(t, a)]
          \/ calls' = [calls EXCEPT ![t] = [@ EXCEPT !.pc = "append", !.agent = a]]
          \/ calls' = [calls EXCEPT ![t] = Passed(t, a)]
      BY <1>9, Zenon DEF Look
    <3> HIDE DEF TypeOK, Agents, Executors
    <3> QED BY <1>a, <2>1, <2>2, <2>3, <3>1, Replaced, Zenon
  <2>5. UNCHANGED <<phase, cancelled, counter, pools, jobs, files, table, outcome>>
    BY <1>9 DEF Look
  <2> HIDE DEF Agents, Executors
  <2> QED BY <1>a, <2>4, <2>5
<1>10. ASSUME NEW a \in Agents, Start(a) \/ Finish(a) PROVE TypeOK'
  <2>1. CASE Start(a)
    <3>1. home[a] \in Executors /\ queue[home[a]] # <<>>
      BY <2>1 DEF LoopInv, JobsKnown, Start
    <3>2. Tail(queue[home[a]]) \in Seq(Agents)
      BY <1>a, <3>1
    <3>3. /\ queue' = [queue EXCEPT ![home[a]] = Tail(@)]
          /\ job' = [job EXCEPT ![a] = "running"]
          /\ UNCHANGED <<phase, cancelled, calls, counter, pools, home, files, table, outcome>>
      BY <2>1 DEF Start
    <3> HIDE DEF Agents, Executors
    <3> QED BY <1>a, <3>1, <3>2, <3>3
  <2> QED BY <1>10, <1>a, <2>1 DEF Finish
<1>11. ASSUME NEW a \in Agents, DrainGivesUp(a) PROVE TypeOK'
  <2> HIDE DEF Agents
  <2>1. Passed(Main, a) \in Call
    BY <1>a, <1>b, CallRecordsSeen, Zenon
  <2>2. calls' \in [Threads -> Call]
    <3>1. calls' = [calls EXCEPT ![Main] = Passed(Main, a)]
      BY <1>11, Zenon DEF DrainGivesUp
    <3> HIDE DEF TypeOK, Agents, Executors
    <3> QED BY <1>a, <1>b, <2>1, <3>1, Replaced, Zenon
  <2>3. gaveUp' = gaveUp \cup {a}
        /\ UNCHANGED <<phase, cancelled, counter, pools, jobs, files, table, returned, crowded>>
    BY <1>11 DEF DrainGivesUp
  <2> HIDE DEF Executors
  <2> QED BY <1>a, <2>2, <2>3
<1>12. CASE ShutdownExecutor \/ Return \/ EndTurn \/ Cancel
  <2>1. [Idle EXCEPT !.pc = "scan", !.todo = entries] \in Call
    <3>1. entries \in SUBSET Agents
      BY <1>a
    <3> HIDE DEF Agents
    <3> QED BY <3>1, IdleIsCall, CallRecords, Zenon
  <2>2. CASE Cancel
    <3>1. cancelled' \in BOOLEAN
      BY <2>2, Zenon DEF Cancel
    <3> QED BY <1>a, <2>2, <3>1 DEF Cancel
  <2>3. CASE ShutdownExecutor
    BY <1>a, <2>3 DEF ShutdownExecutor
  <2>4. CASE Return
    BY <1>a, <2>4 DEF Return
  <2>5. CASE EndTurn
    BY <1>a, <2>1, <2>5 DEF EndTurn
  <2> QED BY <1>12, <2>2, <2>3, <2>4, <2>5
<1> QED
  BY <1>1, <1>2, <1>3, <1>4, <1>5, <1>6, <1>7, <1>8, <1>9, <1>10, <1>11, <1>12,
     Zenon DEF Next, CallStep, RunStep, Threads

-----------------------------------------------------------------------------
\* What each step does to the calls, field by field.
LEMMA Moved ==
  ASSUME TypeOK, NEW t \in Threads, NEW r, calls' = [calls EXCEPT ![t] = r]
  PROVE  calls'[t] = r /\ \A u \in Threads : u # t => calls'[u] = calls[u]
  BY DEF TypeOK

LEMMA CallsAreCalls ==
  ASSUME LoopInv
  PROVE  TypeOK /\ (\A t \in Threads : calls[t] \in Call) /\ \A c \in Callers : c \in Threads /\ c # Main
  BY MainIsNoCaller DEF LoopInv, TypeOK

LEMMA Fields ==
  ASSUME NEW t \in Threads, calls[t] \in Call, NEW a
  PROVE  /\ Passed(t, a).pc = calls[t].pc /\ Passed(t, a).agent = calls[t].agent
         /\ Passed(t, a).asked = calls[t].asked /\ Passed(t, a).todo = calls[t].todo \ {a}
         /\ Passed(t, a).got = calls[t].got /\ Passed(t, a).was = calls[t].was
         /\ Collected(t, a).pc = "scan" /\ Collected(t, a).agent = calls[t].agent
         /\ Collected(t, a).asked = calls[t].asked
         /\ Collected(t, a).todo = calls[t].todo \ {a}
         /\ Collected(t, a).got = calls[t].got \cup {a} /\ Collected(t, a).was = calls[t].was
         /\ Looking(t).pc = "scan" /\ Looking(t).asked = calls[t].asked
         /\ Looking(t).todo = calls[t].asked /\ Looking(t).got = calls[t].got
         /\ Looking(t).was = calls[t].asked \cap Finished
         /\ [Looking(t) EXCEPT !.blocking = FALSE].pc = "scan"
         /\ [Looking(t) EXCEPT !.blocking = FALSE].asked = calls[t].asked
         /\ [Looking(t) EXCEPT !.blocking = FALSE].todo = calls[t].asked
         /\ [Looking(t) EXCEPT !.blocking = FALSE].got = calls[t].got
         /\ [Looking(t) EXCEPT !.blocking = FALSE].was = calls[t].asked \cap Finished
  BY DEF Call, Passed, Collected, Looking

LEMMA IdleFields ==
  Idle.pc = "idle" /\ Idle.asked = {} /\ Idle.was = {}
  BY DEF Idle

LEMMA AskFields ==
  ASSUME NEW fs, NEW A, NEW b
  PROVE  /\ [Idle EXCEPT !.pc = "spawn", !.files = fs].pc = "spawn"
         /\ [Idle EXCEPT !.pc = "poll", !.asked = A, !.blocking = b].pc = "poll"
  BY DEF Idle

LEMMA DrainFields ==
  ASSUME NEW A
  PROVE  /\ [Idle EXCEPT !.pc = "scan", !.todo = A].pc = "scan"
         /\ [Idle EXCEPT !.pc = "scan", !.todo = A].todo = A
         /\ [Idle EXCEPT !.pc = "scan", !.todo = A].asked = {}
  BY DEF Idle

LEMMA PcFields ==
  ASSUME NEW r \in Call, NEW p
  PROVE  /\ [r EXCEPT !.pc = p].pc = p /\ [r EXCEPT !.pc = p].agent = r.agent
         /\ [r EXCEPT !.pc = p].asked = r.asked /\ [r EXCEPT !.pc = p].todo = r.todo
  BY DEF Call

LEMMA EnsureFields ==
  ASSUME NEW r \in Call, NEW a
  PROVE  /\ [r EXCEPT !.pc = "ensure", !.agent = a].pc = "ensure"
         /\ [r EXCEPT !.pc = "ensure", !.agent = a].agent = a
  BY DEF Call

LEMMA SubmitFields ==
  ASSUME NEW r \in Call, NEW e
  PROVE  /\ [r EXCEPT !.pc = "submit", !.pool = e].pc = "submit"
         /\ [r EXCEPT !.pc = "submit", !.pool = e].agent = r.agent
         /\ [r EXCEPT !.pc = "submit", !.pool = e].pool = e
  BY DEF Call

LEMMA AppendFields ==
  ASSUME NEW r \in Call, NEW a
  PROVE  /\ [r EXCEPT !.pc = "append", !.agent = a].pc = "append"
         /\ [r EXCEPT !.pc = "append", !.agent = a].agent = a
         /\ [r EXCEPT !.pc = "append", !.agent = a].asked = r.asked
         /\ [r EXCEPT !.pc = "append", !.agent = a].todo = r.todo
         /\ [r EXCEPT !.pc = "append", !.agent = a].got = r.got
         /\ [r EXCEPT !.pc = "append", !.agent = a].was = r.was
  BY DEF Call

\* The steps of a spawn.
LEMMA AskSpawnDoes ==
  ASSUME LoopInv, NEW c \in Callers, NEW fs \in Assignments, AskSpawn(c, fs)
  PROVE  /\ phase = "turn" /\ calls[c].pc = "idle" /\ calls'[c].pc = "spawn"
         /\ \A u \in Threads : u # c => calls'[u] = calls[u]
         /\ counter + Cardinality(At({"spawn"})) < MaxAgents
         /\ (crowded' => FALSE) => ~crowded /\ Spawns = {}
         /\ UNCHANGED <<phase, cancelled, counter, maxSubagents, executor, made, closed, queue,
                        home, job, files, entries, settled, results, warned, gaveUp, returned>>
<1>1. \A u \in Threads : u # c => calls'[u] = calls[u]
  BY CallsAreCalls, Moved DEF AskSpawn
<1>2. calls'[c].pc = "spawn"
  <2>1. calls'[c] = [Idle EXCEPT !.pc = "spawn", !.files = fs]
    BY CallsAreCalls, Moved, Zenon DEF AskSpawn
  <2>2. [Idle EXCEPT !.pc = "spawn", !.files = fs].pc = "spawn"
    BY CallsAreCalls, AskFields, Zenon
  <2> QED BY <2>1, <2>2
<1>3. counter + Cardinality(At({"spawn"})) < MaxAgents
  <2>1. At({"spawn"}) = {d \in Callers : calls[d].pc = "spawn"}
    BY DEF At
  <2> QED BY <2>1 DEF AskSpawn
<1>4. (crowded' => FALSE) => ~crowded /\ Spawns = {}
  BY Zenon DEF AskSpawn
<1>5. /\ phase = "turn" /\ calls[c].pc = "idle"
      /\ UNCHANGED <<phase, cancelled, counter, pools, jobs, files, table, gaveUp, returned>>
  BY DEF AskSpawn
<1> QED BY <1>1, <1>2, <1>3, <1>4, <1>5 DEF pools, jobs, table

LEMMA SpawnCheckDoes ==
  ASSUME LoopInv, NEW c \in Callers, SpawnCheck(c)
  PROVE  /\ calls[c].pc = "spawn" /\ calls'[c].pc = "ensure"
         /\ calls'[c].agent = counter + 1 /\ counter' = counter + 1
         /\ \A u \in Threads : u # c => calls'[u] = calls[u]
         /\ files' = [files EXCEPT ![counter + 1] = calls[c].files]
         /\ warned' = [warned EXCEPT ![counter + 1] = Conflicts(calls[c].files)]
         /\ UNCHANGED <<phase, cancelled, maxSubagents, executor, made, closed, queue,
                        home, job, entries, settled, results, gaveUp, returned, crowded>>
<1>1. /\ counter' = counter + 1
      /\ calls' = [calls EXCEPT ![c] = [calls[c] EXCEPT !.pc = "ensure", !.agent = counter + 1]]
      /\ calls[c].pc = "spawn"
      /\ files' = [files EXCEPT ![counter + 1] = calls[c].files]
      /\ warned' = [warned EXCEPT ![counter + 1] = Conflicts(calls[c].files)]
      /\ UNCHANGED <<phase, cancelled, pools, jobs, entries, settled, results, outcome>>
  BY Zenon DEF SpawnCheck
<1>2. calls'[c].pc = "ensure" /\ calls'[c].agent = counter + 1
  <2>1. calls'[c] = [calls[c] EXCEPT !.pc = "ensure", !.agent = counter + 1]
    BY <1>1, CallsAreCalls, Moved, Zenon
  <2>2. /\ [calls[c] EXCEPT !.pc = "ensure", !.agent = counter + 1].pc = "ensure"
        /\ [calls[c] EXCEPT !.pc = "ensure", !.agent = counter + 1].agent = counter + 1
    BY CallsAreCalls, EnsureFields
  <2> QED BY <2>1, <2>2
<1>3. \A u \in Threads : u # c => calls'[u] = calls[u]
  BY <1>1, CallsAreCalls, Moved
<1> QED BY <1>1, <1>2, <1>3 DEF pools, jobs, outcome

LEMMA EnsureDoes ==
  ASSUME LoopInv, NEW c \in Callers, EnsureExecutor(c)
  PROVE  /\ calls[c].pc = "ensure" /\ calls'[c].pc \in {"create", "take"}
         /\ calls'[c].pc = "create" => executor = 0
         /\ calls'[c].agent = calls[c].agent
         /\ \A u \in Threads : u # c => calls'[u] = calls[u]
         /\ UNCHANGED <<phase, cancelled, counter, maxSubagents, executor, made, closed, queue,
                        home, job, files, entries, settled, results, warned, gaveUp, returned, crowded>>
<1> DEFINE p == IF executor = 0 THEN "create" ELSE "take"
<1>1. /\ calls' = [calls EXCEPT ![c] = [calls[c] EXCEPT !.pc = p]]
      /\ calls[c].pc = "ensure"
      /\ UNCHANGED <<phase, cancelled, counter, pools, jobs, files, table, outcome>>
  BY Zenon DEF EnsureExecutor, Goto
<1>2. calls'[c].pc = p /\ calls'[c].agent = calls[c].agent
  <2> HIDE DEF p
  <2>1. calls'[c] = [calls[c] EXCEPT !.pc = p]
    BY <1>1, CallsAreCalls, Moved, Zenon
  <2>2. [calls[c] EXCEPT !.pc = p].pc = p /\ [calls[c] EXCEPT !.pc = p].agent = calls[c].agent
    BY CallsAreCalls, PcFields
  <2> QED BY <2>1, <2>2
<1>3. \A u \in Threads : u # c => calls'[u] = calls[u]
  BY <1>1, CallsAreCalls, Moved
<1> QED BY <1>1, <1>2, <1>3 DEF pools, jobs, table, outcome

LEMMA CreateDoes ==
  ASSUME LoopInv, NEW c \in Callers, CreateExecutor(c)
  PROVE  /\ calls[c].pc = "create" /\ calls'[c].pc = "take"
         /\ calls'[c].agent = calls[c].agent
         /\ made' = made + 1 /\ executor' = made + 1
         /\ \A u \in Threads : u # c => calls'[u] = calls[u]
         /\ UNCHANGED <<phase, cancelled, counter, maxSubagents, closed, queue,
                        home, job, files, entries, settled, results, warned, gaveUp, returned, crowded>>
<1>1. /\ calls' = [calls EXCEPT ![c] = [calls[c] EXCEPT !.pc = "take"]]
      /\ calls[c].pc = "create" /\ made' = made + 1 /\ executor' = made + 1
      /\ UNCHANGED <<phase, cancelled, counter, maxSubagents, closed, jobs, files, table, outcome>>
  BY Zenon DEF CreateExecutor, Goto
<1>2. calls'[c].pc = "take" /\ calls'[c].agent = calls[c].agent
  <2>1. calls'[c] = [calls[c] EXCEPT !.pc = "take"]
    BY <1>1, CallsAreCalls, Moved, Zenon
  <2>2. [calls[c] EXCEPT !.pc = "take"].pc = "take" /\ [calls[c] EXCEPT !.pc = "take"].agent = calls[c].agent
    BY CallsAreCalls, PcFields
  <2> QED BY <2>1, <2>2
<1>3. \A u \in Threads : u # c => calls'[u] = calls[u]
  BY <1>1, CallsAreCalls, Moved
<1> QED BY <1>1, <1>2, <1>3 DEF jobs, table, outcome

LEMMA TakeDoes ==
  ASSUME LoopInv, NEW c \in Callers, TakeExecutor(c)
  PROVE  /\ calls[c].pc = "take" /\ calls'[c].pc \in {"idle", "submit"}
         /\ calls'[c].pc = "submit" =>
              calls'[c].agent = calls[c].agent /\ calls'[c].pool = executor /\ executor # 0
         /\ \A u \in Threads : u # c => calls'[u] = calls[u]
         /\ UNCHANGED <<phase, cancelled, counter, maxSubagents, executor, made, closed, queue,
                        home, job, files, entries, settled, results, warned, gaveUp, returned, crowded>>
<1>1. /\ calls' = [calls EXCEPT ![c] = IF executor = 0 THEN Idle
                                       ELSE [calls[c] EXCEPT !.pc = "submit", !.pool = executor]]
      /\ calls[c].pc = "take"
      /\ UNCHANGED <<phase, cancelled, counter, pools, jobs, files, table, outcome>>
  BY Zenon DEF TakeExecutor
<1>2. calls'[c] = IF executor = 0 THEN Idle ELSE [calls[c] EXCEPT !.pc = "submit", !.pool = executor]
  BY <1>1, CallsAreCalls, Moved, Zenon
<1>3. \A u \in Threads : u # c => calls'[u] = calls[u]
  BY <1>1, CallsAreCalls, Moved
<1>4. CASE executor = 0
  <2>1. calls'[c].pc = "idle"
    BY <1>2, <1>4, IdleFields
  <2> QED BY <1>1, <1>3, <2>1 DEF pools, jobs, table, outcome
<1>5. CASE executor # 0
  <2>1. calls'[c].pc = "submit" /\ calls'[c].agent = calls[c].agent /\ calls'[c].pool = executor
    <3>1. calls'[c] = [calls[c] EXCEPT !.pc = "submit", !.pool = executor]
      BY <1>2, <1>5
    <3> QED BY <3>1, CallsAreCalls, SubmitFields
  <2> QED BY <1>1, <1>3, <1>5, <2>1 DEF pools, jobs, table, outcome
<1> QED BY <1>4, <1>5

LEMMA SubmitDoes ==
  ASSUME LoopInv, NEW c \in Callers, Submit(c)
  PROVE  /\ calls[c].pc = "submit"
         /\ \A u \in Threads : u # c => calls'[u] = calls[u]
         /\ \/ calls'[c].pc = "idle" /\ UNCHANGED <<queue, home, job>>
            \/ /\ calls'[c].pc = "register" /\ calls'[c].agent = calls[c].agent
               /\ queue' = [queue EXCEPT ![calls[c].pool] = Append(queue[calls[c].pool], calls[c].agent)]
               /\ home' = [home EXCEPT ![calls[c].agent] = calls[c].pool]
               /\ job' = [job EXCEPT ![calls[c].agent] = "queued"]
         /\ UNCHANGED <<phase, cancelled, counter, maxSubagents, executor, made, closed,
                        files, entries, settled, results, warned, gaveUp, returned, crowded>>
<1>1. calls[c].pc = "submit" /\ UNCHANGED <<phase, cancelled, counter, pools, files, table, outcome>>
  BY DEF Submit
<1>2. CASE calls[c].pool \in closed
  <2>1. calls' = [calls EXCEPT ![c] = Idle] /\ UNCHANGED jobs
    BY <1>2 DEF Submit
  <2>2. calls'[c].pc = "idle"
    <3>1. calls'[c] = Idle
      BY <2>1, CallsAreCalls, Moved, Zenon
    <3> QED BY <3>1, IdleFields
  <2>3. \A u \in Threads : u # c => calls'[u] = calls[u]
    BY <2>1, CallsAreCalls, Moved
  <2> QED BY <1>1, <2>1, <2>2, <2>3 DEF pools, jobs, table, outcome
<1>3. CASE calls[c].pool \notin closed
  <2>1. /\ calls' = [calls EXCEPT ![c] = [calls[c] EXCEPT !.pc = "register"]]
        /\ queue' = [queue EXCEPT ![calls[c].pool] = Append(queue[calls[c].pool], calls[c].agent)]
        /\ home' = [home EXCEPT ![calls[c].agent] = calls[c].pool]
        /\ job' = [job EXCEPT ![calls[c].agent] = "queued"]
    BY <1>3 DEF Submit, Goto
  <2>2. calls'[c].pc = "register" /\ calls'[c].agent = calls[c].agent
    <3>1. calls'[c] = [calls[c] EXCEPT !.pc = "register"]
      BY <2>1, CallsAreCalls, Moved, Zenon
    <3>2. /\ [calls[c] EXCEPT !.pc = "register"].pc = "register"
          /\ [calls[c] EXCEPT !.pc = "register"].agent = calls[c].agent
      BY CallsAreCalls, PcFields
    <3> QED BY <3>1, <3>2
  <2>3. \A u \in Threads : u # c => calls'[u] = calls[u]
    BY <2>1, CallsAreCalls, Moved
  <2> QED BY <1>1, <2>1, <2>2, <2>3 DEF pools, table, outcome
<1> QED BY <1>2, <1>3

LEMMA RegisterDoes ==
  ASSUME LoopInv, NEW c \in Callers, Register(c)
  PROVE  /\ calls[c].pc = "register" /\ calls'[c].pc = "idle"
         /\ \A u \in Threads : u # c => calls'[u] = calls[u]
         /\ entries' = entries \cup {calls[c].agent}
         /\ UNCHANGED <<phase, cancelled, counter, maxSubagents, executor, made, closed, queue,
                        home, job, files, settled, results, warned, gaveUp, returned, crowded>>
<1>1. /\ calls[c].pc = "register" /\ calls' = [calls EXCEPT ![c] = Idle]
      /\ entries' = entries \cup {calls[c].agent}
      /\ UNCHANGED <<phase, cancelled, counter, pools, jobs, files, settled, results,
                     warned, outcome>>
  BY DEF Register
<1>2. calls'[c].pc = "idle"
  <2>1. calls'[c] = Idle
    BY <1>1, CallsAreCalls, Moved, Zenon
  <2> QED BY <2>1, IdleFields
<1>3. \A u \in Threads : u # c => calls'[u] = calls[u]
  BY <1>1, CallsAreCalls, Moved
<1> QED BY <1>1, <1>2, <1>3 DEF pools, jobs, outcome

\* The steps of a poll, of the run and of the executors.
OnlyCalls == UNCHANGED <<phase, cancelled, counter, maxSubagents, executor, made, closed, queue,
                         home, job, files, entries, settled, results, warned, gaveUp,
                         returned, crowded>>

LEMMA AskPollDoes ==
  ASSUME LoopInv, NEW c \in Callers, NEW A \in SUBSET (1 .. counter), NEW b \in BOOLEAN,
         AskPoll(c, A, b)
  PROVE  /\ phase = "turn" /\ calls[c].pc = "idle" /\ calls'[c].pc = "poll"
         /\ \A u \in Threads : u # c => calls'[u] = calls[u]
         /\ OnlyCalls
<1>1. /\ phase = "turn" /\ calls[c].pc = "idle"
      /\ calls' = [calls EXCEPT ![c] = [Idle EXCEPT !.pc = "poll", !.asked = A, !.blocking = b]]
      /\ UNCHANGED <<phase, cancelled, counter, pools, jobs, files, table, outcome>>
  BY Zenon DEF AskPoll
<1>2. calls'[c].pc = "poll"
  <2>1. calls'[c] = [Idle EXCEPT !.pc = "poll", !.asked = A, !.blocking = b]
    BY <1>1, CallsAreCalls, Moved, Zenon
  <2>2. [Idle EXCEPT !.pc = "poll", !.asked = A, !.blocking = b].pc = "poll"
    BY AskFields
  <2> QED BY <2>1, <2>2
<1>3. \A u \in Threads : u # c => calls'[u] = calls[u]
  BY <1>1, CallsAreCalls, Moved
<1> QED BY <1>1, <1>2, <1>3 DEF pools, jobs, table, outcome, OnlyCalls

LEMMA PollReadDoes ==
  ASSUME LoopInv, NEW c \in Callers, PollRead(c)
  PROVE  /\ calls[c].pc = "poll"
         /\ \/ calls'[c].pc = "idle"
            \/ calls[c].asked \subseteq entries /\ calls'[c] = Looking(c)
         /\ \A u \in Threads : u # c => calls'[u] = calls[u]
         /\ OnlyCalls
<1>1. /\ calls[c].pc = "poll"
      /\ calls' = [calls EXCEPT ![c] = IF calls[c].asked \subseteq entries THEN Looking(c) ELSE Idle]
      /\ UNCHANGED <<phase, cancelled, counter, pools, jobs, files, table, outcome>>
  BY DEF PollRead
<1>2. calls'[c] = IF calls[c].asked \subseteq entries THEN Looking(c) ELSE Idle
  BY <1>1, CallsAreCalls, Moved, Zenon
<1>3. calls'[c].pc = "idle" \/ (calls[c].asked \subseteq entries /\ calls'[c] = Looking(c))
  BY <1>2, IdleFields
<1>4. \A u \in Threads : u # c => calls'[u] = calls[u]
  BY <1>1, CallsAreCalls, Moved
<1> QED BY <1>1, <1>3, <1>4 DEF pools, jobs, table, outcome, OnlyCalls

LEMMA AnswerDoes ==
  ASSUME LoopInv, NEW c \in Callers, Answer(c)
  PROVE  /\ calls[c].pc = "scan"
         /\ \/ calls'[c].pc = "idle"
            \/ /\ calls'[c].pc = "wait" /\ calls'[c].asked = calls[c].asked
               /\ calls'[c].todo = calls[c].todo
         /\ \A u \in Threads : u # c => calls'[u] = calls[u]
         /\ OnlyCalls
<1> DEFINE waits == calls[c].got = {} /\ calls[c].blocking
<1>1. /\ calls[c].pc = "scan"
      /\ calls' = [calls EXCEPT ![c] = IF waits THEN [calls[c] EXCEPT !.pc = "wait"] ELSE Idle]
      /\ UNCHANGED <<phase, cancelled, counter, pools, jobs, files, table, outcome>>
  BY Zenon DEF Answer
<1>2. calls'[c] = IF waits THEN [calls[c] EXCEPT !.pc = "wait"] ELSE Idle
  BY <1>1, CallsAreCalls, Moved, Zenon
<1>3. \A u \in Threads : u # c => calls'[u] = calls[u]
  BY <1>1, CallsAreCalls, Moved
<1> HIDE DEF waits
<1>4. CASE waits
  <2>1. calls'[c] = [calls[c] EXCEPT !.pc = "wait"]
    BY <1>2, <1>4
  <2>2. /\ calls'[c].pc = "wait" /\ calls'[c].asked = calls[c].asked
        /\ calls'[c].todo = calls[c].todo
    BY <2>1, CallsAreCalls, PcFields
  <2> QED BY <1>1, <1>3, <2>2 DEF pools, jobs, table, outcome, OnlyCalls
<1>5. CASE ~waits
  <2>1. calls'[c].pc = "idle"
    BY <1>2, <1>5, IdleFields
  <2> QED BY <1>1, <1>3, <2>1 DEF pools, jobs, table, outcome, OnlyCalls
<1> QED BY <1>4, <1>5

LEMMA WaitEndsDoes ==
  ASSUME LoopInv, NEW c \in Callers, WaitEnds(c)
  PROVE  /\ calls[c].pc = "wait"
         /\ calls'[c].pc = "idle" \/ calls'[c] = [Looking(c) EXCEPT !.blocking = FALSE]
         /\ \A u \in Threads : u # c => calls'[u] = calls[u]
         /\ OnlyCalls
<1>1. /\ calls[c].pc = "wait"
      /\ \/ calls' = [calls EXCEPT ![c] = [Looking(c) EXCEPT !.blocking = FALSE]]
         \/ calls' = [calls EXCEPT ![c] = Idle]
      /\ UNCHANGED <<phase, cancelled, counter, pools, jobs, files, table, outcome>>
  BY Zenon DEF WaitEnds
<1>2. calls'[c] = Idle \/ calls'[c] = [Looking(c) EXCEPT !.blocking = FALSE]
  BY <1>1, CallsAreCalls, Moved, Zenon
<1>3. calls'[c].pc = "idle" \/ calls'[c] = [Looking(c) EXCEPT !.blocking = FALSE]
  BY <1>2, IdleFields, Zenon
<1>4. \A u \in Threads : u # c => calls'[u] = calls[u]
  <2>1. CASE calls' = [calls EXCEPT ![c] = [Looking(c) EXCEPT !.blocking = FALSE]]
    BY <2>1, CallsAreCalls, Moved, Zenon
  <2>2. CASE calls' = [calls EXCEPT ![c] = Idle]
    BY <2>2, CallsAreCalls, Moved, Zenon
  <2> QED BY <1>1, <2>1, <2>2
<1> QED BY <1>1, <1>3, <1>4 DEF pools, jobs, table, outcome, OnlyCalls

LEMMA LookDoes ==
  ASSUME LoopInv, NEW t \in Threads, NEW a \in Agents, Look(t, a)
  PROVE  /\ calls[t].pc = "scan" /\ a \in calls[t].todo
         /\ \/ a \in settled /\ calls'[t] = Collected(t, a)
            \/ /\ a \notin settled /\ job[a] = "done"
               /\ calls'[t] = [calls[t] EXCEPT !.pc = "append", !.agent = a]
            \/ job[a] # "done" /\ t # Main /\ calls'[t] = Passed(t, a)
         /\ \A u \in Threads : u # t => calls'[u] = calls[u]
         /\ OnlyCalls
<1>1. /\ calls[t].pc = "scan" /\ a \in calls[t].todo
      /\ \/ a \in settled /\ calls' = [calls EXCEPT ![t] = Collected(t, a)]
         \/ /\ a \notin settled /\ job[a] = "done"
            /\ calls' = [calls EXCEPT ![t] = [calls[t] EXCEPT !.pc = "append", !.agent = a]]
         \/ job[a] # "done" /\ t # Main /\ calls' = [calls EXCEPT ![t] = Passed(t, a)]
      /\ UNCHANGED <<phase, cancelled, counter, pools, jobs, files, table, outcome>>
  BY Zenon DEF Look
<1>2. \/ a \in settled /\ calls'[t] = Collected(t, a)
      \/ /\ a \notin settled /\ job[a] = "done"
         /\ calls'[t] = [calls[t] EXCEPT !.pc = "append", !.agent = a]
      \/ job[a] # "done" /\ t # Main /\ calls'[t] = Passed(t, a)
  BY <1>1, CallsAreCalls, Moved, Zenon
<1>3. \A u \in Threads : u # t => calls'[u] = calls[u]
  BY <1>1, CallsAreCalls, Moved, Zenon
<1> QED BY <1>1, <1>2, <1>3 DEF pools, jobs, table, outcome, OnlyCalls

LEMMA StoreDoes ==
  ASSUME LoopInv, NEW t \in Threads, Store(t)
  PROVE  /\ calls[t].pc = "append" /\ calls'[t] = Collected(t, calls[t].agent)
         /\ \A u \in Threads : u # t => calls'[u] = calls[u]
         /\ settled' = settled \cup {calls[t].agent}
         /\ results' = IF calls[t].agent \in settled THEN results ELSE Append(results, calls[t].agent)
         /\ UNCHANGED <<phase, cancelled, counter, maxSubagents, executor, made, closed, queue,
                        home, job, files, entries, warned, gaveUp, returned, crowded>>
<1>1. /\ calls[t].pc = "append" /\ calls' = [calls EXCEPT ![t] = Collected(t, calls[t].agent)]
      /\ settled' = settled \cup {calls[t].agent}
      /\ results' = IF calls[t].agent \in settled THEN results ELSE Append(results, calls[t].agent)
      /\ UNCHANGED <<phase, cancelled, counter, pools, jobs, files, entries, warned, outcome>>
  BY Zenon DEF Store
<1>2. calls'[t] = Collected(t, calls[t].agent)
  BY <1>1, CallsAreCalls, Moved, Zenon
<1>3. \A u \in Threads : u # t => calls'[u] = calls[u]
  BY <1>1, CallsAreCalls, Moved, Zenon
<1> QED BY <1>1, <1>2, <1>3 DEF pools, jobs, outcome

LEMMA DrainGivesUpDoes ==
  ASSUME LoopInv, NEW a \in Agents, DrainGivesUp(a)
  PROVE  /\ calls[Main].pc = "scan" /\ calls'[Main] = Passed(Main, a)
         /\ \A u \in Threads : u # Main => calls'[u] = calls[u]
         /\ gaveUp' = gaveUp \cup {a}
         /\ UNCHANGED <<phase, cancelled, counter, maxSubagents, executor, made, closed, queue,
                        home, job, files, entries, settled, results, warned, returned, crowded>>
<1>1. /\ calls[Main].pc = "scan" /\ calls' = [calls EXCEPT ![Main] = Passed(Main, a)]
      /\ gaveUp' = gaveUp \cup {a}
      /\ UNCHANGED <<phase, cancelled, counter, pools, jobs, files, table, returned, crowded>>
  BY Zenon DEF DrainGivesUp
<1>2. calls'[Main] = Passed(Main, a) /\ \A u \in Threads : u # Main => calls'[u] = calls[u]
  BY <1>1, CallsAreCalls, MainIsNoCaller, Moved, Zenon
<1> QED BY <1>1, <1>2 DEF pools, jobs, table

LEMMA EndTurnDoes ==
  ASSUME LoopInv, EndTurn
  PROVE  /\ phase = "turn" /\ phase' = "drain"
         /\ cancelled \/ \A c \in Callers : calls[c].pc = "idle"
         /\ calls'[Main].pc = "scan" /\ calls'[Main].todo = entries /\ calls'[Main].asked = {}
         /\ \A u \in Threads : u # Main => calls'[u] = calls[u]
         /\ UNCHANGED <<cancelled, counter, maxSubagents, executor, made, closed, queue, home, job,
                        files, entries, settled, results, warned, gaveUp, returned, crowded>>
<1>1. /\ phase = "turn" /\ phase' = "drain"
      /\ cancelled \/ \A c \in Callers : calls[c].pc = "idle"
      /\ calls' = [calls EXCEPT ![Main] = [Idle EXCEPT !.pc = "scan", !.todo = entries]]
      /\ UNCHANGED <<cancelled, counter, pools, jobs, files, table, outcome>>
  BY Zenon DEF EndTurn
<1>2. /\ calls'[Main] = [Idle EXCEPT !.pc = "scan", !.todo = entries]
      /\ \A u \in Threads : u # Main => calls'[u] = calls[u]
  BY <1>1, CallsAreCalls, MainIsNoCaller, Moved, Zenon
<1>3. calls'[Main].pc = "scan" /\ calls'[Main].todo = entries /\ calls'[Main].asked = {}
  BY <1>2, DrainFields
<1> QED BY <1>1, <1>2, <1>3, Zenon DEF pools, jobs, table, outcome

LEMMA ShutdownDoes ==
  ASSUME LoopInv, ShutdownExecutor
  PROVE  /\ phase = "drain" /\ phase' = "cleanup" /\ calls[Main].pc = "scan"
         /\ cancelled \/ calls[Main].todo = {}
         /\ calls'[Main].pc = "idle" /\ executor' = 0
         /\ \A u \in Threads : u # Main => calls'[u] = calls[u]
         /\ UNCHANGED <<cancelled, counter, maxSubagents, made, queue, home, job,
                        files, entries, settled, results, warned, gaveUp, returned, crowded>>
<1>1. /\ phase = "drain" /\ phase' = "cleanup" /\ calls[Main].pc = "scan"
      /\ cancelled \/ calls[Main].todo = {}
      /\ calls' = [calls EXCEPT ![Main] = Idle] /\ executor' = 0
      /\ UNCHANGED <<cancelled, counter, maxSubagents, made, jobs, files, table, outcome>>
  BY Zenon DEF ShutdownExecutor
<1>2. calls'[Main] = Idle /\ \A u \in Threads : u # Main => calls'[u] = calls[u]
  BY <1>1, CallsAreCalls, MainIsNoCaller, Moved, Zenon
<1> QED BY <1>1, <1>2, IdleFields, Zenon DEF jobs, table, outcome

LEMMA OthersDo ==
  /\ \A a \in Agents : Start(a) \/ Finish(a) =>
       /\ job[a] # "none"
       /\ UNCHANGED <<phase, cancelled, calls, counter, pools, home, files, table, outcome>>
       /\ TypeOK => \A b \in Agents : (b # a => job'[b] = job[b]) /\ job'[a] \in {"running", "done"}
  /\ Cancel => cancelled' /\ UNCHANGED <<phase, calls, counter, pools, jobs, files, table, outcome>>
  /\ Return => /\ phase = "cleanup" /\ phase' = "returned" /\ returned' = results
               /\ UNCHANGED <<cancelled, calls, counter, pools, jobs, files, table, gaveUp, crowded>>
<1>1. ASSUME NEW a \in Agents, Start(a) \/ Finish(a)
      PROVE  /\ job[a] # "none"
             /\ UNCHANGED <<phase, cancelled, calls, counter, pools, home, files, table, outcome>>
             /\ TypeOK => \A b \in Agents : (b # a => job'[b] = job[b]) /\ job'[a] \in {"running", "done"}
  BY <1>1 DEF Start, Finish, TypeOK
<1>2. Cancel => cancelled' /\ UNCHANGED <<phase, calls, counter, pools, jobs, files, table, outcome>>
  BY Zenon DEF Cancel
<1>3. Return => /\ phase = "cleanup" /\ phase' = "returned" /\ returned' = results
                /\ UNCHANGED <<cancelled, calls, counter, pools, jobs, files, table, gaveUp, crowded>>
  BY DEF Return
<1> QED BY <1>1, <1>2, <1>3, Zenon

\* The steps that leave the spawns alone.
Busy == {"spawn"} \cup Counted

QuietStep ==
  \/ \E c \in Callers : \/ \E A \in SUBSET (1 .. counter), b \in BOOLEAN : AskPoll(c, A, b)
                        \/ PollRead(c) \/ Answer(c) \/ WaitEnds(c)
  \/ \E t \in Threads : Store(t) \/ \E a \in Agents : Look(t, a)
  \/ \E a \in Agents : Start(a) \/ Finish(a) \/ DrainGivesUp(a)
  \/ ShutdownExecutor \/ Return \/ EndTurn \/ Cancel

Quiet ==
  /\ UNCHANGED <<counter, made, maxSubagents, files, warned, crowded, entries, home>>
  /\ \A a \in Agents : /\ job'[a] = "none" <=> job[a] = "none"
                       /\ job'[a] = "queued" => job[a] = "queued"
                       /\ job[a] = "done" => job'[a] = "done"
                       /\ job'[a] = "running" => job[a] \in {"queued", "running"}
  /\ \A c \in Callers : calls'[c] = calls[c] \/ (calls[c].pc \notin Busy /\ calls'[c].pc \notin Busy)

LEMMA NextSplits ==
  ASSUME Next, NEW G,
         \A c \in Callers : \A fs \in Assignments : AskSpawn(c, fs) => G,
         \A c \in Callers : SpawnCheck(c) => G,
         \A c \in Callers : EnsureExecutor(c) => G,
         \A c \in Callers : CreateExecutor(c) => G,
         \A c \in Callers : TakeExecutor(c) \/ Submit(c) \/ Register(c) => G,
         QuietStep => G
  PROVE  G
  BY Zenon DEF Next, CallStep, RunStep, QuietStep, Threads

LEMMA QuietStepsAreQuiet ==
  ASSUME LoopInv, QuietStep
  PROVE  Quiet
<1> USE DEF Quiet
<1>a. /\ "idle" \notin Busy /\ "poll" \notin Busy /\ "scan" \notin Busy
      /\ "append" \notin Busy /\ "wait" \notin Busy
  BY DEF Busy, Counted, Unsubmitted
<1>b. TypeOK /\ \A t \in Threads : calls[t] \in Call
  BY CallsAreCalls
<1>c. \A c \in Callers : c \in Threads /\ c # Main
  BY MainIsNoCaller
<1>1. ASSUME NEW c \in Callers, NEW A \in SUBSET (1 .. counter), NEW b \in BOOLEAN, AskPoll(c, A, b)
      PROVE  Quiet
  BY <1>1, <1>a, <1>c, AskPollDoes DEF OnlyCalls
<1>2. ASSUME NEW c \in Callers, PollRead(c) PROVE Quiet
  <2>1. Looking(c).pc = "scan"
    BY <1>b, <1>c, Fields
  <2> QED BY <1>2, <2>1, <1>a, <1>c, PollReadDoes DEF OnlyCalls
<1>3. ASSUME NEW c \in Callers, Answer(c) PROVE Quiet
  BY <1>3, <1>a, <1>c, AnswerDoes DEF OnlyCalls
<1>4. ASSUME NEW c \in Callers, WaitEnds(c) PROVE Quiet
  <2>1. [Looking(c) EXCEPT !.blocking = FALSE].pc = "scan"
    BY <1>b, <1>c, Fields
  <2>2. calls[c].pc = "wait" /\ calls'[c].pc \in {"idle", "scan"}
    BY <1>4, <2>1, WaitEndsDoes, Zenon
  <2>3. OnlyCalls /\ \A u \in Threads : u # c => calls'[u] = calls[u]
    BY <1>4, WaitEndsDoes
  <2> QED BY <2>2, <2>3, <1>a, <1>c DEF OnlyCalls
<1>5. ASSUME NEW t \in Threads, Store(t) PROVE Quiet
  <2>1. Collected(t, calls[t].agent).pc = "scan"
    BY <1>b, Fields
  <2> QED BY <1>5, <2>1, <1>a, <1>c, StoreDoes
<1>6. ASSUME NEW t \in Threads, NEW a \in Agents, Look(t, a) PROVE Quiet
  <2>1. Collected(t, a).pc = "scan" /\ Passed(t, a).pc = calls[t].pc
    BY <1>b, Fields
  <2>2. [calls[t] EXCEPT !.pc = "append", !.agent = a].pc = "append"
    BY <1>b, AppendFields
  <2>3. calls[t].pc = "scan" /\ calls'[t].pc \in {"scan", "append"}
    BY <1>6, <2>1, <2>2, LookDoes, Zenon
  <2>4. OnlyCalls /\ \A u \in Threads : u # t => calls'[u] = calls[u]
    BY <1>6, LookDoes
  <2> QED BY <2>3, <2>4, <1>a, <1>c DEF OnlyCalls
<1>7. ASSUME NEW a \in Agents, Start(a) \/ Finish(a) PROVE Quiet
  <2>1. \A b \in Agents : (b # a => job'[b] = job[b])
    BY <1>7, <1>b, OthersDo
  <2>2. \/ job[a] = "queued" /\ job'[a] = "running"
        \/ job[a] = "running" /\ job'[a] = "done"
    BY <1>7, <1>b DEF Start, Finish, TypeOK
  <2>3. UNCHANGED <<counter, made, maxSubagents, files, warned, crowded, entries, home, calls>>
    BY <1>7, OthersDo DEF pools, table, outcome
  <2> QED BY <2>1, <2>2, <2>3
<1>8. ASSUME NEW a \in Agents, DrainGivesUp(a) PROVE Quiet
  BY <1>8, <1>c, DrainGivesUpDoes
<1>9. ASSUME ShutdownExecutor PROVE Quiet
  BY <1>9, <1>c, ShutdownDoes
<1>10. ASSUME Return \/ Cancel PROVE Quiet
  BY <1>10, OthersDo DEF pools, jobs, table, outcome
<1>11. ASSUME EndTurn PROVE Quiet
  BY <1>11, <1>c, EndTurnDoes
<1> HIDE DEF Quiet
<1> QED
  BY <1>1, <1>2, <1>3, <1>4, <1>5, <1>6, <1>7, <1>8, <1>9, <1>10, <1>11, Zenon DEF QuietStep

LEMMA QuietAt ==
  ASSUME Quiet, NEW P, P \subseteq Busy
  PROVE  At(P)' = At(P) /\ \A c \in At(P) : calls'[c] = calls[c]
  BY DEF Quiet, At

LEMMA CountsAreNumbers ==
  ASSUME LoopInv
  PROVE  /\ counter \in 0 .. MaxAgents /\ made \in 0 .. MaxAgents /\ MaxAgents \in Nat
         /\ executor \in 0 .. made
         /\ \A P : Cardinality(At(P)) \in Nat
  BY AgentsAssumption, AtIsFinite DEF SizeAssumption, LoopInv, TypeOK

LEMMA CallerMoves ==
  ASSUME LoopInv, TypeOK', NEW c \in Callers, \A u \in Threads : u # c => calls'[u] = calls[u],
         NEW P
  PROVE  /\ (calls[c].pc \in P <=> calls'[c].pc \in P) => At(P)' = At(P)
         /\ calls[c].pc \notin P /\ calls'[c].pc \in P =>
              Cardinality(At(P)') = Cardinality(At(P)) + 1 /\ At(P)' = At(P) \cup {c}
         /\ calls[c].pc \in P /\ calls'[c].pc \notin P =>
              Cardinality(At(P)') = Cardinality(At(P)) - 1 /\ At(P)' = At(P) \ {c}
<1>1. /\ calls' \in [Threads -> Call] /\ \A u \in Callers \ {c} : calls'[u].pc = calls[u].pc
      /\ TypeOK
  BY CallsAreCalls DEF TypeOK
<1>2. /\ calls[c].pc \notin P /\ calls'[c].pc \in P => At(P)' = At(P) \cup {c}
      /\ calls[c].pc \in P /\ calls'[c].pc \notin P => At(P)' = At(P) \ {c}
  BY <1>1 DEF At
<1>3. /\ (calls[c].pc \in P <=> calls'[c].pc \in P) => At(P)' = At(P)
      /\ calls[c].pc \notin P /\ calls'[c].pc \in P => Cardinality(At(P)') = Cardinality(At(P)) + 1
      /\ calls[c].pc \in P /\ calls'[c].pc \notin P => Cardinality(At(P)') = Cardinality(At(P)) - 1
  BY <1>1, AtMoves
<1> QED BY <1>2, <1>3

LEMMA LoopNumbers == LoopInv /\ Next => NumbersLast'
<1> SUFFICES ASSUME LoopInv, Next PROVE NumbersLast'
  OBVIOUS
<1>a. TypeOK' /\ NumbersLast
  BY LoopTypes DEF LoopInv
<1>b. /\ counter \in 0 .. MaxAgents /\ made \in 0 .. MaxAgents /\ MaxAgents \in Nat
      /\ \A P : Cardinality(At(P)) \in Nat
  BY CountsAreNumbers
<1> DEFINE S == At({"spawn"}) E == At({"ensure", "create"})
           s == Cardinality(S) e == Cardinality(E)
<1>n. s \in Nat /\ e \in Nat /\ counter + s <= MaxAgents /\ made + e <= counter
  BY <1>a, <1>b DEF NumbersLast
<1>s. SUFFICES counter' + s' <= MaxAgents /\ made' + e' <= counter'
  BY DEF NumbersLast
<1> HIDE DEF S, E
<1>1. ASSUME NEW c \in Callers, NEW fs \in Assignments, AskSpawn(c, fs)
      PROVE  counter' + s' <= MaxAgents /\ made' + e' <= counter'
  <2>1. /\ calls[c].pc = "idle" /\ calls'[c].pc = "spawn"
        /\ \A u \in Threads : u # c => calls'[u] = calls[u]
        /\ counter + s < MaxAgents /\ counter' = counter /\ made' = made
    BY <1>1, AskSpawnDoes DEF S
  <2>2. s' = s + 1
    BY <2>1, <1>a, CallerMoves DEF S
  <2>3. E' = E
    BY <2>1, <1>a, CallerMoves DEF E
  <2> QED BY <2>1, <2>2, <2>3, <1>n, <1>b
<1>2. ASSUME NEW c \in Callers, SpawnCheck(c)
      PROVE  counter' + s' <= MaxAgents /\ made' + e' <= counter'
  <2>1. /\ calls[c].pc = "spawn" /\ calls'[c].pc = "ensure"
        /\ \A u \in Threads : u # c => calls'[u] = calls[u]
        /\ counter' = counter + 1 /\ made' = made
    BY <1>2, SpawnCheckDoes
  <2>2. s' = s - 1
    BY <2>1, <1>a, CallerMoves DEF S
  <2>3. e' = e + 1
    BY <2>1, <1>a, CallerMoves DEF E
  <2> QED BY <2>1, <2>2, <2>3, <1>n, <1>b
<1>3. ASSUME NEW c \in Callers, EnsureExecutor(c)
      PROVE  counter' + s' <= MaxAgents /\ made' + e' <= counter'
  <2>1. /\ calls[c].pc = "ensure" /\ calls'[c].pc \in {"create", "take"}
        /\ \A u \in Threads : u # c => calls'[u] = calls[u]
        /\ counter' = counter /\ made' = made
    BY <1>3, EnsureDoes
  <2>2. S' = S
    BY <2>1, <1>a, CallerMoves DEF S
  <2>3. e' = e \/ e' = e - 1
    BY <2>1, <1>a, CallerMoves DEF E
  <2> QED BY <2>1, <2>2, <2>3, <1>n, <1>b
<1>4. ASSUME NEW c \in Callers, CreateExecutor(c)
      PROVE  counter' + s' <= MaxAgents /\ made' + e' <= counter'
  <2>1. /\ calls[c].pc = "create" /\ calls'[c].pc = "take"
        /\ \A u \in Threads : u # c => calls'[u] = calls[u]
        /\ counter' = counter /\ made' = made + 1
    BY <1>4, CreateDoes
  <2>2. S' = S
    BY <2>1, <1>a, CallerMoves DEF S
  <2>3. e' = e - 1
    BY <2>1, <1>a, CallerMoves DEF E
  <2> QED BY <2>1, <2>2, <2>3, <1>n, <1>b
<1>5. ASSUME NEW c \in Callers, TakeExecutor(c) \/ Submit(c) \/ Register(c)
      PROVE  counter' + s' <= MaxAgents /\ made' + e' <= counter'
  <2>1. /\ calls[c].pc \in {"take", "submit", "register"}
        /\ calls'[c].pc \in {"idle", "submit", "register"}
        /\ \A u \in Threads : u # c => calls'[u] = calls[u]
        /\ counter' = counter /\ made' = made
    <3>1. CASE TakeExecutor(c) BY <3>1, TakeDoes
    <3>2. CASE Submit(c) BY <3>2, SubmitDoes
    <3>3. CASE Register(c) BY <3>3, RegisterDoes
    <3> QED BY <1>5, <3>1, <3>2, <3>3
  <2>2. S' = S
    BY <2>1, <1>a, CallerMoves DEF S
  <2>3. E' = E
    BY <2>1, <1>a, CallerMoves DEF E
  <2> QED BY <2>1, <2>2, <2>3, <1>n, <1>b
<1>6. ASSUME QuietStep PROVE counter' + s' <= MaxAgents /\ made' + e' <= counter'
  <2>1. Quiet
    BY <1>6, QuietStepsAreQuiet
  <2>2. S' = S /\ E' = E
    BY <2>1, QuietAt DEF S, E, Busy, Counted, Unsubmitted
  <2> QED BY <2>1, <2>2, <1>n DEF Quiet
<1> QED
  BY <1>1, <1>2, <1>3, <1>4, <1>5, <1>6, NextSplits, Zenon

LEMMA LoopSpawns == LoopInv /\ Next => SpawnsApart'
<1> SUFFICES ASSUME LoopInv, Next PROVE SpawnsApart'
  OBVIOUS
<1>a. TypeOK /\ TypeOK' /\ SpawnsApart /\ JobsKnown
  BY LoopTypes DEF LoopInv
<1>b. /\ counter \in 0 .. MaxAgents /\ made \in 0 .. MaxAgents /\ MaxAgents \in Nat
      /\ executor \in 0 .. made
  BY CountsAreNumbers
<1>c. \A u \in Callers : u \in Threads
  BY MainIsNoCaller
<1>d. entries \subseteq Agents /\ job \in [Agents -> {"none", "queued", "running", "done"}]
      /\ \A a \in Agents : a \in entries \/ job[a] # "none" => a \in 1 .. counter
  BY <1>a, <1>b DEF TypeOK, JobsKnown, Agents
<1>e. 1 .. counter \subseteq Agents
  BY <1>b DEF Agents
<1> USE DEF SpawnsApart, At, Counted, Unsubmitted
<1>1. ASSUME NEW c \in Callers, NEW fs \in Assignments, AskSpawn(c, fs) PROVE SpawnsApart'
  <2>1. calls'[c].pc = "spawn" /\ (\A u \in Threads : u # c => calls'[u] = calls[u])
        /\ UNCHANGED <<counter, entries, job, made>>
    BY <1>1, AskSpawnDoes
  <2> QED BY <1>a, <1>c, <2>1
<1>2. ASSUME NEW c \in Callers, SpawnCheck(c) PROVE SpawnsApart'
  <2>1. /\ calls'[c].pc = "ensure" /\ calls'[c].agent = counter + 1 /\ counter' = counter + 1
        /\ \A u \in Threads : u # c => calls'[u] = calls[u]
        /\ UNCHANGED <<entries, job, made>>
    BY <1>2, SpawnCheckDoes
  <2>2. counter + 1 \in Agents
    BY <1>a, <1>b, <2>1 DEF TypeOK, Agents
  <2>3. counter + 1 \notin entries /\ job[counter + 1] = "none"
    BY <1>b, <1>d, <2>2
  <2> QED BY <1>a, <1>b, <1>c, <2>1, <2>3
<1>3. ASSUME NEW c \in Callers, EnsureExecutor(c) PROVE SpawnsApart'
  <2>1. /\ calls[c].pc = "ensure" /\ calls'[c].pc \in {"create", "take"}
        /\ calls'[c].agent = calls[c].agent
        /\ \A u \in Threads : u # c => calls'[u] = calls[u]
        /\ UNCHANGED <<counter, entries, job, made>>
    BY <1>3, EnsureDoes
  <2> QED BY <1>a, <1>c, <2>1
<1>4. ASSUME NEW c \in Callers, CreateExecutor(c) PROVE SpawnsApart'
  <2>1. /\ calls[c].pc = "create" /\ calls'[c].pc = "take"
        /\ calls'[c].agent = calls[c].agent /\ made' = made + 1
        /\ \A u \in Threads : u # c => calls'[u] = calls[u]
        /\ UNCHANGED <<counter, entries, job>>
    BY <1>4, CreateDoes
  <2> QED BY <1>a, <1>b, <1>c, <2>1
<1>5. ASSUME NEW c \in Callers, TakeExecutor(c) \/ Submit(c) \/ Register(c) PROVE SpawnsApart'
  <2>1. CASE TakeExecutor(c)
    <3>1. /\ calls[c].pc = "take" /\ calls'[c].pc \in {"idle", "submit"}
          /\ calls'[c].pc = "submit" =>
               calls'[c].agent = calls[c].agent /\ calls'[c].pool = executor /\ executor # 0
          /\ \A u \in Threads : u # c => calls'[u] = calls[u]
          /\ UNCHANGED <<counter, entries, job, made>>
      BY <2>1, TakeDoes
    <3> QED BY <1>a, <1>b, <1>c, <3>1
  <2>2. CASE Submit(c)
    <3>1. calls[c].pc = "submit" /\ (\A u \in Threads : u # c => calls'[u] = calls[u])
          /\ UNCHANGED <<counter, entries, made>>
      BY <2>2, SubmitDoes
    <3>2. CASE calls'[c].pc = "idle" /\ UNCHANGED <<queue, home, job>>
      BY <1>a, <1>c, <3>1, <3>2
    <3>3. CASE /\ calls'[c].pc = "register" /\ calls'[c].agent = calls[c].agent
               /\ job' = [job EXCEPT ![calls[c].agent] = "queued"]
      <4>1. calls[c].agent \in Agents
        BY <1>a, <1>e, <3>1
      <4>2. job'[calls[c].agent] = "queued" /\ \A a \in Agents : a # calls[c].agent => job'[a] = job[a]
        BY <1>d, <3>3, <4>1
      <4> QED BY <1>a, <1>c, <1>e, <3>1, <3>3, <4>1, <4>2
    <3> QED BY <2>2, <3>2, <3>3, SubmitDoes
  <2>3. CASE Register(c)
    <3>1. /\ calls[c].pc = "register" /\ calls'[c].pc = "idle"
          /\ \A u \in Threads : u # c => calls'[u] = calls[u]
          /\ entries' = entries \cup {calls[c].agent}
          /\ UNCHANGED <<counter, job, made>>
      BY <2>3, RegisterDoes
    <3> QED BY <1>a, <1>c, <3>1
  <2> QED BY <1>5, <2>1, <2>2, <2>3
<1>6. ASSUME QuietStep PROVE SpawnsApart'
  <2>1. Quiet
    BY <1>6, QuietStepsAreQuiet
  <2>2. \A P : P \subseteq Busy => At(P)' = At(P) /\ \A c \in At(P) : calls'[c] = calls[c]
    BY <2>1, QuietAt
  <2> HIDE DEF At
  <2>3. /\ At(Counted)' = At(Counted) /\ At(Unsubmitted)' = At(Unsubmitted)
        /\ At({"submit"})' = At({"submit"}) /\ At({"register"})' = At({"register"})
        /\ \A c \in At(Counted) : calls'[c] = calls[c]
        /\ At(Unsubmitted) \subseteq At(Counted) /\ At({"submit"}) \subseteq At(Counted)
        /\ At({"register"}) \subseteq At(Counted)
    <3>1. /\ Counted \subseteq Busy /\ Unsubmitted \subseteq Busy
          /\ {"submit"} \subseteq Busy /\ {"register"} \subseteq Busy
      BY DEF Busy
    <3>2. /\ At(Unsubmitted) \subseteq At(Counted) /\ At({"submit"}) \subseteq At(Counted)
          /\ At({"register"}) \subseteq At(Counted)
      BY DEF At
    <3> HIDE DEF Counted, Unsubmitted
    <3> QED BY <2>2, <3>1, <3>2
  <2> HIDE DEF Counted, Unsubmitted
  <2>4. \A c \in At(Counted) : calls[c].agent \in Agents
    BY <1>a, <1>e
  <2> QED BY <1>a, <2>1, <2>3, <2>4 DEF Quiet
<1> QED
  BY <1>1, <1>2, <1>3, <1>4, <1>5, <1>6, NextSplits, Zenon

LEMMA LoopJobs == LoopInv /\ Next => JobsKnown'
<1> SUFFICES ASSUME LoopInv, Next PROVE JobsKnown'
  OBVIOUS
<1>a. TypeOK /\ TypeOK' /\ SpawnsApart /\ JobsKnown
  BY LoopTypes DEF LoopInv
<1>b. /\ counter \in 0 .. MaxAgents /\ made \in 0 .. MaxAgents /\ MaxAgents \in Nat
      /\ executor \in 0 .. made /\ maxSubagents \in Nat
  BY <1>a, CountsAreNumbers DEF TypeOK
<1>c. \A u \in Callers : u \in Threads
  BY MainIsNoCaller
<1>d. entries \subseteq Agents /\ job \in [Agents -> {"none", "queued", "running", "done"}]
      /\ home \in [Agents -> 0 .. MaxAgents] /\ queue \in [Executors -> Seq(Agents)]
  BY <1>a DEF TypeOK
<1>e. 1 .. counter \subseteq Agents /\ 1 .. made \subseteq Executors
  BY <1>b DEF Agents, Executors
<1>f. \A e \in Executors : IsFiniteSet(Running(e))
  <2>1. IsFiniteSet(Agents)
    BY <1>b, FS_Interval DEF Agents
  <2> QED BY <2>1, FS_Subset DEF Running
\* The steps that leave the jobs as they are.
<1>k. ASSUME UNCHANGED <<queue, home, job, entries, maxSubagents>>,
             made <= made', counter <= counter', made' \in Nat, counter' \in Nat,
             \A a : (\E c \in At({"register"}) : calls[c].agent = a) =>
                      (\E c \in At({"register"})' : calls'[c].agent = a)
      PROVE  JobsKnown'
  <2>1. \A e \in Executors : Running(e)' = Running(e)
    BY <1>k DEF Running
  <2>2. \A a \in Agents : home[a] \in 1 .. made => home[a] \in 1 .. made'
    BY <1>k, <1>b
  <2>3. \A a \in Agents : a <= counter => a <= counter'
    BY <1>k, <1>b DEF Agents
  <2> HIDE DEF At
  <2> QED BY <1>a, <1>k, <2>1, <2>2, <2>3 DEF JobsKnown
<1>1. ASSUME NEW c \in Callers, NEW fs \in Assignments, AskSpawn(c, fs) PROVE JobsKnown'
  <2>1. calls[c].pc = "idle" /\ calls'[c].pc = "spawn" /\ (\A u \in Threads : u # c => calls'[u] = calls[u])
        /\ UNCHANGED <<counter, entries, job, made, queue, home, maxSubagents>>
    BY <1>1, AskSpawnDoes
  <2> QED BY <1>b, <1>c, <1>k, <2>1 DEF At
<1>2. ASSUME NEW c \in Callers, SpawnCheck(c) PROVE JobsKnown'
  <2>1. calls[c].pc = "spawn" /\ (\A u \in Threads : u # c => calls'[u] = calls[u])
        /\ counter' = counter + 1 /\ UNCHANGED <<entries, job, made, queue, home, maxSubagents>>
    BY <1>2, SpawnCheckDoes
  <2> QED BY <1>b, <1>c, <1>k, <2>1 DEF At
<1>3. ASSUME NEW c \in Callers, EnsureExecutor(c) PROVE JobsKnown'
  <2>1. calls[c].pc = "ensure" /\ (\A u \in Threads : u # c => calls'[u] = calls[u])
        /\ UNCHANGED <<counter, entries, job, made, queue, home, maxSubagents>>
    BY <1>3, EnsureDoes
  <2> QED BY <1>b, <1>c, <1>k, <2>1 DEF At
<1>4. ASSUME NEW c \in Callers, CreateExecutor(c) PROVE JobsKnown'
  <2>1. calls[c].pc = "create" /\ (\A u \in Threads : u # c => calls'[u] = calls[u])
        /\ made' = made + 1 /\ UNCHANGED <<counter, entries, job, queue, home, maxSubagents>>
    BY <1>4, CreateDoes
  <2> QED BY <1>b, <1>c, <1>k, <2>1 DEF At
<1>5. ASSUME NEW c \in Callers, TakeExecutor(c) \/ Submit(c) \/ Register(c) PROVE JobsKnown'
  <2>1. CASE TakeExecutor(c)
    <3>1. calls[c].pc = "take" /\ (\A u \in Threads : u # c => calls'[u] = calls[u])
          /\ UNCHANGED <<counter, entries, job, made, queue, home, maxSubagents>>
      BY <2>1, TakeDoes
    <3> QED BY <1>b, <1>c, <1>k, <3>1 DEF At
  <2>2. CASE Submit(c)
    <3>1. calls[c].pc = "submit" /\ (\A u \in Threads : u # c => calls'[u] = calls[u])
          /\ UNCHANGED <<counter, entries, made, maxSubagents>>
      BY <2>2, SubmitDoes
    <3>2. CASE calls'[c].pc = "idle" /\ UNCHANGED <<queue, home, job>>
      BY <1>b, <1>c, <1>k, <3>1, <3>2 DEF At
    <3>3. CASE /\ calls'[c].pc = "register" /\ calls'[c].agent = calls[c].agent
               /\ queue' = [queue EXCEPT ![calls[c].pool] = Append(queue[calls[c].pool], calls[c].agent)]
               /\ home' = [home EXCEPT ![calls[c].agent] = calls[c].pool]
               /\ job' = [job EXCEPT ![calls[c].agent] = "queued"]
      <4> DEFINE b == calls[c].agent p == calls[c].pool
      <4>1. b \in 1 .. counter /\ p \in 1 .. made /\ job[b] = "none" /\ b \in Agents /\ p \in Executors
        BY <1>a, <1>e, <3>1 DEF SpawnsApart, At, Counted, Unsubmitted
      <4>2. /\ queue' = [queue EXCEPT ![p] = Append(queue[p], b)]
            /\ home' = [home EXCEPT ![b] = p] /\ job' = [job EXCEPT ![b] = "queued"]
            /\ calls'[c].agent = b
        BY <3>3
      <4> HIDE DEF b, p
      <4>3. /\ job'[b] = "queued" /\ home'[b] = p
            /\ \A a \in Agents : a # b => job'[a] = job[a] /\ home'[a] = home[a]
            /\ queue'[p] = Append(queue[p], b)
            /\ \A e \in Executors : e # p => queue'[e] = queue[e]
        BY <1>d, <4>1, <4>2
      <4>4. \A e \in Executors : Running(e)' = Running(e)
        BY <4>1, <4>3 DEF Running
      <4>5. c \in At({"register"})'
        BY <3>3 DEF At
      <4>6. \A u \in At({"register"}) : u \in At({"register"})' /\ calls'[u].agent = calls[u].agent
        BY <1>c, <3>1, <3>3 DEF At
      <4>7. \A a \in entries : job'[a] # "none"
        BY <1>a, <1>d, <4>1, <4>3 DEF JobsKnown
      <4>8. \A a \in Agents : job'[a] # "none" =>
              /\ a <= counter' /\ home'[a] \in 1 .. made'
              /\ a \in entries' \/ \E u \in At({"register"})' : calls'[u].agent = a
        <5> TAKE a \in Agents
        <5> HAVE job'[a] # "none"
        <5>1. CASE a = b
          BY <3>1, <4>1, <4>2, <4>3, <4>5, <5>1
        <5>2. CASE a # b
          <6>1. job[a] # "none" /\ home'[a] = home[a]
            BY <4>3, <5>2
          <6>2. a <= counter /\ home[a] \in 1 .. made
                /\ (a \in entries \/ \E u \in At({"register"}) : calls[u].agent = a)
            BY <1>a, <6>1 DEF JobsKnown
          <6> QED BY <3>1, <4>6, <6>1, <6>2
        <5> QED BY <5>1, <5>2
      <4>9. \A a \in Agents : job'[a] = "queued" =>
              \E i \in DOMAIN queue'[home'[a]] : queue'[home'[a]][i] = a
        <5> TAKE a \in Agents
        <5> HAVE job'[a] = "queued"
        <5>0. queue[p] \in Seq(Agents)
          BY <1>d, <4>1
        <5>q. /\ Len(Append(queue[p], b)) = Len(queue[p]) + 1
              /\ \A i \in 1 .. Len(queue[p]) : Append(queue[p], b)[i] = queue[p][i]
              /\ Append(queue[p], b)[Len(queue[p]) + 1] = b
              /\ Append(queue[p], b) \in Seq(Agents) /\ Len(queue[p]) \in Nat
          BY <4>1, <5>0, AppendProperties, LenProperties
        <5>d. DOMAIN Append(queue[p], b) = 1 .. Len(queue[p]) + 1 /\ DOMAIN queue[p] = 1 .. Len(queue[p])
          BY <5>0, <5>q, LenProperties
        <5>1. CASE a = b
          <6>1. Len(queue[p]) + 1 \in DOMAIN queue'[p] /\ queue'[p][Len(queue[p]) + 1] = b
            BY <4>3, <5>q, <5>d
          <6> QED BY <4>3, <5>1, <6>1
        <5>2. CASE a # b
          <6>1. job[a] = "queued" /\ home'[a] = home[a]
            BY <4>3, <5>2
          <6>2. PICK i \in DOMAIN queue[home[a]] : queue[home[a]][i] = a
            BY <1>a, <6>1 DEF JobsKnown
          <6>3. home[a] \in Executors
            BY <1>a, <1>e, <6>1 DEF JobsKnown
          <6>4. CASE home[a] = p
            <7>1. i \in DOMAIN queue'[p] /\ queue'[p][i] = a
              BY <4>3, <5>q, <5>d, <6>2, <6>4
            <7> QED BY <6>1, <6>4, <7>1
          <6>5. CASE home[a] # p
            BY <4>3, <6>1, <6>2, <6>3, <6>5
          <6> QED BY <6>4, <6>5
        <5> QED BY <5>1, <5>2
      <4> QED BY <1>a, <3>1, <4>4, <4>7, <4>8, <4>9 DEF JobsKnown
    <3> QED BY <2>2, <3>2, <3>3, SubmitDoes
  <2>3. CASE Register(c)
    <3>1. /\ calls[c].pc = "register" /\ calls'[c].pc = "idle"
          /\ \A u \in Threads : u # c => calls'[u] = calls[u]
          /\ entries' = entries \cup {calls[c].agent}
          /\ UNCHANGED <<counter, job, made, queue, home, maxSubagents>>
      BY <2>3, RegisterDoes
    <3>2. job[calls[c].agent] # "none"
      BY <1>a, <3>1 DEF SpawnsApart, At
    <3>3. \A e \in Executors : Running(e)' = Running(e)
      BY <3>1 DEF Running
    <3>4. \A u \in At({"register"}) : u # c => u \in At({"register"})' /\ calls'[u].agent = calls[u].agent
      BY <1>c, <3>1 DEF At
    <3> QED BY <1>a, <3>1, <3>2, <3>3, <3>4 DEF JobsKnown
  <2> QED BY <1>5, <2>1, <2>2, <2>3
<1>6. ASSUME QuietStep PROVE JobsKnown'
  <2>1. Quiet
    BY <1>6, QuietStepsAreQuiet
  <2>2. At({"register"})' = At({"register"}) /\ \A c \in At({"register"}) : calls'[c] = calls[c]
    BY <2>1, QuietAt DEF Busy, Counted
  <2>3. \A a \in entries' : job'[a] # "none"
    BY <1>a, <1>d, <2>1 DEF Quiet, JobsKnown
  <2>4. \A a \in Agents : job'[a] # "none" =>
          /\ a <= counter' /\ home'[a] \in 1 .. made'
          /\ a \in entries' \/ \E c \in At({"register"})' : calls'[c].agent = a
    BY <1>a, <2>1, <2>2 DEF Quiet, JobsKnown
  <2>5. /\ \A a \in Agents : job'[a] = "queued" =>
             \E i \in DOMAIN queue'[home'[a]] : queue'[home'[a]][i] = a
        /\ \A e \in Executors : Cardinality(Running(e)') <= maxSubagents
    <3>1. ASSUME NEW b \in Agents, Start(b)
          PROVE  /\ \A a \in Agents : job'[a] = "queued" =>
                      \E i \in DOMAIN queue'[home'[a]] : queue'[home'[a]][i] = a
                 /\ \A e \in Executors : Cardinality(Running(e)') <= maxSubagents
      <4> DEFINE p == home[b]
      <4>1. /\ job[b] = "queued" /\ Head(queue[p]) = b /\ Cardinality(Running(p)) < maxSubagents
            /\ queue' = [queue EXCEPT ![p] = Tail(queue[p])] /\ job' = [job EXCEPT ![b] = "running"]
            /\ home' = home
        BY <3>1 DEF Start
      <4>2. p \in Executors
        BY <1>a, <1>e, <4>1 DEF JobsKnown
      <4> HIDE DEF p
      <4>3. /\ job'[b] = "running" /\ \A a \in Agents : a # b => job'[a] = job[a]
            /\ queue'[p] = Tail(queue[p]) /\ \A e \in Executors : e # p => queue'[e] = queue[e]
        BY <1>d, <4>1, <4>2
      <4>4. ASSUME NEW a \in Agents, job'[a] = "queued"
            PROVE  \E i \in DOMAIN queue'[home'[a]] : queue'[home'[a]][i] = a
        <5>1. a # b /\ job[a] = "queued"
          BY <4>3, <4>4
        <5>2. PICK i \in DOMAIN queue[home[a]] : queue[home[a]][i] = a
          BY <1>a, <5>1 DEF JobsKnown
        <5>3. home[a] \in Executors
          BY <1>a, <1>e, <5>1 DEF JobsKnown
        <5>4. CASE home[a] = p
          <6>0. queue[p] \in Seq(Agents) /\ queue[p] # <<>> /\ i \in 1 .. Len(queue[p])
            <7>1. queue[p] \in Seq(Agents)
              BY <1>d, <4>2
            <7>2. i \in 1 .. Len(queue[p])
              BY <7>1, <5>2, <5>4, LenProperties
            <7> QED BY <7>1, <7>2, EmptySeq
          <6>1. /\ Tail(queue[p]) \in Seq(Agents) /\ Len(Tail(queue[p])) = Len(queue[p]) - 1
                /\ \A k \in 1 .. Len(Tail(queue[p])) : Tail(queue[p])[k] = queue[p][k + 1]
                /\ Head(queue[p]) = queue[p][1] /\ Len(queue[p]) \in Nat
            BY <6>0, HeadTailProperties, LenProperties
          <6>2. i # 1
            BY <4>1, <5>1, <5>2, <5>4, <6>1
          <6>3. i - 1 \in 1 .. Len(Tail(queue[p])) /\ (i - 1) + 1 = i
            BY <6>0, <6>1, <6>2
          <6>4. Tail(queue[p])[i - 1] = a
            BY <5>2, <5>4, <6>1, <6>3
          <6>5. i - 1 \in DOMAIN Tail(queue[p])
            BY <6>1, <6>3, LenProperties
          <6>6. queue'[home'[a]] = Tail(queue[p])
            BY <4>1, <4>3, <5>4
          <6> QED BY <6>4, <6>5, <6>6, Zenon
        <5>5. CASE home[a] # p
          BY <4>1, <4>3, <5>2, <5>3, <5>5
        <5> QED BY <5>4, <5>5
      <4>5. ASSUME NEW e \in Executors PROVE Cardinality(Running(e)') <= maxSubagents
        <5>1. CASE e = p
          <6>1. Running(e)' = Running(e) \cup {b}
            BY <4>1, <4>3, <5>1 DEF Running, p
          <6>2. b \notin Running(e)
            BY <4>1 DEF Running
          <6>3. Cardinality(Running(e)') = Cardinality(Running(e)) + 1 /\ Cardinality(Running(e)) \in Nat
            BY <1>f, <6>1, <6>2, FS_AddElement, FS_CardinalityType
          <6> QED BY <1>b, <4>1, <5>1, <6>3
        <5>2. CASE e # p
          <6>1. Running(e)' = Running(e)
            BY <4>1, <4>3, <5>2 DEF Running, p
          <6> QED BY <1>a, <6>1 DEF JobsKnown
        <5> QED BY <5>1, <5>2
      <4> QED BY <4>4, <4>5
    <3>2. ASSUME queue' = queue, \A a \in Agents : job'[a] = "running" => job[a] = "running"
          PROVE  /\ \A a \in Agents : job'[a] = "queued" =>
                      \E i \in DOMAIN queue'[home'[a]] : queue'[home'[a]][i] = a
                 /\ \A e \in Executors : Cardinality(Running(e)') <= maxSubagents
      <4>1. \A a \in Agents : job'[a] = "queued" =>
              \E i \in DOMAIN queue'[home'[a]] : queue'[home'[a]][i] = a
        BY <1>a, <2>1, <3>2 DEF Quiet, JobsKnown
      <4>2. ASSUME NEW e \in Executors PROVE Cardinality(Running(e)') <= maxSubagents
        <5>1. Running(e)' \subseteq Running(e)
          BY <2>1, <3>2 DEF Quiet, Running
        <5>2. Cardinality(Running(e)') <= Cardinality(Running(e)) /\ Cardinality(Running(e)) \in Nat
              /\ Cardinality(Running(e)') \in Nat
          BY <1>f, <5>1, FS_Subset, FS_CardinalityType
        <5> QED BY <1>a, <1>b, <5>2 DEF JobsKnown
      <4> QED BY <4>1, <4>2
    <3>3. \/ \E b \in Agents : Start(b)
          \/ queue' = queue /\ \A a \in Agents : job'[a] = "running" => job[a] = "running"
      <4>1. ASSUME NEW b \in Agents, Finish(b)
            PROVE  queue' = queue /\ \A a \in Agents : job'[a] = "running" => job[a] = "running"
        BY <1>d, <4>1 DEF Finish
      <4>2. ASSUME QuietStep, ~\E b \in Agents : Start(b) \/ Finish(b)
            PROVE  queue' = queue /\ job' = job
        BY <4>2, AskPollDoes, PollReadDoes, AnswerDoes, WaitEndsDoes, StoreDoes, LookDoes,
           DrainGivesUpDoes, EndTurnDoes, ShutdownDoes, OthersDo
           DEF QuietStep, OnlyCalls, jobs
      <4> QED BY <1>6, <4>1, <4>2
    <3> QED BY <3>1, <3>2, <3>3
  <2> QED BY <2>1, <2>3, <2>4, <2>5 DEF Quiet, JobsKnown
<1> QED
  BY <1>1, <1>2, <1>3, <1>4, <1>5, <1>6, NextSplits, Zenon

LEMMA Grows ==
  ASSUME LoopInv, Next
  PROVE  /\ entries \subseteq entries' /\ settled \subseteq settled' /\ Finished \subseteq Finished'
         /\ gaveUp \subseteq gaveUp'
<1>a. TypeOK /\ TypeOK' /\ SpawnsApart
  BY LoopTypes DEF LoopInv
<1>1. ASSUME NEW c \in Callers, NEW fs \in Assignments, AskSpawn(c, fs)
      PROVE  UNCHANGED <<entries, settled, job, gaveUp>>
  BY <1>1, AskSpawnDoes
<1>2. ASSUME NEW c \in Callers, SpawnCheck(c) PROVE UNCHANGED <<entries, settled, job, gaveUp>>
  BY <1>2, SpawnCheckDoes
<1>3. ASSUME NEW c \in Callers, EnsureExecutor(c) PROVE UNCHANGED <<entries, settled, job, gaveUp>>
  BY <1>3, EnsureDoes
<1>4. ASSUME NEW c \in Callers, CreateExecutor(c) PROVE UNCHANGED <<entries, settled, job, gaveUp>>
  BY <1>4, CreateDoes
<1>5. ASSUME NEW c \in Callers, TakeExecutor(c) \/ Submit(c) \/ Register(c)
      PROVE  entries \subseteq entries' /\ settled' = settled /\ Finished \subseteq Finished'
             /\ gaveUp' = gaveUp
  <2>1. CASE TakeExecutor(c) BY <2>1, TakeDoes DEF Finished
  <2>2. CASE Submit(c)
    <3>1. UNCHANGED <<entries, settled, gaveUp>> /\ calls[c].pc = "submit"
          /\ (job' = job \/ job' = [job EXCEPT ![calls[c].agent] = "queued"])
      BY <2>2, SubmitDoes
    <3>2. job[calls[c].agent] = "none"
      BY <1>a, <3>1 DEF SpawnsApart, At, Unsubmitted
    <3>3. Finished \subseteq Finished'
      BY <1>a, <3>1, <3>2 DEF Finished, TypeOK
    <3> QED BY <3>1, <3>3
  <2>3. CASE Register(c) BY <2>3, RegisterDoes DEF Finished
  <2> QED BY <1>5, <2>1, <2>2, <2>3
<1>6. ASSUME QuietStep
      PROVE  /\ entries' = entries /\ settled \subseteq settled' /\ Finished \subseteq Finished'
             /\ gaveUp \subseteq gaveUp'
  <2>1. entries' = entries /\ Finished \subseteq Finished'
    BY <1>6, QuietStepsAreQuiet DEF Quiet, Finished
  <2>2. settled \subseteq settled' /\ gaveUp \subseteq gaveUp'
    BY <1>6, AskPollDoes, PollReadDoes, AnswerDoes, WaitEndsDoes, StoreDoes, LookDoes,
       DrainGivesUpDoes, EndTurnDoes, ShutdownDoes, OthersDo
       DEF QuietStep, OnlyCalls, table, outcome
  <2> QED BY <2>1, <2>2
<1>7. UNCHANGED <<entries, settled, job, gaveUp>> =>
        /\ entries \subseteq entries' /\ settled \subseteq settled' /\ Finished \subseteq Finished'
        /\ gaveUp \subseteq gaveUp'
  BY DEF Finished
<1> QED
  BY <1>1, <1>2, <1>3, <1>4, <1>5, <1>6, <1>7, NextSplits

\* One thread's look, and the rest keeps.
Whole(t) ==
  /\ calls[t].pc \in {"scan", "append", "wait"} =>
       calls[t].asked \subseteq entries /\ calls[t].todo \subseteq entries
  /\ calls[t].pc = "append" =>
       calls[t].agent \in calls[t].todo /\ job[calls[t].agent] = "done"
  /\ t # Main /\ calls[t].pc \in {"scan", "append"} =>
       /\ calls[t].was \subseteq Finished
       /\ calls[t].was \subseteq calls[t].got \cup calls[t].todo

LEMMA WholeKeeps ==
  ASSUME LoopInv, Next, NEW t \in Threads, calls'[t] = calls[t]
  PROVE  Whole(t)'
<1>1. Whole(t) /\ entries \subseteq Agents
  BY DEF LoopInv, LooksAreWhole, Whole, TypeOK
<1>2. entries \subseteq entries' /\ Finished \subseteq Finished'
  BY Grows
<1>3. \A a \in Agents : job[a] = "done" => job'[a] = "done"
  BY <1>2 DEF Finished
<1> QED BY <1>1, <1>2, <1>3 DEF Whole

LEMMA LoopLooks == LoopInv /\ Next => LooksAreWhole'
<1> SUFFICES ASSUME LoopInv, Next PROVE LooksAreWhole'
  OBVIOUS
<1>s. SUFFICES \A t \in Threads : Whole(t)'
  BY DEF LooksAreWhole, Whole
<1>a. /\ TypeOK /\ TypeOK' /\ \A t \in Threads : Whole(t) /\ calls[t] \in Call
  BY LoopTypes, CallsAreCalls DEF LoopInv, LooksAreWhole, Whole
<1>b. /\ entries \subseteq Agents /\ entries \subseteq entries' /\ Finished \subseteq Finished'
  BY <1>a, Grows DEF TypeOK
<1>c. \A c \in Callers : c \in Threads /\ c # Main
  BY MainIsNoCaller
<1>k. \A t \in Threads : calls'[t] = calls[t] => Whole(t)'
  BY WholeKeeps
<1>i. \A t \in Threads : calls'[t].pc \notin {"scan", "append", "wait"} => Whole(t)'
  BY DEF Whole
<1>1. ASSUME NEW c \in Callers, NEW fs \in Assignments, AskSpawn(c, fs) PROVE \A t \in Threads : Whole(t)'
  <2>1. calls'[c].pc = "spawn" /\ (\A u \in Threads : u # c => calls'[u] = calls[u])
    BY <1>1, AskSpawnDoes
  <2> QED BY <1>i, <1>k, <2>1
<1>2. ASSUME NEW c \in Callers, SpawnCheck(c) PROVE \A t \in Threads : Whole(t)'
  <2>1. calls'[c].pc = "ensure" /\ (\A u \in Threads : u # c => calls'[u] = calls[u])
    BY <1>2, SpawnCheckDoes
  <2> QED BY <1>i, <1>k, <2>1
<1>3. ASSUME NEW c \in Callers, EnsureExecutor(c) PROVE \A t \in Threads : Whole(t)'
  <2>1. calls'[c].pc \in {"create", "take"} /\ (\A u \in Threads : u # c => calls'[u] = calls[u])
    BY <1>3, EnsureDoes
  <2> QED BY <1>i, <1>k, <2>1
<1>4. ASSUME NEW c \in Callers, CreateExecutor(c) PROVE \A t \in Threads : Whole(t)'
  <2>1. calls'[c].pc = "take" /\ (\A u \in Threads : u # c => calls'[u] = calls[u])
    BY <1>4, CreateDoes
  <2> QED BY <1>i, <1>k, <2>1
<1>5. ASSUME NEW c \in Callers, TakeExecutor(c) \/ Submit(c) \/ Register(c)
      PROVE  \A t \in Threads : Whole(t)'
  <2>1. calls'[c].pc \in {"idle", "submit", "register"} /\ (\A u \in Threads : u # c => calls'[u] = calls[u])
    BY <1>5, TakeDoes, SubmitDoes, RegisterDoes
  <2> QED BY <1>i, <1>k, <2>1
<1>6. ASSUME QuietStep PROVE \A t \in Threads : Whole(t)'
  <2>1. ASSUME NEW c \in Callers, NEW A \in SUBSET (1 .. counter), NEW b \in BOOLEAN, AskPoll(c, A, b)
        PROVE  \A t \in Threads : Whole(t)'
    <3>1. calls'[c].pc = "poll" /\ (\A u \in Threads : u # c => calls'[u] = calls[u])
      BY <2>1, AskPollDoes
    <3> QED BY <1>i, <1>k, <3>1
  <2>2. ASSUME NEW c \in Callers, PollRead(c) PROVE \A t \in Threads : Whole(t)'
    <3>1. /\ \A u \in Threads : u # c => calls'[u] = calls[u]
          /\ calls'[c].pc = "idle" \/ (calls[c].asked \subseteq entries /\ calls'[c] = Looking(c))
      BY <2>2, PollReadDoes
    <3>2. ASSUME calls[c].asked \subseteq entries, calls'[c] = Looking(c) PROVE Whole(c)'
      <4>1. /\ calls'[c].pc = "scan" /\ calls'[c].asked = calls[c].asked
            /\ calls'[c].todo = calls[c].asked /\ calls'[c].was = calls[c].asked \cap Finished
        BY <1>a, <1>c, <3>2, Fields
      <4> QED BY <1>b, <1>c, <3>2, <4>1 DEF Whole
    <3> QED BY <1>i, <1>k, <1>c, <3>1, <3>2
  <2>3. ASSUME NEW c \in Callers, Answer(c) PROVE \A t \in Threads : Whole(t)'
    <3>1. /\ \A u \in Threads : u # c => calls'[u] = calls[u]
          /\ calls[c].pc = "scan"
          /\ \/ calls'[c].pc = "idle"
             \/ /\ calls'[c].pc = "wait" /\ calls'[c].asked = calls[c].asked
                /\ calls'[c].todo = calls[c].todo
      BY <2>3, AnswerDoes
    <3>2. Whole(c)'
      BY <1>a, <1>b, <1>c, <3>1 DEF Whole
    <3> QED BY <1>k, <3>1, <3>2
  <2>4. ASSUME NEW c \in Callers, WaitEnds(c) PROVE \A t \in Threads : Whole(t)'
    <3>1. /\ \A u \in Threads : u # c => calls'[u] = calls[u]
          /\ calls[c].pc = "wait"
          /\ calls'[c].pc = "idle" \/ calls'[c] = [Looking(c) EXCEPT !.blocking = FALSE]
      BY <2>4, WaitEndsDoes
    <3>2. ASSUME calls'[c] = [Looking(c) EXCEPT !.blocking = FALSE] PROVE Whole(c)'
      <4> DEFINE r == [Looking(c) EXCEPT !.blocking = FALSE]
      <4>1. /\ r.pc = "scan" /\ r.asked = calls[c].asked
            /\ r.todo = calls[c].asked /\ r.was = calls[c].asked \cap Finished
        BY <1>a, <1>c, Fields, Zenon
      <4>2. calls'[c] = r
        BY <3>2
      <4> HIDE DEF r
      <4>3. /\ calls'[c].pc = "scan" /\ calls'[c].asked = calls[c].asked
            /\ calls'[c].todo = calls[c].asked /\ calls'[c].was = calls[c].asked \cap Finished
        BY <4>1, <4>2
      <4>4. calls[c].asked \subseteq entries
        BY <1>a, <1>c, <3>1 DEF Whole
      <4> QED BY <1>b, <1>c, <4>3, <4>4 DEF Whole
    <3> QED BY <1>i, <1>k, <1>c, <3>1, <3>2
  <2>5. ASSUME NEW u \in Threads, Store(u) PROVE \A t \in Threads : Whole(t)'
    <3>1. /\ calls[u].pc = "append" /\ calls'[u] = Collected(u, calls[u].agent)
          /\ \A t \in Threads : t # u => calls'[t] = calls[t]
      BY <2>5, StoreDoes
    <3>2. /\ calls'[u].pc = "scan" /\ calls'[u].asked = calls[u].asked
          /\ calls'[u].todo = calls[u].todo \ {calls[u].agent}
          /\ calls'[u].got = calls[u].got \cup {calls[u].agent} /\ calls'[u].was = calls[u].was
      BY <1>a, <3>1, Fields
    <3>3. Whole(u)'
      BY <1>a, <1>b, <3>1, <3>2 DEF Whole
    <3> QED BY <1>k, <3>1, <3>3
  <2>6. ASSUME NEW u \in Threads, NEW a \in Agents, Look(u, a) PROVE \A t \in Threads : Whole(t)'
    <3>1. /\ calls[u].pc = "scan" /\ a \in calls[u].todo
          /\ \A t \in Threads : t # u => calls'[t] = calls[t]
          /\ OnlyCalls
      BY <2>6, LookDoes
    <3>2. \/ calls'[u] = Collected(u, a)
          \/ job[a] = "done" /\ calls'[u] = [calls[u] EXCEPT !.pc = "append", !.agent = a]
          \/ job[a] # "done" /\ calls'[u] = Passed(u, a)
      BY <2>6, LookDoes, Zenon
    <3>3. CASE calls'[u] = Collected(u, a)
      <4>1. /\ calls'[u].pc = "scan" /\ calls'[u].asked = calls[u].asked
            /\ calls'[u].todo = calls[u].todo \ {a}
            /\ calls'[u].got = calls[u].got \cup {a} /\ calls'[u].was = calls[u].was
        BY <1>a, <3>3, Fields
      <4>2. Whole(u)'
        BY <1>a, <1>b, <3>1, <4>1 DEF Whole
      <4> QED BY <1>k, <3>1, <4>2
    <3>4. CASE job[a] = "done" /\ calls'[u] = [calls[u] EXCEPT !.pc = "append", !.agent = a]
      <4> DEFINE r == [calls[u] EXCEPT !.pc = "append", !.agent = a]
      <4>0. calls[u] \in Call
        BY <1>a
      <4>1. /\ r.pc = "append" /\ r.asked = calls[u].asked /\ r.agent = a
            /\ r.todo = calls[u].todo /\ r.got = calls[u].got /\ r.was = calls[u].was
        BY <4>0, AppendFields
      <4>2. calls'[u] = r
        BY <3>4
      <4> HIDE DEF r
      <4>3. /\ calls'[u].pc = "append" /\ calls'[u].asked = calls[u].asked /\ calls'[u].agent = a
            /\ calls'[u].todo = calls[u].todo /\ calls'[u].got = calls[u].got
            /\ calls'[u].was = calls[u].was
        BY <4>1, <4>2
      <4>4. job'[a] = "done"
        BY <3>1, <3>4 DEF OnlyCalls
      <4>5. Whole(u)'
        BY <1>a, <1>b, <3>1, <4>3, <4>4 DEF Whole
      <4> QED BY <1>k, <3>1, <4>5
    <3>5. CASE job[a] # "done" /\ calls'[u] = Passed(u, a)
      <4>1. /\ calls'[u].pc = "scan" /\ calls'[u].asked = calls[u].asked
            /\ calls'[u].todo = calls[u].todo \ {a}
            /\ calls'[u].got = calls[u].got /\ calls'[u].was = calls[u].was
        BY <1>a, <3>1, <3>5, Fields
      <4>2. a \notin Finished
        BY <3>5 DEF Finished
      <4>3. Whole(u)'
        BY <1>a, <1>b, <3>1, <4>1, <4>2 DEF Whole
      <4> QED BY <1>k, <3>1, <4>3
    <3> QED BY <3>2, <3>3, <3>4, <3>5
  <2>7. ASSUME NEW a \in Agents, Start(a) \/ Finish(a) PROVE \A t \in Threads : Whole(t)'
    <3>1. calls' = calls
      BY <2>7, OthersDo
    <3> QED BY <1>k, <3>1
  <2>8. ASSUME NEW a \in Agents, DrainGivesUp(a) PROVE \A t \in Threads : Whole(t)'
    <3>1. /\ calls[Main].pc = "scan" /\ calls'[Main] = Passed(Main, a)
          /\ \A t \in Threads : t # Main => calls'[t] = calls[t]
      BY <2>8, DrainGivesUpDoes
    <3>2. /\ calls'[Main].pc = "scan" /\ calls'[Main].asked = calls[Main].asked
          /\ calls'[Main].todo = calls[Main].todo \ {a}
      BY <1>a, <3>1, MainIsNoCaller, Fields
    <3>3. Whole(Main)'
      BY <1>a, <1>b, <3>1, <3>2, MainIsNoCaller DEF Whole
    <3> QED BY <1>k, <3>1, <3>3
  <2>9. ASSUME ShutdownExecutor PROVE \A t \in Threads : Whole(t)'
    <3>1. calls'[Main].pc = "idle" /\ \A t \in Threads : t # Main => calls'[t] = calls[t]
      BY <2>9, ShutdownDoes
    <3> QED BY <1>i, <1>k, <3>1, MainIsNoCaller
  <2>10. ASSUME Return \/ Cancel PROVE \A t \in Threads : Whole(t)'
    <3>1. calls' = calls
      BY <2>10, OthersDo
    <3> QED BY <1>k, <3>1
  <2>11. ASSUME EndTurn PROVE \A t \in Threads : Whole(t)'
    <3>1. /\ calls'[Main].pc = "scan" /\ calls'[Main].todo = entries /\ calls'[Main].asked = {}
          /\ \A t \in Threads : t # Main => calls'[t] = calls[t]
      BY <2>11, EndTurnDoes
    <3>2. Whole(Main)'
      BY <1>b, <3>1 DEF Whole
    <3> QED BY <1>k, <3>1, <3>2
  <2> QED
    BY <1>6, <2>1, <2>2, <2>3, <2>4, <2>5, <2>6, <2>7, <2>8, <2>9, <2>10, <2>11, Zenon DEF QuietStep
<1> QED
  BY <1>1, <1>2, <1>3, <1>4, <1>5, <1>6, NextSplits, Zenon

\* Only Store writes the results.
LEMMA ResultsKept ==
  ASSUME LoopInv, Next, \A t \in Threads : ~Store(t)
  PROVE  UNCHANGED <<settled, results>>
<1>1. ASSUME NEW c \in Callers, NEW fs \in Assignments, AskSpawn(c, fs)
      PROVE  UNCHANGED <<settled, results>>
  BY <1>1, AskSpawnDoes
<1>2. ASSUME NEW c \in Callers, SpawnCheck(c) PROVE UNCHANGED <<settled, results>>
  BY <1>2, SpawnCheckDoes
<1>3. ASSUME NEW c \in Callers, EnsureExecutor(c) PROVE UNCHANGED <<settled, results>>
  BY <1>3, EnsureDoes
<1>4. ASSUME NEW c \in Callers, CreateExecutor(c) PROVE UNCHANGED <<settled, results>>
  BY <1>4, CreateDoes
<1>5. ASSUME NEW c \in Callers, TakeExecutor(c) \/ Submit(c) \/ Register(c)
      PROVE  UNCHANGED <<settled, results>>
  BY <1>5, TakeDoes, SubmitDoes, RegisterDoes
<1>6. ASSUME QuietStep PROVE UNCHANGED <<settled, results>>
  BY <1>6, AskPollDoes, PollReadDoes, AnswerDoes, WaitEndsDoes, LookDoes,
     DrainGivesUpDoes, EndTurnDoes, ShutdownDoes, OthersDo DEF QuietStep, OnlyCalls, table
<1> QED
  BY <1>1, <1>2, <1>3, <1>4, <1>5, <1>6, NextSplits, Zenon

LEMMA LoopResults == LoopInv /\ Next => ResultsOnce'
<1> SUFFICES ASSUME LoopInv, Next PROVE ResultsOnce'
  OBVIOUS
<1>a. /\ ResultsOnce /\ results \in Seq(Agents) /\ Finished \subseteq Finished'
      /\ entries \subseteq Agents
  BY Grows DEF LoopInv, TypeOK
<1>1. CASE \A t \in Threads : ~Store(t)
  BY <1>a, <1>1, ResultsKept DEF ResultsOnce
<1>2. ASSUME NEW t \in Threads, Store(t) PROVE ResultsOnce'
  <2> DEFINE a == calls[t].agent
  <2>1. /\ calls[t].pc = "append" /\ settled' = settled \cup {a}
        /\ results' = IF a \in settled THEN results ELSE Append(results, a)
    BY <1>2, StoreDoes
  <2>2. a \in entries /\ job[a] = "done"
    BY <2>1 DEF LoopInv, LooksAreWhole
  <2>3. a \in Agents /\ a \in Finished
    BY <1>a, <2>2 DEF Finished
  <2> HIDE DEF a
  <2>4. CASE a \in settled
    BY <1>a, <2>1, <2>3, <2>4 DEF ResultsOnce
  <2>5. CASE a \notin settled
    <3>1. results' = Append(results, a) /\ a \notin ToSet(results)
      BY <1>a, <2>1, <2>5 DEF ResultsOnce
    <3>2. /\ Len(results') = Len(results) + 1 /\ DOMAIN results' = 1 .. Len(results) + 1
          /\ \A i \in 1 .. Len(results) : results'[i] = results[i]
          /\ results'[Len(results) + 1] = a /\ Len(results) \in Nat
          /\ DOMAIN results = 1 .. Len(results)
      BY <1>a, <2>3, <3>1, AppendProperties, LenProperties
    <3>3. ToSet(results') = ToSet(results) \cup {a}
      BY <3>2 DEF ToSet
    <3>4. IsInjective(results')
      <4>1. \A i, k \in 1 .. Len(results) : results[i] = results[k] => i = k
        BY <1>a, <3>2 DEF ResultsOnce, IsInjective
      <4>2. \A i \in 1 .. Len(results) : results[i] # a
        BY <3>1, <3>2 DEF ToSet
      <4>3. \A i, k \in 1 .. Len(results) + 1 : results'[i] = results'[k] => i = k
        <5> TAKE i, k \in 1 .. Len(results) + 1
        <5>1. (i \in 1 .. Len(results) \/ i = Len(results) + 1)
              /\ (k \in 1 .. Len(results) \/ k = Len(results) + 1)
          BY <3>2
        <5> QED BY <3>2, <4>1, <4>2, <5>1
      <4> QED BY <3>2, <4>3 DEF IsInjective
    <3> QED BY <1>a, <2>1, <2>3, <3>3, <3>4 DEF ResultsOnce
  <2> QED BY <2>4, <2>5
<1> QED BY <1>1, <1>2

LEMMA LoopDrains == LoopInv /\ Next => DrainIsWhole'
<1> SUFFICES ASSUME LoopInv, Next PROVE DrainIsWhole'
  OBVIOUS
<1>a. /\ DrainIsWhole /\ settled = ToSet(results)
      /\ phase \in {"turn", "drain", "cleanup", "returned"}
      /\ entries \subseteq Agents /\ \A t \in Threads : calls[t] \in Call
  BY CallsAreCalls DEF LoopInv, ResultsOnce, TypeOK
<1>c. \A c \in Callers : c \in Threads /\ c # Main
  BY MainIsNoCaller
<1>m. Main \in Threads
  BY MainIsNoCaller
\* Until the end of the turn, nothing but the place of the run is claimed.
<1>d. /\ calls[Main].pc \in {"scan", "append"} => phase = "drain"
      /\ phase = "drain" => calls[Main].pc \in {"scan", "append"}
      /\ phase # "drain" => calls[Main].pc = "idle"
  BY <1>a DEF DrainIsWhole
<1>u. ASSUME NEW c \in Callers, calls[c].pc # "idle", UNCHANGED <<phase, cancelled>>,
             \A u \in Threads : u # c => calls'[u] = calls[u]
      PROVE  DrainIsWhole'
  <2>1. cancelled \/ phase = "turn"
    BY <1>a, <1>u DEF DrainIsWhole
  <2>2. calls'[Main] = calls[Main]
    BY <1>c, <1>m, <1>u
  <2> QED BY <1>a, <1>d, <1>u, <2>1, <2>2 DEF DrainIsWhole
<1>1. ASSUME NEW c \in Callers, NEW fs \in Assignments, AskSpawn(c, fs) PROVE DrainIsWhole'
  <2>1. phase = "turn" /\ UNCHANGED <<phase, cancelled>> /\ \A u \in Threads : u # c => calls'[u] = calls[u]
    BY <1>1, AskSpawnDoes
  <2>2. calls'[Main] = calls[Main]
    BY <1>c, <1>m, <2>1
  <2> QED BY <1>a, <1>d, <2>1, <2>2 DEF DrainIsWhole
<1>2. ASSUME NEW c \in Callers, SpawnCheck(c) PROVE DrainIsWhole'
  <2>1. /\ calls[c].pc # "idle" /\ UNCHANGED <<phase, cancelled>>
        /\ \A u \in Threads : u # c => calls'[u] = calls[u]
    BY <1>2, SpawnCheckDoes
  <2> QED BY <1>u, <2>1
<1>3. ASSUME NEW c \in Callers, EnsureExecutor(c) PROVE DrainIsWhole'
  <2>1. /\ calls[c].pc # "idle" /\ UNCHANGED <<phase, cancelled>>
        /\ \A u \in Threads : u # c => calls'[u] = calls[u]
    BY <1>3, EnsureDoes
  <2> QED BY <1>u, <2>1
<1>4. ASSUME NEW c \in Callers, CreateExecutor(c) PROVE DrainIsWhole'
  <2>1. /\ calls[c].pc # "idle" /\ UNCHANGED <<phase, cancelled>>
        /\ \A u \in Threads : u # c => calls'[u] = calls[u]
    BY <1>4, CreateDoes
  <2> QED BY <1>u, <2>1
<1>5. ASSUME NEW c \in Callers, TakeExecutor(c) \/ Submit(c) \/ Register(c) PROVE DrainIsWhole'
  <2>1. /\ calls[c].pc # "idle" /\ UNCHANGED <<phase, cancelled>>
        /\ \A u \in Threads : u # c => calls'[u] = calls[u]
    BY <1>5, TakeDoes, SubmitDoes, RegisterDoes
  <2> QED BY <1>u, <2>1
<1>6. ASSUME QuietStep PROVE DrainIsWhole'
  <2>0. entries' = entries
    BY <1>6, QuietStepsAreQuiet DEF Quiet
  <2>1. ASSUME NEW c \in Callers, NEW A \in SUBSET (1 .. counter), NEW b \in BOOLEAN, AskPoll(c, A, b)
        PROVE  DrainIsWhole'
    <3>1. phase = "turn" /\ UNCHANGED <<phase, cancelled>> /\ \A u \in Threads : u # c => calls'[u] = calls[u]
      BY <2>1, AskPollDoes DEF OnlyCalls
    <3>2. calls'[Main] = calls[Main]
      BY <1>c, <1>m, <3>1
    <3> QED BY <1>a, <1>d, <3>1, <3>2 DEF DrainIsWhole
  <2>2. ASSUME NEW c \in Callers, PollRead(c) PROVE DrainIsWhole'
    <3>1. /\ calls[c].pc # "idle" /\ UNCHANGED <<phase, cancelled>>
          /\ \A u \in Threads : u # c => calls'[u] = calls[u]
      BY <2>2, PollReadDoes DEF OnlyCalls
    <3> QED BY <1>u, <3>1
  <2>3. ASSUME NEW c \in Callers, Answer(c) PROVE DrainIsWhole'
    <3>1. /\ calls[c].pc # "idle" /\ UNCHANGED <<phase, cancelled>>
          /\ \A u \in Threads : u # c => calls'[u] = calls[u]
      BY <2>3, AnswerDoes DEF OnlyCalls
    <3> QED BY <1>u, <3>1
  <2>4. ASSUME NEW c \in Callers, WaitEnds(c) PROVE DrainIsWhole'
    <3>1. /\ calls[c].pc # "idle" /\ UNCHANGED <<phase, cancelled>>
          /\ \A u \in Threads : u # c => calls'[u] = calls[u]
      BY <2>4, WaitEndsDoes DEF OnlyCalls
    <3> QED BY <1>u, <3>1
  <2>5. ASSUME NEW t \in Threads, Store(t) PROVE DrainIsWhole'
    <3> DEFINE a == calls[t].agent
    <3>1. /\ calls[t].pc = "append" /\ calls'[t] = Collected(t, a) /\ settled' = settled \cup {a}
          /\ \A u \in Threads : u # t => calls'[u] = calls[u]
          /\ UNCHANGED <<phase, cancelled, entries, gaveUp, returned>>
      BY <2>5, StoreDoes
    <3>2. CASE t # Main
      <4>1. t \in Callers
        BY <3>2 DEF Threads
      <4> QED BY <1>u, <3>1, <4>1
    <3>3. CASE t = Main
      <4>1. calls'[Main].pc = "scan" /\ calls'[Main].todo = calls[Main].todo \ {a}
        BY <1>a, <3>1, <3>3, Fields
      <4>2. phase = "drain" /\ \A c \in Callers : calls'[c] = calls[c]
        BY <1>c, <1>d, <3>1, <3>3
      <4> QED BY <1>a, <3>1, <4>1, <4>2 DEF DrainIsWhole
    <3> QED BY <3>2, <3>3
  <2>6. ASSUME NEW t \in Threads, NEW a \in Agents, Look(t, a) PROVE DrainIsWhole'
    <3>1. /\ calls[t].pc = "scan"
          /\ \A u \in Threads : u # t => calls'[u] = calls[u]
          /\ UNCHANGED <<phase, cancelled, entries, settled, gaveUp, returned>>
      BY <2>6, LookDoes DEF OnlyCalls
    <3>2. CASE t # Main
      <4>1. t \in Callers
        BY <3>2 DEF Threads
      <4> QED BY <1>u, <3>1, <4>1
    <3>3. CASE t = Main
      <4>1. \/ /\ a \in settled /\ calls'[Main].pc = "scan"
               /\ calls'[Main].todo = calls[Main].todo \ {a}
            \/ calls'[Main].pc = "append" /\ calls'[Main].todo = calls[Main].todo
        <5> DEFINE r == [calls[t] EXCEPT !.pc = "append", !.agent = a]
        <5>0. calls[t] \in Call
          BY <1>a
        <5>1. r.pc = "append" /\ r.todo = calls[t].todo
          BY <5>0, AppendFields, Zenon
        <5>2. Collected(t, a).pc = "scan" /\ Collected(t, a).todo = calls[t].todo \ {a}
          BY <1>a, Fields
        <5>3. (a \in settled /\ calls'[t] = Collected(t, a)) \/ calls'[t] = r
              \/ (t # Main /\ calls'[t] = Passed(t, a))
          <6>1. \/ a \in settled /\ calls'[t] = Collected(t, a)
                \/ calls'[t] = [calls[t] EXCEPT !.pc = "append", !.agent = a]
                \/ t # Main /\ calls'[t] = Passed(t, a)
            BY <2>6, LookDoes, Zenon
          <6> QED BY <6>1, Zenon
        <5> HIDE DEF r
        <5> QED BY <3>3, <5>1, <5>2, <5>3
      <4>2. phase = "drain" /\ \A c \in Callers : calls'[c] = calls[c]
        BY <1>c, <1>d, <3>1, <3>3
      <4> QED BY <1>a, <3>1, <4>1, <4>2 DEF DrainIsWhole
    <3> QED BY <3>2, <3>3
  <2>7. ASSUME NEW a \in Agents, Start(a) \/ Finish(a) PROVE DrainIsWhole'
    <3>1. UNCHANGED <<phase, cancelled, calls, entries, settled, gaveUp, returned>>
      BY <2>7, OthersDo DEF table, outcome
    <3> QED BY <1>a, <3>1 DEF DrainIsWhole
  <2>8. ASSUME NEW a \in Agents, DrainGivesUp(a) PROVE DrainIsWhole'
    <3>1. /\ calls[Main].pc = "scan" /\ calls'[Main] = Passed(Main, a)
          /\ \A t \in Threads : t # Main => calls'[t] = calls[t]
          /\ gaveUp' = gaveUp \cup {a} /\ UNCHANGED <<phase, cancelled, entries, settled, returned>>
      BY <2>8, DrainGivesUpDoes
    <3>2. /\ calls'[Main].pc = "scan" /\ calls'[Main].todo = calls[Main].todo \ {a}
      BY <1>a, <1>m, <3>1, Fields
    <3>3. phase = "drain" /\ \A c \in Callers : calls'[c] = calls[c]
      BY <1>c, <1>d, <3>1
    <3> QED BY <1>a, <3>1, <3>2, <3>3 DEF DrainIsWhole
  <2>9. ASSUME ShutdownExecutor PROVE DrainIsWhole'
    <3>1. /\ phase = "drain" /\ phase' = "cleanup"
          /\ cancelled \/ calls[Main].todo = {}
          /\ calls'[Main].pc = "idle" /\ \A t \in Threads : t # Main => calls'[t] = calls[t]
          /\ UNCHANGED <<cancelled, entries, settled, gaveUp, returned>>
      BY <2>9, ShutdownDoes
    <3>2. \A c \in Callers : calls'[c] = calls[c]
      BY <1>c, <3>1
    <3> QED BY <1>a, <3>1, <3>2 DEF DrainIsWhole
  <2>10. ASSUME Return PROVE DrainIsWhole'
    <3>1. /\ phase = "cleanup" /\ phase' = "returned" /\ returned' = results
          /\ UNCHANGED <<cancelled, calls, entries, settled, gaveUp>>
      BY <2>10, OthersDo DEF table
    <3> QED BY <1>a, <3>1 DEF DrainIsWhole
  <2>11. ASSUME Cancel PROVE DrainIsWhole'
    <3>1. cancelled' /\ UNCHANGED <<phase, calls>>
      BY <2>11, OthersDo
    <3> QED BY <1>a, <3>1 DEF DrainIsWhole
  <2>12. ASSUME EndTurn PROVE DrainIsWhole'
    <3>1. /\ phase = "turn" /\ phase' = "drain"
          /\ cancelled \/ \A c \in Callers : calls[c].pc = "idle"
          /\ calls'[Main].pc = "scan" /\ calls'[Main].todo = entries
          /\ \A t \in Threads : t # Main => calls'[t] = calls[t]
          /\ UNCHANGED <<cancelled, entries, settled, gaveUp, returned>>
      BY <2>12, EndTurnDoes
    <3>2. \A c \in Callers : calls'[c] = calls[c]
      BY <1>c, <3>1
    <3> QED BY <1>a, <3>1, <3>2 DEF DrainIsWhole
  <2> QED
    BY <1>6, <2>1, <2>2, <2>3, <2>4, <2>5, <2>6, <2>7, <2>8, <2>9, <2>10, <2>11, <2>12,
       Zenon DEF QuietStep
<1> QED
  BY <1>1, <1>2, <1>3, <1>4, <1>5, <1>6, NextSplits, Zenon

LEMMA LoopTurns == LoopInv /\ Next => SpawnsInTurn'
<1> SUFFICES ASSUME LoopInv, Next, ~crowded' PROVE SpawnsInTurn'
  BY DEF SpawnsInTurn
<1>a. /\ TypeOK /\ SpawnsInTurn /\ SpawnsApart /\ JobsKnown /\ ResultsOnce
      /\ counter \in 0 .. MaxAgents /\ made \in 0 .. MaxAgents /\ MaxAgents \in Nat
      /\ executor \in 0 .. made /\ phase \in {"turn", "drain", "cleanup", "returned"}
  BY CountsAreNumbers DEF LoopInv, TypeOK
<1>b. /\ job \in [Agents -> {"none", "queued", "running", "done"}]
      /\ files \in [Agents -> Assignments \cup {{}}] /\ warned \in [Agents -> SUBSET Agents]
  BY <1>a DEF TypeOK
<1>c. \A c \in Callers : c \in Threads
  BY MainIsNoCaller
<1>d. Spawns = At(Busy) /\ At(Counted) \subseteq Spawns /\ At({"create"}) \subseteq Spawns
      /\ Spawns' = At(Busy)' /\ At(Counted)' \subseteq Spawns' /\ At({"create"})' \subseteq Spawns'
  BY DEF Spawns, At, Busy, Counted, Unsubmitted
<1>e. ASSUME NEW c \in Callers, ~cancelled, calls[c].pc # "idle" PROVE phase = "turn"
  BY <1>a, <1>e DEF LoopInv, DrainIsWhole
\* A spawn goes on, the only one there is.
<1>f. ASSUME NEW c \in Spawns, ~crowded, \A u \in Threads : u # c => calls'[u] = calls[u]
      PROVE  Spawns' \subseteq {c}
  <2>1. \A u \in Spawns : u = c
    BY <1>a, <1>f DEF SpawnsInTurn
  <2> QED BY <1>c, <1>f, <2>1 DEF Spawns
\* The warnings cover the jobs.
<1> DEFINE Named == \A a, b \in Agents :
             a < b /\ b <= counter /\ job[a] \in {"queued", "running"}
             /\ files[a] \cap files[b] # {} => a \in warned[b]
           Pool == ~cancelled => /\ made <= 1 /\ (phase = "turn" => executor = made)
                                 /\ At({"create"}) # {} => executor = 0
           Turn == /\ \A c, d \in Spawns : c = d
                   /\ \A c \in At(Counted) : calls[c].agent = counter
<1>g. ~crowded => Turn /\ Named /\ Pool
  BY <1>a DEF SpawnsInTurn
<1>h. SUFFICES Turn' /\ Named' /\ Pool'
  BY DEF SpawnsInTurn
<1>1. ASSUME NEW c \in Callers, NEW fs \in Assignments, AskSpawn(c, fs) PROVE Turn' /\ Named' /\ Pool'
  <2>1. /\ phase = "turn" /\ calls'[c].pc = "spawn"
        /\ \A u \in Threads : u # c => calls'[u] = calls[u]
        /\ UNCHANGED <<phase, cancelled, counter, executor, made, job, files, warned>>
    BY <1>1, AskSpawnDoes
  <2>2. ~crowded /\ Spawns = {}
    BY <1>1, AskSpawnDoes
  <2>3. Spawns' \subseteq {c} /\ At(Counted)' = {} /\ At({"create"})' = {}
    BY <1>c, <2>1, <2>2 DEF Spawns, At, Counted, Unsubmitted
  <2>4. Named'
    BY <1>g, <2>1, <2>2
  <2>5. Turn' /\ Pool'
    BY <1>g, <2>1, <2>2, <2>3
  <2> QED BY <2>4, <2>5
<1>2. ASSUME NEW c \in Callers, SpawnCheck(c) PROVE Turn' /\ Named' /\ Pool'
  <2>1. /\ calls[c].pc = "spawn" /\ calls'[c].pc = "ensure"
        /\ calls'[c].agent = counter + 1 /\ counter' = counter + 1
        /\ \A u \in Threads : u # c => calls'[u] = calls[u]
        /\ files' = [files EXCEPT ![counter + 1] = calls[c].files]
        /\ warned' = [warned EXCEPT ![counter + 1] = Conflicts(calls[c].files)]
        /\ UNCHANGED <<phase, cancelled, executor, made, job, crowded>>
    BY <1>2, SpawnCheckDoes
  <2>2. c \in Spawns /\ c \notin At(Counted)
    BY <2>1 DEF Spawns, At, Counted, Unsubmitted
  <2>3. Spawns' \subseteq {c} /\ ~crowded
    BY <1>f, <2>1, <2>2
  <2>4. At({"create"})' = {}
    BY <1>d, <2>1, <2>3 DEF At
  <2>5. Turn' /\ Pool'
    BY <1>d, <1>g, <2>1, <2>3, <2>4
  <2>6. counter + 1 \in Agents
    BY <1>a, <2>1, LoopTypes DEF TypeOK, Agents
  <2>7. /\ files'[counter + 1] = calls[c].files /\ warned'[counter + 1] = Conflicts(calls[c].files)
        /\ \A a \in Agents : a # counter + 1 => files'[a] = files[a] /\ warned'[a] = warned[a]
    BY <1>b, <2>1, <2>6
  <2>8. \A a \in Agents : job[a] \in {"queued", "running"} => a \in entries \ settled
    <3> TAKE a \in Agents
    <3> HAVE job[a] \in {"queued", "running"}
    <3>1. a \notin settled
      BY <1>a DEF ResultsOnce, Finished
    <3>2. \A u \in At(Counted) : FALSE
      BY <1>d, <1>g, <2>2, <2>3
    <3>3. \A u \in At({"register"}) : FALSE
      BY <3>2 DEF At, Counted
    <3> QED BY <1>a, <3>1, <3>3 DEF JobsKnown
  <2>9. Named'
    <3> SUFFICES ASSUME NEW a \in Agents, NEW b \in Agents, a < b, b <= counter',
                        job'[a] \in {"queued", "running"}, files'[a] \cap files'[b] # {}
                 PROVE  a \in warned'[b]
      OBVIOUS
    <3>1. job[a] \in {"queued", "running"} /\ files'[a] = files[a] /\ a # counter + 1
      BY <1>a, <2>1, <2>6, <2>7 DEF Agents
    <3>2. CASE b = counter + 1
      BY <2>7, <2>8, <3>1, <3>2 DEF Conflicts
    <3>3. CASE b # counter + 1
      <4>1. b <= counter
        BY <1>a, <2>1, <3>3 DEF Agents
      <4> QED BY <1>g, <2>3, <2>7, <3>1, <3>3, <4>1
    <3> QED BY <3>2, <3>3
  <2> QED BY <2>5, <2>9
<1>3. ASSUME NEW c \in Callers, EnsureExecutor(c) PROVE Turn' /\ Named' /\ Pool'
  <2>1. /\ calls[c].pc = "ensure" /\ calls'[c].agent = calls[c].agent
        /\ calls'[c].pc \in {"create", "take"} /\ (calls'[c].pc = "create" => executor = 0)
        /\ \A u \in Threads : u # c => calls'[u] = calls[u]
        /\ UNCHANGED <<phase, cancelled, counter, executor, made, job, files, warned, crowded>>
    BY <1>3, EnsureDoes
  <2>2. c \in Spawns /\ c \in At(Counted)
    BY <2>1 DEF Spawns, At, Counted, Unsubmitted
  <2>3. Spawns' \subseteq {c} /\ ~crowded
    BY <1>f, <2>1, <2>2
  <2>4. At({"create"})' # {} => executor = 0
    BY <1>d, <2>1, <2>3 DEF At
  <2>5. Named'
    BY <1>g, <2>1, <2>3
  <2>6. Turn' /\ Pool'
    BY <1>d, <1>g, <2>1, <2>2, <2>3, <2>4
  <2> QED BY <2>5, <2>6
<1>4. ASSUME NEW c \in Callers, CreateExecutor(c) PROVE Turn' /\ Named' /\ Pool'
  <2>1. /\ calls[c].pc = "create" /\ calls'[c].pc = "take" /\ calls'[c].agent = calls[c].agent
        /\ made' = made + 1 /\ executor' = made + 1
        /\ \A u \in Threads : u # c => calls'[u] = calls[u]
        /\ UNCHANGED <<phase, cancelled, counter, job, files, warned, crowded>>
    BY <1>4, CreateDoes
  <2>2. c \in Spawns /\ c \in At(Counted) /\ c \in At({"create"})
    BY <2>1 DEF Spawns, At, Counted, Unsubmitted
  <2>3. Spawns' \subseteq {c} /\ ~crowded
    BY <1>f, <2>1, <2>2
  <2>4. At({"create"})' = {}
    BY <1>d, <2>1, <2>3 DEF At
  <2>5. Named'
    BY <1>g, <2>1, <2>3
  <2>6. ~cancelled => made = 0
    BY <1>e, <1>g, <2>1, <2>2, <2>3
  <2>7. Turn' /\ Pool'
    BY <1>a, <1>d, <1>g, <2>1, <2>2, <2>3, <2>4, <2>6
  <2> QED BY <2>5, <2>7
<1>5. ASSUME NEW c \in Callers, TakeExecutor(c) \/ Submit(c) \/ Register(c)
      PROVE  Turn' /\ Named' /\ Pool'
  <2>1. /\ calls[c].pc \in {"take", "submit", "register"}
        /\ calls'[c].pc \in {"idle", "submit", "register"}
        /\ calls'[c].pc \in {"submit", "register"} => calls'[c].agent = calls[c].agent
        /\ \A u \in Threads : u # c => calls'[u] = calls[u]
        /\ UNCHANGED <<phase, cancelled, counter, executor, made, files, warned, crowded>>
    <3>1. CASE TakeExecutor(c) BY <3>1, TakeDoes
    <3>2. CASE Submit(c) BY <3>2, SubmitDoes
    <3>3. CASE Register(c) BY <3>3, RegisterDoes
    <3> QED BY <1>5, <3>1, <3>2, <3>3
  <2>2. c \in Spawns /\ c \in At(Counted)
    BY <2>1 DEF Spawns, At, Counted, Unsubmitted
  <2>3. Spawns' \subseteq {c} /\ ~crowded
    BY <1>f, <2>1, <2>2
  <2>4. At({"create"})' = {}
    BY <1>d, <2>1, <2>3 DEF At
  <2>5. job' = job \/ job' = [job EXCEPT ![calls[c].agent] = "queued"]
    <3>1. CASE TakeExecutor(c) BY <3>1, TakeDoes
    <3>2. CASE Submit(c) BY <3>2, SubmitDoes
    <3>3. CASE Register(c) BY <3>3, RegisterDoes
    <3> QED BY <1>5, <3>1, <3>2, <3>3
  <2>6. calls[c].agent = counter
    BY <1>g, <2>2, <2>3
  <2>7. \A a \in Agents : a < counter => job'[a] = job[a]
    BY <1>a, <1>b, <2>5, <2>6 DEF Agents
  <2>8. Named'
    <3>1. \A a, b \in Agents : a < b /\ b <= counter => a < counter
      BY <1>a DEF Agents
    <3> QED BY <1>g, <2>1, <2>3, <2>7, <3>1
  <2>9. Turn' /\ Pool'
    <3>1. At(Counted)' \subseteq {c} /\ (c \in At(Counted)' => calls'[c].agent = calls[c].agent)
      BY <1>d, <2>1, <2>3 DEF At, Counted, Unsubmitted
    <3>2. Turn'
      BY <2>1, <2>3, <2>6, <3>1
    <3>3. Pool'
      BY <1>g, <2>1, <2>3, <2>4
    <3> QED BY <3>2, <3>3
  <2> QED BY <2>8, <2>9
<1>6. ASSUME QuietStep PROVE Turn' /\ Named' /\ Pool'
  <2>1. Quiet
    BY <1>6, QuietStepsAreQuiet
  <2>2. ~crowded /\ UNCHANGED <<counter, made, files, warned>>
    BY <2>1 DEF Quiet
  <2>3. /\ Spawns' = Spawns /\ At(Counted)' = At(Counted) /\ At({"create"})' = At({"create"})
        /\ \A c \in At(Counted) : calls'[c] = calls[c]
    <3>1. Counted \subseteq Busy /\ {"create"} \subseteq Busy
      BY DEF Busy, Counted, Unsubmitted
    <3> HIDE DEF Named, Pool, Turn
    <3> QED BY <1>d, <2>1, <3>1, QuietAt
  <2>4. Turn'
    BY <1>g, <2>2, <2>3
  <2>5. Named'
    <3>1. \A a \in Agents : job'[a] \in {"queued", "running"} => job[a] \in {"queued", "running"}
      BY <2>1 DEF Quiet
    <3> QED BY <1>g, <2>2, <3>1
  <2>6. /\ phase' = "turn" => phase = "turn" /\ executor' = executor
        /\ executor' = executor \/ executor' = 0
        /\ cancelled => cancelled'
    <3>1. CASE ShutdownExecutor
      BY <3>1, ShutdownDoes
    <3>2. CASE EndTurn
      BY <3>2, EndTurnDoes
    <3>3. CASE Return
      BY <3>3, OthersDo DEF pools
    <3>4. CASE Cancel
      BY <3>4, OthersDo DEF pools
    <3>5. ASSUME QuietStep, ~ShutdownExecutor, ~EndTurn, ~Return, ~Cancel
          PROVE  UNCHANGED <<phase, executor, cancelled>>
      <4> HIDE DEF Named, Pool, Turn
      <4> QED
        BY <3>5, AskPollDoes, PollReadDoes, AnswerDoes, WaitEndsDoes, StoreDoes, LookDoes,
           DrainGivesUpDoes, OthersDo DEF QuietStep, OnlyCalls, pools
    <3> QED BY <1>6, <3>1, <3>2, <3>3, <3>4, <3>5
  <2>7. Pool'
    BY <1>g, <2>2, <2>3, <2>6
  <2> QED BY <2>4, <2>5, <2>7
<1> HIDE DEF Named, Pool, Turn
<1> QED
  BY <1>1, <1>2, <1>3, <1>4, <1>5, <1>6, NextSplits, Zenon

LEMMA LoopNext == LoopInv /\ [Next]_vars => LoopInv'
<1> SUFFICES ASSUME LoopInv, [Next]_vars PROVE LoopInv'
  OBVIOUS
<1>1. CASE Next
  BY <1>1, LoopTypes, LoopNumbers, LoopSpawns, LoopJobs, LoopLooks, LoopResults, LoopDrains,
     LoopTurns, Zenon DEF LoopInv
<1>2. CASE UNCHANGED vars
  <2> USE <1>2 DEF vars, pools, jobs, table, outcome
  <2>a. TypeOK /\ NumbersLast /\ SpawnsApart /\ JobsKnown /\ LooksAreWhole
        /\ ResultsOnce /\ DrainIsWhole /\ SpawnsInTurn
    BY Zenon DEF LoopInv
  <2>b. \A P : At(P)' = At(P)
    BY DEF At
  <2>1. TypeOK'
    BY <2>a DEF TypeOK
  <2>2. NumbersLast'
    BY <2>a, <2>b DEF NumbersLast
  <2>3. SpawnsApart'
    BY <2>a, <2>b DEF SpawnsApart
  <2>4. JobsKnown'
    BY <2>a, <2>b DEF JobsKnown, Running
  <2>5. LooksAreWhole'
    BY <2>a DEF LooksAreWhole, Finished
  <2>6. ResultsOnce' /\ DrainIsWhole'
    BY <2>a DEF ResultsOnce, DrainIsWhole, Finished
  <2>7. SpawnsInTurn'
    BY <2>a, <2>b DEF SpawnsInTurn, Spawns
  <2> QED BY <2>1, <2>2, <2>3, <2>4, <2>5, <2>6, <2>7, Zenon DEF LoopInv
<1> QED BY <1>1, <1>2

\* What the invariant says of the sub-agents.
LEMMA LoopSafe == LoopInv => SpawnsAreKept
<1> SUFFICES ASSUME LoopInv PROVE SpawnsAreKept
  OBVIOUS
<1>1. CountedOnce
  BY DEF LoopInv, ResultsOnce, CountedOnce
<1>2. PollSeesFinished
  BY MainIsNoCaller DEF LoopInv, LooksAreWhole, PollSeesFinished
<1>3. NothingSpawnedIsLost
  BY DEF LoopInv, DrainIsWhole, NothingSpawnedIsLost
<1>4. ASSUME ~crowded PROVE OverlapIsWarned
  <2> SUFFICES ASSUME NEW a \in Agents, NEW b \in Agents, a # b, job[a] = "running",
                      job[b] = "running", files[a] \cap files[b] # {}
               PROVE  a \in warned[b] \/ b \in warned[a]
    BY DEF OverlapIsWarned
  <2>1. a <= counter /\ b <= counter
    BY DEF LoopInv, JobsKnown
  <2>2. a \in Int /\ b \in Int
    BY CountsAreNumbers DEF Agents
  <2>3. CASE a < b
    BY <1>4, <2>1, <2>3 DEF LoopInv, SpawnsInTurn
  <2>4. CASE b < a
    BY <1>4, <2>1, <2>4 DEF LoopInv, SpawnsInTurn
  <2> QED BY <2>2, <2>3, <2>4
<1>5. ASSUME ~crowded, ~cancelled PROVE SlotsRespected
  <2>1. made <= 1 /\ made \in Nat /\ MaxAgents \in Nat \ {0} /\ maxSubagents \in Nat
    BY <1>5, CountsAreNumbers, AgentsAssumption DEF LoopInv, SpawnsInTurn, SizeAssumption, TypeOK
  <2>2. \A a \in Agents : job[a] # "none" => home[a] = 1
    BY <2>1 DEF LoopInv, JobsKnown
  <2>3. {a \in Agents : job[a] = "running"} = Running(1)
    BY <2>2 DEF Running
  <2>4. 1 \in Executors
    BY <2>1 DEF Executors
  <2> QED BY <2>3, <2>4 DEF SlotsRespected, LoopInv, JobsKnown
<1> QED BY <1>1, <1>2, <1>3, <1>4, <1>5, Zenon DEF SpawnsAreKept

-----------------------------------------------------------------------------
(***************************************************************************)
(* Proofs: the lists of the registry                                       *)
(***************************************************************************)
Entry == [job : Commands, status : {"running", "killing"} \cup Final, full : BOOLEAN]

\* The registry's operators on sets and sequences are those of this module.
LEMMA SameOperators ==
  /\ \A S : Registry!IsFiniteSet(S) <=> IsFiniteSet(S)
  /\ \A S : Registry!Cardinality(S) = Cardinality(S)
  /\ \A s : Registry!ToSet(s) = ToSet(s)
  /\ \A s : Registry!IsInjective(s) <=> IsInjective(s)
<1>1. \A S : Registry!IsFiniteSet(S) <=> IsFiniteSet(S)
  BY DEF Registry!IsFiniteSet, IsFiniteSet
<1>2. \A S : Registry!Cardinality(S) = Cardinality(S)
  BY DEF Registry!Cardinality, Cardinality
<1>3. \A s : Registry!ToSet(s) = ToSet(s)
  BY DEF Registry!ToSet, ToSet
<1>4. \A s : Registry!IsInjective(s) <=> IsInjective(s)
  BY DEF Registry!IsInjective, IsInjective
<1> QED
  BY <1>1, <1>2, <1>3, <1>4

\* Without its element at i a sequence is that before and that after i.
LEMMA Removes ==
  ASSUME NEW S, NEW s \in Seq(S), NEW i \in DOMAIN s
  PROVE  /\ RemoveAt(s, i) \in Seq(S)
         /\ Len(RemoveAt(s, i)) = Len(s) - 1
         /\ \A k \in 1 .. Len(s) - 1 :
              RemoveAt(s, i)[k] = IF k < i THEN s[k] ELSE s[k + 1]
<1> DEFINE a == SubSeq(s, 1, i - 1)
           b == SubSeq(s, i + 1, Len(s))
<1>1. i \in 1 .. Len(s) /\ Len(s) \in Nat
  OBVIOUS
<1>2. \A k \in 1 .. Len(s) : s[k] \in S
  OBVIOUS
<1>3. /\ a \in Seq(S) /\ Len(a) = i - 1
      /\ \A k \in 1 .. i - 1 : a[k] = s[k]
  <2>1. \A k \in 1 .. i - 1 : s[k] \in S BY <1>1, <1>2
  <2> QED BY <1>1, <2>1, SubSeqProperties
<1>4. /\ b \in Seq(S) /\ Len(b) = Len(s) - i
      /\ \A k \in 1 .. Len(s) - i : b[k] = s[i + k]
  <2>1. \A k \in i + 1 .. Len(s) : s[k] \in S BY <1>1, <1>2
  <2>2. /\ b \in Seq(S) /\ Len(b) = IF i + 1 <= Len(s) THEN Len(s) - (i + 1) + 1 ELSE 0
        /\ \A k \in 1 .. Len(s) - (i + 1) + 1 : b[k] = s[i + 1 + k - 1]
    BY <1>1, <2>1, SubSeqProperties
  <2> QED BY <1>1, <2>2
<1> HIDE DEF a, b
<1>5. /\ a \o b \in Seq(S) /\ Len(a \o b) = Len(a) + Len(b)
      /\ \A k \in 1 .. Len(a) + Len(b) : (a \o b)[k] = IF k <= Len(a) THEN a[k] ELSE b[k - Len(a)]
  BY <1>3, <1>4, ConcatProperties
<1>6. RemoveAt(s, i) = a \o b
  BY DEF RemoveAt, a, b
<1>7. Len(a) + Len(b) = Len(s) - 1
  BY <1>1, <1>3, <1>4
<1>8. ASSUME NEW k \in 1 .. Len(s) - 1
      PROVE  (a \o b)[k] = IF k < i THEN s[k] ELSE s[k + 1]
  <2>1. k \in 1 .. Len(a) + Len(b) BY <1>7
  <2>2. (a \o b)[k] = IF k <= Len(a) THEN a[k] ELSE b[k - Len(a)] BY <1>5, <2>1
  <2>3. CASE k < i
    BY <1>1, <1>3, <2>2, <2>3
  <2>4. CASE ~(k < i)
    <3>1. k - (i - 1) \in 1 .. Len(s) - i /\ i + (k - (i - 1)) = k + 1 BY <1>1, <2>4
    <3>2. (a \o b)[k] = b[k - (i - 1)] BY <1>1, <1>3, <2>2, <2>4
    <3> QED BY <1>4, <2>4, <3>1, <3>2
  <2> QED BY <2>3, <2>4
<1> QED
  BY <1>5, <1>6, <1>7, <1>8

LEMMA Caps ==
  ASSUME NEW S, NEW s \in Seq(S), NEW cap \in Nat \ {0}, Len(s) <= cap + 1
  PROVE  LET c == Registry!Capped(s, cap)
         IN  /\ c \in Seq(S) /\ Len(c) <= cap
             /\ Len(s) <= cap => c = s
             /\ Len(s) = cap + 1 => /\ Len(c) = cap
                                    /\ \A k \in 1 .. cap : c[k] = s[k + 1]
<1>1. CASE Len(s) <= cap
  BY <1>1 DEF Registry!Capped
<1>2. CASE Len(s) = cap + 1
  <2>1. s # <<>> BY <1>2
  <2>2. Registry!Capped(s, cap) = Tail(s) BY <1>2 DEF Registry!Capped
  <2>3. /\ Tail(s) \in Seq(S) /\ Len(Tail(s)) = Len(s) - 1
        /\ \A k \in 1 .. Len(Tail(s)) : Tail(s)[k] = s[k + 1]
    BY <2>1, HeadTailProperties
  <2> QED BY <1>2, <2>2, <2>3
<1> QED BY <1>1, <1>2

\* A list with one element for each job of J has as many as J.
LEMMA OneEachCounts ==
  ASSUME NEW r \in Seq(Entry), OneEach(r)
  PROVE  IsFiniteSet(JobsIn(r)) /\ Cardinality(JobsIn(r)) = Len(r)
<1> DEFINE f == [i \in 1 .. Len(r) |-> r[i].job]
<1>1. f \in [1 .. Len(r) -> JobsIn(r)]
  BY DEF JobsIn
<1>2. f \in Bijection(1 .. Len(r), JobsIn(r))
  BY <1>1 DEF Bijection, Injection, Surjection, IsInjective, OneEach, JobsIn
<1>3. ExistsBijection(1 .. Len(r), JobsIn(r))
  BY <1>2 DEF ExistsBijection
<1>4. Len(r) \in Nat
  OBVIOUS
<1>5. Cardinality(JobsIn(r)) = Len(r)
  BY <1>3, <1>4, FS_CountingElements, Zenon
<1>6. IsFiniteSet(1 .. Len(r))
  BY <1>4, FS_Interval
<1>7. IsFiniteSet(JobsIn(r))
  BY <1>3, <1>6, FS_Bijection, Zenon
<1> QED
  BY <1>5, <1>7

\* Taking a job out of a list leaves the others.
LEMMA Unlists ==
  ASSUME NEW r \in Seq(Entry), OneEach(r), NEW j
  PROVE  LET u == Registry!Unlisted(r, j)
         IN  /\ u \in Seq(Entry) /\ Len(u) <= Len(r)
             /\ OneEach(u) /\ JobsIn(u) = JobsIn(r) \ {j}
             /\ \A k \in DOMAIN u : \E i \in DOMAIN r : u[k] = r[i]
<1> DEFINE u == Registry!Unlisted(r, j)
<1>1. CASE \A i \in DOMAIN r : r[i].job # j
  <2>1. u = r BY <1>1 DEF Registry!Unlisted
  <2> HIDE DEF u
  <2>2. j \notin JobsIn(r) BY <1>1 DEF JobsIn
  <2>3. JobsIn(r) = JobsIn(r) \ {j} BY <2>2
  <2>4. u \in Seq(Entry) /\ Len(u) <= Len(r) BY <2>1
  <2>5. OneEach(u) /\ JobsIn(u) = JobsIn(r) \ {j} BY <2>1, <2>3
  <2>6. \A k \in DOMAIN u : \E i \in DOMAIN r : u[k] = r[i] BY <2>1
  <2> QED BY <2>4, <2>5, <2>6 DEF u
<1>2. ASSUME NEW x \in DOMAIN r, r[x].job = j
      PROVE  LET v == Registry!Unlisted(r, j)
         IN  /\ v \in Seq(Entry) /\ Len(v) <= Len(r)
             /\ OneEach(v) /\ JobsIn(v) = JobsIn(r) \ {j}
             /\ \A k \in DOMAIN v : \E i \in DOMAIN r : v[k] = r[i]
  <2> DEFINE c == CHOOSE i \in DOMAIN r : r[i].job = j
  <2>1. c \in DOMAIN r /\ r[c].job = j BY <1>2
  <2>2. u = RemoveAt(r, c)
    <3>1. \E i \in DOMAIN r : r[i].job = j BY <1>2
    <3> HIDE DEF c
    <3>2. u = RemoveAt(r, CHOOSE i \in DOMAIN r : r[i].job = j) 
      BY <3>1, Zenon DEF Registry!Unlisted, Registry!RemoveAt, RemoveAt
    <3> QED BY <3>2 DEF c
  <2> HIDE DEF u, c
  <2>3. /\ u \in Seq(Entry) /\ Len(u) = Len(r) - 1
        /\ \A k \in 1 .. Len(r) - 1 : u[k] = IF k < c THEN r[k] ELSE r[k + 1]
    BY <2>1, <2>2, Removes
  <2>4. c \in 1 .. Len(r) /\ Len(r) \in Nat /\ DOMAIN r = 1 .. Len(r) /\ DOMAIN u = 1 .. Len(r) - 1
    BY <2>1, <2>3
  <2>5. \A k \in 1 .. Len(r) - 1 : (u[k] = r[k] /\ k < c) \/ (u[k] = r[k + 1] /\ k + 1 > c)
    BY <2>3, <2>4
  <2>6. OneEach(u)
    <3> SUFFICES ASSUME NEW k \in DOMAIN u, NEW l \in DOMAIN u, u[k].job = u[l].job PROVE k = l
      BY DEF OneEach
    <3>1. k \in 1 .. Len(r) - 1 /\ l \in 1 .. Len(r) - 1 BY <2>4
    <3>2. \A m, n \in 1 .. Len(r) : r[m].job = r[n].job => m = n BY <2>4 DEF OneEach
    <3>3. (u[k] = r[k] /\ k < c) \/ (u[k] = r[k + 1] /\ k + 1 > c) BY <2>5, <3>1
    <3>4. (u[l] = r[l] /\ l < c) \/ (u[l] = r[l + 1] /\ l + 1 > c) BY <2>5, <3>1
    <3>5. k \in 1 .. Len(r) /\ k + 1 \in 1 .. Len(r) /\ l \in 1 .. Len(r) /\ l + 1 \in 1 .. Len(r)
      BY <2>4, <3>1
    <3>6. c \in Int /\ k \in Int /\ l \in Int BY <2>4, <3>1
    <3>7. CASE u[k] = r[k] /\ k < c /\ u[l] = r[l] /\ l < c BY <3>2, <3>5, <3>7
    <3>8. CASE u[k] = r[k + 1] /\ k + 1 > c /\ u[l] = r[l] /\ l < c
      <4>1. k + 1 = l BY <3>2, <3>5, <3>8
      <4> QED BY <3>6, <3>8, <4>1
    <3>9. CASE u[k] = r[k] /\ k < c /\ u[l] = r[l + 1] /\ l + 1 > c
      <4>1. k = l + 1 BY <3>2, <3>5, <3>9
      <4> QED BY <3>6, <3>9, <4>1
    <3>10. CASE u[k] = r[k + 1] /\ k + 1 > c /\ u[l] = r[l + 1] /\ l + 1 > c
      <4>1. k + 1 = l + 1 BY <3>2, <3>5, <3>10
      <4> QED BY <3>6, <4>1
    <3> QED BY <3>3, <3>4, <3>7, <3>8, <3>9, <3>10
  <2>7. \A k \in DOMAIN u : \E i \in DOMAIN r : u[k] = r[i] /\ i # c
    <3> SUFFICES ASSUME NEW k \in 1 .. Len(r) - 1 PROVE \E i \in DOMAIN r : u[k] = r[i] /\ i # c
      BY <2>4
    <3>1. k \in DOMAIN r /\ k + 1 \in DOMAIN r BY <2>4
    <3> QED BY <2>4, <2>5, <3>1
  <2>8. \A i \in DOMAIN r : i # c => \E k \in DOMAIN u : u[k] = r[i]
    <3> SUFFICES ASSUME NEW i \in DOMAIN r, i # c PROVE \E k \in DOMAIN u : u[k] = r[i]
      OBVIOUS
    <3>1. CASE i < c
      <4>1. i \in DOMAIN u /\ u[i] = r[i] BY <2>3, <2>4, <3>1
      <4> QED BY <4>1
    <3>2. CASE i > c
      <4>1. i - 1 \in DOMAIN u /\ ~(i - 1 < c) /\ (i - 1) + 1 = i BY <2>4, <3>2
      <4>2. u[i - 1] = r[i] BY <2>3, <2>4, <4>1
      <4> QED BY <4>1, <4>2
    <3> QED BY <2>4, <3>1, <3>2
  <2>9. JobsIn(u) = JobsIn(r) \ {j}
    <3>1. JobsIn(u) \subseteq JobsIn(r) \ {j}
      BY <2>1, <2>7 DEF JobsIn, OneEach
    <3>2. JobsIn(r) \ {j} \subseteq JobsIn(u)
      <4> SUFFICES ASSUME NEW i \in DOMAIN r, r[i].job # j PROVE r[i].job \in JobsIn(u)
        BY DEF JobsIn
      <4>1. PICK k \in DOMAIN u : u[k] = r[i] BY <2>1, <2>8
      <4> QED BY <4>1 DEF JobsIn
    <3> QED BY <3>1, <3>2
  <2>10. Len(u) <= Len(r) BY <2>3
  <2>11. \A k \in DOMAIN u : \E i \in DOMAIN r : u[k] = r[i] BY <2>7
  <2> QED BY <2>3, <2>6, <2>9, <2>10, <2>11 DEF u
<1> QED
  BY <1>1, <1>2

\* Storing a result makes it the one of its job; if another is dropped for it,
\* the ring had one more than it can hold.
LEMMA Stores ==
  ASSUME NEW r \in Seq(Entry), OneEach(r), Len(r) <= RingCap, NEW e \in Entry
  PROVE  LET s == Registry!Stored(r, e)
         IN  /\ s \in Seq(Entry) /\ Len(s) <= RingCap /\ OneEach(s)
             /\ e.job \in JobsIn(s) /\ JobsIn(s) \subseteq JobsIn(r) \cup {e.job}
             /\ \A k \in DOMAIN s : s[k] = e \/ \E i \in DOMAIN r : s[k] = r[i]
             /\ \/ JobsIn(s) = JobsIn(r) \cup {e.job}
                \/ Cardinality(JobsIn(r) \cup {e.job}) = RingCap + 1
<1> DEFINE u == Registry!Unlisted(r, e.job)
           a == Append(u, e)
           s == Registry!Stored(r, e)
<1>1. /\ u \in Seq(Entry) /\ Len(u) <= Len(r)
      /\ OneEach(u) /\ JobsIn(u) = JobsIn(r) \ {e.job}
      /\ \A k \in DOMAIN u : \E i \in DOMAIN r : u[k] = r[i]
  BY Unlists
<1>2. s = Registry!Capped(a, RingCap)
  BY DEF Registry!Stored
<1> HIDE DEF u, s
<1>3. /\ a \in Seq(Entry) /\ Len(a) = Len(u) + 1 /\ a[Len(u) + 1] = e
      /\ \A k \in 1 .. Len(u) : a[k] = u[k]
  BY <1>1, AppendProperties
<1> HIDE DEF a
<1>4. /\ Len(u) \in Nat /\ Len(r) \in Nat /\ RingCap \in Nat \ {0} /\ DOMAIN u = 1 .. Len(u)
      /\ DOMAIN a = 1 .. Len(u) + 1
  BY <1>1, <1>3, AgentsAssumption DEF Registry!BoundsAssumption
<1>5. OneEach(a)
  <2>1. \A k \in 1 .. Len(u) : u[k].job # e.job
    BY <1>1, <1>4 DEF JobsIn
  <2>2. \A k, l \in 1 .. Len(u) : u[k].job = u[l].job => k = l
    BY <1>1, <1>4 DEF OneEach
  <2>3. \A k \in 1 .. Len(u) + 1 : k \in 1 .. Len(u) \/ k = Len(u) + 1
    BY <1>4
  <2> QED BY <1>3, <1>4, <2>1, <2>2, <2>3 DEF OneEach
<1>6. JobsIn(a) = JobsIn(r) \cup {e.job}
  <2>1. \A x : x \in JobsIn(a) => x \in JobsIn(r) \cup {e.job}
    <3> SUFFICES ASSUME NEW k \in 1 .. Len(u) + 1 PROVE a[k].job \in JobsIn(r) \cup {e.job}
      BY <1>4 DEF JobsIn
    <3>1. CASE k \in 1 .. Len(u)
      <4>1. a[k].job \in JobsIn(u) BY <1>3, <1>4, <3>1 DEF JobsIn
      <4> QED BY <1>1, <4>1
    <3>2. CASE k = Len(u) + 1 BY <1>3, <3>2
    <3> QED BY <1>4, <3>1, <3>2
  <2>2. e.job \in JobsIn(a)
    <3>1. Len(u) + 1 \in DOMAIN a BY <1>4
    <3> QED BY <1>3, <3>1 DEF JobsIn
  <2>3. JobsIn(u) \subseteq JobsIn(a)
    <3> SUFFICES ASSUME NEW k \in 1 .. Len(u) PROVE u[k].job \in JobsIn(a)
      BY <1>4 DEF JobsIn
    <3>1. k \in DOMAIN a BY <1>4
    <3> QED BY <1>3, <3>1 DEF JobsIn
  <2> QED BY <1>1, <2>1, <2>2, <2>3
<1>7. \A k \in DOMAIN a : a[k] = e \/ \E i \in DOMAIN r : a[k] = r[i]
  <2> SUFFICES ASSUME NEW k \in 1 .. Len(u) + 1 PROVE a[k] = e \/ \E i \in DOMAIN r : a[k] = r[i]
    BY <1>4
  <2>1. k \in 1 .. Len(u) \/ k = Len(u) + 1 BY <1>4
  <2> QED BY <1>1, <1>3, <1>4, <2>1
<1>8. Len(a) <= RingCap + 1
  BY <1>1, <1>3, <1>4
<1>9. /\ s \in Seq(Entry) /\ Len(s) <= RingCap
      /\ Len(a) <= RingCap => s = a
      /\ Len(a) = RingCap + 1 => /\ Len(s) = RingCap
                                 /\ \A k \in 1 .. RingCap : s[k] = a[k + 1]
  BY <1>2, <1>3, <1>4, <1>8, Caps
<1>10. CASE Len(a) <= RingCap
  <2>1. s = a BY <1>9, <1>10
  <2>2. e.job \in JobsIn(s) /\ JobsIn(s) = JobsIn(r) \cup {e.job} BY <1>6, <2>1
  <2>3. OneEach(s) /\ \A k \in DOMAIN s : s[k] = e \/ \E i \in DOMAIN r : s[k] = r[i]
    BY <1>5, <1>7, <2>1
  <2> QED BY <1>9, <2>2, <2>3 DEF s
<1>11. CASE Len(a) = RingCap + 1
  <2>1. Len(s) = RingCap /\ DOMAIN s = 1 .. RingCap /\ \A k \in 1 .. RingCap : s[k] = a[k + 1]
    BY <1>9, <1>11
  <2>2. DOMAIN a = 1 .. RingCap + 1 /\ \A k \in 1 .. RingCap : k + 1 \in DOMAIN a
    BY <1>3, <1>4, <1>11
  <2>3. OneEach(s)
    <3> SUFFICES ASSUME NEW k \in 1 .. RingCap, NEW l \in 1 .. RingCap, s[k].job = s[l].job PROVE k = l
      BY <2>1 DEF OneEach
    <3>1. k + 1 = l + 1 BY <1>5, <2>1, <2>2 DEF OneEach
    <3> QED BY <1>4, <3>1
  <2>4. e.job \in JobsIn(s)
    <3>1. RingCap \in DOMAIN s /\ s[RingCap] = e BY <1>3, <1>4, <1>11, <2>1
    <3> QED BY <3>1 DEF JobsIn
  <2>5. JobsIn(s) \subseteq JobsIn(a)
    BY <2>1, <2>2 DEF JobsIn
  <2>6. Cardinality(JobsIn(a)) = RingCap + 1
    BY <1>3, <1>5, <1>11, OneEachCounts
  <2>7. \A k \in DOMAIN s : s[k] = e \/ \E i \in DOMAIN r : s[k] = r[i]
    BY <1>7, <2>1, <2>2
  <2> QED BY <1>6, <1>9, <2>3, <2>4, <2>5, <2>6, <2>7 DEF s
<1> QED
  BY <1>4, <1>8, <1>10, <1>11, <1>3

\* The same of the stale jobs.
LEMMA Tracks ==
  ASSUME NEW s \in Seq(Commands), IsInjective(s), Len(s) <= MaxJobs,
         NEW j \in Commands, j \notin ToSet(s)
  PROVE  LET u == Registry!Track(s, j)
         IN  /\ u \in Seq(Commands) /\ IsInjective(u) /\ Len(u) <= MaxJobs
             /\ ToSet(u) \subseteq ToSet(s) \cup {j}
<1> DEFINE a == Append(s, j)
           u == Registry!Track(s, j)
<1>1. /\ a \in Seq(Commands) /\ Len(a) = Len(s) + 1 /\ a[Len(s) + 1] = j
      /\ \A k \in 1 .. Len(s) : a[k] = s[k]
  BY AppendProperties
<1>2. /\ Len(s) \in Nat /\ MaxJobs \in Nat \ {0} /\ DOMAIN s = 1 .. Len(s)
      /\ DOMAIN a = 1 .. Len(s) + 1
  BY <1>1, AgentsAssumption DEF Registry!BoundsAssumption
<1>3. u = Registry!Capped(a, MaxJobs)
  BY DEF Registry!Track
<1> HIDE DEF a, u
<1>4. \A k \in 1 .. Len(s) + 1 : k \in 1 .. Len(s) \/ k = Len(s) + 1
  BY <1>2
<1>5. \A k \in 1 .. Len(s) : s[k] \in ToSet(s)
  BY <1>2 DEF ToSet
<1>6. \A k, l \in DOMAIN a : a[k] = a[l] => k = l
  <2>1. \A k \in 1 .. Len(s) : s[k] # j BY <1>5
  <2>2. \A k, l \in 1 .. Len(s) : s[k] = s[l] => k = l BY <1>2 DEF IsInjective
  <2> QED BY <1>1, <1>2, <1>4, <2>1, <2>2
<1>7. \A k \in DOMAIN a : a[k] \in ToSet(s) \cup {j}
  BY <1>1, <1>2, <1>4, <1>5
<1>8. Len(a) <= MaxJobs + 1
  BY <1>1, <1>2
<1>9. /\ u \in Seq(Commands) /\ Len(u) <= MaxJobs
      /\ Len(a) <= MaxJobs => u = a
      /\ Len(a) = MaxJobs + 1 => /\ Len(u) = MaxJobs
                                 /\ \A k \in 1 .. MaxJobs : u[k] = a[k + 1]
  BY <1>1, <1>2, <1>3, <1>8, Caps
<1>10. CASE Len(a) <= MaxJobs
  <2>1. u = a BY <1>9, <1>10
  <2> QED BY <1>6, <1>7, <1>9, <2>1 DEF IsInjective, ToSet, u
<1>11. CASE Len(a) = MaxJobs + 1
  <2>1. DOMAIN u = 1 .. MaxJobs /\ \A k \in 1 .. MaxJobs : u[k] = a[k + 1] /\ k + 1 \in DOMAIN a
    BY <1>1, <1>2, <1>9, <1>11
  <2>2. IsInjective(u)
    <3> SUFFICES ASSUME NEW k \in 1 .. MaxJobs, NEW l \in 1 .. MaxJobs, u[k] = u[l] PROVE k = l
      BY <2>1 DEF IsInjective
    <3>1. k + 1 = l + 1 BY <1>6, <2>1
    <3> QED BY <1>2, <3>1
  <2>3. ToSet(u) \subseteq ToSet(s) \cup {j}
    BY <1>7, <2>1 DEF ToSet
  <2> QED BY <1>9, <2>2, <2>3 DEF u
<1> QED
  BY <1>1, <1>2, <1>8, <1>10, <1>11

LEMMA Untracks ==
  ASSUME NEW s \in Seq(Commands), IsInjective(s), NEW j \in ToSet(s)
  PROVE  LET u == Registry!Untrack(s, j)
         IN  /\ u \in Seq(Commands) /\ IsInjective(u) /\ Len(u) <= Len(s)
             /\ ToSet(u) \subseteq ToSet(s)
<1> DEFINE c == CHOOSE i \in DOMAIN s : s[i] = j
           u == Registry!Untrack(s, j)
<1>1. c \in DOMAIN s
  BY DEF ToSet
<1>2. u = RemoveAt(s, c)
  BY DEF Registry!Untrack, Registry!RemoveAt, RemoveAt
<1> HIDE DEF c, u
<1>3. /\ u \in Seq(Commands) /\ Len(u) = Len(s) - 1
      /\ \A k \in 1 .. Len(s) - 1 : u[k] = IF k < c THEN s[k] ELSE s[k + 1]
  BY <1>1, <1>2, Removes
<1>4. Len(s) \in Nat /\ DOMAIN s = 1 .. Len(s) /\ DOMAIN u = 1 .. Len(s) - 1 /\ c \in 1 .. Len(s)
  BY <1>1, <1>3
<1>5. \A k \in DOMAIN u : \E i \in DOMAIN s : u[k] = s[i]
  <2> SUFFICES ASSUME NEW k \in 1 .. Len(s) - 1 PROVE \E i \in DOMAIN s : u[k] = s[i]
    BY <1>4
  <2>1. k \in DOMAIN s /\ k + 1 \in DOMAIN s BY <1>4
  <2> QED BY <1>3, <2>1
<1>6. IsInjective(u)
  <2> SUFFICES ASSUME NEW k \in 1 .. Len(s) - 1, NEW l \in 1 .. Len(s) - 1, u[k] = u[l] PROVE k = l
    BY <1>4 DEF IsInjective
  <2>1. /\ (u[k] = s[k] /\ k < c) \/ (u[k] = s[k + 1] /\ ~(k < c))
        /\ (u[l] = s[l] /\ l < c) \/ (u[l] = s[l + 1] /\ ~(l < c))
    BY <1>3
  <2>2. \A x, y \in 1 .. Len(s) : s[x] = s[y] => x = y BY <1>4 DEF IsInjective
  <2> QED BY <1>4, <2>1, <2>2
<1>7. ToSet(u) \subseteq ToSet(s)
  BY <1>5 DEF ToSet
<1>8. Len(u) <= Len(s) BY <1>3, <1>4
<1> QED
  BY <1>3, <1>6, <1>7, <1>8 DEF u

-----------------------------------------------------------------------------
(***************************************************************************)
(* Proofs: the registry and its types                                      *)
(***************************************************************************)
Statuses == {"running", "killing"} \cup Final

\* The types, one part of the state at a time.
ProcessTypes ==
  /\ bjRc \in [Commands -> {"unborn", "alive"} \cup Registry!Ended]
  /\ bjWords \in [Commands -> {"unsaid", "pipe", "buffer"}]
  /\ bjStatus \in [Commands -> Statuses]
ToldTypes == bjTold \in [Commands -> BOOLEAN]
ListTypes ==
  /\ bjActive \subseteq Commands /\ IsFiniteSet(bjActive) /\ bjSince \in [Commands -> Nat]
  /\ bjStale \in Seq(Commands) /\ bjRing \in Seq(Entry)
CallerTypes ==
  /\ bjPc \in [Callers -> {"idle", "mark", "kill", "signal", "wait", "answer", "drain", "store"}]
  /\ bjJob \in [Callers -> Commands \cup {Nobody}]
  /\ bjGoal \in [Callers -> {"user", "evict"}]
  /\ \A t \in Callers : bjJob[t] = Nobody <=> bjPc[t] = "idle"
LockTypes ==
  /\ bjKiller \in [Commands -> Callers \cup {Nobody}]
  /\ bjMgr \in Callers \cup {Nobody, Reaper}
  /\ \A j \in Commands : bjKiller[j] # Nobody =>
        bjJob[bjKiller[j]] = j /\ bjPc[bjKiller[j]] \in {"signal", "wait"}
SweepTypes ==
  /\ bjSweep \in {"idle", "snapshot", "store", "settle", "converge"}
  /\ bjTodo \subseteq Commands
  /\ bjSeen \in {Registry!NoCheck} \cup [job : Commands, rc : {"alive"} \cup Registry!Ended]

LEMMA TypeParts ==
  Registry!TypeOK <=> /\ ProcessTypes /\ ToldTypes /\ ListTypes /\ CallerTypes /\ LockTypes
                      /\ SweepTypes
<1>1. /\ Registry!Final = Final /\ Statuses = {"running", "killing"} \cup Registry!Final
      /\ Entry = [job : Commands, status : {"running", "killing"} \cup Registry!Final,
                   full : BOOLEAN]
      /\ Registry!IsFiniteSet(bjActive) <=> IsFiniteSet(bjActive)
  BY SameOperators DEF Final, Statuses, Entry
<1>2. Registry!TypeOK => ProcessTypes
  BY <1>1, Zenon DEF Registry!TypeOK, ProcessTypes
<1>3. Registry!TypeOK => ToldTypes
  BY <1>1, Zenon DEF Registry!TypeOK, ToldTypes
<1>4. Registry!TypeOK => ListTypes
  BY <1>1, Zenon DEF Registry!TypeOK, ListTypes
<1>5. Registry!TypeOK => CallerTypes
  BY <1>1, Zenon DEF Registry!TypeOK, CallerTypes
<1>6. Registry!TypeOK => LockTypes
  BY <1>1, Zenon DEF Registry!TypeOK, LockTypes
<1>7. Registry!TypeOK => SweepTypes
  BY <1>1, Zenon DEF Registry!TypeOK, SweepTypes
<1>8. ASSUME ProcessTypes, ToldTypes, ListTypes, CallerTypes, LockTypes, SweepTypes
      PROVE  Registry!TypeOK
  BY <1>1, <1>8, Zenon DEF Registry!TypeOK, ProcessTypes, ToldTypes, ListTypes,
     CallerTypes, LockTypes, SweepTypes
<1> QED
  BY <1>2, <1>3, <1>4, <1>5, <1>6, <1>7, <1>8

\* What ended is polled as what it is, and anything else as what it was.
LEMMA Polls ==
  ASSUME Registry!TypeOK, NEW j \in Commands
  PROVE  /\ Registry!Polled(j) \in Statuses
         /\ \/ Registry!Polled(j) = bjStatus[j]
            \/ /\ bjRc[j] \in Registry!Ended /\ bjStatus[j] = "running"
               /\ Registry!Polled(j) \in Final
<1>1. bjStatus[j] \in Statuses /\ bjRc[j] \in {"unborn", "alive"} \cup Registry!Ended
  BY DEF Registry!TypeOK, Statuses, Final
<1>2. CASE bjKiller[j] # Nobody \/ bjStatus[j] # "running"
  <2>1. Registry!Polled(j) = bjStatus[j] BY <1>2 DEF Registry!Polled
  <2> QED BY <1>1, <2>1
<1>3. CASE bjKiller[j] = Nobody /\ bjStatus[j] = "running"
  <2>1. Registry!Polled(j) = CASE bjRc[j] \in {"unborn", "alive"} -> "running"
                               [] bjRc[j] = "zero" -> "completed"
                               [] OTHER -> "failed"
    BY <1>3 DEF Registry!Polled
  <2> QED BY <1>1, <1>3, <2>1 DEF Registry!Ended, Registry!Final, Final, Statuses
<1> QED
  BY <1>2, <1>3

LEMMA PollsAll ==
  ASSUME Registry!TypeOK, NEW js, Registry!PollAll(js)
  PROVE  /\ bjStatus' \in [Commands -> Statuses]
         /\ \A j \in Commands : bjStatus'[j] = IF j \in js THEN Registry!Polled(j) ELSE bjStatus[j]
<1>1. bjStatus' = [j \in Commands |-> IF j \in js THEN Registry!Polled(j) ELSE bjStatus[j]]
  BY DEF Registry!PollAll
<1>2. \A j \in Commands : Registry!Polled(j) \in Statuses
  BY Polls
<1>3. \A j \in Commands : bjStatus[j] \in Statuses
  BY DEF Registry!TypeOK, Statuses, Final
<1> QED
  BY <1>1, <1>2, <1>3

\* What is read of what a command printed.
LEMMA Says ==
  ASSUME Registry!TypeOK, NEW js, bjWords' = Registry!Said(js)
  PROVE  bjWords' \in [Commands -> {"unsaid", "pipe", "buffer"}]
BY DEF Registry!TypeOK, Registry!Said

LEMMA Snapshots ==
  ASSUME NEW j \in Commands, NEW s \in Statuses
  PROVE  /\ Registry!Snapshot(j, s) \in Entry
         /\ Registry!Snapshot(j, s).job = j /\ Registry!Snapshot(j, s).status = s
<1>1. (bjWords[j] = "buffer") \in BOOLEAN
  OBVIOUS
<1> QED
  BY <1>1 DEF Registry!Snapshot, Entry, Statuses

LEMMA RegistryInit == Registry!Init => RegistryInv
<1> SUFFICES ASSUME Registry!Init PROVE RegistryInv
  OBVIOUS
<1>1. ToldTypes
  BY Zenon DEF Registry!Init, ToldTypes
<1>2. IsFiniteSet({}) /\ Cardinality({}) = 0
  BY FS_EmptySet
<1> DEFINE Rest == /\ bjRc = [j \in Commands |-> "unborn"]
                   /\ bjWords = [j \in Commands |-> "unsaid"]
                   /\ bjStatus = [j \in Commands |-> "running"]
                   /\ bjKiller = [j \in Commands |-> Nobody]
                   /\ bjMgr = Nobody
                   /\ bjActive = {} /\ bjRing = <<>> /\ bjStale = <<>>
                   /\ bjSince = [j \in Commands |-> 0]
                   /\ bjPc = [t \in Callers |-> "idle"]
                   /\ bjJob = [t \in Callers |-> Nobody]
                   /\ bjGoal = [t \in Callers |-> "user"]
                   /\ bjSweep = "idle" /\ bjTodo = {} /\ bjSeen = Registry!NoCheck
<1>0. Rest
  BY Zenon DEF Registry!Init
<1>3. Registry!TypeOK
  <2>1. ProcessTypes BY <1>0 DEF ProcessTypes, Statuses
  <2>2. ListTypes BY <1>0, <1>2 DEF ListTypes
  <2>3. CallerTypes BY <1>0, AgentsAssumption DEF CallerTypes
  <2>4. LockTypes BY <1>0 DEF LockTypes
  <2>5. SweepTypes BY <1>0 DEF SweepTypes
  <2> QED BY <1>1, <2>1, <2>2, <2>3, <2>4, <2>5, TypeParts
<1> USE <1>0, AgentsAssumption DEF Registry!NamesAssumption, Registry!BoundsAssumption
<1>4. Registry!Born = {} /\ Registry!Over = {}
  BY DEF Registry!Born, Registry!Over
<1>5. InRing = {} /\ Stales = {}
  BY DEF InRing, JobsIn, Stales, ToSet
<1>6. StartedOnce /\ RoomInRing
  BY <1>2, <1>4, <1>5 DEF StartedOnce, RoomInRing
<1>7. OverIsTrue
  BY DEF OverIsTrue, Final, Registry!Final
<1>8. ListsAreSets
  BY <1>5 DEF ListsAreSets, OneEach, IsInjective
<1>9. CallersApart
  BY DEF CallersApart, CallerApart
<1>10. SweepInOrder
  BY <1>2, <1>4, <1>5 DEF SweepInOrder, Registry!NoCheck
<1> QED
  BY <1>3, <1>6, <1>7, <1>8, <1>9, <1>10 DEF RegistryInv

Parts == /\ ProcessTypes /\ ToldTypes /\ ListTypes /\ CallerTypes /\ LockTypes /\ SweepTypes

LEMMA TypeOKNext == Registry!TypeOK' <=> Parts'
<1>1. Registry!TypeOK <=> Parts
  BY TypeParts DEF Parts
<1> QED
  BY <1>1, PTL

-----------------------------------------------------------------------------
(***************************************************************************)
(* Proofs: what any step of the registry may do                            *)
(***************************************************************************)
\* A command starts in the registry, one at a time, and ends once.
ProcessMoves ==
  /\ \E x : Registry!Born' \subseteq Registry!Born \cup {x}
  /\ \A j \in Commands :
       \/ bjRc'[j] = bjRc[j]
       \/ bjRc[j] = "unborn" /\ bjRc'[j] = "alive" /\ j \in bjActive'
       \/ bjRc[j] = "alive" /\ bjRc'[j] \in Registry!Ended

\* A status is over only of a command that ended, and "killing" only of one that
\* leaves the registry.
StatusMoves ==
  \A j \in Commands : bjStatus'[j] # bjStatus[j] =>
    /\ bjRc[j] # "unborn"
    /\ bjStatus'[j] \in Final => bjRc[j] \in Registry!Ended
    /\ bjStatus'[j] = "killing" => j \notin bjActive'

\* One result is stored, of a command that is over or leaves the registry.
RingMoves ==
  \/ bjRing' = bjRing
  \/ \E e \in Entry :
       /\ bjRing' = Registry!Stored(bjRing, e)
       /\ e.job \in Registry!Over' /\ bjRc[e.job] # "unborn"
       /\ e.status \in Final => bjRc[e.job] \in Registry!Ended

\* What enters the registry has just started, what leaves it has ended or is in
\* the ring.
ActiveMoves ==
  \A j \in Commands :
    /\ j \in bjActive' \ bjActive => bjRc[j] = "unborn" /\ bjRc'[j] = "alive"
    /\ j \in bjActive \ bjActive' => bjRc'[j] # "alive" \/ j \in InRing'

\* One command becomes stale, or is no more.
StaleMoves ==
  \/ bjStale' = bjStale
  \/ \E j \in Commands :
       /\ bjRc[j] # "unborn" /\ j \notin bjActive \cup Stales
       /\ bjStale' = Registry!Track(bjStale, j)
  \/ \E j \in Stales : bjStale' = Registry!Untrack(bjStale, j)

Moves == ProcessMoves /\ StatusMoves /\ RingMoves /\ ActiveMoves /\ StaleMoves

\* What is known of the ring after a step.
LEMMA RingAfter ==
  ASSUME RegistryInv, RingMoves
  PROVE  /\ Len(bjRing') <= RingCap /\ OneEach(bjRing')
         /\ \A j \in InRing' : j \in InRing \/ (j \in Registry!Over' /\ bjRc[j] # "unborn")
         /\ \A i \in DOMAIN bjRing' :
              \/ \E k \in DOMAIN bjRing : bjRing'[i] = bjRing[k]
              \/ bjRing'[i].status \in Final => bjRc[bjRing'[i].job] \in Registry!Ended
         /\ \/ InRing \subseteq InRing'
            \/ \E j \in Registry!Over' : Cardinality(InRing \cup {j}) = RingCap + 1
<1>1. bjRing \in Seq(Entry) /\ OneEach(bjRing) /\ Len(bjRing) <= RingCap
  BY TypeParts DEF RegistryInv, ListTypes, ListsAreSets
<1>2. CASE bjRing' = bjRing
  BY <1>1, <1>2 DEF InRing
<1>3. ASSUME NEW e \in Entry, bjRing' = Registry!Stored(bjRing, e),
             e.job \in Registry!Over', bjRc[e.job] # "unborn",
             e.status \in Final => bjRc[e.job] \in Registry!Ended
      PROVE  /\ Len(bjRing') <= RingCap /\ OneEach(bjRing')
             /\ \A j \in InRing' : j \in InRing \/ (j \in Registry!Over' /\ bjRc[j] # "unborn")
             /\ \A i \in DOMAIN bjRing' :
                  \/ \E k \in DOMAIN bjRing : bjRing'[i] = bjRing[k]
                  \/ bjRing'[i].status \in Final => bjRc[bjRing'[i].job] \in Registry!Ended
             /\ \/ InRing \subseteq InRing'
                \/ \E j \in Registry!Over' : Cardinality(InRing \cup {j}) = RingCap + 1
  <2>1. LET s == Registry!Stored(bjRing, e)
        IN  /\ s \in Seq(Entry) /\ Len(s) <= RingCap /\ OneEach(s)
            /\ e.job \in JobsIn(s) /\ JobsIn(s) \subseteq JobsIn(bjRing) \cup {e.job}
            /\ \A k \in DOMAIN s : s[k] = e \/ \E i \in DOMAIN bjRing : s[k] = bjRing[i]
            /\ \/ JobsIn(s) = JobsIn(bjRing) \cup {e.job}
               \/ Cardinality(JobsIn(bjRing) \cup {e.job}) = RingCap + 1
    BY <1>1, Stores
  <2>2. /\ Len(bjRing') <= RingCap /\ OneEach(bjRing')
        /\ e.job \in InRing' /\ InRing' \subseteq InRing \cup {e.job}
        /\ \A k \in DOMAIN bjRing' : bjRing'[k] = e \/ \E i \in DOMAIN bjRing : bjRing'[k] = bjRing[i]
        /\ \/ InRing' = InRing \cup {e.job}
           \/ Cardinality(InRing \cup {e.job}) = RingCap + 1
    BY <1>3, <2>1 DEF InRing
  <2> QED BY <1>3, <2>2
<1> QED
  BY <1>2, <1>3 DEF RingMoves

LEMMA OverGrows ==
  ASSUME RegistryInv, ProcessMoves, ActiveMoves
  PROVE  /\ Registry!Over \subseteq Registry!Over' /\ Registry!Born \subseteq Registry!Born'
         /\ IsFiniteSet(Registry!Born') /\ IsFiniteSet(Registry!Over')
<1> USE TypeParts DEF RegistryInv, ProcessTypes, ListTypes
<1>1. Registry!Born \subseteq Registry!Born'
  BY DEF Registry!Born, ProcessMoves, Registry!Ended
<1>2. Registry!Over \subseteq Registry!Over'
  BY <1>1 DEF Registry!Over, Registry!Born, ProcessMoves, ActiveMoves, Registry!Ended
<1>3. PICK x : Registry!Born' \subseteq Registry!Born \cup {x}
  BY DEF ProcessMoves
<1>4. IsFiniteSet(Registry!Born \cup {x})
  BY FS_AddElement DEF StartedOnce
<1>5. IsFiniteSet(Registry!Born')
  BY <1>3, <1>4, FS_Subset
<1>6. Registry!Over' \subseteq Registry!Born'
  BY DEF Registry!Over
<1>7. IsFiniteSet(Registry!Over')
  BY <1>5, <1>6, FS_Subset
<1> QED
  BY <1>1, <1>2, <1>5, <1>7

LEMMA MovesKeep ==
  ASSUME RegistryInv, Moves, Parts'
  PROVE  StartedOnce' /\ OverIsTrue' /\ ListsAreSets' /\ RoomInRing'
<1>1. /\ ProcessTypes /\ ListTypes /\ StartedOnce /\ OverIsTrue /\ ListsAreSets /\ RoomInRing
  BY TypeParts DEF RegistryInv
<1>2. ProcessMoves /\ StatusMoves /\ ActiveMoves /\ StaleMoves /\ RingMoves
  BY DEF Moves
<1>3. ProcessTypes' /\ ListTypes'
  BY DEF Parts
<1>4. /\ Len(bjRing') <= RingCap /\ OneEach(bjRing')
      /\ \A j \in InRing' : j \in InRing \/ (j \in Registry!Over' /\ bjRc[j] # "unborn")
      /\ \A i \in DOMAIN bjRing' :
           \/ \E k \in DOMAIN bjRing : bjRing'[i] = bjRing[k]
           \/ bjRing'[i].status \in Final => bjRc[bjRing'[i].job] \in Registry!Ended
      /\ \/ InRing \subseteq InRing'
         \/ \E j \in Registry!Over' : Cardinality(InRing \cup {j}) = RingCap + 1
  BY <1>2, RingAfter
<1>5. /\ Registry!Over \subseteq Registry!Over' /\ Registry!Born \subseteq Registry!Born'
      /\ IsFiniteSet(Registry!Born') /\ IsFiniteSet(Registry!Over')
  BY <1>2, OverGrows
<1>6. /\ bjStale' \in Seq(Commands) /\ IsInjective(bjStale') /\ Len(bjStale') <= MaxJobs
      /\ \A j \in Stales' : j \in Stales \/ (bjRc[j] # "unborn" /\ j \notin bjActive)
  <2>1. bjStale \in Seq(Commands) /\ IsInjective(bjStale) /\ Len(bjStale) <= MaxJobs
    BY <1>1 DEF ListTypes, ListsAreSets
  <2>2. CASE bjStale' = bjStale
    BY <2>1, <2>2 DEF Stales
  <2>3. ASSUME NEW j \in Commands, bjRc[j] # "unborn", j \notin bjActive \cup Stales,
               bjStale' = Registry!Track(bjStale, j)
        PROVE  /\ bjStale' \in Seq(Commands) /\ IsInjective(bjStale') /\ Len(bjStale') <= MaxJobs
               /\ \A k \in Stales' : k \in Stales \/ (bjRc[k] # "unborn" /\ k \notin bjActive)
    <3>1. j \notin ToSet(bjStale) BY <2>3 DEF Stales
    <3>2. /\ bjStale' \in Seq(Commands) /\ IsInjective(bjStale') /\ Len(bjStale') <= MaxJobs
          /\ ToSet(bjStale') \subseteq ToSet(bjStale) \cup {j}
      BY <2>1, <2>3, <3>1, Tracks
    <3> QED BY <2>3, <3>2 DEF Stales
  <2>4. ASSUME NEW j \in Stales, bjStale' = Registry!Untrack(bjStale, j)
        PROVE  /\ bjStale' \in Seq(Commands) /\ IsInjective(bjStale') /\ Len(bjStale') <= MaxJobs
               /\ \A k \in Stales' : k \in Stales \/ (bjRc[k] # "unborn" /\ k \notin bjActive)
    <3>1. j \in ToSet(bjStale) BY DEF Stales
    <3>2. /\ bjStale' \in Seq(Commands) /\ IsInjective(bjStale') /\ Len(bjStale') <= Len(bjStale)
          /\ ToSet(bjStale') \subseteq ToSet(bjStale)
      BY <2>1, <2>4, <3>1, Untracks
    <3>3. Len(bjStale') \in Nat /\ Len(bjStale) \in Nat /\ MaxJobs \in Nat
      BY <2>1, <3>2, AgentsAssumption DEF Registry!BoundsAssumption
    <3>4. Len(bjStale') <= MaxJobs BY <2>1, <3>2, <3>3
    <3> QED BY <3>2, <3>4 DEF Stales
  <2> QED BY <1>2, <2>2, <2>3, <2>4 DEF StaleMoves
<1>7. StartedOnce'
  <2> SUFFICES ASSUME NEW j \in Commands, bjRc'[j] = "unborn"
               PROVE  bjStatus'[j] = "running" /\ j \notin bjActive' \cup InRing' \cup Stales'
    BY <1>5 DEF StartedOnce
  <2>1. bjRc[j] = "unborn"
    BY <1>2 DEF ProcessMoves, Registry!Ended
  <2>2. bjStatus[j] = "running" /\ j \notin bjActive /\ j \notin InRing /\ j \notin Stales
    BY <1>1, <2>1 DEF StartedOnce
  <2>3. bjStatus'[j] = "running" BY <1>2, <2>1, <2>2 DEF StatusMoves
  <2>4. j \notin bjActive' BY <1>2, <2>2 DEF ActiveMoves
  <2>5. j \notin InRing' BY <1>4, <2>1, <2>2
  <2>6. j \notin Stales' BY <1>6, <2>1, <2>2
  <2> QED BY <2>3, <2>4, <2>5, <2>6
<1>8. OverIsTrue'
  <2>1. \A j \in Commands : bjRc[j] \in Registry!Ended => bjRc'[j] \in Registry!Ended
    BY <1>2 DEF ProcessMoves, Registry!Ended
  <2>2. \A j \in Commands : bjStatus'[j] \in Final => bjRc'[j] \in Registry!Ended
    BY <1>1, <1>2, <2>1 DEF StatusMoves, OverIsTrue
  <2>3. ASSUME NEW i \in DOMAIN bjRing' PROVE bjRing'[i].job \in Commands
    <3>1. bjRing'[i] \in Entry BY <1>3 DEF ListTypes
    <3> QED BY <3>1 DEF Entry
  <2>4. ASSUME NEW i \in DOMAIN bjRing', bjRing'[i].status \in Final
        PROVE  bjRc[bjRing'[i].job] \in Registry!Ended
    BY <1>1, <1>4, <2>4 DEF OverIsTrue
  <2>5. ASSUME NEW j \in bjActive' PROVE bjStatus'[j] # "killing"
    <3>1. j \in Commands BY <1>3 DEF ListTypes
    <3>2. CASE j \in bjActive BY <1>1, <1>2, <3>1, <3>2 DEF OverIsTrue, StatusMoves
    <3>3. CASE j \notin bjActive
      <4>1. bjStatus[j] = "running" BY <1>1, <1>2, <3>1, <3>3 DEF ActiveMoves, StartedOnce
      <4> QED BY <1>2, <3>1, <4>1 DEF StatusMoves
    <3> QED BY <3>2, <3>3
  <2> QED BY <2>1, <2>2, <2>3, <2>4, <2>5 DEF OverIsTrue
<1>9. ListsAreSets'
  <2>1. bjActive' \cap Stales' = {}
    <3> SUFFICES ASSUME NEW j \in bjActive', j \in Stales' PROVE FALSE
      OBVIOUS
    <3>1. j \in Commands BY <1>3 DEF ListTypes
    <3>2. j \in bjActive \/ bjRc[j] = "unborn" BY <1>2, <3>1 DEF ActiveMoves
    <3> QED BY <1>1, <1>6, <3>1, <3>2 DEF ListsAreSets, StartedOnce
  <2> QED BY <1>4, <1>6, <2>1 DEF ListsAreSets
<1>10. RoomInRing'
  <2>1. InRing' \subseteq Registry!Over' BY <1>1, <1>4, <1>5 DEF RoomInRing
  <2>2. ASSUME Cardinality(Registry!Over') <= RingCap, NEW j \in Commands, bjRc'[j] = "alive"
        PROVE  j \in bjActive' \cup InRing'
    <3>1. /\ IsFiniteSet(Registry!Over) /\ Cardinality(Registry!Over) \in Nat
          /\ Cardinality(Registry!Over') \in Nat
          /\ Cardinality(Registry!Over) <= Cardinality(Registry!Over')
      BY <1>5, FS_Subset, FS_CardinalityType
    <3>2. RingCap \in Nat BY AgentsAssumption DEF Registry!BoundsAssumption
    <3>3. Cardinality(Registry!Over) <= RingCap BY <2>2, <3>1, <3>2
    <3>4. InRing \subseteq InRing'
      <4> SUFFICES ASSUME NEW x \in Registry!Over', Cardinality(InRing \cup {x}) = RingCap + 1
                   PROVE  FALSE
        BY <1>4
      <4>1. InRing \cup {x} \subseteq Registry!Over' BY <1>1, <1>5 DEF RoomInRing
      <4>2. Cardinality(InRing \cup {x}) <= Cardinality(Registry!Over')
        BY <1>5, <4>1, FS_Subset
      <4> QED BY <2>2, <3>1, <3>2, <4>2
    <3>5. CASE bjRc[j] = "alive"
      BY <1>1, <1>2, <2>2, <3>3, <3>4, <3>5 DEF RoomInRing, ActiveMoves
    <3>6. CASE bjRc[j] # "alive"
      BY <1>2, <2>2, <3>6 DEF ProcessMoves, Registry!Ended
    <3> QED BY <3>5, <3>6
  <2>3. Cardinality(Registry!Over') <= RingCap =>
          \A j \in Commands : bjRc'[j] = "alive" => j \in bjActive' \cup InRing'
    BY <2>2
  <2> QED BY <2>1, <2>3 DEF RoomInRing
<1> QED
  BY <1>7, <1>8, <1>9, <1>10

\* What was started stays so.
LEMMA BornStays ==
  ASSUME RegistryInv, ProcessMoves, NEW j \in Commands, bjRc[j] # "unborn"
  PROVE  bjRc'[j] # "unborn"
BY DEF ProcessMoves, Registry!Ended

\* A caller that stays where it is keeps its place.
LEMMA CallerStays ==
  ASSUME RegistryInv, Moves, Parts', NEW c \in Callers,
         bjPc'[c] = bjPc[c], bjJob'[c] = bjJob[c], bjGoal'[c] = bjGoal[c],
         bjGoal[c] = "evict" => bjJob[c] \notin Stales' \ Stales,
         \/ bjMgr' = bjMgr /\ bjActive \subseteq bjActive'
         \/ bjMgr # c /\ bjMgr' # c
  PROVE  CallerApart(c)'
<1>1. CallerTypes /\ CallersApart
  BY TypeParts DEF RegistryInv
<1>2. CallerApart(c)
  BY <1>1 DEF CallersApart
<1>3. ProcessMoves /\ ActiveMoves
  BY DEF Moves
<1>4. bjPc[c] # "idle" => bjJob[c] \in Commands
  BY <1>1 DEF CallerTypes
<1>5. bjPc[c] # "idle" => bjRc'[bjJob[c]] # "unborn"
  BY <1>2, <1>3, <1>4, BornStays DEF CallerApart
<1>6. bjPc[c] = "mark" => bjJob[c] \in bjActive'
  BY <1>2 DEF CallerApart
<1>7. bjGoal[c] = "evict" => bjJob[c] \notin bjActive'
  BY <1>2, <1>3, <1>4 DEF CallerApart, ActiveMoves
<1>8. bjPc[c] = "mark" <=> bjMgr' = c
  BY <1>2 DEF CallerApart
<1>9. bjGoal[c] = "evict" =>
        /\ bjPc[c] \in {"kill", "signal", "wait", "drain", "store"}
        /\ bjJob[c] \notin Stales'
  BY <1>2 DEF CallerApart
<1>10. bjPc[c] \in {"drain", "store"} => bjGoal[c] = "evict"
  BY <1>2 DEF CallerApart
<1> QED
  BY <1>5, <1>6, <1>7, <1>8, <1>9, <1>10 DEF CallerApart

LEMMA CallersStay ==
  ASSUME RegistryInv, Moves, Parts', UNCHANGED <<bjPc, bjJob, bjGoal>>,
         Stales' \subseteq Stales,
         \/ bjMgr' = bjMgr /\ bjActive \subseteq bjActive'
         \/ bjMgr \notin Callers /\ bjMgr' \notin Callers
  PROVE  CallersApart'
<1>1. ASSUME NEW c \in Callers PROVE CallerApart(c)'
  <2>1. /\ bjPc'[c] = bjPc[c] /\ bjJob'[c] = bjJob[c] /\ bjGoal'[c] = bjGoal[c]
        /\ bjGoal[c] = "evict" => bjJob[c] \notin Stales' \ Stales
        /\ \/ bjMgr' = bjMgr /\ bjActive \subseteq bjActive'
           \/ bjMgr # c /\ bjMgr' # c
    OBVIOUS
  <2> QED BY <2>1, CallerStays
<1>2. \A c, d \in Callers :
        bjGoal[c] = "evict" /\ bjGoal[d] = "evict" /\ bjJob[c] = bjJob[d] => c = d
  BY DEF RegistryInv, CallersApart
<1> QED
  BY <1>1, <1>2 DEF CallersApart

\* One caller moves.
LEMMA OneCallerMoves ==
  ASSUME RegistryInv, Moves, Parts', NEW t \in Callers,
         \A c \in Callers \ {t} :
           /\ bjPc'[c] = bjPc[c] /\ bjJob'[c] = bjJob[c] /\ bjGoal'[c] = bjGoal[c]
           /\ bjGoal[c] = "evict" => bjJob[c] \notin Stales' \ Stales
           /\ bjGoal[c] = "evict" /\ bjGoal'[t] = "evict" => bjJob'[t] # bjJob[c]
           /\ \/ bjMgr' = bjMgr /\ bjActive \subseteq bjActive'
              \/ bjMgr # c /\ bjMgr' # c,
         CallerApart(t)'
  PROVE  CallersApart'
<1>1. ASSUME NEW c \in Callers PROVE CallerApart(c)'
  <2>1. CASE c = t BY <2>1
  <2>2. CASE c # t
    <3>1. /\ bjPc'[c] = bjPc[c] /\ bjJob'[c] = bjJob[c] /\ bjGoal'[c] = bjGoal[c]
          /\ bjGoal[c] = "evict" => bjJob[c] \notin Stales' \ Stales
          /\ \/ bjMgr' = bjMgr /\ bjActive \subseteq bjActive'
             \/ bjMgr # c /\ bjMgr' # c
      BY <2>2
    <3> QED BY <3>1, CallerStays
  <2> QED BY <2>1, <2>2
<1>2. ASSUME NEW c \in Callers, NEW d \in Callers,
             bjGoal'[c] = "evict", bjGoal'[d] = "evict", bjJob'[c] = bjJob'[d]
      PROVE  c = d
  BY <1>2 DEF RegistryInv, CallersApart
<1>3. \A c, d \in Callers :
        bjGoal'[c] = "evict" /\ bjGoal'[d] = "evict" /\ bjJob'[c] = bjJob'[d] => c = d
  BY <1>2
<1> QED
  BY <1>1, <1>3 DEF CallersApart

\* A step outside the sweep leaves it in order.
LEMMA SweepStays ==
  ASSUME RegistryInv, Moves, Parts', UNCHANGED <<bjSweep, bjTodo, bjSeen>>,
         bjMgr' = Reaper <=> bjMgr = Reaper,
         bjSweep = "store" =>
           /\ bjActive' = bjActive /\ bjRing' = bjRing
           /\ \A j \in Commands : bjStatus[j] \in Final => bjStatus'[j] \in Final,
         bjSweep # "store" => bjActive' \cap InRing' = {},
         Cardinality(bjActive') <= MaxJobs + 1,
         bjMgr' \notin Callers => Cardinality(bjActive') <= MaxJobs
  PROVE  SweepInOrder'
<1>1. SweepInOrder /\ SweepTypes /\ ListTypes /\ ProcessTypes
  BY TypeParts DEF RegistryInv
<1>2. ProcessMoves /\ ActiveMoves
  BY DEF Moves
<1>3. Registry!Born \subseteq Registry!Born'
  BY <1>2, OverGrows
<1>4. bjTodo \cup {bjSeen.job} \subseteq Registry!Born' \cup {Nobody}
  BY <1>1, <1>3 DEF SweepInOrder
<1>5. bjSeen # Registry!NoCheck => bjRc'[bjSeen.job] = bjSeen.rc \/ bjSeen.rc = "alive"
  <2>1. bjSeen # Registry!NoCheck => bjSeen.job \in Commands /\ bjSeen.rc \in {"alive"} \cup Registry!Ended
    BY <1>1 DEF SweepTypes
  <2> QED BY <1>1, <1>2, <2>1 DEF SweepInOrder, ProcessMoves, Registry!Ended
<1>6. ASSUME bjSweep = "store"
      PROVE  /\ bjTodo \subseteq bjActive'
             /\ \A j \in bjActive' \cap InRing' : j \notin bjTodo /\ bjStatus'[j] \in Final
  <2>1. InRing' = InRing BY <1>6 DEF InRing
  <2>2. bjActive \subseteq Commands BY <1>1 DEF ListTypes
  <2> QED BY <1>1, <1>6, <2>1, <2>2 DEF SweepInOrder
<1>7. /\ bjSweep' = bjSweep /\ bjTodo' = bjTodo /\ bjSeen' = bjSeen /\ Registry!NoCheck' = Registry!NoCheck
      /\ (bjMgr = Reaper <=> bjSweep = "store")
  BY <1>1 DEF SweepInOrder, Registry!NoCheck
<1> QED
  BY <1>4, <1>5, <1>6, <1>7 DEF SweepInOrder

\* A step that leaves the lists, the manager's lock and the sweep alone.
LEMMA CalmKeeps ==
  ASSUME RegistryInv, Parts', ProcessMoves, StatusMoves,
         UNCHANGED <<bjActive, bjRing, bjStale, bjMgr, bjSweep, bjTodo, bjSeen>>,
         bjSweep = "store" => \A j \in Commands : bjStatus[j] \in Final => bjStatus'[j] \in Final,
         CallersApart'
  PROVE  RegistryInv'
<1>1. Moves
  BY DEF Moves, RingMoves, ActiveMoves, StaleMoves
<1>2. SweepInOrder
  BY DEF RegistryInv
<1>3. bjSweep # "store" => bjActive' \cap InRing' = {}
  BY <1>2 DEF SweepInOrder, InRing
<1>4. /\ Cardinality(bjActive') <= MaxJobs + 1
      /\ bjMgr' \notin Callers => Cardinality(bjActive') <= MaxJobs
      /\ bjSweep = "store" => bjActive' = bjActive /\ bjRing' = bjRing
      /\ (bjMgr' = Reaper <=> bjMgr = Reaper)
  BY <1>2 DEF SweepInOrder
<1>5. SweepInOrder'
  BY <1>1, <1>3, <1>4, SweepStays
<1> QED
  BY <1>1, <1>5, MovesKeep, TypeOKNext DEF RegistryInv

-----------------------------------------------------------------------------
(***************************************************************************)
(* Proofs: the steps of the registry                                       *)
(***************************************************************************)
LEMMA InvParts ==
  ASSUME RegistryInv
  PROVE  /\ ProcessTypes /\ ToldTypes /\ ListTypes /\ CallerTypes /\ LockTypes /\ SweepTypes
         /\ StartedOnce /\ OverIsTrue /\ ListsAreSets /\ RoomInRing /\ CallersApart /\ SweepInOrder
BY TypeParts DEF RegistryInv

\* The process ends.
LEMMA DieKeeps ==
  ASSUME RegistryInv, NEW j \in Commands, Registry!Die(j)
  PROVE  RegistryInv'
<1>1. /\ ProcessTypes /\ ToldTypes /\ ListTypes /\ CallerTypes /\ LockTypes /\ SweepTypes
      /\ SweepInOrder
  BY InvParts
<1>2. PICK r \in Exits \cup {"signal"} : bjRc[j] = "alive" /\ bjRc' = [bjRc EXCEPT ![j] = r]
  BY DEF Registry!Die
<1>3. /\ bjWords' = [bjWords EXCEPT ![j] = "pipe"]
      /\ UNCHANGED <<bjStatus, bjKiller, bjMgr, bjActive, bjSince, bjRing, bjStale, bjPc, bjJob,
                     bjGoal, bjSweep, bjTodo, bjSeen>>
  BY DEF Registry!Die, Registry!registry, Registry!caller, Registry!reap
<1>4. ToldTypes'
  BY <1>1, Zenon DEF Registry!Die, ToldTypes
<1>5. r \in Registry!Ended
  BY AgentsAssumption DEF Registry!ExitsAssumption, Registry!Ended
<1>6. ProcessTypes'
  BY <1>1, <1>2, <1>3, <1>5 DEF ProcessTypes
<1>7. Parts'
  BY <1>1, <1>3, <1>4, <1>6 DEF Parts, ListTypes, CallerTypes, LockTypes, SweepTypes
<1>8. /\ bjRc'[j] \in Registry!Ended
      /\ \A k \in Commands \ {j} : bjRc'[k] = bjRc[k]
  BY <1>1, <1>2, <1>5 DEF ProcessTypes
<1>9. ProcessMoves
  <2>1. Registry!Born' \subseteq Registry!Born \cup {j} BY <1>8 DEF Registry!Born
  <2> QED BY <1>2, <1>8, <2>1 DEF ProcessMoves
<1>10. StatusMoves
  BY <1>3 DEF StatusMoves
<1>11. Moves
  BY <1>3, <1>9, <1>10 DEF Moves, RingMoves, ActiveMoves, StaleMoves
<1>12. CallersApart'
  BY <1>3, <1>7, <1>11, CallersStay DEF Stales
<1> QED
  BY <1>3, <1>7, <1>9, <1>10, <1>12, CalmKeeps

\* A status is polled, or is what the process made it.
LEMMA PollMoves ==
  ASSUME RegistryInv, NEW js, Registry!PollAll(js)
  PROVE  /\ bjStatus' \in [Commands -> Statuses]
         /\ StatusMoves
         /\ \A j \in Commands : bjStatus[j] \in Final => bjStatus'[j] \in Final
<1>1. Registry!TypeOK
  BY DEF RegistryInv
<1>2. /\ bjStatus' \in [Commands -> Statuses]
      /\ \A j \in Commands : bjStatus'[j] = IF j \in js THEN Registry!Polled(j) ELSE bjStatus[j]
  BY <1>1, PollsAll
<1>3. ASSUME NEW j \in Commands, bjStatus'[j] # bjStatus[j]
      PROVE  bjRc[j] \in Registry!Ended /\ bjStatus[j] = "running" /\ bjStatus'[j] \in Final
  BY <1>1, <1>2, <1>3, Polls
<1>4. StatusMoves
  BY <1>3 DEF StatusMoves, Registry!Ended, Final, Registry!Final
<1>5. ASSUME NEW j \in Commands, bjStatus[j] \in Final PROVE bjStatus'[j] \in Final
  BY <1>3, <1>5
<1> QED
  BY <1>2, <1>4, <1>5

\* The process moves no further.
LEMMA NothingEnds ==
  ASSUME UNCHANGED bjRc
  PROVE  ProcessMoves
BY DEF ProcessMoves, Registry!Born

LEMMA LookKeeps ==
  ASSUME RegistryInv, NEW j \in Commands, Registry!Look(j)
  PROVE  RegistryInv'
<1>1. /\ ProcessTypes /\ ToldTypes /\ ListTypes /\ CallerTypes /\ LockTypes /\ SweepTypes
      /\ Registry!TypeOK
  BY InvParts DEF RegistryInv
<1>2. /\ bjStatus' = [bjStatus EXCEPT ![j] = Registry!Polled(j)]
      /\ bjWords' = Registry!Said({j})
      /\ UNCHANGED <<bjRc, bjKiller, bjMgr, bjActive, bjSince, bjRing, bjStale, bjPc, bjJob,
                     bjGoal, bjSweep, bjTodo, bjSeen>>
  BY DEF Registry!Look, Registry!registry, Registry!caller, Registry!reap
<1>3. ToldTypes'
  BY <1>1, Zenon DEF Registry!Look, ToldTypes
<1>4. Registry!PollAll({j})
  <2>1. bjStatus' = [k \in Commands |-> IF k \in {j} THEN Registry!Polled(k) ELSE bjStatus[k]]
    BY <1>1, <1>2 DEF ProcessTypes
  <2> QED BY <2>1 DEF Registry!PollAll
<1>5. /\ bjStatus' \in [Commands -> Statuses] /\ StatusMoves
      /\ \A k \in Commands : bjStatus[k] \in Final => bjStatus'[k] \in Final
  BY <1>4, PollMoves
<1>6. bjWords' \in [Commands -> {"unsaid", "pipe", "buffer"}]
  BY <1>1, <1>2, Says
<1>7. Parts'
  BY <1>1, <1>2, <1>3, <1>5, <1>6
     DEF Parts, ProcessTypes, ListTypes, CallerTypes, LockTypes, SweepTypes
<1>8. ProcessMoves
  BY <1>2, NothingEnds
<1>9. Moves
  BY <1>2, <1>5, <1>8 DEF Moves, RingMoves, ActiveMoves, StaleMoves
<1>10. CallersApart'
  BY <1>2, <1>7, <1>9, CallersStay DEF Stales
<1> QED
  BY <1>2, <1>5, <1>7, <1>8, <1>10, CalmKeeps

\* A caller that touches no list.
LEMMA CallKeeps ==
  ASSUME RegistryInv, NEW t \in Callers,
         UNCHANGED <<bjRc, bjActive, bjSince, bjRing, bjStale, bjMgr, bjSweep, bjTodo, bjSeen>>,
         bjWords' \in [Commands -> {"unsaid", "pipe", "buffer"}],
         bjStatus' \in [Commands -> Statuses],
         ToldTypes', CallerTypes', LockTypes', StatusMoves,
         bjSweep = "store" => \A j \in Commands : bjStatus[j] \in Final => bjStatus'[j] \in Final,
         \A c \in Callers \ {t} : bjPc'[c] = bjPc[c] /\ bjJob'[c] = bjJob[c] /\ bjGoal'[c] = bjGoal[c],
         bjGoal'[t] = "evict" => bjGoal[t] = "evict" /\ bjJob'[t] = bjJob[t],
         CallerApart(t)'
  PROVE  RegistryInv'
<1>1. /\ ProcessTypes /\ ListTypes /\ SweepTypes /\ CallersApart
  BY InvParts
<1>2. Parts'
  BY <1>1 DEF Parts, ProcessTypes, ListTypes, SweepTypes
<1>3. ProcessMoves
  BY NothingEnds
<1>4. Moves
  BY <1>3 DEF Moves, RingMoves, ActiveMoves, StaleMoves
<1>5. \A c \in Callers \ {t} :
        /\ bjPc'[c] = bjPc[c] /\ bjJob'[c] = bjJob[c] /\ bjGoal'[c] = bjGoal[c]
        /\ bjGoal[c] = "evict" => bjJob[c] \notin Stales' \ Stales
        /\ bjGoal[c] = "evict" /\ bjGoal'[t] = "evict" => bjJob'[t] # bjJob[c]
        /\ \/ bjMgr' = bjMgr /\ bjActive \subseteq bjActive'
           \/ bjMgr # c /\ bjMgr' # c
  BY <1>1 DEF CallersApart, Stales
<1>6. CallersApart'
  BY <1>2, <1>4, <1>5, OneCallerMoves
<1> QED
  BY <1>2, <1>3, <1>6, CalmKeeps

\* A user's kill begins with a command in the registry.
LEMMA AskKillKeeps ==
  ASSUME RegistryInv, NEW t \in Callers, NEW j \in Commands, Registry!AskKill(t, j)
  PROVE  RegistryInv'
<1>1. /\ ProcessTypes /\ ToldTypes /\ ListTypes /\ CallerTypes /\ LockTypes /\ SweepTypes
      /\ CallersApart /\ StartedOnce
  BY InvParts
<1>2. /\ bjPc[t] = "idle" /\ bjMgr = Nobody /\ j \in bjActive
      /\ bjPc' = [bjPc EXCEPT ![t] = "kill"]
      /\ bjJob' = [bjJob EXCEPT ![t] = j]
      /\ bjGoal' = [bjGoal EXCEPT ![t] = "user"]
      /\ UNCHANGED <<bjRc, bjWords, bjStatus, bjKiller, bjMgr, bjActive, bjSince, bjRing, bjStale,
                     bjSweep, bjTodo, bjSeen>>
  BY DEF Registry!AskKill, Registry!registry, Registry!process, Registry!reap
<1>3. ToldTypes'
  BY <1>1, Zenon DEF Registry!AskKill, Registry!process, ToldTypes
<1>4. Nobody \notin Commands \cup Callers
  BY AgentsAssumption DEF Registry!NamesAssumption
<1>5. CallerTypes'
  BY <1>1, <1>2, <1>4 DEF CallerTypes
<1>6. LockTypes'
  BY <1>1, <1>2, <1>4 DEF LockTypes, CallerTypes
<1>7. CallerApart(t)'
  <2>1. bjRc[j] # "unborn" BY <1>1, <1>2 DEF StartedOnce
  <2>2. bjPc'[t] = "kill" /\ bjJob'[t] = j /\ bjGoal'[t] = "user"
    BY <1>1, <1>2 DEF CallerTypes
  <2> QED BY <1>2, <1>4, <2>1, <2>2 DEF CallerApart
<1>8. \A c \in Callers \ {t} : bjPc'[c] = bjPc[c] /\ bjJob'[c] = bjJob[c] /\ bjGoal'[c] = bjGoal[c]
  BY <1>1, <1>2 DEF CallerTypes
<1>9. /\ bjWords' \in [Commands -> {"unsaid", "pipe", "buffer"}]
      /\ bjStatus' \in [Commands -> Statuses] /\ StatusMoves
      /\ bjGoal'[t] = "user"
  BY <1>1, <1>2 DEF ProcessTypes, CallerTypes, StatusMoves
<1> QED
  BY <1>2, <1>3, <1>5, <1>6, <1>7, <1>8, <1>9, CallKeeps

\* A caller at work has a command that was started, and is no idle one.
LEMMA AtWork ==
  ASSUME RegistryInv, NEW t \in Callers, bjPc[t] # "idle"
  PROVE  bjJob[t] \in Commands /\ bjRc[bjJob[t]] \in {"alive"} \cup Registry!Ended
<1>1. CallerTypes /\ CallersApart /\ ProcessTypes
  BY InvParts
<1>2. bjJob[t] \in Commands
  BY <1>1 DEF CallerTypes
<1> QED
  BY <1>1, <1>2 DEF CallersApart, CallerApart, ProcessTypes

\* A caller that goes on from pc to next with the same command.
LEMMA GoesOn ==
  ASSUME RegistryInv, NEW t \in Callers, bjPc[t] \in {"kill", "signal", "wait", "drain"},
         NEW next \in {"signal", "wait", "answer", "drain", "store"},
         bjPc' = [bjPc EXCEPT ![t] = next],
         UNCHANGED <<bjRc, bjActive, bjStale, bjMgr, bjJob, bjGoal>>,
         next = "answer" => bjGoal[t] = "user",
         next \in {"drain", "store"} => bjGoal[t] = "evict"
  PROVE  /\ CallerTypes' /\ CallerApart(t)'
         /\ \A c \in Callers \ {t} :
              bjPc'[c] = bjPc[c] /\ bjJob'[c] = bjJob[c] /\ bjGoal'[c] = bjGoal[c]
         /\ bjGoal'[t] = "evict" => bjGoal[t] = "evict" /\ bjJob'[t] = bjJob[t]
<1>1. CallerTypes /\ CallersApart
  BY InvParts
<1>2. bjPc'[t] = next /\ \A c \in Callers \ {t} : bjPc'[c] = bjPc[c]
  BY <1>1 DEF CallerTypes
<1>3. CallerTypes'
  BY <1>1, <1>2 DEF CallerTypes
<1>4. CallerApart(t)
  BY <1>1 DEF CallersApart
<1>5. CallerApart(t)'
  BY <1>2, <1>4 DEF CallerApart, Stales
<1> QED
  BY <1>2, <1>3, <1>5

\* The lock of a command that a caller takes, keeps or gives back.
LEMMA LockTaken ==
  ASSUME RegistryInv, CallerTypes', NEW t \in Callers, bjPc[t] # "idle",
         UNCHANGED <<bjMgr, bjJob>>,
         \A c \in Callers \ {t} : bjPc'[c] = bjPc[c],
         \/ bjKiller' = [bjKiller EXCEPT ![bjJob[t]] = Nobody]
         \/ bjKiller' = [bjKiller EXCEPT ![bjJob[t]] = t] /\ bjPc'[t] \in {"signal", "wait"}
         \/ bjKiller' = bjKiller /\ bjPc'[t] \in {"signal", "wait"}
         \/ bjKiller' = bjKiller /\ bjPc[t] \notin {"signal", "wait"}
  PROVE  LockTypes'
<1>1. LockTypes /\ bjJob[t] \in Commands
  BY InvParts, AtWork
<1>2. bjKiller' \in [Commands -> Callers \cup {Nobody}]
  BY <1>1 DEF LockTypes
<1>3. ASSUME NEW j \in Commands, bjKiller'[j] # Nobody
      PROVE  bjJob'[bjKiller'[j]] = j /\ bjPc'[bjKiller'[j]] \in {"signal", "wait"}
  <2>1. CASE j = bjJob[t]
    BY <1>1, <1>3, <2>1 DEF LockTypes
  <2>2. CASE j # bjJob[t]
    <3>1. bjKiller'[j] = bjKiller[j] BY <1>1, <2>2 DEF LockTypes
    <3>2. bjKiller[j] \in Callers /\ bjJob[bjKiller[j]] = j /\ bjPc[bjKiller[j]] \in {"signal", "wait"}
      BY <1>1, <1>3, <3>1 DEF LockTypes
    <3>3. bjKiller[j] # t BY <2>2, <3>2
    <3> QED BY <3>1, <3>2, <3>3
  <2> QED BY <2>1, <2>2
<1> QED
  BY <1>1, <1>2, <1>3 DEF LockTypes

\* The status of a command becomes what its process has become.
LEMMA StatusBecomes ==
  ASSUME RegistryInv, NEW j \in Commands, bjRc[j] # "unborn",
         NEW s \in {"running"} \cup Final, bjStatus' = [bjStatus EXCEPT ![j] = s],
         s \in Final <=> bjRc[j] \in Registry!Ended
  PROVE  /\ bjStatus' \in [Commands -> Statuses] /\ StatusMoves
         /\ \A k \in Commands : bjStatus[k] \in Final => bjStatus'[k] \in Final
<1>1. ProcessTypes /\ OverIsTrue
  BY InvParts
<1>2. bjStatus'[j] = s /\ \A k \in Commands \ {j} : bjStatus'[k] = bjStatus[k]
  BY <1>1 DEF ProcessTypes
<1>3. bjStatus' \in [Commands -> Statuses]
  BY <1>1 DEF ProcessTypes, Statuses
<1>4. StatusMoves
  BY <1>2 DEF StatusMoves, Final, Registry!Final
<1>5. \A k \in Commands : bjStatus[k] \in Final => bjStatus'[k] \in Final
  BY <1>1, <1>2 DEF OverIsTrue
<1> QED
  BY <1>3, <1>4, <1>5

LEMMA Settles ==
  ASSUME NEW r \in {"alive"} \cup Registry!Ended
  PROVE  /\ Registry!Settled(r) \in {"running"} \cup Final
         /\ Registry!Settled(r) \in Final <=> r \in Registry!Ended
BY DEF Registry!Settled, Registry!Ended, Final, Registry!Final

\* Where a kill leads.
LEMMA AfterKills ==
  ASSUME RegistryInv, NEW t \in Callers
  PROVE  /\ Registry!AfterKill(t) \in {"answer", "drain"}
         /\ Registry!AfterKill(t) = "answer" => bjGoal[t] = "user"
         /\ Registry!AfterKill(t) = "drain" => bjGoal[t] = "evict"
<1>1. CallerTypes
  BY InvParts
<1> QED
  BY <1>1 DEF Registry!AfterKill, CallerTypes

\* job.kill finds the command over, or takes its lock.
LEMMA KillBeginsKeeps ==
  ASSUME RegistryInv, NEW t \in Callers, Registry!KillBegins(t)
  PROVE  RegistryInv'
<1> DEFINE j == bjJob[t]
<1>1. /\ ProcessTypes /\ ToldTypes /\ CallerTypes /\ OverIsTrue
  BY InvParts
<1>2. /\ bjPc[t] = "kill" /\ bjKiller[j] = Nobody
      /\ UNCHANGED <<bjRc, bjWords, bjMgr, bjActive, bjSince, bjRing, bjStale, bjJob, bjGoal,
                     bjSweep, bjTodo, bjSeen>>
  BY DEF Registry!KillBegins, Registry!process, Registry!registry, Registry!reap
<1>3. j \in Commands /\ bjRc[j] \in {"alive"} \cup Registry!Ended
  BY <1>2, AtWork
<1>4. ToldTypes'
  BY <1>1, Zenon DEF Registry!KillBegins, Registry!process, ToldTypes
<1>5. bjWords' \in [Commands -> {"unsaid", "pipe", "buffer"}]
  BY <1>1, <1>2 DEF ProcessTypes
<1>6. CASE bjStatus[j] \in Final \/ bjRc[j] # "alive"
  <2>1. /\ bjPc' = [bjPc EXCEPT ![t] = Registry!AfterKill(t)]
        /\ bjKiller' = [bjKiller EXCEPT ![j] = Nobody]
        /\ bjStatus' = [bjStatus EXCEPT ![j] =
              IF bjStatus[j] \in Final THEN bjStatus[j]
              ELSE IF bjRc[j] = "zero" THEN "completed" ELSE "failed"]
    BY <1>1, <1>3, <1>6 DEF Registry!KillBegins, Registry!KillReturns, Final, ProcessTypes
  <2>2. bjRc[j] \in Registry!Ended
    BY <1>1, <1>3, <1>6 DEF OverIsTrue
  <2>3. PICK s \in Final : bjStatus' = [bjStatus EXCEPT ![j] = s]
    BY <2>1 DEF Final, Registry!Final
  <2>4. /\ bjStatus' \in [Commands -> Statuses] /\ StatusMoves
        /\ \A k \in Commands : bjStatus[k] \in Final => bjStatus'[k] \in Final
    BY <1>3, <2>2, <2>3, StatusBecomes DEF Registry!Ended
  <2>5. /\ CallerTypes' /\ CallerApart(t)'
        /\ \A c \in Callers \ {t} :
             bjPc'[c] = bjPc[c] /\ bjJob'[c] = bjJob[c] /\ bjGoal'[c] = bjGoal[c]
        /\ bjGoal'[t] = "evict" => bjGoal[t] = "evict" /\ bjJob'[t] = bjJob[t]
    BY <1>2, <2>1, AfterKills, GoesOn
  <2>6. LockTypes'
    BY <1>2, <2>1, <2>5, LockTaken
  <2> QED BY <1>2, <1>4, <1>5, <2>4, <2>5, <2>6, CallKeeps
<1>7. CASE ~(bjStatus[j] \in Final \/ bjRc[j] # "alive")
  <2>1. /\ bjPc' = [bjPc EXCEPT ![t] = "signal"]
        /\ bjKiller' = [bjKiller EXCEPT ![j] = t]
        /\ bjStatus' = bjStatus
    BY <1>7 DEF Registry!KillBegins, Final
  <2>2. /\ bjStatus' \in [Commands -> Statuses] /\ StatusMoves
        /\ \A k \in Commands : bjStatus[k] \in Final => bjStatus'[k] \in Final
    BY <1>1, <2>1 DEF ProcessTypes, StatusMoves
  <2>3. /\ CallerTypes' /\ CallerApart(t)'
        /\ \A c \in Callers \ {t} :
             bjPc'[c] = bjPc[c] /\ bjJob'[c] = bjJob[c] /\ bjGoal'[c] = bjGoal[c]
        /\ bjGoal'[t] = "evict" => bjGoal[t] = "evict" /\ bjJob'[t] = bjJob[t]
    BY <1>2, <2>1, GoesOn
  <2>4. bjPc'[t] = "signal"
    BY <1>1, <2>1 DEF CallerTypes
  <2>5. LockTypes'
    BY <1>2, <2>1, <2>3, <2>4, LockTaken
  <2> QED BY <1>2, <1>4, <1>5, <2>2, <2>3, <2>5, CallKeeps
<1> QED
  BY <1>6, <1>7

\* The signal is sent, or finds nothing to send it to.
LEMMA SignalKeeps ==
  ASSUME RegistryInv, NEW t \in Callers, Registry!Signal(t)
  PROVE  RegistryInv'
<1> DEFINE j == bjJob[t]
<1>1. /\ ProcessTypes /\ ToldTypes /\ CallerTypes
  BY InvParts
<1>2. /\ bjPc[t] = "signal"
      /\ \/ /\ bjPc' = [bjPc EXCEPT ![t] = "wait"]
            /\ UNCHANGED <<bjStatus, bjKiller>>
         \/ /\ bjRc[j] # "alive"
            /\ bjStatus' = [bjStatus EXCEPT ![j] = Registry!Settled(bjRc[j])]
            /\ bjPc' = [bjPc EXCEPT ![t] = Registry!AfterKill(t)]
            /\ bjKiller' = [bjKiller EXCEPT ![j] = Nobody]
      /\ UNCHANGED <<bjRc, bjWords, bjMgr, bjActive, bjSince, bjRing, bjStale, bjJob, bjGoal,
                     bjSweep, bjTodo, bjSeen>>
  BY DEF Registry!Signal, Registry!KillReturns, Registry!registry, Registry!reap
<1>3. j \in Commands /\ bjRc[j] \in {"alive"} \cup Registry!Ended
  BY <1>2, AtWork
<1>4. ToldTypes'
  <2>1. bjTold' = [bjTold EXCEPT ![j] = @ \/ bjRc[j] = "alive"]
    BY Zenon DEF Registry!Signal
  <2> QED BY <1>1, <2>1, Zenon DEF ToldTypes
<1>5. bjWords' \in [Commands -> {"unsaid", "pipe", "buffer"}]
  BY <1>1, <1>2 DEF ProcessTypes
<1>6. CASE bjPc' = [bjPc EXCEPT ![t] = "wait"] /\ UNCHANGED <<bjStatus, bjKiller>>
  <2>1. /\ bjStatus' \in [Commands -> Statuses] /\ StatusMoves
        /\ \A k \in Commands : bjStatus[k] \in Final => bjStatus'[k] \in Final
    BY <1>1, <1>6 DEF ProcessTypes, StatusMoves
  <2>2. /\ CallerTypes' /\ CallerApart(t)'
        /\ \A c \in Callers \ {t} :
             bjPc'[c] = bjPc[c] /\ bjJob'[c] = bjJob[c] /\ bjGoal'[c] = bjGoal[c]
        /\ bjGoal'[t] = "evict" => bjGoal[t] = "evict" /\ bjJob'[t] = bjJob[t]
    BY <1>2, <1>6, GoesOn
  <2>3. bjPc'[t] = "wait"
    BY <1>1, <1>6 DEF CallerTypes
  <2>4. LockTypes'
    BY <1>2, <1>6, <2>2, <2>3, LockTaken
  <2> QED BY <1>2, <1>4, <1>5, <2>1, <2>2, <2>4, CallKeeps
<1>7. CASE /\ bjRc[j] # "alive"
           /\ bjStatus' = [bjStatus EXCEPT ![j] = Registry!Settled(bjRc[j])]
           /\ bjPc' = [bjPc EXCEPT ![t] = Registry!AfterKill(t)]
           /\ bjKiller' = [bjKiller EXCEPT ![j] = Nobody]
  <2>1. /\ bjStatus' \in [Commands -> Statuses] /\ StatusMoves
        /\ \A k \in Commands : bjStatus[k] \in Final => bjStatus'[k] \in Final
    BY <1>3, <1>7, Settles, StatusBecomes DEF Registry!Ended
  <2>2. /\ CallerTypes' /\ CallerApart(t)'
        /\ \A c \in Callers \ {t} :
             bjPc'[c] = bjPc[c] /\ bjJob'[c] = bjJob[c] /\ bjGoal'[c] = bjGoal[c]
        /\ bjGoal'[t] = "evict" => bjGoal[t] = "evict" /\ bjJob'[t] = bjJob[t]
    BY <1>2, <1>7, AfterKills, GoesOn
  <2>3. LockTypes'
    BY <1>2, <1>7, <2>2, LockTaken
  <2> QED BY <1>2, <1>4, <1>5, <2>1, <2>2, <2>3, CallKeeps
<1> QED
  BY <1>2, <1>6, <1>7

\* The kill is waited for.
LEMMA WaitedKeeps ==
  ASSUME RegistryInv, NEW t \in Callers, Registry!Waited(t)
  PROVE  RegistryInv'
<1> DEFINE j == bjJob[t]
<1>1. /\ ProcessTypes /\ ToldTypes /\ CallerTypes
  BY InvParts
<1>2. /\ bjPc[t] = "wait"
      /\ \/ /\ bjRc[j] # "alive"
            /\ bjStatus' = [bjStatus EXCEPT ![j] = "killed"]
         \/ bjStatus' = [bjStatus EXCEPT ![j] = Registry!Settled(bjRc[j])]
      /\ bjPc' = [bjPc EXCEPT ![t] = Registry!AfterKill(t)]
      /\ bjKiller' = [bjKiller EXCEPT ![j] = Nobody]
      /\ UNCHANGED <<bjRc, bjWords, bjMgr, bjActive, bjSince, bjRing, bjStale, bjJob, bjGoal,
                     bjSweep, bjTodo, bjSeen>>
  BY DEF Registry!Waited, Registry!AfterTimeout, Registry!KillReturns, Registry!process,
         Registry!registry, Registry!reap
<1>3. j \in Commands /\ bjRc[j] \in {"alive"} \cup Registry!Ended
  BY <1>2, AtWork
<1>4. ToldTypes'
  BY <1>1, Zenon DEF Registry!Waited, Registry!process, ToldTypes
<1>5. bjWords' \in [Commands -> {"unsaid", "pipe", "buffer"}]
  BY <1>1, <1>2 DEF ProcessTypes
<1>6. PICK s \in {"running"} \cup Final :
        /\ bjStatus' = [bjStatus EXCEPT ![j] = s]
        /\ s \in Final <=> bjRc[j] \in Registry!Ended
  <2>1. CASE bjRc[j] # "alive" /\ bjStatus' = [bjStatus EXCEPT ![j] = "killed"]
    BY <1>3, <2>1 DEF Final, Registry!Final
  <2>2. CASE bjStatus' = [bjStatus EXCEPT ![j] = Registry!Settled(bjRc[j])]
    BY <1>3, <2>2, Settles
  <2> QED BY <1>2, <2>1, <2>2
<1>7. /\ bjStatus' \in [Commands -> Statuses] /\ StatusMoves
      /\ \A k \in Commands : bjStatus[k] \in Final => bjStatus'[k] \in Final
  BY <1>3, <1>6, StatusBecomes DEF Registry!Ended
<1>8. /\ CallerTypes' /\ CallerApart(t)'
      /\ \A c \in Callers \ {t} :
           bjPc'[c] = bjPc[c] /\ bjJob'[c] = bjJob[c] /\ bjGoal'[c] = bjGoal[c]
      /\ bjGoal'[t] = "evict" => bjGoal[t] = "evict" /\ bjJob'[t] = bjJob[t]
  BY <1>2, AfterKills, GoesOn
<1>9. LockTypes'
  BY <1>2, <1>8, LockTaken
<1> QED
  BY <1>2, <1>4, <1>5, <1>7, <1>8, <1>9, CallKeeps

\* start reads what its victim printed.
LEMMA DrainVictimKeeps ==
  ASSUME RegistryInv, NEW t \in Callers, Registry!DrainVictim(t)
  PROVE  RegistryInv'
<1>1. /\ ProcessTypes /\ ToldTypes /\ CallerTypes /\ CallersApart /\ Registry!TypeOK
  BY InvParts DEF RegistryInv
<1>2. /\ bjPc[t] = "drain" /\ bjPc' = [bjPc EXCEPT ![t] = "store"]
      /\ bjWords' = Registry!Said({bjJob[t]})
      /\ UNCHANGED <<bjRc, bjStatus, bjKiller, bjMgr, bjActive, bjSince, bjRing, bjStale, bjJob,
                     bjGoal, bjSweep, bjTodo, bjSeen>>
  BY DEF Registry!DrainVictim, Registry!registry, Registry!reap
<1>3. ToldTypes'
  BY <1>1, Zenon DEF Registry!DrainVictim, ToldTypes
<1>4. bjWords' \in [Commands -> {"unsaid", "pipe", "buffer"}]
  BY <1>1, <1>2, Says
<1>5. /\ bjStatus' \in [Commands -> Statuses] /\ StatusMoves
      /\ \A k \in Commands : bjStatus[k] \in Final => bjStatus'[k] \in Final
  BY <1>1, <1>2 DEF ProcessTypes, StatusMoves
<1>6. bjGoal[t] = "evict"
  BY <1>1, <1>2 DEF CallersApart, CallerApart
<1>7. /\ CallerTypes' /\ CallerApart(t)'
      /\ \A c \in Callers \ {t} :
           bjPc'[c] = bjPc[c] /\ bjJob'[c] = bjJob[c] /\ bjGoal'[c] = bjGoal[c]
      /\ bjGoal'[t] = "evict" => bjGoal[t] = "evict" /\ bjJob'[t] = bjJob[t]
  BY <1>2, <1>6, GoesOn
<1>8. LockTypes'
  BY <1>2, <1>7, LockTaken
<1> QED
  BY <1>2, <1>3, <1>4, <1>5, <1>7, <1>8, CallKeeps

\* A caller that goes idle.
LEMMA GoesIdle ==
  ASSUME RegistryInv, NEW t \in Callers, Registry!Idle(t), bjPc[t] \in {"answer", "store"},
         UNCHANGED <<bjKiller, bjMgr>>
  PROVE  /\ CallerTypes' /\ LockTypes'
         /\ \A c \in Callers \ {t} :
              bjPc'[c] = bjPc[c] /\ bjJob'[c] = bjJob[c] /\ bjGoal'[c] = bjGoal[c]
         /\ bjPc'[t] = "idle" /\ bjGoal'[t] = "user"
<1>1. CallerTypes /\ LockTypes
  BY InvParts
<1>2. /\ bjPc' = [bjPc EXCEPT ![t] = "idle"]
      /\ bjJob' = [bjJob EXCEPT ![t] = Nobody]
      /\ bjGoal' = [bjGoal EXCEPT ![t] = "user"]
  BY DEF Registry!Idle
<1>3. Nobody \notin Commands
  BY AgentsAssumption DEF Registry!NamesAssumption
<1>4. /\ \A c \in Callers \ {t} :
           bjPc'[c] = bjPc[c] /\ bjJob'[c] = bjJob[c] /\ bjGoal'[c] = bjGoal[c]
      /\ bjPc'[t] = "idle" /\ bjGoal'[t] = "user" /\ bjJob'[t] = Nobody
  BY <1>1, <1>2 DEF CallerTypes
<1>5. CallerTypes'
  BY <1>1, <1>2, <1>3, <1>4 DEF CallerTypes
<1>6. \A j \in Commands : bjKiller[j] # Nobody => bjKiller[j] \in Callers \ {t}
  BY <1>1 DEF LockTypes
<1>7. LockTypes'
  BY <1>1, <1>4, <1>6 DEF LockTypes
<1> QED
  BY <1>4, <1>5, <1>7

\* The user is answered.
LEMMA AnswerKillKeeps ==
  ASSUME RegistryInv, NEW t \in Callers, Registry!AnswerKill(t)
  PROVE  RegistryInv'
<1>1. /\ ProcessTypes /\ ToldTypes /\ CallerTypes /\ CallersApart
  BY InvParts
<1>2. /\ bjPc[t] = "answer" /\ Registry!Idle(t) /\ Registry!PollAll({bjJob[t]} \cap bjActive)
      /\ UNCHANGED <<bjRc, bjWords, bjKiller, bjMgr, bjActive, bjSince, bjRing, bjStale,
                     bjSweep, bjTodo, bjSeen>>
  BY DEF Registry!AnswerKill, Registry!process, Registry!registry, Registry!reap
<1>3. ToldTypes'
  BY <1>1, Zenon DEF Registry!AnswerKill, Registry!process, ToldTypes
<1>4. bjWords' \in [Commands -> {"unsaid", "pipe", "buffer"}]
  BY <1>1, <1>2 DEF ProcessTypes
<1>5. /\ bjStatus' \in [Commands -> Statuses] /\ StatusMoves
      /\ \A k \in Commands : bjStatus[k] \in Final => bjStatus'[k] \in Final
  BY <1>2, PollMoves
<1>6. /\ CallerTypes' /\ LockTypes'
      /\ \A c \in Callers \ {t} :
           bjPc'[c] = bjPc[c] /\ bjJob'[c] = bjJob[c] /\ bjGoal'[c] = bjGoal[c]
      /\ bjPc'[t] = "idle" /\ bjGoal'[t] = "user"
  BY <1>2, GoesIdle
<1>7. bjMgr # t
  BY <1>1, <1>2 DEF CallersApart, CallerApart
<1>8. CallerApart(t)'
  BY <1>2, <1>6, <1>7 DEF CallerApart
<1> QED
  BY <1>2, <1>3, <1>4, <1>5, <1>6, <1>8, CallKeeps

\* start replaces the placeholder of its victim, which may become stale.
LEMMA StoreVictimKeeps ==
  ASSUME RegistryInv, NEW t \in Callers, Registry!StoreVictim(t)
  PROVE  RegistryInv'
<1> DEFINE j == bjJob[t]
           e == Registry!Snapshot(j, bjStatus[j])
<1>1. /\ ProcessTypes /\ ToldTypes /\ ListTypes /\ CallerTypes /\ LockTypes /\ SweepTypes
      /\ StartedOnce /\ OverIsTrue /\ ListsAreSets /\ CallersApart /\ SweepInOrder
  BY InvParts
<1>2. /\ bjPc[t] = "store" /\ bjMgr = Nobody /\ Registry!Idle(t)
      /\ bjRing' = Registry!Stored(bjRing, e)
      /\ bjStale' = IF bjStatus[j] \in Final THEN bjStale ELSE Registry!Track(bjStale, j)
      /\ UNCHANGED <<bjRc, bjWords, bjStatus, bjKiller, bjMgr, bjActive, bjSince, bjSweep,
                     bjTodo, bjSeen>>
  BY DEF Registry!StoreVictim, Registry!process, Registry!reap, Final
<1>3. j \in Commands /\ bjRc[j] \in {"alive"} \cup Registry!Ended
  BY <1>2, AtWork
<1>4. bjGoal[t] = "evict" /\ j \notin bjActive \cup Stales
  BY <1>1, <1>2 DEF CallersApart, CallerApart
<1>5. e \in Entry /\ e.job = j /\ e.status = bjStatus[j]
  BY <1>1, <1>3, Snapshots DEF ProcessTypes
<1> HIDE DEF e
<1>6. ToldTypes'
  BY <1>1, Zenon DEF Registry!StoreVictim, Registry!process, ToldTypes
<1>7. /\ CallerTypes' /\ LockTypes'
      /\ \A c \in Callers \ {t} :
           bjPc'[c] = bjPc[c] /\ bjJob'[c] = bjJob[c] /\ bjGoal'[c] = bjGoal[c]
      /\ bjPc'[t] = "idle" /\ bjGoal'[t] = "user"
  BY <1>2, GoesIdle
<1>8. /\ bjRing' \in Seq(Entry) /\ InRing' \subseteq InRing \cup {j}
  <2>1. bjRing \in Seq(Entry) /\ OneEach(bjRing) /\ Len(bjRing) <= RingCap
    BY <1>1 DEF ListTypes, ListsAreSets
  <2>2. LET s == Registry!Stored(bjRing, e)
        IN  s \in Seq(Entry) /\ JobsIn(s) \subseteq JobsIn(bjRing) \cup {e.job}
    BY <1>5, <2>1, Stores
  <2> QED BY <1>2, <1>5, <2>2 DEF InRing
<1>9. bjStale' \in Seq(Commands) /\ Stales' \subseteq Stales \cup {j}
  <2>1. bjStale \in Seq(Commands) /\ IsInjective(bjStale) /\ Len(bjStale) <= MaxJobs
        /\ j \notin ToSet(bjStale)
    BY <1>1, <1>4 DEF ListTypes, ListsAreSets, Stales
  <2>2. CASE bjStatus[j] \in Final
    BY <1>2, <2>1, <2>2 DEF Stales
  <2>3. CASE bjStatus[j] \notin Final
    <3>1. bjStale' = Registry!Track(bjStale, j) BY <1>2, <2>3
    <3>2. bjStale' \in Seq(Commands) /\ ToSet(bjStale') \subseteq ToSet(bjStale) \cup {j}
      BY <1>3, <2>1, <3>1, Tracks
    <3> QED BY <3>2 DEF Stales
  <2> QED BY <2>2, <2>3
<1>10. Parts'
  BY <1>1, <1>2, <1>6, <1>7, <1>8, <1>9 DEF Parts, ProcessTypes, ListTypes, SweepTypes
<1>11. Moves
  <2>1. ProcessMoves BY <1>2, NothingEnds
  <2>2. StatusMoves BY <1>2 DEF StatusMoves
  <2>3. j \in Registry!Over'
    BY <1>2, <1>3, <1>4 DEF Registry!Over, Registry!Born, Registry!Ended
  <2>4. bjStatus[j] \in Final => bjRc[j] \in Registry!Ended
    BY <1>1, <1>3 DEF OverIsTrue
  <2>5. bjRc[j] # "unborn" BY <1>3 DEF Registry!Ended
  <2>6. RingMoves BY <1>2, <1>5, <2>3, <2>4, <2>5 DEF RingMoves
  <2>7. ActiveMoves BY <1>2 DEF ActiveMoves
  <2>8. StaleMoves BY <1>2, <1>3, <1>4, <2>5 DEF StaleMoves
  <2> QED BY <2>1, <2>2, <2>6, <2>7, <2>8 DEF Moves
<1>12. CallersApart'
  <2>1. bjMgr # t /\ bjMgr' = bjMgr
    BY <1>1, <1>2 DEF CallersApart, CallerApart
  <2>2. CallerApart(t)'
    BY <1>7, <2>1 DEF CallerApart
  <2>3. \A c \in Callers \ {t} : bjGoal[c] = "evict" => bjJob[c] # j
    BY <1>1, <1>4 DEF CallersApart
  <2>4. \A c \in Callers \ {t} :
          /\ bjPc'[c] = bjPc[c] /\ bjJob'[c] = bjJob[c] /\ bjGoal'[c] = bjGoal[c]
          /\ bjGoal[c] = "evict" => bjJob[c] \notin Stales' \ Stales
          /\ bjGoal[c] = "evict" /\ bjGoal'[t] = "evict" => bjJob'[t] # bjJob[c]
          /\ \/ bjMgr' = bjMgr /\ bjActive \subseteq bjActive'
             \/ bjMgr # c /\ bjMgr' # c
    BY <1>2, <1>7, <1>9, <2>1, <2>3
  <2> QED BY <1>10, <1>11, <2>2, <2>4, OneCallerMoves
<1>13. SweepInOrder'
  <2>1. bjSweep # "store"
    BY <1>1, <1>2, AgentsAssumption DEF SweepInOrder, Registry!NamesAssumption
  <2>2. bjActive' \cap InRing' = {}
    BY <1>1, <1>2, <1>4, <1>8, <2>1 DEF SweepInOrder
  <2>3. /\ Cardinality(bjActive') <= MaxJobs + 1
        /\ bjMgr' \notin Callers => Cardinality(bjActive') <= MaxJobs
    BY <1>1, <1>2 DEF SweepInOrder
  <2> QED BY <1>2, <1>10, <1>11, <2>1, <2>2, <2>3, SweepStays
<1> QED
  BY <1>10, <1>11, <1>12, <1>13, MovesKeep, TypeOKNext DEF RegistryInv

\* The victim of a start leaves the registry, with a placeholder in the ring.
LEMMA MarkKeeps ==
  ASSUME RegistryInv, NEW t \in Callers, Registry!Mark(t)
  PROVE  RegistryInv'
<1> DEFINE j == bjJob[t]
           e == Registry!Snapshot(j, "killing")
<1>1. /\ ProcessTypes /\ ToldTypes /\ ListTypes /\ CallerTypes /\ LockTypes /\ SweepTypes
      /\ StartedOnce /\ OverIsTrue /\ ListsAreSets /\ CallersApart /\ SweepInOrder
  BY InvParts
<1>2. /\ bjPc[t] = "mark"
      /\ bjStatus' = [bjStatus EXCEPT ![j] = "killing"]
      /\ bjRing' = Registry!Stored(bjRing, e)
      /\ bjActive' = bjActive \ {j}
      /\ bjMgr' = Nobody
      /\ bjPc' = [bjPc EXCEPT ![t] = "kill"]
      /\ bjGoal' = [bjGoal EXCEPT ![t] = "evict"]
      /\ UNCHANGED <<bjRc, bjWords, bjKiller, bjSince, bjStale, bjJob, bjSweep, bjTodo, bjSeen>>
  BY DEF Registry!Mark, Registry!Placeholder, Registry!process, Registry!reap
<1>3. j \in Commands /\ bjRc[j] \in {"alive"} \cup Registry!Ended
  BY <1>2, AtWork
<1>4. bjMgr = t /\ j \in bjActive /\ \A c \in Callers : bjGoal[c] = "evict" => bjJob[c] # j
  BY <1>1, <1>2 DEF CallersApart, CallerApart
<1>5. e \in Entry /\ e.job = j /\ e.status = "killing"
  BY <1>3, Snapshots DEF Statuses
<1> HIDE DEF e
<1>6. ToldTypes'
  BY <1>1, Zenon DEF Registry!Mark, Registry!process, ToldTypes
<1>7. /\ \A c \in Callers \ {t} :
           bjPc'[c] = bjPc[c] /\ bjJob'[c] = bjJob[c] /\ bjGoal'[c] = bjGoal[c]
      /\ bjPc'[t] = "kill" /\ bjGoal'[t] = "evict" /\ bjJob'[t] = j
  BY <1>1, <1>2 DEF CallerTypes
<1>8. CallerTypes'
  BY <1>1, <1>2, <1>7 DEF CallerTypes
<1>9. LockTypes'
  <2>1. \A k \in Commands : bjKiller[k] # Nobody => bjKiller[k] \in Callers \ {t}
    BY <1>1, <1>2 DEF LockTypes
  <2> QED BY <1>1, <1>2, <1>7, <2>1 DEF LockTypes
<1>10. /\ bjRing' \in Seq(Entry) /\ InRing' \subseteq InRing \cup {j} /\ j \in InRing'
  <2>1. bjRing \in Seq(Entry) /\ OneEach(bjRing) /\ Len(bjRing) <= RingCap
    BY <1>1 DEF ListTypes, ListsAreSets
  <2>2. LET s == Registry!Stored(bjRing, e)
        IN  /\ s \in Seq(Entry) /\ JobsIn(s) \subseteq JobsIn(bjRing) \cup {e.job}
            /\ e.job \in JobsIn(s)
    BY <1>5, <2>1, Stores
  <2> QED BY <1>2, <1>5, <2>2 DEF InRing
<1>11. /\ IsFiniteSet(bjActive') /\ Cardinality(bjActive') = Cardinality(bjActive) - 1
       /\ Cardinality(bjActive) \in Nat /\ MaxJobs \in Nat
  BY <1>1, <1>2, <1>4, FS_RemoveElement, FS_CardinalityType, AgentsAssumption
     DEF ListTypes, Registry!BoundsAssumption
<1>12. Parts'
  BY <1>1, <1>2, <1>6, <1>8, <1>9, <1>10, <1>11
     DEF Parts, ProcessTypes, ListTypes, SweepTypes, Statuses
<1>13. Moves
  <2>1. ProcessMoves BY <1>2, NothingEnds
  <2>2. StatusMoves
    <3>1. \A k \in Commands \ {j} : bjStatus'[k] = bjStatus[k] BY <1>1, <1>2 DEF ProcessTypes
    <3>2. bjStatus'[j] = "killing" BY <1>1, <1>2, <1>3 DEF ProcessTypes
    <3> QED BY <1>2, <1>3, <3>1, <3>2 DEF StatusMoves, Final, Registry!Final, Registry!Ended
  <2>3. j \in Registry!Over'
    BY <1>2, <1>3 DEF Registry!Over, Registry!Born, Registry!Ended
  <2>4. bjRc[j] # "unborn" BY <1>3 DEF Registry!Ended
  <2>5. e.status \notin Final BY <1>5 DEF Final, Registry!Final
  <2>6. RingMoves BY <1>2, <1>5, <2>3, <2>4, <2>5 DEF RingMoves
  <2>7. ActiveMoves BY <1>2, <1>10 DEF ActiveMoves
  <2>8. StaleMoves BY <1>2 DEF StaleMoves
  <2> QED BY <2>1, <2>2, <2>6, <2>7, <2>8 DEF Moves
<1>14. CallersApart'
  <2>1. Nobody \notin Callers
    BY AgentsAssumption DEF Registry!NamesAssumption
  <2>2. j \notin Stales'
    BY <1>1, <1>2, <1>4 DEF ListsAreSets, Stales
  <2>3. CallerApart(t)'
    <3>1. bjRc'[j] # "unborn" BY <1>2, <1>3 DEF Registry!Ended
    <3> QED BY <1>2, <1>7, <2>1, <2>2, <3>1 DEF CallerApart
  <2>4. \A c \in Callers \ {t} :
          /\ bjPc'[c] = bjPc[c] /\ bjJob'[c] = bjJob[c] /\ bjGoal'[c] = bjGoal[c]
          /\ bjGoal[c] = "evict" => bjJob[c] \notin Stales' \ Stales
          /\ bjGoal[c] = "evict" /\ bjGoal'[t] = "evict" => bjJob'[t] # bjJob[c]
          /\ \/ bjMgr' = bjMgr /\ bjActive \subseteq bjActive'
             \/ bjMgr # c /\ bjMgr' # c
    BY <1>2, <1>4, <1>7, <2>1 DEF Stales
  <2> QED BY <1>12, <1>13, <2>3, <2>4, OneCallerMoves
<1>15. SweepInOrder'
  <2>1. Reaper \notin Callers \cup {Nobody}
    BY AgentsAssumption DEF Registry!NamesAssumption
  <2>2. bjSweep # "store"
    BY <1>1, <1>4, <2>1 DEF SweepInOrder
  <2>3. bjActive' \cap InRing' = {}
    BY <1>1, <1>2, <1>10, <2>2 DEF SweepInOrder
  <2>4. /\ Cardinality(bjActive') <= MaxJobs + 1
        /\ bjMgr' \notin Callers => Cardinality(bjActive') <= MaxJobs
    BY <1>1, <1>11 DEF SweepInOrder
  <2>5. bjMgr' # Reaper /\ bjMgr # Reaper BY <1>2, <1>4, <2>1
  <2> QED BY <1>2, <1>12, <1>13, <2>2, <2>3, <2>4, <2>5, SweepStays
<1> QED
  BY <1>12, <1>13, <1>14, <1>15, MovesKeep, TypeOKNext DEF RegistryInv

\* A command starts; those gone from the registry for it have ended.
LEMMA Starts ==
  ASSUME RegistryInv, NEW t \in Callers, NEW j \in Commands, NEW gone \in SUBSET bjActive,
         bjPc[t] = "idle", bjMgr = Nobody, bjRc[j] = "unborn",
         bjRc' = [bjRc EXCEPT ![j] = "alive"],
         bjSince' = [bjSince EXCEPT ![j] = Registry!Cardinality(Registry!Born)],
         UNCHANGED <<bjWords, bjKiller, bjStale, bjGoal, bjSweep, bjTodo, bjSeen>>,
         ToldTypes',
         bjActive' = (bjActive \ gone) \cup {j},
         \A k \in gone : bjRc[k] \in Registry!Ended,
         bjStatus' \in [Commands -> Statuses], StatusMoves,
         bjRing' \in Seq(Entry), InRing' \subseteq InRing \cup gone, RingMoves,
         Cardinality(bjActive') <= MaxJobs + 1,
         bjMgr' \notin Callers => Cardinality(bjActive') <= MaxJobs,
         \/ UNCHANGED <<bjMgr, bjPc, bjJob>>
         \/ /\ bjMgr' = t /\ bjPc' = [bjPc EXCEPT ![t] = "mark"]
            /\ \E k \in bjActive : bjJob' = [bjJob EXCEPT ![t] = k]
            /\ gone = {}
  PROVE  RegistryInv'
<1>1. /\ ProcessTypes /\ ListTypes /\ CallerTypes /\ LockTypes /\ SweepTypes
      /\ StartedOnce /\ OverIsTrue /\ ListsAreSets /\ CallersApart /\ SweepInOrder
  BY InvParts
<1>2. Nobody \notin Commands \cup Callers /\ Reaper \notin Callers \cup {Nobody}
  BY AgentsAssumption DEF Registry!NamesAssumption
<1>3. bjRc'[j] = "alive" /\ \A k \in Commands \ {j} : bjRc'[k] = bjRc[k]
  BY <1>1 DEF ProcessTypes
<1>4. j \notin bjActive \cup InRing \cup Stales
  BY <1>1 DEF StartedOnce
<1>5. ProcessTypes'
  BY <1>1 DEF ProcessTypes
<1>6. ListTypes'
  <2>1. Registry!Cardinality(Registry!Born) \in Nat
    BY <1>1, SameOperators, FS_CardinalityType DEF StartedOnce
  <2>2. IsFiniteSet(bjActive \ gone)
    BY <1>1, FS_Subset DEF ListTypes
  <2>3. IsFiniteSet(bjActive')
    BY <2>2, FS_AddElement
  <2> QED BY <1>1, <2>1, <2>3 DEF ListTypes
<1>7. Moves
  <2>1. Registry!Born' \subseteq Registry!Born \cup {j}
    BY <1>3 DEF Registry!Born
  <2>2. ProcessMoves BY <1>3, <2>1 DEF ProcessMoves
  <2>3. \A k \in gone : bjRc'[k] # "alive"
    BY <1>1, <1>3, <1>4 DEF ListTypes, Registry!Ended
  <2>4. ActiveMoves BY <1>3, <2>3 DEF ActiveMoves
  <2>5. StaleMoves BY DEF StaleMoves
  <2> QED BY <2>2, <2>4, <2>5 DEF Moves
<1>8. CASE UNCHANGED <<bjMgr, bjPc, bjJob>>
  <2>1. CallerTypes' /\ LockTypes'
    BY <1>1, <1>8 DEF CallerTypes, LockTypes
  <2>2. Parts'
    BY <1>1, <1>5, <1>6, <2>1 DEF Parts, SweepTypes
  <2>3. bjMgr \notin Callers /\ bjMgr' \notin Callers /\ Stales' = Stales
    BY <1>2, <1>8 DEF Stales
  <2>4. CallersApart'
    BY <1>7, <1>8, <2>2, <2>3, CallersStay
  <2>5. bjSweep # "store" BY <1>1, <1>2 DEF SweepInOrder
  <2>6. bjActive' \cap InRing' = {}
    BY <1>1, <1>4, <2>5 DEF SweepInOrder
  <2>7. SweepInOrder'
    BY <1>2, <1>7, <1>8, <2>2, <2>5, <2>6, SweepStays
  <2> QED BY <1>7, <2>2, <2>4, <2>7, MovesKeep, TypeOKNext DEF RegistryInv
<1>9. ASSUME NEW k \in bjActive, bjMgr' = t, bjPc' = [bjPc EXCEPT ![t] = "mark"],
             bjJob' = [bjJob EXCEPT ![t] = k], gone = {}
      PROVE  RegistryInv'
  <2>1. k \in Commands /\ bjRc[k] # "unborn" /\ k # j
    BY <1>1, <1>4 DEF ListTypes, StartedOnce
  <2>2. /\ \A c \in Callers \ {t} :
             bjPc'[c] = bjPc[c] /\ bjJob'[c] = bjJob[c] /\ bjGoal'[c] = bjGoal[c]
        /\ bjPc'[t] = "mark" /\ bjGoal'[t] = bjGoal[t] /\ bjJob'[t] = k
    BY <1>1, <1>9 DEF CallerTypes
  <2>3. bjGoal[t] = "user"
    BY <1>1 DEF CallersApart, CallerApart, CallerTypes
  <2>4. CallerTypes'
    BY <1>1, <1>2, <1>9, <2>1, <2>2 DEF CallerTypes
  <2>5. LockTypes'
    <3>1. \A x \in Commands : bjKiller[x] # Nobody => bjKiller[x] \in Callers \ {t}
      BY <1>1 DEF LockTypes
    <3> QED BY <1>1, <1>9, <2>2, <3>1 DEF LockTypes
  <2>6. Parts'
    BY <1>1, <1>5, <1>6, <2>4, <2>5 DEF Parts, SweepTypes
  <2>7. CallerApart(t)'
    <3>1. bjRc'[k] # "unborn" BY <1>3, <2>1
    <3>2. k \in bjActive' BY <1>9
    <3> QED BY <1>9, <2>2, <2>3, <3>1, <3>2 DEF CallerApart
  <2>8. \A c \in Callers \ {t} :
          /\ bjPc'[c] = bjPc[c] /\ bjJob'[c] = bjJob[c] /\ bjGoal'[c] = bjGoal[c]
          /\ bjGoal[c] = "evict" => bjJob[c] \notin Stales' \ Stales
          /\ bjGoal[c] = "evict" /\ bjGoal'[t] = "evict" => bjJob'[t] # bjJob[c]
          /\ \/ bjMgr' = bjMgr /\ bjActive \subseteq bjActive'
             \/ bjMgr # c /\ bjMgr' # c
    BY <1>2, <1>9, <2>2, <2>3 DEF Stales
  <2>9. CallersApart'
    BY <1>7, <2>6, <2>7, <2>8, OneCallerMoves
  <2>10. bjSweep # "store" BY <1>1, <1>2 DEF SweepInOrder
  <2>11. bjActive' \cap InRing' = {}
    BY <1>1, <1>4, <2>10 DEF SweepInOrder
  <2>12. bjMgr' # Reaper /\ bjMgr # Reaper BY <1>2, <1>9
  <2>13. SweepInOrder'
    BY <1>7, <2>6, <2>10, <2>11, <2>12, SweepStays
  <2> QED BY <1>7, <2>6, <2>9, <2>13, MovesKeep, TypeOKNext DEF RegistryInv
<1> QED
  BY <1>8, <1>9

LEMMA StartKeeps ==
  ASSUME RegistryInv, NEW t \in Callers, NEW j \in Commands, Registry!Start(t, j)
  PROVE  RegistryInv'
<1>1. /\ ProcessTypes /\ ToldTypes /\ ListTypes /\ CallerTypes /\ LockTypes /\ SweepTypes
      /\ StartedOnce /\ OverIsTrue /\ ListsAreSets /\ CallersApart /\ SweepInOrder
      /\ Registry!TypeOK
  BY InvParts DEF RegistryInv
<1>2. Nobody \notin Commands \cup Callers /\ MaxJobs \in Nat
  BY AgentsAssumption DEF Registry!NamesAssumption, Registry!BoundsAssumption
<1>3. /\ bjPc[t] = "idle" /\ bjMgr = Nobody /\ bjRc[j] = "unborn"
      /\ bjRc' = [bjRc EXCEPT ![j] = "alive"]
      /\ bjSince' = [bjSince EXCEPT ![j] = Registry!Cardinality(Registry!Born)]
      /\ UNCHANGED <<bjWords, bjKiller, bjStale, bjGoal, bjSweep, bjTodo, bjSeen>>
  BY DEF Registry!Start, Registry!reap
<1>4. ToldTypes'
  BY <1>1, Zenon DEF Registry!Start, ToldTypes
<1>5. j \notin bjActive /\ Cardinality(bjActive) <= MaxJobs /\ Cardinality(bjActive) \in Nat
  BY <1>1, <1>2, <1>3, FS_CardinalityType DEF StartedOnce, SweepInOrder, ListTypes
<1>6. CASE /\ Registry!Cardinality(bjActive) < MaxJobs
           /\ bjActive' = bjActive \cup {j}
           /\ UNCHANGED <<bjStatus, bjMgr, bjRing, bjPc, bjJob>>
  <2>1. Cardinality(bjActive) < MaxJobs BY <1>6, SameOperators
  <2>2. Cardinality(bjActive') = Cardinality(bjActive) + 1
    BY <1>1, <1>5, <1>6, FS_AddElement DEF ListTypes
  <2>3. Cardinality(bjActive') <= MaxJobs /\ Cardinality(bjActive') <= MaxJobs + 1
    BY <1>2, <1>5, <2>1, <2>2
  <2>4. bjActive' = (bjActive \ {}) \cup {j} BY <1>6
  <2>5. /\ bjStatus' \in [Commands -> Statuses] /\ StatusMoves
        /\ bjRing' \in Seq(Entry) /\ InRing' \subseteq InRing \cup {} /\ RingMoves
    BY <1>1, <1>6 DEF ProcessTypes, StatusMoves, ListTypes, InRing, RingMoves
  <2>6. {} \in SUBSET bjActive /\ (\A k \in {} : bjRc[k] \in Registry!Ended)
    OBVIOUS
  <2> QED BY <1>3, <1>4, <1>6, <2>3, <2>4, <2>5, <2>6, Starts
<1>7. ASSUME NEW old \in Registry!Oldest(Registry!NotRunning(bjActive)),
             Registry!PollAll({k \in bjActive : bjSince[k] <= bjSince[old]}),
             bjRing' = Registry!Stored(bjRing, Registry!Snapshot(old, Registry!Polled(old))),
             bjActive' = (bjActive \ {old}) \cup {j},
             UNCHANGED <<bjMgr, bjPc, bjJob>>
      PROVE  RegistryInv'
  <2> DEFINE e == Registry!Snapshot(old, Registry!Polled(old))
  <2>1. old \in bjActive /\ old \in Commands /\ Registry!Polled(old) # "running"
    BY <1>1 DEF Registry!Oldest, Registry!NotRunning, ListTypes
  <2>2. /\ Registry!Polled(old) \in Statuses
        /\ bjRc[old] \in Registry!Ended
    <3>1. bjStatus[old] # "killing" BY <1>1, <2>1 DEF OverIsTrue
    <3>2. bjStatus[old] \in {"running"} \cup Final BY <1>1, <2>1, <3>1 DEF ProcessTypes, Statuses
    <3> QED BY <1>1, <2>1, <3>2, Polls DEF OverIsTrue
  <2>3. e \in Entry /\ e.job = old
    BY <2>1, <2>2, Snapshots
  <2> HIDE DEF e
  <2>4. bjStatus' \in [Commands -> Statuses] /\ StatusMoves
    BY <1>7, PollMoves
  <2>5. bjRing' \in Seq(Entry) /\ InRing' \subseteq InRing \cup {old}
    <3>1. bjRing \in Seq(Entry) /\ OneEach(bjRing) /\ Len(bjRing) <= RingCap
      BY <1>1 DEF ListTypes, ListsAreSets
    <3>2. LET s == Registry!Stored(bjRing, e)
          IN  s \in Seq(Entry) /\ JobsIn(s) \subseteq JobsIn(bjRing) \cup {e.job}
      BY <2>3, <3>1, Stores
    <3>3. bjRing' = Registry!Stored(bjRing, e) BY <1>7 DEF e
    <3> QED BY <2>3, <3>2, <3>3 DEF InRing
  <2>6. RingMoves
    <3>1. bjRc'[old] = bjRc[old] /\ old \notin bjActive'
      BY <1>1, <1>3, <1>5, <1>7, <2>1 DEF ProcessTypes
    <3>2. old \in Registry!Over'
      BY <2>1, <2>2, <3>1 DEF Registry!Over, Registry!Born, Registry!Ended
    <3>3. bjRing' = Registry!Stored(bjRing, e) BY <1>7 DEF e
    <3>4. bjRc[old] # "unborn" BY <2>2 DEF Registry!Ended
    <3> QED BY <2>2, <2>3, <3>2, <3>3, <3>4 DEF RingMoves
  <2>7. Cardinality(bjActive') = Cardinality(bjActive)
    <3>1. /\ IsFiniteSet(bjActive \ {old})
          /\ Cardinality(bjActive \ {old}) = Cardinality(bjActive) - 1
      BY <1>1, <2>1, FS_RemoveElement DEF ListTypes
    <3>2. Cardinality((bjActive \ {old}) \cup {j}) = Cardinality(bjActive \ {old}) + 1
      BY <1>5, <3>1, FS_AddElement
    <3> QED BY <1>5, <1>7, <3>1, <3>2
  <2>8. Cardinality(bjActive') <= MaxJobs /\ Cardinality(bjActive') <= MaxJobs + 1
    BY <1>2, <1>5, <2>7
  <2>9. {old} \in SUBSET bjActive /\ (\A k \in {old} : bjRc[k] \in Registry!Ended)
    BY <2>1, <2>2
  <2> QED BY <1>3, <1>4, <1>7, <2>4, <2>5, <2>6, <2>8, <2>9, Starts
<1>8. ASSUME NEW old \in Registry!Oldest(bjActive), bjJob' = [bjJob EXCEPT ![t] = old],
             bjActive' = bjActive \cup {j}, bjMgr' = t, bjPc' = [bjPc EXCEPT ![t] = "mark"],
             UNCHANGED <<bjStatus, bjRing>>
      PROVE  RegistryInv'
  <2>1. Cardinality(bjActive') = Cardinality(bjActive) + 1
    BY <1>1, <1>5, <1>8, FS_AddElement DEF ListTypes
  <2>2. Cardinality(bjActive') <= MaxJobs + 1
    BY <1>2, <1>5, <2>1
  <2>3. bjActive' = (bjActive \ {}) \cup {j} BY <1>8
  <2>4. /\ bjStatus' \in [Commands -> Statuses] /\ StatusMoves
        /\ bjRing' \in Seq(Entry) /\ InRing' \subseteq InRing \cup {} /\ RingMoves
    BY <1>1, <1>8 DEF ProcessTypes, StatusMoves, ListTypes, InRing, RingMoves
  <2>5. {} \in SUBSET bjActive /\ (\A k \in {} : bjRc[k] \in Registry!Ended)
    OBVIOUS
  <2>6. old \in bjActive BY DEF Registry!Oldest
  <2> QED BY <1>3, <1>4, <1>8, <2>2, <2>3, <2>4, <2>5, <2>6, Starts
<1> QED
  BY <1>6, <1>7, <1>8 DEF Registry!Start

\* A step of the sweep: it moves no caller and starts nothing.
LEMMA SweepKeeps ==
  ASSUME RegistryInv,
         UNCHANGED <<bjRc, bjKiller, bjSince, bjPc, bjJob, bjGoal>>,
         bjWords' \in [Commands -> {"unsaid", "pipe", "buffer"}],
         bjStatus' \in [Commands -> Statuses],
         ToldTypes', SweepTypes', StatusMoves,
         bjRing' \in Seq(Entry), RingMoves,
         bjStale' \in Seq(Commands), Stales' \subseteq Stales, StaleMoves,
         bjActive' \subseteq bjActive,
         \A j \in bjActive \ bjActive' : bjRc[j] # "alive",
         \/ bjMgr' = bjMgr /\ bjActive' = bjActive
         \/ {bjMgr, bjMgr'} \subseteq {Nobody, Reaper},
         SweepInOrder'
  PROVE  RegistryInv'
<1>1. ProcessTypes /\ ListTypes /\ CallerTypes /\ LockTypes
  BY InvParts
<1>2. Nobody \notin Callers /\ Reaper \notin Callers
  BY AgentsAssumption DEF Registry!NamesAssumption
<1>3. IsFiniteSet(bjActive')
  BY <1>1, FS_Subset DEF ListTypes
<1>4. ProcessTypes' /\ ListTypes' /\ CallerTypes'
  BY <1>1, <1>3 DEF ProcessTypes, ListTypes, CallerTypes
<1>5. LockTypes'
  BY <1>1 DEF LockTypes
<1>6. Parts'
  BY <1>4, <1>5 DEF Parts
<1>7. Moves
  BY NothingEnds DEF Moves, ActiveMoves
<1>8. \/ bjMgr' = bjMgr /\ bjActive \subseteq bjActive'
      \/ bjMgr \notin Callers /\ bjMgr' \notin Callers
  BY <1>2
<1>9. CallersApart'
  BY <1>6, <1>7, <1>8, CallersStay
<1> QED
  BY <1>6, <1>7, <1>9, MovesKeep, TypeOKNext DEF RegistryInv

\* Statuses and words that nobody wrote.
LEMMA Unwritten ==
  ASSUME RegistryInv
  PROVE  /\ UNCHANGED bjStatus =>
              bjStatus' \in [Commands -> Statuses] /\ StatusMoves
         /\ UNCHANGED bjWords => bjWords' \in [Commands -> {"unsaid", "pipe", "buffer"}]
         /\ UNCHANGED bjRing => bjRing' \in Seq(Entry) /\ RingMoves /\ InRing' = InRing
         /\ UNCHANGED bjStale =>
              bjStale' \in Seq(Commands) /\ Stales' \subseteq Stales /\ StaleMoves
<1>1. ProcessTypes /\ ListTypes
  BY InvParts
<1> QED
  BY <1>1 DEF ProcessTypes, ListTypes, StatusMoves, RingMoves, StaleMoves, InRing, Stales

LEMMA DrainFinishedKeeps ==
  ASSUME RegistryInv, Registry!DrainFinished
  PROVE  RegistryInv'
<1>1. /\ ToldTypes /\ SweepTypes /\ SweepInOrder /\ Registry!TypeOK
  BY InvParts DEF RegistryInv
<1>2. /\ bjSweep = "idle" /\ bjMgr = Nobody /\ bjSweep' = "snapshot"
      /\ Registry!PollAll(bjActive)
      /\ bjWords' = Registry!Said(Registry!NotRunning(bjActive))
      /\ UNCHANGED <<bjRc, bjKiller, bjMgr, bjActive, bjSince, bjRing, bjStale, bjPc, bjJob,
                     bjGoal, bjTodo, bjSeen>>
  BY DEF Registry!DrainFinished, Registry!SweepTo, Registry!registry, Registry!caller
<1>3. ToldTypes'
  BY <1>1, Zenon DEF Registry!DrainFinished, ToldTypes
<1>4. bjStatus' \in [Commands -> Statuses] /\ StatusMoves
  BY <1>2, PollMoves
<1>5. bjWords' \in [Commands -> {"unsaid", "pipe", "buffer"}]
  BY <1>1, <1>2, Says
<1>6. SweepTypes'
  BY <1>1, <1>2 DEF SweepTypes, Registry!NoCheck
<1>7. SweepInOrder'
  BY <1>1, <1>2 DEF SweepInOrder, Registry!Born, InRing, Registry!NoCheck
<1> QED
  BY <1>2, <1>3, <1>4, <1>5, <1>6, <1>7, Unwritten, SweepKeeps

LEMMA CleanupBeginsKeeps ==
  ASSUME RegistryInv, Registry!CleanupBegins
  PROVE  RegistryInv'
<1>1. /\ ToldTypes /\ ListTypes /\ SweepTypes /\ StartedOnce /\ SweepInOrder
  BY InvParts
<1>2. /\ bjSweep = "snapshot" /\ bjMgr = Nobody /\ bjMgr' = Reaper /\ bjSweep' = "store"
      /\ bjTodo' = bjActive
      /\ UNCHANGED <<bjRc, bjWords, bjStatus, bjKiller, bjActive, bjSince, bjRing, bjStale,
                     bjPc, bjJob, bjGoal, bjSeen>>
  BY DEF Registry!CleanupBegins, Registry!SweepTo, Registry!process, Registry!registry,
         Registry!caller
<1>3. ToldTypes'
  BY <1>1, Zenon DEF Registry!CleanupBegins, Registry!process, ToldTypes
<1>4. SweepTypes'
  BY <1>1, <1>2 DEF SweepTypes, Registry!NoCheck, ListTypes
<1>5. bjActive \subseteq Registry!Born
  BY <1>1 DEF StartedOnce, ListTypes, Registry!Born
<1>6. SweepInOrder'
  <2>1. Nobody \notin Callers BY AgentsAssumption DEF Registry!NamesAssumption
  <2>2. Registry!Born' = Registry!Born /\ InRing' = InRing /\ Registry!NoCheck' = Registry!NoCheck
    BY <1>2 DEF Registry!Born, InRing, Registry!NoCheck
  <2>3. bjActive \cap InRing = {} BY <1>1, <1>2 DEF SweepInOrder
  <2>4. Cardinality(bjActive) <= MaxJobs /\ Cardinality(bjActive) <= MaxJobs + 1
    BY <1>1, <1>2, <2>1 DEF SweepInOrder
  <2>5. /\ bjSeen.job \in Registry!Born \cup {Nobody}
        /\ bjSeen # Registry!NoCheck => bjRc[bjSeen.job] = bjSeen.rc \/ bjSeen.rc = "alive"
    BY <1>1 DEF SweepInOrder
  <2> QED BY <1>2, <1>5, <2>2, <2>3, <2>4, <2>5 DEF SweepInOrder
<1> QED
  BY <1>2, <1>3, <1>4, <1>6, Unwritten, SweepKeeps

\* A command polled as ended is stored; one that is not is left.
LEMMA CleanupStoreKeeps ==
  ASSUME RegistryInv, NEW j \in Commands, Registry!CleanupStore(j)
  PROVE  RegistryInv'
<1> DEFINE e == Registry!Snapshot(j, Registry!Polled(j))
<1>1. /\ ProcessTypes /\ ToldTypes /\ ListTypes /\ SweepTypes /\ StartedOnce /\ OverIsTrue
      /\ ListsAreSets /\ SweepInOrder /\ Registry!TypeOK
  BY InvParts DEF RegistryInv
<1>2. /\ bjSweep = "store" /\ j \in bjTodo /\ bjTodo' = bjTodo \ {j}
      /\ Registry!PollAll({j})
      /\ bjRing' = IF Registry!Polled(j) = "running" THEN bjRing ELSE Registry!Stored(bjRing, e)
      /\ UNCHANGED <<bjRc, bjWords, bjKiller, bjMgr, bjActive, bjSince, bjStale, bjPc, bjJob,
                     bjGoal, bjSweep, bjSeen>>
  BY DEF Registry!CleanupStore, Registry!Oldest, Registry!process, Registry!caller
<1>3. ToldTypes'
  BY <1>1, Zenon DEF Registry!CleanupStore, Registry!process, ToldTypes
<1>4. bjStatus' \in [Commands -> Statuses] /\ StatusMoves
      /\ \A k \in Commands : bjStatus[k] \in Final => bjStatus'[k] \in Final
  BY <1>2, PollMoves
<1>5. SweepTypes'
  BY <1>1, <1>2 DEF SweepTypes, Registry!NoCheck
<1>6. j \in bjActive /\ bjActive \subseteq Commands
  BY <1>1, <1>2 DEF SweepInOrder, ListTypes
<1>7. Registry!Born' = Registry!Born /\ Registry!NoCheck' = Registry!NoCheck
  BY <1>2 DEF Registry!Born, Registry!NoCheck
<1>8. CASE Registry!Polled(j) = "running"
  <2>1. UNCHANGED bjRing BY <1>2, <1>8
  <2>2. InRing' = InRing BY <2>1 DEF InRing
  <2>3. SweepInOrder'
    BY <1>1, <1>2, <1>4, <1>6, <1>7, <2>2 DEF SweepInOrder
  <2> QED BY <1>2, <1>3, <1>4, <1>5, <2>1, <2>3, Unwritten, SweepKeeps
<1>9. CASE Registry!Polled(j) # "running"
  <2>1. Registry!Polled(j) \in Statuses /\ bjRc[j] \in Registry!Ended /\ Registry!Polled(j) \in Final
    <3>1. bjStatus[j] # "killing" BY <1>1, <1>6 DEF OverIsTrue
    <3>2. bjStatus[j] \in {"running"} \cup Final BY <1>1, <3>1 DEF ProcessTypes, Statuses
    <3> QED BY <1>1, <1>9, <3>2, Polls DEF OverIsTrue
  <2>2. e \in Entry /\ e.job = j
    BY <2>1, Snapshots
  <2>3. bjRing' = Registry!Stored(bjRing, e) BY <1>2, <1>9
  <2> HIDE DEF e
  <2>4. bjRing' \in Seq(Entry) /\ InRing' \subseteq InRing \cup {j}
    <3>1. bjRing \in Seq(Entry) /\ OneEach(bjRing) /\ Len(bjRing) <= RingCap
      BY <1>1 DEF ListTypes, ListsAreSets
    <3>2. LET s == Registry!Stored(bjRing, e)
          IN  s \in Seq(Entry) /\ JobsIn(s) \subseteq JobsIn(bjRing) \cup {e.job}
      BY <2>2, <3>1, Stores
    <3> QED BY <2>2, <2>3, <3>2 DEF InRing
  <2>5. RingMoves
    <3>1. j \in Registry!Over'
      BY <1>2, <2>1 DEF Registry!Over, Registry!Born, Registry!Ended
    <3>2. bjRc[j] # "unborn" BY <2>1 DEF Registry!Ended
    <3> QED BY <2>1, <2>2, <2>3, <3>1, <3>2 DEF RingMoves
  <2>6. bjStatus'[j] \in Final
    BY <1>1, <1>2, <2>1, PollsAll
  <2>7. \A k \in bjActive \cap InRing' : k \notin bjTodo' /\ bjStatus'[k] \in Final
    BY <1>1, <1>2, <1>4, <1>6, <2>4, <2>6 DEF SweepInOrder
  <2>8. SweepInOrder'
    BY <1>1, <1>2, <1>6, <1>7, <2>7 DEF SweepInOrder
  <2> QED BY <1>2, <1>3, <1>4, <1>5, <2>4, <2>5, <2>8, Unwritten, SweepKeeps
<1> QED
  BY <1>8, <1>9

\* It removes what it polls as ended.
LEMMA CleanupRemoveKeeps ==
  ASSUME RegistryInv, Registry!CleanupRemove
  PROVE  RegistryInv'
<1>1. /\ ProcessTypes /\ ToldTypes /\ ListTypes /\ SweepTypes /\ StartedOnce /\ OverIsTrue
      /\ ListsAreSets /\ SweepInOrder /\ Registry!TypeOK
  BY InvParts DEF RegistryInv
<1>2. /\ bjSweep = "store" /\ bjTodo = {} /\ bjMgr' = Nobody /\ bjSweep' = "settle"
      /\ Registry!PollAll(bjActive)
      /\ bjActive' = bjActive \ Registry!NotRunning(bjActive)
      /\ bjTodo' = Registry!ToSet(bjStale)
      /\ UNCHANGED <<bjRc, bjWords, bjKiller, bjSince, bjRing, bjStale, bjPc, bjJob, bjGoal, bjSeen>>
  BY DEF Registry!CleanupRemove, Registry!SweepTo, Registry!process, Registry!caller
<1>3. ToldTypes'
  BY <1>1, Zenon DEF Registry!CleanupRemove, Registry!process, ToldTypes
<1>4. bjStatus' \in [Commands -> Statuses] /\ StatusMoves
  BY <1>2, PollMoves
<1>5. bjTodo' = Stales /\ Stales \subseteq Commands /\ Stales \subseteq Registry!Born
  <2>1. bjTodo' = Stales BY <1>2, SameOperators DEF Stales
  <2>2. Stales \subseteq Commands BY <1>1 DEF ListTypes, Stales, ToSet
  <2> QED BY <1>1, <2>1, <2>2 DEF StartedOnce, Registry!Born
<1>6. SweepTypes'
  BY <1>1, <1>2, <1>5 DEF SweepTypes, Registry!NoCheck
<1>7. ASSUME NEW k \in bjActive, k \in Registry!NotRunning(bjActive)
      PROVE  bjRc[k] # "alive"
  <2>1. k \in Commands /\ Registry!Polled(k) # "running" /\ bjStatus[k] # "killing"
    BY <1>1, <1>7 DEF ListTypes, Registry!NotRunning, OverIsTrue
  <2>2. bjStatus[k] \in {"running"} \cup Final BY <1>1, <2>1 DEF ProcessTypes, Statuses
  <2>3. bjRc[k] \in Registry!Ended BY <1>1, <2>1, <2>2, Polls DEF OverIsTrue
  <2> QED BY <2>3 DEF Registry!Ended
<1>8. ASSUME NEW k \in bjActive'
      PROVE  k \notin InRing
  <2>1. k \in bjActive /\ k \in Commands /\ Registry!Polled(k) = "running"
    BY <1>1, <1>2 DEF ListTypes, Registry!NotRunning
  <2>2. bjStatus[k] = "running"
    BY <1>1, <2>1, Polls
  <2>3. bjStatus[k] \notin Final BY <2>2 DEF Final, Registry!Final
  <2> QED BY <1>1, <1>2, <2>1, <2>3 DEF SweepInOrder
<1>9. Nobody \notin Callers /\ Reaper \notin Callers \cup {Nobody} /\ MaxJobs \in Nat
  BY AgentsAssumption DEF Registry!NamesAssumption, Registry!BoundsAssumption
<1>10. bjMgr = Reaper BY <1>1, <1>2 DEF SweepInOrder
<1>11. Cardinality(bjActive') <= MaxJobs /\ Cardinality(bjActive') <= MaxJobs + 1
  <2>1. Cardinality(bjActive) <= MaxJobs BY <1>1, <1>9, <1>10 DEF SweepInOrder
  <2>2. /\ IsFiniteSet(bjActive) /\ IsFiniteSet(bjActive')
        /\ Cardinality(bjActive') <= Cardinality(bjActive)
    BY <1>1, <1>2, FS_Subset DEF ListTypes
  <2>3. Cardinality(bjActive') \in Nat /\ Cardinality(bjActive) \in Nat
    BY <2>2, FS_CardinalityType
  <2> QED BY <1>9, <2>1, <2>2, <2>3
<1>12. SweepInOrder'
  <2>1. Registry!Born' = Registry!Born /\ InRing' = InRing /\ Registry!NoCheck' = Registry!NoCheck
    BY <1>2 DEF Registry!Born, InRing, Registry!NoCheck
  <2>2. bjActive' \cap InRing' = {} BY <1>8, <2>1
  <2>3. /\ bjSeen.job \in Registry!Born \cup {Nobody}
        /\ bjSeen # Registry!NoCheck => bjRc[bjSeen.job] = bjSeen.rc \/ bjSeen.rc = "alive"
    BY <1>1 DEF SweepInOrder
  <2> QED BY <1>2, <1>5, <1>9, <1>11, <2>1, <2>2, <2>3 DEF SweepInOrder
<1>13. bjActive' \subseteq bjActive /\ \A k \in bjActive \ bjActive' : bjRc[k] # "alive"
  BY <1>2, <1>7
<1> QED
  BY <1>2, <1>3, <1>4, <1>6, <1>10, <1>12, <1>13, Unwritten, SweepKeeps

\* The sweep polls a stale command.
LEMMA SettlePollKeeps ==
  ASSUME RegistryInv, NEW j \in Commands, Registry!SettlePoll(j)
  PROVE  RegistryInv'
<1>1. /\ ProcessTypes /\ ToldTypes /\ SweepTypes /\ SweepInOrder
  BY InvParts
<1>2. /\ bjSweep = "settle" /\ j \in bjTodo /\ bjTodo' = bjTodo \ {j}
      /\ bjSeen' = [job |-> j, rc |-> bjRc[j]]
      /\ UNCHANGED <<bjRc, bjWords, bjStatus, bjKiller, bjMgr, bjActive, bjSince, bjRing, bjStale,
                     bjPc, bjJob, bjGoal, bjSweep>>
  BY DEF Registry!SettlePoll, Registry!process, Registry!registry, Registry!caller
<1>3. ToldTypes'
  BY <1>1, Zenon DEF Registry!SettlePoll, Registry!process, ToldTypes
<1>4. j \in Registry!Born /\ bjRc[j] \in {"alive"} \cup Registry!Ended
  <2>1. j # Nobody BY AgentsAssumption DEF Registry!NamesAssumption
  <2>2. j \in Registry!Born BY <1>1, <1>2, <2>1 DEF SweepInOrder
  <2> QED BY <1>1, <2>2 DEF Registry!Born, ProcessTypes
<1>5. SweepTypes'
  BY <1>1, <1>2, <1>4 DEF SweepTypes, Registry!NoCheck
<1>6. SweepInOrder'
  <2>1. Registry!Born' = Registry!Born /\ InRing' = InRing
    BY <1>2 DEF Registry!Born, InRing
  <2>2. bjSeen'.job = j /\ bjSeen'.rc = bjRc'[bjSeen'.job]
    BY <1>2
  <2>3. bjTodo' \cup {bjSeen'.job} \subseteq Registry!Born' \cup {Nobody}
    BY <1>1, <1>2, <1>4, <2>1, <2>2 DEF SweepInOrder
  <2> QED BY <1>1, <1>2, <2>1, <2>2, <2>3 DEF SweepInOrder
<1> QED
  BY <1>2, <1>3, <1>5, <1>6, Unwritten, SweepKeeps

\* The sweep writes what it polled, whatever has happened since.
LEMMA SettleWriteKeeps ==
  ASSUME RegistryInv, Registry!SettleWrite
  PROVE  RegistryInv'
<1> DEFINE j == bjSeen.job
           s == Registry!Settled(bjSeen.rc)
<1>1. /\ ProcessTypes /\ ToldTypes /\ ListTypes /\ SweepTypes /\ SweepInOrder /\ Registry!TypeOK
  BY InvParts DEF RegistryInv
<1>2. /\ bjSweep = "settle" /\ bjSeen # Registry!NoCheck
      /\ bjStatus' = [bjStatus EXCEPT ![j] = s]
      /\ bjWords' = Registry!Said({j})
      /\ \/ bjSweep' = "converge" /\ bjSeen' = bjSeen
         \/ bjSweep' = bjSweep /\ bjSeen' = Registry!NoCheck
      /\ UNCHANGED <<bjRc, bjKiller, bjMgr, bjActive, bjSince, bjRing, bjStale, bjPc, bjJob, bjGoal,
                     bjTodo>>
  BY DEF Registry!SettleWrite, Registry!SweepTo, Registry!registry, Registry!caller
<1>3. ToldTypes'
  BY <1>1, Zenon DEF Registry!SettleWrite, ToldTypes
<1>4. /\ j \in Commands /\ bjSeen.rc \in {"alive"} \cup Registry!Ended
      /\ j \in Registry!Born
  <2>1. j \in Commands /\ bjSeen.rc \in {"alive"} \cup Registry!Ended
    BY <1>1, <1>2 DEF SweepTypes
  <2>2. Nobody \notin Commands BY AgentsAssumption DEF Registry!NamesAssumption
  <2> QED BY <1>1, <2>1, <2>2 DEF SweepInOrder
<1>5. s \in {"running"} \cup Final /\ (s \in Final <=> bjSeen.rc \in Registry!Ended)
  BY <1>4, Settles
<1>6. s \in Final => bjRc[j] \in Registry!Ended
  BY <1>1, <1>2, <1>5 DEF SweepInOrder, Registry!Ended
<1>7. bjStatus' \in [Commands -> Statuses] /\ StatusMoves
  <2>1. bjStatus'[j] = s /\ \A k \in Commands \ {j} : bjStatus'[k] = bjStatus[k]
    BY <1>1, <1>2, <1>4 DEF ProcessTypes
  <2>2. bjStatus' \in [Commands -> Statuses]
    BY <1>1, <1>2, <1>5 DEF ProcessTypes, Statuses
  <2>3. s # "killing" BY <1>5 DEF Final, Registry!Final
  <2>4. bjRc[j] # "unborn" BY <1>4 DEF Registry!Born
  <2> HIDE DEF s
  <2> QED BY <1>6, <2>1, <2>2, <2>3, <2>4 DEF StatusMoves
<1>8. bjWords' \in [Commands -> {"unsaid", "pipe", "buffer"}]
  BY <1>1, <1>2, Says
<1>9. SweepTypes'
  BY <1>1, <1>2 DEF SweepTypes, Registry!NoCheck
<1>10. SweepInOrder'
  <2>1. /\ Registry!Born' = Registry!Born /\ InRing' = InRing
        /\ Registry!NoCheck' = Registry!NoCheck /\ Registry!NoCheck.job = Nobody
    BY <1>2 DEF Registry!Born, InRing, Registry!NoCheck
  <2>2. bjSweep' # "store" BY <1>2
  <2>3. bjTodo' \cup {bjSeen'.job} \subseteq Registry!Born' \cup {Nobody}
    BY <1>1, <1>2, <2>1 DEF SweepInOrder
  <2>4. bjSeen' # Registry!NoCheck => bjRc'[bjSeen'.job] = bjSeen'.rc \/ bjSeen'.rc = "alive"
    BY <1>1, <1>2 DEF SweepInOrder
  <2>5. bjActive' \cap InRing' = {}
    BY <1>1, <1>2, <2>1 DEF SweepInOrder
  <2>6. /\ bjMgr' # Reaper /\ Cardinality(bjActive') <= MaxJobs + 1
        /\ bjMgr' \notin Callers => Cardinality(bjActive') <= MaxJobs
    BY <1>1, <1>2 DEF SweepInOrder
  <2> QED BY <2>1, <2>2, <2>3, <2>4, <2>5, <2>6 DEF SweepInOrder
<1> QED
  BY <1>2, <1>3, <1>7, <1>8, <1>9, <1>10, Unwritten, SweepKeeps

\* What became of a stale command goes into the ring, and it is stale no more.
LEMMA ConvergeKeeps ==
  ASSUME RegistryInv, Registry!Converge
  PROVE  RegistryInv'
<1> DEFINE j == bjSeen.job
           e == Registry!Snapshot(j, bjStatus[j])
<1>1. /\ ProcessTypes /\ ToldTypes /\ ListTypes /\ SweepTypes /\ StartedOnce /\ OverIsTrue
      /\ ListsAreSets /\ SweepInOrder
  BY InvParts
<1>2. /\ bjSweep = "converge" /\ bjMgr = Nobody /\ bjSweep' = "settle"
      /\ bjSeen' = Registry!NoCheck
      /\ IF j \in Registry!ToSet(bjStale)
           THEN /\ bjStale' = Registry!Untrack(bjStale, j)
                /\ bjRing' = Registry!Stored(bjRing, e)
           ELSE UNCHANGED <<bjStale, bjRing>>
      /\ UNCHANGED <<bjRc, bjWords, bjStatus, bjKiller, bjMgr, bjActive, bjSince, bjPc, bjJob, bjGoal,
                     bjTodo>>
  BY DEF Registry!Converge, Registry!SweepTo, Registry!process, Registry!caller
<1>3. ToldTypes'
  BY <1>1, Zenon DEF Registry!Converge, Registry!process, ToldTypes
<1>4. SweepTypes'
  BY <1>1, <1>2 DEF SweepTypes, Registry!NoCheck
<1>5. bjMgr # Reaper /\ bjMgr' # Reaper
  BY <1>2, AgentsAssumption DEF Registry!NamesAssumption
<1>6. ASSUME InRing' \cap bjActive = {}
      PROVE  SweepInOrder'
  <2>1. /\ Registry!Born' = Registry!Born
        /\ Registry!NoCheck' = Registry!NoCheck /\ Registry!NoCheck.job = Nobody
    BY <1>2 DEF Registry!Born, Registry!NoCheck
  <2>2. bjTodo' \cup {bjSeen'.job} \subseteq Registry!Born' \cup {Nobody}
    BY <1>1, <1>2, <2>1 DEF SweepInOrder
  <2>3. /\ Cardinality(bjActive') <= MaxJobs + 1
        /\ bjMgr' \notin Callers => Cardinality(bjActive') <= MaxJobs
    BY <1>1, <1>2 DEF SweepInOrder
  <2> QED BY <1>2, <1>5, <1>6, <2>1, <2>2, <2>3 DEF SweepInOrder
<1>7. InRing \cap bjActive = {}
  BY <1>1, <1>2 DEF SweepInOrder
<1>8. CASE j \notin Stales
  <2>1. UNCHANGED <<bjStale, bjRing>> BY <1>2, <1>8, SameOperators DEF Stales
  <2>2. SweepInOrder' BY <1>6, <1>7, <2>1 DEF InRing
  <2> QED BY <1>2, <1>3, <1>4, <2>1, <2>2, Unwritten, SweepKeeps
<1>9. CASE j \in Stales
  <2>1. bjStale' = Registry!Untrack(bjStale, j) /\ bjRing' = Registry!Stored(bjRing, e)
    BY <1>2, <1>9, SameOperators DEF Stales
  <2>2. j \in Commands /\ j \notin bjActive /\ bjRc[j] # "unborn"
    BY <1>1, <1>9 DEF ListTypes, Stales, ToSet, ListsAreSets, StartedOnce
  <2>3. e \in Entry /\ e.job = j /\ e.status = bjStatus[j]
    BY <1>1, <2>2, Snapshots DEF ProcessTypes
  <2> HIDE DEF e
  <2>4. bjRing' \in Seq(Entry) /\ InRing' \subseteq InRing \cup {j}
    <3>1. bjRing \in Seq(Entry) /\ OneEach(bjRing) /\ Len(bjRing) <= RingCap
      BY <1>1 DEF ListTypes, ListsAreSets
    <3>2. LET s == Registry!Stored(bjRing, e)
          IN  s \in Seq(Entry) /\ JobsIn(s) \subseteq JobsIn(bjRing) \cup {e.job}
      BY <2>3, <3>1, Stores
    <3> QED BY <2>1, <2>3, <3>2 DEF InRing
  <2>5. RingMoves
    <3>1. j \in Registry!Over'
      BY <1>2, <2>2 DEF Registry!Over, Registry!Born
    <3>2. bjStatus[j] \in Final => bjRc[j] \in Registry!Ended
      BY <1>1, <2>2 DEF OverIsTrue
    <3> QED BY <2>1, <2>2, <2>3, <3>1, <3>2 DEF RingMoves
  <2>6. bjStale' \in Seq(Commands) /\ Stales' \subseteq Stales
    <3>1. bjStale \in Seq(Commands) /\ IsInjective(bjStale) /\ j \in ToSet(bjStale)
      BY <1>1, <1>9 DEF ListTypes, ListsAreSets, Stales
    <3>2. LET u == Registry!Untrack(bjStale, j)
          IN  u \in Seq(Commands) /\ ToSet(u) \subseteq ToSet(bjStale)
      BY <3>1, Untracks
    <3> QED BY <2>1, <3>2 DEF Stales
  <2>7. StaleMoves BY <1>9, <2>1 DEF StaleMoves
  <2>8. SweepInOrder' BY <1>6, <1>7, <2>2, <2>4
  <2> QED BY <1>2, <1>3, <1>4, <2>4, <2>5, <2>6, <2>7, <2>8, Unwritten, SweepKeeps
<1> QED
  BY <1>8, <1>9

LEMMA DrainRunningKeeps ==
  ASSUME RegistryInv, Registry!DrainRunning
  PROVE  RegistryInv'
<1>1. /\ ToldTypes /\ SweepTypes /\ SweepInOrder /\ Registry!TypeOK
  BY InvParts DEF RegistryInv
<1>2. /\ bjSweep = "settle" /\ bjMgr = Nobody /\ bjSweep' = "idle"
      /\ Registry!PollAll(bjActive)
      /\ bjWords' = Registry!Said(bjActive \ Registry!NotRunning(bjActive))
      /\ UNCHANGED <<bjRc, bjKiller, bjMgr, bjActive, bjSince, bjRing, bjStale, bjPc, bjJob,
                     bjGoal, bjTodo, bjSeen>>
  BY DEF Registry!DrainRunning, Registry!SweepTo, Registry!registry, Registry!caller
<1>3. ToldTypes'
  BY <1>1, Zenon DEF Registry!DrainRunning, ToldTypes
<1>4. bjStatus' \in [Commands -> Statuses] /\ StatusMoves
  BY <1>2, PollMoves
<1>5. bjWords' \in [Commands -> {"unsaid", "pipe", "buffer"}]
  BY <1>1, <1>2, Says
<1>6. SweepTypes'
  BY <1>1, <1>2 DEF SweepTypes, Registry!NoCheck
<1>7. SweepInOrder'
  BY <1>1, <1>2 DEF SweepInOrder, Registry!Born, InRing, Registry!NoCheck
<1> QED
  BY <1>2, <1>3, <1>4, <1>5, <1>6, <1>7, Unwritten, SweepKeeps

LEMMA RegistryNext == RegistryInv /\ [Registry!Next]_jobVars => RegistryInv'
<1> SUFFICES ASSUME RegistryInv, [Registry!Next]_jobVars PROVE RegistryInv'
  OBVIOUS
<1>1. CASE UNCHANGED jobVars
  <2>1. /\ ProcessTypes /\ ToldTypes /\ SweepTypes /\ SweepInOrder
    BY InvParts
  <2>2. UNCHANGED <<bjRc, bjWords, bjStatus, bjKiller, bjMgr, bjActive, bjSince, bjRing, bjStale,
                    bjPc, bjJob, bjGoal, bjSweep, bjTodo, bjSeen>>
    BY <1>1 DEF jobVars
  <2>3. ToldTypes' BY <1>1, <2>1, Zenon DEF jobVars, ToldTypes
  <2>4. SweepTypes' BY <2>1, <2>2 DEF SweepTypes, Registry!NoCheck
  <2>5. SweepInOrder'
    BY <2>1, <2>2 DEF SweepInOrder, Registry!Born, InRing, Registry!NoCheck
  <2> QED BY <2>2, <2>3, <2>4, <2>5, Unwritten, SweepKeeps
<1>2. CASE Registry!Next
  BY <1>2, DieKeeps, LookKeeps, StartKeeps, AskKillKeeps, KillBeginsKeeps, SignalKeeps, WaitedKeeps,
     AnswerKillKeeps, MarkKeeps, DrainVictimKeeps, StoreVictimKeeps, DrainFinishedKeeps,
     CleanupBeginsKeeps, CleanupStoreKeeps, CleanupRemoveKeeps, SettlePollKeeps, SettleWriteKeeps,
     ConvergeKeeps, DrainRunningKeeps
     DEF Registry!Next, Registry!CallSteps, Registry!SweepSteps
<1> QED
  BY <1>1, <1>2

\* The invariant is strong enough.
LEMMA RegistrySafe == RegistryInv => LivingIsFindable
<1> SUFFICES ASSUME RegistryInv PROVE Registry!RegistriesBounded /\ Registry!LivingIsFindable
  BY DEF LivingIsFindable
<1>1. /\ ListTypes /\ OverIsTrue /\ ListsAreSets /\ RoomInRing /\ SweepInOrder
  BY InvParts
<1>2. ASSUME NEW j \in Commands
      PROVE  Registry!Listed(j) = {} <=> j \notin InRing
  BY DEF Registry!Listed, InRing, JobsIn
<1>3. Registry!RegistriesBounded
  <2>1. Nobody \notin Callers BY AgentsAssumption DEF Registry!NamesAssumption
  <2>2. bjMgr = Nobody => Registry!Cardinality(bjActive) <= MaxJobs
    BY <1>1, <2>1, SameOperators DEF SweepInOrder
  <2>3. Registry!IsInjective(bjStale) /\ bjActive \cap Registry!ToSet(bjStale) = {}
    BY <1>1, SameOperators DEF ListsAreSets, Stales
  <2>4. bjSweep # "store" => \A j \in bjActive : Registry!Listed(j) = {}
    BY <1>1, <1>2 DEF SweepInOrder, ListTypes
  <2> QED BY <1>1, <2>2, <2>3, <2>4 DEF Registry!RegistriesBounded, ListsAreSets, OneEach
<1>4. Registry!LivingIsFindable
  <2> SUFFICES ASSUME Registry!Cardinality(Registry!Over) <= RingCap,
                      NEW j \in Commands, bjRc[j] = "alive", j \notin bjActive
               PROVE  Registry!RingStatus(j) \in {"running", "killing"}
    BY DEF Registry!LivingIsFindable
  <2>1. j \in InRing BY <1>1, SameOperators DEF RoomInRing
  <2>2. PICK i \in Registry!Listed(j) : Registry!RingStatus(j) = bjRing[i].status
    BY <1>2, <2>1 DEF Registry!RingStatus
  <2>3. i \in DOMAIN bjRing /\ bjRing[i].job = j BY DEF Registry!Listed
  <2>4. bjRing[i].status \in Statuses
    <3>1. bjRing[i] \in Entry BY <1>1, <2>3 DEF ListTypes
    <3> QED BY <3>1 DEF Entry, Statuses
  <2>5. bjRing[i].status \notin Final
    BY <1>1, <2>3 DEF OverIsTrue, Registry!Ended
  <2> QED BY <2>2, <2>4, <2>5 DEF Statuses
<1> QED
  BY <1>3, <1>4

-----------------------------------------------------------------------------
(***************************************************************************)
(* What Agents keeps                                                       *)
(***************************************************************************)
AgentsInv == LoopInv /\ RegistryInv /\ WorkerInv

LEMMA AgentsStep == AgentsInv /\ [AgentsNext]_agentsVars => AgentsInv'
<1> SUFFICES ASSUME AgentsInv, [AgentsNext]_agentsVars PROVE AgentsInv'
  OBVIOUS
<1>1. [Next]_vars /\ [Registry!Next]_jobVars /\ [Worker!Next]_workerVars
  BY DEF AgentsNext, LoopStep, RegistryStep, WorkerStep, agentsVars
<1> QED
  BY <1>1, LoopNext, RegistryNext, WorkerNext DEF AgentsInv

\* The three keep their invariants, whichever of them moves.
THEOREM AgentsInvHolds == AgentsSpec => []AgentsInv
<1>1. AgentsInit => AgentsInv
  BY LoopInit, RegistryInit, WorkerInit DEF AgentsInit, AgentsInv
<1> QED
  BY <1>1, AgentsStep, PTL DEF AgentsSpec

\* The state of tool loop, registry and worker has the shape the code gives it.
THEOREM TypesKept == AgentsSpec => []TypesOK
<1>1. AgentsInv => TypesOK
  BY DEF AgentsInv, LoopInv, RegistryInv, WorkerInv, TypesOK
<1> QED
  BY <1>1, AgentsInvHolds, PTL

\* For any number of threads and sub-agents, each finished sub-agent is counted
\* once, reported by the poll that finds it finished, and in what the run returns;
\* and while no two spawns overlap, conflicts are warned of and slots respected
\* (_check_bg_subagent, _drain_bg_subagents).
THEOREM SpawnsKept == AgentsSpec => []SpawnsAreKept
<1>1. AgentsInv => SpawnsAreKept
  BY LoopSafe DEF AgentsInv
<1> QED
  BY <1>1, AgentsInvHolds, PTL

\* For any number of commands and callers and any caps, the registries are within
\* theirs, and a process that lives is found in one of them while the ring has
\* room (start, _evict_over_capacity_locked, cleanup, _reap_stale).
THEOREM LivingFound == AgentsSpec => []LivingIsFindable
<1>1. AgentsInv => LivingIsFindable
  BY RegistrySafe DEF AgentsInv
<1> QED
  BY <1>1, AgentsInvHolds, PTL

\* For any number of tasks, a worker that ends for a shutdown.json ends for one
\* the orchestrator wrote at the end of this run (write_task, main).
THEOREM ShutdownsWanted == AgentsSpec => []ShutdownIsWanted
<1>1. AgentsInv => ShutdownIsWanted
  BY DEF AgentsInv, WorkerInv, SentinelIsLate, ShutdownIsWanted, Worker!ShutdownIsWanted
<1> QED
  BY <1>1, AgentsInvHolds, PTL

=============================================================================
