-------------------------- MODULE SubagentIpcProofs --------------------------
(***************************************************************************)
(* Proofs about SubagentIpc, for any number of sub-agents, processes, runs *)
(* and retries.                                                            *)
(***************************************************************************)
EXTENDS SubagentIpc, TLAPS

(***************************************************************************)
(* Type correctness.  A dispatch that has published its task knows the     *)
(* directory it went to, and that directory counts as used by this run.    *)
(***************************************************************************)
Awaiting == {"launch", "wait", "stale", "review", "abandon"}

Placed ==
  /\ \A a \in Agents : at[a] \in Awaiting => slot[a] \in used
  /\ \A a \in Agents : at[a] \in {"publish", "launch", "wait", "stale", "review"}
                         => nonce[a] # 0
  /\ \A p \in Procs : Alive(p) => home[p] \in Agents
  /\ \A p \in Procs : pc[p] \in {"work", "wrote"} => job[p] \in Tasks

Typed == TypeOK /\ Placed

LEMMA InitTypes == Init => Typed
<1> SUFFICES ASSUME Init PROVE Typed
  OBVIOUS
<1>1. TypeOK
  BY BoundsAssumption DEF Init, TypeOK
<1>2. Placed
  BY DEF Init, Placed, Awaiting, Alive
<1> QED
  BY <1>1, <1>2 DEF Typed

LEMMA KillTypes ==
  ASSUME Typed, NEW P \in SUBSET Procs, Kill(P)
  PROVE  /\ pc' \in [Procs -> {"absent", "clear", "poll", "work", "wrote",
                               "exit", "ending", "gone"}]
         /\ home' \in [Procs -> Agents \cup {Nobody}]
         /\ job' \in [Procs -> Tasks \cup {NoTask}]
         /\ loose' \in [Procs -> Tasks \cup {NoTask}]
         /\ flag' \in [Procs -> BOOLEAN] /\ quit' \in [Procs -> BOOLEAN]
         /\ watch' \in [Procs -> {"off", "looking", "holding"}]
         /\ late' \in [Procs -> {"off", "looking", "holding"}]
         /\ \A p \in Procs : Alive(p)' => home'[p] \in Agents
         /\ \A p \in Procs : pc'[p] \in {"work", "wrote"} => job'[p] \in Tasks
BY DEF Typed, TypeOK, Placed, Kill, Alive

LEMMA ReturnTypes ==
  ASSUME Typed, NEW a \in Agents, Return(a)
  PROVE  /\ at' \in [Agents -> {"todo", "claim", "write", "publish", "launch",
                                "wait", "stale", "review", "abandon", "done"}]
         /\ slot' \in [Agents -> Agents \cup {Nobody}]
         /\ nonce' \in [Agents -> 0 .. epoch]
         /\ got' \in [Agents -> Results \cup {NoResult}]
         /\ retries' \in [Agents -> 0 .. MaxRetries]
         /\ at'[a] = "done"
         /\ \A b \in Agents \ {a} : at'[b] = at[b] /\ slot'[b] = slot[b] /\ nonce'[b] = nonce[b]
<1>1. 0 \in 0 .. epoch /\ 0 \in 0 .. MaxRetries
  BY BoundsAssumption DEF Typed, TypeOK
<1> QED
  BY <1>1 DEF Typed, TypeOK, Return

LEMMA StepTypes == Typed /\ [Next]_vars => Typed'
<1> SUFFICES ASSUME Typed, [Next]_vars PROVE Typed'
  OBVIOUS
<1> USE DEF Typed, TypeOK, Placed, Awaiting, Alive, run, disp, sent, wrk
<1>1. ASSUME NEW a \in Agents, Prepare(a) PROVE Typed'
  BY <1>1 DEF Prepare
<1>2. ASSUME NEW a \in Agents, Claim(a) PROVE Typed'
  BY <1>2 DEF Claim, Discard
<1>3. ASSUME NEW a \in Agents, WriteExpected(a) PROVE Typed'
  <2>1. /\ epoch' = epoch + 1 /\ epoch' \in 0 .. MaxEpoch
        /\ 0 .. epoch \subseteq 0 .. epoch'
    BY <1>3, BoundsAssumption DEF WriteExpected
  <2>2. /\ nonce' \in [Agents -> 0 .. epoch'] /\ expected' \in [Agents -> 0 .. epoch']
        /\ nonce'[a] # 0
    BY <1>3, <2>1 DEF WriteExpected
  <2> QED
    BY <1>3, <2>1, <2>2 DEF WriteExpected
<1>4. ASSUME NEW a \in Agents, WriteTask(a) PROVE Typed'
  <2>1. Dir(a) \in Agents
    BY <1>4, SetsAssumption DEF Dir
  <2>2. [agent |-> a, epoch |-> nonce[a]] \in Tasks
    BY <1>4, BoundsAssumption DEF WriteTask, Tasks, Epochs
  <2> QED
    BY <1>4, <2>1, <2>2 DEF WriteTask
<1>5. ASSUME NEW a \in Agents, Launch(a) PROVE Typed'
  <2>1. slot[a] \in Agents
    BY <1>5 DEF Launch
  <2> QED
    <3>1. CASE UNCHANGED <<handle, home, pc, exited>>
      BY <1>5, <3>1 DEF Launch
    <3>2. ASSUME NEW p \in Procs,
                 pc' = [pc EXCEPT ![p] = "clear"],
                 home' = [home EXCEPT ![p] = slot[a]],
                 exited' = [exited EXCEPT ![slot[a]] = FALSE],
                 handle' \in {handle, [handle EXCEPT ![slot[a]] = p]}
          PROVE  Typed'
      <4>1. handle' \in [Agents -> Procs \cup {Nobody}]
        BY <3>2
      <4> QED
        BY <1>5, <2>1, <3>2, <4>1 DEF Launch
    <3> QED
      BY <1>5, <3>1, <3>2 DEF Launch
<1>6. ASSUME NEW a \in Agents, ReadResult(a) PROVE Typed'
  BY <1>6 DEF ReadResult, Adopt
<1>7. ASSUME NEW a \in Agents, Quarantine(a) PROVE Typed'
  BY <1>7 DEF Quarantine, Adopt
<1>8. ASSUME NEW a \in Agents, GiveUp(a) PROVE Typed'
  BY <1>8 DEF GiveUp
<1>9. ASSUME NEW a \in Agents, Abandon(a) PROVE Typed'
  <2> DEFINE P == {p \in {handle[slot[a]]} \ {Nobody} : Alive(p)}
  <2>1. slot[a] \in Agents /\ P \in SUBSET Procs
    BY <1>9 DEF Abandon
  <2>2. CASE Kill(P) /\ UNCHANGED <<settled, pool>>
    BY <1>9, <2>1, <2>2, KillTypes, ReturnTypes DEF Abandon
  <2>3. CASE /\ settled' = [settled EXCEPT ![a] = TRUE]
             /\ pool' = pool \cup {slot[a]}
             /\ UNCHANGED wrk
    <3>1. slot[a] \in used
      BY <1>9 DEF Abandon
    <3> QED
      BY <1>9, <2>3, <3>1, ReturnTypes DEF Abandon
  <2> QED
    BY <1>9, <2>2, <2>3 DEF Abandon
<1>10. ASSUME NEW a \in Agents, Finish(a) PROVE Typed'
  <2>1. dirty' \in [Agents -> BOOLEAN]
    <3> DEFINE still == dirty[a] /\ got[a].status = "success"
    <3>1. still \in BOOLEAN
      BY Zenon
    <3>2. dirty' = [dirty EXCEPT ![a] = still]
      BY <1>10, Zenon DEF Finish
    <3> HIDE DEF still
    <3> QED
      BY <3>1, <3>2
  <2>2. slot[a] \in used /\ pool' \subseteq used
    BY <1>10 DEF Finish
  <2> QED
    BY <1>10, <2>1, <2>2, ReturnTypes DEF Finish
<1>11. ASSUME NEW a \in Agents, Reject(a) PROVE Typed'
  BY <1>11, BoundsAssumption DEF Reject
<1>12. ASSUME NextRun PROVE Typed'
  <2> DEFINE P == {p \in Procs : Alive(p) /\ \E w \in Agents : handle[w] = p}
  <2>1. Kill(P) /\ P \in SUBSET Procs
    BY <1>12 DEF NextRun
  <2>2. runs' \in 1 .. MaxRuns + 1
    BY <1>12, BoundsAssumption DEF NextRun
  <2> QED
    BY <1>12, <2>1, <2>2, KillTypes DEF NextRun, ClearPool
<1>13. ASSUME NEW p \in Procs, ClearFlag(p) \/ LooseEnds(p) \/ Interrupt(p) \/ Exit(p)
       PROVE  Typed'
  <2>1. CASE ClearFlag(p)
    BY <2>1 DEF ClearFlag
  <2>2. CASE LooseEnds(p)
    BY <2>2 DEF LooseEnds
  <2>3. CASE Interrupt(p)
    BY <2>3 DEF Interrupt
  <2>4. CASE Exit(p)
    BY <2>4 DEF Exit
  <2> QED
    BY <1>13, <2>1, <2>2, <2>3, <2>4
<1>14. ASSUME NEW p \in Procs, PickUp(p) PROVE Typed'
  BY <1>14 DEF PickUp, Taken
<1>15. ASSUME NEW p \in Procs, StopPolling(p) PROVE Typed'
  BY <1>15 DEF StopPolling
<1>16. ASSUME NEW p \in Procs, Edit(p) PROVE Typed'
  BY <1>16 DEF Edit
<1>17. ASSUME NEW p \in Procs, Complete(p) PROVE Typed'
  <2>1. PICK s \in Outcomes :
          /\ \E t \in LeftBehind(p, s) : loose' = [loose EXCEPT ![p] = t]
          /\ result' \in {result, [result EXCEPT ![job[p].agent] =
                                     [epoch |-> job[p].epoch, status |-> s]]}
    BY <1>17 DEF Complete
  <2>2. job[p] \in Tasks
    BY <1>17 DEF Complete
  <2>3. [epoch |-> job[p].epoch, status |-> s] \in Results
    BY <2>2 DEF Tasks, Results
  <2>4. loose' \in [Procs -> Tasks \cup {NoTask}]
    BY <2>1, <2>2 DEF LeftBehind
  <2>5. result' \in [Agents -> Results \cup {NoResult}]
    BY <2>1, <2>3
  <2> QED
    BY <1>17, <2>4, <2>5 DEF Complete
<1>18. ASSUME NEW p \in Procs, StopWatcher(p) PROVE Typed'
  BY <1>18 DEF StopWatcher
<1>19. ASSUME NEW p \in Procs, Watch(p) PROVE Typed'
  BY <1>19 DEF Watch
<1>20. ASSUME NEW p \in Procs, End(p) PROVE Typed'
  BY <1>20, KillTypes DEF End
<1>21. CASE UNCHANGED vars
  BY <1>21 DEF vars
<1> QED
  BY <1>1, <1>2, <1>3, <1>4, <1>5, <1>6, <1>7, <1>8, <1>9, <1>10, <1>11, <1>12,
     <1>13, <1>14, <1>15, <1>16, <1>17, <1>18, <1>19, <1>20, <1>21 DEF Next

(* The files and both sides keep their shape, whoever gives up, crashes or *)
(* outlives its run.                                                       *)
THEOREM TypeCorrect == Spec => []TypeOK
<1>1. Typed => TypeOK
  BY DEF Typed
<1> QED
  BY <1>1, InitTypes, StepTypes, PTL DEF Spec

(***************************************************************************)
(* Answers and dispatches.  From the moment expected.json is written until *)
(* the answer has been reviewed, it names the dispatch under way.          *)
(***************************************************************************)
Expecting == {"publish", "launch", "wait", "stale", "review"}

InStep == \A a \in Agents : at[a] \in Expecting => expected[a] = nonce[a]

SyncInv == InStep /\ AdoptedIsCurrent

LEMMA InitSync == Init => SyncInv
BY DEF Init, SyncInv, InStep, AdoptedIsCurrent, Expecting

LEMMA SyncStep == Typed /\ SyncInv /\ [Next]_vars => SyncInv'
<1> SUFFICES ASSUME Typed, SyncInv, [Next]_vars PROVE SyncInv'
  OBVIOUS
<1> USE DEF Typed, TypeOK, SyncInv, InStep, AdoptedIsCurrent, Expecting, run, disp, sent
<1>1. ASSUME NEW a \in Agents, Prepare(a) PROVE SyncInv'
  BY <1>1 DEF Prepare
<1>2. ASSUME NEW a \in Agents, Claim(a) PROVE SyncInv'
  BY <1>2 DEF Claim
<1>3. ASSUME NEW a \in Agents, WriteExpected(a) PROVE SyncInv'
  BY <1>3 DEF WriteExpected
<1>4. ASSUME NEW a \in Agents, WriteTask(a) PROVE SyncInv'
  BY <1>4 DEF WriteTask
<1>5. ASSUME NEW a \in Agents, Launch(a) PROVE SyncInv'
  BY <1>5 DEF Launch
<1>6. ASSUME NEW a \in Agents, ReadResult(a) PROVE SyncInv'
  <2>1. nonce[a] # 0
    BY <1>6 DEF ReadResult, Placed
  <2> QED
    BY <1>6, <2>1 DEF ReadResult, Fresh, Adopt
<1>7. ASSUME NEW a \in Agents, Quarantine(a) PROVE SyncInv'
  <2>1. nonce[a] # 0
    BY <1>7 DEF Quarantine, Placed
  <2> QED
    BY <1>7, <2>1 DEF Quarantine, Recovered, Fresh, Adopt
<1>8. ASSUME NEW a \in Agents, GiveUp(a) PROVE SyncInv'
  BY <1>8 DEF GiveUp
<1>9. ASSUME NEW a \in Agents, Abandon(a) \/ Finish(a) PROVE SyncInv'
  BY <1>9 DEF Abandon, Finish, Return
<1>10. ASSUME NEW a \in Agents, Reject(a) PROVE SyncInv'
  BY <1>10 DEF Reject
<1>11. CASE NextRun
  BY <1>11 DEF NextRun
<1>12. ASSUME NEW p \in Procs,
              ClearFlag(p) \/ PickUp(p) \/ StopPolling(p) \/ Edit(p) \/ LooseEnds(p)
       PROVE  SyncInv'
  BY <1>12 DEF ClearFlag, PickUp, StopPolling, Edit, LooseEnds
<1>13. ASSUME NEW p \in Procs,
              Complete(p) \/ StopWatcher(p) \/ Watch(p) \/ Interrupt(p) \/ Exit(p) \/ End(p)
       PROVE  SyncInv'
  BY <1>13 DEF Complete, StopWatcher, Watch, Interrupt, Exit, End
<1>14. CASE UNCHANGED vars
  BY <1>14 DEF vars
<1> QED
  BY <1>1, <1>2, <1>3, <1>4, <1>5, <1>6, <1>7, <1>8, <1>9, <1>10, <1>11, <1>12,
     <1>13, <1>14 DEF Next

LEMMA AlwaysSync == Spec => [](Typed /\ SyncInv)
BY InitTypes, StepTypes, InitSync, SyncStep, PTL DEF Spec

(* wait_for_result never returns the answer to an earlier dispatch.        *)
THEOREM NoStaleAnswer == Spec => []AdoptedIsCurrent
<1>1. SyncInv => AdoptedIsCurrent
  BY DEF SyncInv
<1> QED
  BY <1>1, AlwaysSync, PTL

(* Only three actions remove an answer, and Quarantine, the one of them    *)
(* that runs while the dispatch waits, adopts it if it is the one awaited. *)
LEMMA FreshStep ==
  ASSUME Typed, SyncInv, [Next]_vars, NEW a \in Agents,
         at[a] \in {"wait", "stale"}, result[a].epoch = nonce[a], result'[a] = NoResult
  PROVE  got'[a] = result[a]
<1> USE DEF Typed, TypeOK, run, disp, sent
<1>1. nonce[a] # 0 /\ expected[a] = nonce[a] /\ result[a] # NoResult
  BY DEF Placed, SyncInv, InStep, Expecting, NoResult
<1>2. result'[a] # result[a]
  BY <1>1
<1>3. ASSUME NEW b \in Agents, Prepare(b) \/ Reject(b) PROVE FALSE
  <2>1. a # b
    BY <1>3 DEF Prepare, Reject
  <2> QED
    BY <1>2, <1>3, <2>1 DEF Prepare, Reject
<1>4. ASSUME NEW b \in Agents, Quarantine(b) PROVE got'[a] = result[a]
  <2>1. a = b
    BY <1>2, <1>4 DEF Quarantine
  <2>2. Recovered(a)
    BY <1>1 DEF Recovered, Fresh
  <2> QED
    BY <1>4, <2>1, <2>2 DEF Quarantine, Adopt
<1>5. ASSUME NEW p \in Procs, Complete(p) PROVE FALSE
  <2>1. PICK s \in Outcomes :
          result' \in {result, [result EXCEPT ![job[p].agent] =
                                     [epoch |-> job[p].epoch, status |-> s]]}
    BY <1>5 DEF Complete
  <2>2. result'[a] = [epoch |-> job[p].epoch, status |-> s]
    BY <1>2, <2>1
  <2>3. s # "none"
    BY DEF Outcomes
  <2> QED
    BY <2>2, <2>3 DEF NoResult
<1>6. ASSUME UNCHANGED result PROVE FALSE
  BY <1>2, <1>6
<1>7. \A b \in Agents :
        \/ Claim(b) \/ WriteExpected(b) \/ WriteTask(b) \/ Launch(b)
        \/ ReadResult(b) \/ GiveUp(b) \/ Abandon(b) \/ Finish(b)
        => UNCHANGED result
  BY DEF Claim, WriteExpected, WriteTask, Launch, ReadResult, GiveUp, Abandon, Finish
<1>8. NextRun \/ UNCHANGED vars => UNCHANGED result
  BY DEF NextRun, vars
<1>9. \A p \in Procs :
        \/ ClearFlag(p) \/ PickUp(p) \/ StopPolling(p) \/ Edit(p) \/ LooseEnds(p)
        \/ StopWatcher(p) \/ Watch(p) \/ Interrupt(p) \/ Exit(p) \/ End(p)
        => UNCHANGED result
  BY DEF ClearFlag, PickUp, StopPolling, Edit, LooseEnds, StopWatcher, Watch,
         Interrupt, Exit, End
<1> QED
  BY <1>3, <1>4, <1>5, <1>6, <1>7, <1>8, <1>9 DEF Next

(* The orchestrator never throws away the answer it is waiting for.        *)
THEOREM FreshAnswerKept == Spec => FreshResultKept
<1> DEFINE Kept == \A a \in Agents :
                     /\ at[a] \in {"wait", "stale"} /\ result[a].epoch = nonce[a]
                     /\ result'[a] = NoResult
                     => got'[a] = result[a]
<1>1. Typed /\ SyncInv /\ [Next]_vars => [Kept]_vars
  BY FreshStep
<1> QED
  BY <1>1, AlwaysSync, PTL DEF Spec, FreshResultKept

(***************************************************************************)
(* Epochs.  Whatever bears an epoch bears one that was minted, and a       *)
(* dispatch is in one place at a time: about to be published, queued in    *)
(* one directory, or the job of one worker.                                *)
(***************************************************************************)
Minted ==
  /\ \A w \in Agents : task[w].epoch <= epoch /\ result[w].epoch <= epoch
                       /\ got[w].epoch <= epoch
  /\ \A p \in Procs : job[p].epoch <= epoch /\ loose[p].epoch <= epoch

Once ==
  /\ \A a, b \in Agents : a # b /\ at[a] = "publish" /\ at[b] = "publish"
                             => nonce[a] # nonce[b]
  /\ \A a, w \in Agents : at[a] = "publish" => task[w].epoch # nonce[a]
  /\ \A a \in Agents, p \in Procs : at[a] = "publish" => job[p].epoch # nonce[a]
  /\ \A v, w \in Agents : v # w /\ task[v] # NoTask => task[v].epoch # task[w].epoch
  /\ \A w \in Agents, p \in Procs : task[w] # NoTask => job[p].epoch # task[w].epoch
  /\ \A p, q \in Procs : p # q /\ job[p] # NoTask => job[p].epoch # job[q].epoch

LEMMA InitEpochs == Init => Minted /\ Once
BY DEF Init, Minted, Once, NoTask, NoResult

(* The types this part needs.                                              *)
Shapes ==
  /\ at \in [Agents -> {"todo", "claim", "write", "publish", "launch",
                        "wait", "stale", "review", "abandon", "done"}]
  /\ nonce \in [Agents -> Nat] /\ epoch \in Nat
  /\ got \in [Agents -> Results \cup {NoResult}]
  /\ result \in [Agents -> Results \cup {NoResult}]
  /\ task \in [Agents -> Tasks \cup {NoTask}]
  /\ job \in [Procs -> Tasks \cup {NoTask}] /\ loose \in [Procs -> Tasks \cup {NoTask}]

LEMMA TypedShapes ==
  ASSUME Typed
  PROVE  Shapes /\ \A a \in Agents : nonce[a] <= epoch
<1>1. epoch \in Nat /\ 0 .. epoch \subseteq Nat /\ \A n \in 0 .. epoch : n <= epoch
  BY BoundsAssumption DEF Typed, TypeOK
<1>2. nonce \in [Agents -> 0 .. epoch]
  BY DEF Typed, TypeOK
<1>3. nonce \in [Agents -> Nat] /\ \A a \in Agents : nonce[a] <= epoch
  BY <1>1, <1>2
<1> QED
  BY <1>1, <1>2, <1>3 DEF Typed, TypeOK, Shapes

(* Who ends a task, or ends with it, leaves at most less to run.           *)
LEMMA KillDrops ==
  ASSUME NEW P, Kill(P)
  PROVE  \A p \in Procs : job'[p] \in {job[p], NoTask} /\ loose'[p] \in {loose[p], NoTask}
BY DEF Kill

LEMMA JobsDropped ==
  ASSUME Typed,
         \/ \E a \in Agents : Abandon(a) \/ Finish(a)
         \/ NextRun
         \/ \E p \in Procs : LooseEnds(p) \/ StopWatcher(p) \/ End(p)
  PROVE  \A p \in Procs : job'[p] \in {job[p], NoTask} /\ loose'[p] \in {loose[p], NoTask}
<1>1. ASSUME NEW a \in Agents, Abandon(a) PROVE UNCHANGED wrk \/ \E P : Kill(P)
  BY <1>1 DEF Abandon
<1>2. ASSUME NEW a \in Agents, Finish(a) PROVE UNCHANGED wrk
  BY <1>2 DEF Finish
<1>3. ASSUME NextRun PROVE \E P : Kill(P)
  BY <1>3 DEF NextRun
<1>4. ASSUME NEW p \in Procs, LooseEnds(p) \/ StopWatcher(p)
      PROVE  \A q \in Procs : job'[q] \in {job[q], NoTask} /\ loose'[q] \in {loose[q], NoTask}
  BY <1>4 DEF LooseEnds, StopWatcher, Typed, TypeOK
<1>5. ASSUME NEW p \in Procs, End(p) PROVE \E P : Kill(P)
  BY <1>5 DEF End
<1>6. UNCHANGED wrk => UNCHANGED <<job, loose>>
  BY DEF wrk
<1> QED
  BY <1>1, <1>2, <1>3, <1>4, <1>5, <1>6, KillDrops

LEMMA Zero == NoTask.epoch = 0 /\ NoResult.epoch = 0
BY DEF NoTask, NoResult

LEMMA Positive ==
  /\ \A t \in Tasks : t.epoch \in Nat \ {0} /\ t # NoTask
  /\ \A r \in Results : r.epoch \in Nat \ {0} /\ r # NoResult
BY BoundsAssumption DEF Tasks, Results, Epochs, NoTask, NoResult

(* What Complete writes.                                                   *)
LEMMA CompleteEffect ==
  ASSUME Typed, NEW p \in Procs, Complete(p)
  PROVE  \E s \in Outcomes :
           /\ job[p] \in Tasks
           /\ [epoch |-> job[p].epoch, status |-> s] \in Results
           /\ \/ loose' = loose
              \/ s = "cancelled" /\ loose' = [loose EXCEPT ![p] = job[p]]
           /\ \/ result' = result
              \/ result' = [result EXCEPT ![job[p].agent] =
                               [epoch |-> job[p].epoch, status |-> s]]
<1>1. PICK s \in Outcomes :
        /\ \E t \in LeftBehind(p, s) : loose' = [loose EXCEPT ![p] = t]
        /\ result' \in {result, [result EXCEPT ![job[p].agent] =
                                   [epoch |-> job[p].epoch, status |-> s]]}
  BY DEF Complete
<1>2. job[p] \in Tasks
  BY DEF Complete, Typed, Placed
<1>3. [epoch |-> job[p].epoch, status |-> s] \in Results
  BY <1>2 DEF Tasks, Results
<1>4. loose' = loose \/ (s = "cancelled" /\ loose' = [loose EXCEPT ![p] = job[p]])
  <2>1. loose \in [Procs -> Tasks \cup {NoTask}]
    BY DEF Typed, TypeOK
  <2>2. PICK t \in LeftBehind(p, s) : loose' = [loose EXCEPT ![p] = t]
    BY <1>1
  <2>3. t = loose[p] \/ (s = "cancelled" /\ t = job[p])
    BY DEF LeftBehind
  <2> QED
    BY <2>1, <2>2, <2>3
<1> QED
  BY <1>1, <1>2, <1>3, <1>4

LEMMA MintedStep == Typed /\ Minted /\ [Next]_vars => Minted'
<1> SUFFICES ASSUME Typed, Minted, [Next]_vars PROVE Minted'
  OBVIOUS
<1>0. Shapes /\ \A a \in Agents : nonce[a] <= epoch
  BY TypedShapes
<1> USE <1>0, Zero DEF Shapes, Minted, run, disp, sent, wrk
<1>1. ASSUME NEW a \in Agents, Prepare(a) PROVE Minted'
  BY <1>1 DEF Prepare
<1>2. ASSUME NEW a \in Agents, Claim(a) \/ GiveUp(a) PROVE Minted'
  BY <1>2 DEF Claim, GiveUp
<1>3. ASSUME NEW a \in Agents, WriteExpected(a) PROVE Minted'
  <2>1. epoch' = epoch + 1 /\ UNCHANGED <<task, result, got, job, loose>>
    BY <1>3 DEF WriteExpected
  <2>2. /\ \A w \in Agents : task[w].epoch \in Nat /\ result[w].epoch \in Nat
                             /\ got[w].epoch \in Nat
        /\ \A p \in Procs : job[p].epoch \in Nat /\ loose[p].epoch \in Nat
    BY Positive
  <2> QED
    BY <2>1, <2>2
<1>4. ASSUME NEW a \in Agents, WriteTask(a) PROVE Minted'
  <2>1. /\ task' = [task EXCEPT ![Dir(a)] = [agent |-> a, epoch |-> nonce[a]]]
        /\ UNCHANGED <<epoch, result, got, job, loose>>
    BY <1>4 DEF WriteTask
  <2>2. [agent |-> a, epoch |-> nonce[a]].epoch <= epoch
    OBVIOUS
  <2>3. \A w \in Agents : task'[w].epoch <= epoch
    BY <2>1, <2>2
  <2> QED
    BY <2>1, <2>3
<1>5. ASSUME NEW a \in Agents, Launch(a) PROVE Minted'
  <2>1. UNCHANGED <<epoch, task, result, got, job, loose>>
    BY <1>5 DEF Launch
  <2> QED
    BY <2>1
<1>6. ASSUME NEW a \in Agents, ReadResult(a) \/ Quarantine(a) PROVE Minted'
  <2>1. /\ UNCHANGED <<epoch, task, job, loose>>
        /\ result' \in {result, [result EXCEPT ![a] = NoResult]}
        /\ got' \in {got, [got EXCEPT ![a] = result[a]]}
    BY <1>6 DEF ReadResult, Quarantine, Adopt
  <2>2. \A w \in Agents : result'[w] \in {result[w], NoResult} /\ got'[w] \in {got[w], result[w]}
    BY <2>1
  <2> QED
    BY <2>1, <2>2
<1>7. ASSUME NEW a \in Agents, Abandon(a) \/ Finish(a) PROVE Minted'
  <2>1. /\ UNCHANGED <<epoch, task, result>>
        /\ got' = [got EXCEPT ![a] = NoResult]
    BY <1>7 DEF Abandon, Finish, Return
  <2>2. \A p \in Procs : job'[p] \in {job[p], NoTask} /\ loose'[p] \in {loose[p], NoTask}
    BY <1>7, JobsDropped
  <2> QED
    BY <2>1, <2>2
<1>8. ASSUME NEW a \in Agents, Reject(a) PROVE Minted'
  BY <1>8 DEF Reject
<1>9. CASE NextRun
  <2>1. UNCHANGED <<epoch, task, result, got>>
    BY <1>9 DEF NextRun
  <2>2. \A p \in Procs : job'[p] \in {job[p], NoTask} /\ loose'[p] \in {loose[p], NoTask}
    BY <1>9, JobsDropped
  <2> QED
    BY <2>1, <2>2
<1>10. ASSUME NEW p \in Procs, PickUp(p) PROVE Minted'
  <2>1. /\ UNCHANGED <<epoch, result, got, loose>>
        /\ home[p] \in Agents
        /\ task' = [task EXCEPT ![home[p]] = NoTask]
        /\ job' \in {job, [job EXCEPT ![p] = task[home[p]]]}
    BY <1>10 DEF PickUp, Taken, Typed, Placed, Alive
  <2> QED
    BY <2>1
<1>11. ASSUME NEW p \in Procs, Complete(p) PROVE Minted'
  <2>1. UNCHANGED <<epoch, task, got, job>>
    BY <1>11 DEF Complete
  <2>2. PICK s \in Outcomes :
          /\ \/ loose' = loose
             \/ s = "cancelled" /\ loose' = [loose EXCEPT ![p] = job[p]]
          /\ \/ result' = result
             \/ result' = [result EXCEPT ![job[p].agent] =
                              [epoch |-> job[p].epoch, status |-> s]]
    BY <1>11, CompleteEffect
  <2>3. \A q \in Procs : loose'[q].epoch <= epoch
    BY <2>2
  <2>4. \A w \in Agents : result'[w].epoch <= epoch
    <3>1. [epoch |-> job[p].epoch, status |-> s].epoch <= epoch
      OBVIOUS
    <3> QED
      BY <2>2, <3>1
  <2> QED
    BY <2>1, <2>3, <2>4
<1>12. ASSUME NEW p \in Procs,
              ClearFlag(p) \/ StopPolling(p) \/ Edit(p) \/ Watch(p) \/ Interrupt(p) \/ Exit(p)
       PROVE  Minted'
  BY <1>12 DEF ClearFlag, StopPolling, Edit, Watch, Interrupt, Exit
<1>13. ASSUME NEW p \in Procs, LooseEnds(p) \/ StopWatcher(p) \/ End(p) PROVE Minted'
  <2>1. UNCHANGED <<epoch, task, result, got>>
    BY <1>13 DEF LooseEnds, StopWatcher, End
  <2>2. \A q \in Procs : job'[q] \in {job[q], NoTask} /\ loose'[q] \in {loose[q], NoTask}
    BY <1>13, JobsDropped
  <2> QED
    BY <2>1, <2>2
<1>14. CASE UNCHANGED vars
  BY <1>14 DEF vars
<1> QED
  BY <1>1, <1>2, <1>3, <1>4, <1>5, <1>6, <1>7, <1>8, <1>9, <1>10, <1>11, <1>12,
     <1>13, <1>14 DEF Next

(* A dispatch moves on, or is dropped: nobody is given a second copy.      *)
LEMMA OnceStep == Typed /\ Minted /\ Once /\ [Next]_vars => Once'
<1> SUFFICES ASSUME Typed, Minted, Once, [Next]_vars PROVE Once'
  OBVIOUS
<1>0. Shapes /\ \A a \in Agents : nonce[a] <= epoch
  BY TypedShapes
<1> USE <1>0, Zero DEF Shapes, Once, run, disp, sent, wrk
<1>1. ASSUME UNCHANGED task,
             \A a \in Agents : at'[a] = "publish" => at[a] = "publish" /\ nonce'[a] = nonce[a],
             \A p \in Procs : job'[p] \in {job[p], NoTask}
      PROVE  Once'
  <2>1. \A a \in Agents, p \in Procs : at'[a] = "publish" => job'[p].epoch # nonce'[a]
    <3>1. \A a \in Agents : at[a] = "publish" => nonce[a] # 0
      BY DEF Typed, Placed
    <3> QED
      BY <1>1, <3>1
  <2>2. \A w \in Agents, p \in Procs : task[w] # NoTask => job'[p].epoch # task[w].epoch
    BY <1>1, Positive
  <2>3. \A p, q \in Procs : p # q /\ job'[p] # NoTask => job'[p].epoch # job'[q].epoch
    BY <1>1, Positive
  <2> QED
    BY <1>1, <2>1, <2>2, <2>3
<1>2. ASSUME NEW a \in Agents, Prepare(a) \/ Claim(a) PROVE Once'
  BY <1>1, <1>2 DEF Prepare, Claim
<1>3. ASSUME NEW a \in Agents, Launch(a) \/ GiveUp(a) PROVE Once'
  BY <1>1, <1>3 DEF Launch, GiveUp
<1>4. ASSUME NEW a \in Agents, ReadResult(a) \/ Quarantine(a) PROVE Once'
  BY <1>1, <1>4 DEF ReadResult, Quarantine, Adopt
<1>5. ASSUME NEW a \in Agents, WriteExpected(a) PROVE Once'
  <2>1. /\ \A w \in Agents : task[w].epoch # epoch + 1 /\ nonce[w] # epoch + 1
        /\ \A p \in Procs : job[p].epoch # epoch + 1
    BY Positive DEF Minted
  <2>2. /\ nonce' = [nonce EXCEPT ![a] = epoch + 1] /\ at' = [at EXCEPT ![a] = "publish"]
        /\ UNCHANGED <<task, job>>
    BY <1>5 DEF WriteExpected
  <2> QED
    BY <2>1, <2>2
<1>6. ASSUME NEW a \in Agents, WriteTask(a) PROVE Once'
  <2> DEFINE t == [agent |-> a, epoch |-> nonce[a]]
  <2>1. /\ at[a] = "publish" /\ nonce[a] # 0 /\ at'[a] # "publish"
        /\ \A b \in Agents \ {a} : at'[b] = at[b]
    BY <1>6 DEF WriteTask, Typed, Placed
  <2>2. task' = [task EXCEPT ![Dir(a)] = t] /\ UNCHANGED <<nonce, job>>
    BY <1>6 DEF WriteTask
  <2>3. t.epoch = nonce[a]
    OBVIOUS
  <2>4. \A w \in Agents : task'[w] = task[w] \/ (w = Dir(a) /\ task'[w] = t)
    BY <2>2
  <2> HIDE DEF t
  <2> QED
    BY <2>1, <2>2, <2>3, <2>4
<1>7. ASSUME NEW a \in Agents, Abandon(a) \/ Finish(a) PROVE Once'
  <2>1. /\ UNCHANGED task
        /\ at' = [at EXCEPT ![a] = "done"] /\ nonce' = [nonce EXCEPT ![a] = 0]
    BY <1>7 DEF Abandon, Finish, Return
  <2>2. \A p \in Procs : job'[p] \in {job[p], NoTask}
    BY <1>7, JobsDropped
  <2> QED
    BY <1>1, <2>1, <2>2
<1>8. ASSUME NEW a \in Agents, Reject(a) PROVE Once'
  BY <1>1, <1>8 DEF Reject
<1>9. CASE NextRun
  <2>1. UNCHANGED task /\ \A a \in Agents : at'[a] = "todo"
    BY <1>9 DEF NextRun
  <2>2. \A p \in Procs : job'[p] \in {job[p], NoTask}
    BY <1>9, JobsDropped
  <2> QED
    BY <1>1, <2>1, <2>2
<1>10. ASSUME NEW p \in Procs, PickUp(p) PROVE Once'
  <2>1. /\ UNCHANGED <<at, nonce>>
        /\ home[p] \in Agents /\ task[home[p]] # NoTask
        /\ task' = [task EXCEPT ![home[p]] = NoTask]
        /\ job' \in {job, [job EXCEPT ![p] = task[home[p]]]}
    BY <1>10 DEF PickUp, Taken, Typed, Placed, Alive
  <2>2. \A a \in Agents : at[a] = "publish" => nonce[a] # 0
    BY DEF Typed, Placed
  <2>3. \A q \in Procs : job'[q] = job[q] \/ (q = p /\ job'[q] = task[home[p]])
    BY <2>1
  <2>4. \A w \in Agents : task'[w] = IF w = home[p] THEN NoTask ELSE task[w]
    BY <2>1
  <2>5. \A v, w \in Agents : v # w /\ task'[v] # NoTask => task'[v].epoch # task'[w].epoch
    BY <2>4, Positive
  <2> QED
    BY <2>1, <2>2, <2>3, <2>4, <2>5
<1>11. ASSUME NEW p \in Procs,
              \/ ClearFlag(p) \/ StopPolling(p) \/ Edit(p) \/ Watch(p) \/ Interrupt(p)
              \/ Exit(p) \/ LooseEnds(p) \/ Complete(p)
       PROVE  Once'
  <2>1. UNCHANGED <<at, nonce, task, job>>
    BY <1>11 DEF ClearFlag, StopPolling, Edit, Watch, Interrupt, Exit, LooseEnds, Complete
  <2> QED
    BY <2>1
<1>12. ASSUME NEW p \in Procs, StopWatcher(p) \/ End(p) PROVE Once'
  <2>1. UNCHANGED <<at, nonce, task>>
    BY <1>12 DEF StopWatcher, End
  <2>2. \A q \in Procs : job'[q] \in {job[q], NoTask}
    BY <1>12, JobsDropped
  <2> QED
    BY <1>1, <2>1, <2>2
<1>13. CASE UNCHANGED vars
  BY <1>13 DEF vars
<1> QED
  BY <1>2, <1>3, <1>4, <1>5, <1>6, <1>7, <1>8, <1>9, <1>10, <1>11, <1>12, <1>13 DEF Next

LEMMA AlwaysOnce == Spec => [](Typed /\ SyncInv /\ Minted /\ Once)
BY AlwaysSync, InitEpochs, MintedStep, OnceStep, PTL DEF Spec

(* The rename of task.json has one winner: no dispatch has two runners.    *)
THEOREM OneRunner == Spec => []OneRunnerPerDispatch
<1>1. Once => OneRunnerPerDispatch
  BY DEF Once, OneRunnerPerDispatch
<1> QED
  BY <1>1, AlwaysOnce, PTL

(***************************************************************************)
(* Finished work.  An answer and a tool call left behind belong to         *)
(* dispatches that no worker runs or will run, and an answer other than a  *)
(* cancellation to one that left no tool call behind.                      *)
(***************************************************************************)
Open ==
  {nonce[a] : a \in {b \in Agents : at[b] = "publish"}}
    \cup {task[w].epoch : w \in {v \in Agents : task[v] # NoTask}}
    \cup {job[p].epoch : p \in {q \in Procs : pc[q] = "work"}}

Left == {loose[p].epoch : p \in {q \in Procs : loose[q] # NoTask}}

Spent ==
  /\ \A e \in Left : e \notin Open
  /\ \A a \in Agents : result[a] # NoResult => result[a].epoch \notin Open
  /\ \A a \in Agents : at[a] = "review" => got[a] # NoResult /\ got[a].epoch \notin Open

Quiet ==
  /\ \A a \in Agents : result[a] # NoResult /\ result[a].status # "cancelled"
                         => result[a].epoch \notin Left
  /\ \A a \in Agents : at[a] = "review" /\ got[a].status # "cancelled"
                         => got[a].epoch \notin Left

EndInv == Spent /\ Quiet

LEMMA InitEnd == Init => EndInv
BY DEF Init, EndInv, Spent, Quiet, Left

(* Only the minting of an epoch opens a dispatch.                          *)
LEMMA OpenStep ==
  ASSUME Typed, [Next]_vars, NEW e \in Open'
  PROVE  e \in Open \cup {epoch + 1}
<1>0. Shapes
  BY TypedShapes
<1> USE <1>0 DEF Shapes, Open, run, disp, sent, wrk
<1>1. ASSUME \A a \in Agents : at'[a] = "publish" => at[a] = "publish" /\ nonce'[a] = nonce[a],
             UNCHANGED task,
             \A p \in Procs : pc'[p] = "work" => pc[p] = "work" /\ job'[p] = job[p]
      PROVE  e \in Open
  BY <1>1
<1>2. ASSUME NEW P, Kill(P)
      PROVE  \A p \in Procs : pc'[p] = "work" => pc[p] = "work" /\ job'[p] = job[p]
  BY <1>2 DEF Kill
<1>3. ASSUME NEW a \in Agents, Prepare(a) \/ Claim(a) \/ GiveUp(a) PROVE e \in Open
  BY <1>1, <1>3 DEF Prepare, Claim, GiveUp
<1>4. ASSUME NEW a \in Agents, ReadResult(a) \/ Quarantine(a) PROVE e \in Open
  BY <1>1, <1>4 DEF ReadResult, Quarantine, Adopt
<1>5. ASSUME NEW a \in Agents, WriteExpected(a) PROVE e \in Open \cup {epoch + 1}
  <2>1. /\ nonce' = [nonce EXCEPT ![a] = epoch + 1] /\ at' = [at EXCEPT ![a] = "publish"]
        /\ UNCHANGED <<task, pc, job>>
    BY <1>5 DEF WriteExpected
  <2> QED
    BY <2>1
<1>6. ASSUME NEW a \in Agents, WriteTask(a) PROVE e \in Open
  <2> DEFINE t == [agent |-> a, epoch |-> nonce[a]]
  <2>1. /\ at[a] = "publish" /\ at'[a] # "publish"
        /\ \A b \in Agents \ {a} : at'[b] = at[b]
    BY <1>6 DEF WriteTask
  <2>2. task' = [task EXCEPT ![Dir(a)] = t] /\ UNCHANGED <<nonce, job, pc>>
    BY <1>6 DEF WriteTask
  <2>3. t.epoch = nonce[a]
    OBVIOUS
  <2>4. \A w \in Agents : task'[w] = task[w] \/ task'[w] = t
    BY <2>2
  <2> HIDE DEF t
  <2> QED
    BY <2>1, <2>2, <2>3, <2>4
<1>7. ASSUME NEW a \in Agents, Launch(a) PROVE e \in Open
  <2>1. /\ UNCHANGED <<nonce, task, job>> /\ at' = [at EXCEPT ![a] = "wait"]
        /\ pc' = pc \/ \E p \in Procs : pc' = [pc EXCEPT ![p] = "clear"]
    BY <1>7 DEF Launch
  <2>2. \A p \in Procs : pc'[p] = "work" => pc[p] = "work"
    BY <2>1 DEF Typed, TypeOK
  <2> QED
    BY <1>1, <2>1, <2>2
<1>8. ASSUME NEW a \in Agents, Abandon(a) \/ Finish(a) PROVE e \in Open
  <2>1. /\ UNCHANGED task
        /\ at' = [at EXCEPT ![a] = "done"] /\ nonce' = [nonce EXCEPT ![a] = 0]
    BY <1>8 DEF Abandon, Finish, Return
  <2>2. UNCHANGED <<pc, job>> \/ \E P : Kill(P)
    BY <1>8 DEF Abandon, Finish
  <2> QED
    BY <1>1, <1>2, <2>1, <2>2
<1>9. ASSUME NEW a \in Agents, Reject(a) PROVE e \in Open
  BY <1>1, <1>9 DEF Reject
<1>10. ASSUME NextRun PROVE e \in Open
  <2>1. /\ UNCHANGED task /\ \A a \in Agents : at'[a] = "todo"
        /\ \E P : Kill(P)
    BY <1>10 DEF NextRun
  <2> QED
    BY <1>1, <1>2, <2>1
<1>11. ASSUME NEW p \in Procs, PickUp(p) PROVE e \in Open
  <2>1. /\ UNCHANGED <<at, nonce>>
        /\ home[p] \in Agents /\ task[home[p]] # NoTask
        /\ task' = [task EXCEPT ![home[p]] = NoTask]
        /\ \/ pc' = [pc EXCEPT ![p] = "exit"] /\ UNCHANGED job
           \/ job' = [job EXCEPT ![p] = task[home[p]]] /\ pc' = [pc EXCEPT ![p] = "work"]
    BY <1>11 DEF PickUp, Taken, Typed, Placed, Alive
  <2>2. \A q \in Procs : pc'[q] = "work" =>
            \/ pc[q] = "work" /\ job'[q] = job[q]
            \/ job'[q] = task[home[p]]
    BY <2>1 DEF Typed, TypeOK
  <2> QED
    BY <2>1, <2>2
<1>12. ASSUME NEW p \in Procs,
              \/ ClearFlag(p) \/ StopPolling(p) \/ Edit(p) \/ Watch(p) \/ Interrupt(p)
              \/ Exit(p) \/ LooseEnds(p) \/ Complete(p)
       PROVE  e \in Open
  <2>1. /\ UNCHANGED <<at, nonce, task, job>>
        /\ \A q \in Procs : pc'[q] = "work" => pc[q] = "work"
    BY <1>12 DEF ClearFlag, StopPolling, Edit, Watch, Interrupt, Exit, LooseEnds, Complete,
                 Typed, TypeOK
  <2> QED
    BY <1>1, <2>1
<1>13. ASSUME NEW p \in Procs, StopWatcher(p) PROVE e \in Open
  <2>1. /\ UNCHANGED <<at, nonce, task>> /\ pc[p] = "wrote"
        /\ pc' \in {[pc EXCEPT ![p] = "exit"], [pc EXCEPT ![p] = "clear"]}
        /\ job' = [job EXCEPT ![p] = NoTask]
    BY <1>13 DEF StopWatcher
  <2>2. \A q \in Procs : pc'[q] = "work" => pc[q] = "work" /\ job'[q] = job[q]
    BY <2>1 DEF Typed, TypeOK
  <2> QED
    BY <1>1, <2>1, <2>2
<1>14. ASSUME NEW p \in Procs, End(p) PROVE e \in Open
  <2>1. UNCHANGED <<at, nonce, task>> /\ \E P : Kill(P)
    BY <1>14 DEF End
  <2> QED
    BY <1>1, <1>2, <2>1
<1>15. ASSUME UNCHANGED vars PROVE e \in Open
  BY <1>15 DEF vars
<1> QED
  BY <1>3, <1>4, <1>5, <1>6, <1>7, <1>8, <1>9, <1>10, <1>11, <1>12, <1>13, <1>14,
     <1>15 DEF Next

LEMMA EndStep == Typed /\ Minted /\ Once /\ EndInv /\ [Next]_vars => EndInv'
<1> SUFFICES ASSUME Typed, Minted, Once, EndInv, [Next]_vars PROVE EndInv'
  OBVIOUS
<1>0. Shapes
  BY TypedShapes
<1> USE DEF run, disp, sent, wrk
<1>a. /\ epoch + 1 \notin Left
      /\ \A a \in Agents : result[a].epoch # epoch + 1 /\ got[a].epoch # epoch + 1
  BY <1>0, Zero, Positive DEF Minted, Shapes, Left
<1>b. Open' \subseteq Open \cup {epoch + 1}
  BY OpenStep
(* Most actions leave answers and left calls alone, or take some away, or  *)
(* adopt an answer.                                                        *)
<1>1. ASSUME \A p \in Procs : loose'[p] \in {loose[p], NoTask},
             \A a \in Agents : result'[a] \in {result[a], NoResult},
             \A a \in Agents : at'[a] = "review" =>
                 \/ at[a] = "review" /\ got'[a] = got[a]
                 \/ result[a] # NoResult /\ got'[a] = result[a]
      PROVE  EndInv'
  <2>1. Left' \subseteq Left
    BY <1>1 DEF Left
  <2>2. Spent'
    BY <1>a, <1>b, <1>1, <2>1 DEF EndInv, Spent
  <2>3. Quiet'
    BY <1>1, <2>1 DEF EndInv, Quiet
  <2> QED
    BY <2>2, <2>3 DEF EndInv
<1>2. ASSUME NEW p \in Procs, Complete(p) PROVE EndInv'
  <2> DEFINE e == job[p].epoch
  <2>1. PICK s \in Outcomes :
          /\ job[p] \in Tasks
          /\ [epoch |-> e, status |-> s] \in Results
          /\ \/ loose' = loose
             \/ s = "cancelled" /\ loose' = [loose EXCEPT ![p] = job[p]]
          /\ \/ result' = result
             \/ result' = [result EXCEPT ![job[p].agent] = [epoch |-> e, status |-> s]]
    BY <1>2, CompleteEffect
  <2> DEFINE r == [epoch |-> e, status |-> s]
  <2>2. /\ UNCHANGED <<at, nonce, got, task, job>>
        /\ pc[p] = "work" /\ pc' = [pc EXCEPT ![p] = "wrote"]
    BY <1>2 DEF Complete
  <2>3. job[p] # NoTask /\ e \in Open
    BY <2>1, <2>2, Positive DEF Open
  <2>4. e \notin Open'
    <3>1. \A q \in Procs : pc'[q] = "work" => q # p
      BY <2>2 DEF Typed, TypeOK
    <3> QED
      BY <2>2, <2>3, <3>1 DEF Open, Once
  <2>5. e \notin Left
    BY <2>3 DEF EndInv, Spent
  <2>6. \A a \in Agents : /\ result[a] # NoResult => result[a].epoch # e
                          /\ at[a] = "review" => got[a].epoch # e
    BY <2>3 DEF EndInv, Spent
  <2>7. Left' \subseteq IF s = "cancelled" THEN Left \cup {e} ELSE Left
    BY <1>0, <2>1 DEF Shapes, Left
  <2>8. \A a \in Agents : result'[a] = result[a] \/ result'[a] = r
    BY <1>0, <2>1 DEF Shapes
  <2>9. r.epoch = e /\ r.status = s /\ r # NoResult
    BY <2>1, Positive
  <2> HIDE DEF e, r
  <2>10. Spent'
    BY <1>a, <1>b, <2>2, <2>4, <2>7, <2>8, <2>9 DEF EndInv, Spent
  <2>11. Quiet'
    BY <2>2, <2>5, <2>6, <2>7, <2>8, <2>9 DEF EndInv, Quiet, Spent
  <2> QED
    BY <2>10, <2>11 DEF EndInv
<1>3. ASSUME NEW a \in Agents, Prepare(a) \/ Reject(a) PROVE EndInv'
  <2>1. /\ UNCHANGED loose
        /\ result' = [result EXCEPT ![a] = NoResult]
        /\ \A b \in Agents : at'[b] = "review" => at[b] = "review" /\ got'[b] = got[b]
    BY <1>0, <1>3 DEF Prepare, Reject, Shapes
  <2> QED
    BY <1>0, <1>1, <2>1 DEF Shapes
<1>4. ASSUME NEW a \in Agents,
             Claim(a) \/ WriteExpected(a) \/ WriteTask(a) \/ Launch(a) \/ GiveUp(a)
      PROVE  EndInv'
  <2>1. UNCHANGED <<loose, result, got>>
    BY <1>4 DEF Claim, WriteExpected, WriteTask, Launch, GiveUp
  <2>2. \A b \in Agents : at'[b] = "review" => at[b] = "review"
    BY <1>0, <1>4 DEF Claim, WriteExpected, WriteTask, Launch, GiveUp, Shapes
  <2> QED
    BY <1>1, <2>1, <2>2
<1>5. ASSUME NEW a \in Agents, ReadResult(a) PROVE EndInv'
  <2>1. /\ UNCHANGED <<loose, result>>
        /\ \A b \in Agents : at'[b] = "review" =>
              \/ at[b] = "review" /\ got'[b] = got[b]
              \/ result[b] # NoResult /\ got'[b] = result[b]
    BY <1>0, <1>5 DEF ReadResult, Adopt, Shapes
  <2> QED
    BY <1>1, <2>1
<1>6. ASSUME NEW a \in Agents, Quarantine(a) PROVE EndInv'
  <2>1. /\ UNCHANGED loose
        /\ \A b \in Agents : result'[b] \in {result[b], NoResult}
        /\ \A b \in Agents : at'[b] = "review" =>
              \/ at[b] = "review" /\ got'[b] = got[b]
              \/ result[b] # NoResult /\ got'[b] = result[b]
    BY <1>0, <1>6 DEF Quarantine, Recovered, Fresh, Adopt, Shapes
  <2> QED
    BY <1>1, <2>1
<1>7. ASSUME NEW a \in Agents, Abandon(a) \/ Finish(a) PROVE EndInv'
  <2>1. /\ UNCHANGED result
        /\ \A b \in Agents : at'[b] = "review" => at[b] = "review" /\ got'[b] = got[b]
    BY <1>0, <1>7 DEF Abandon, Finish, Return, Shapes
  <2> QED
    BY <1>1, <1>7, <2>1, JobsDropped
<1>8. ASSUME NextRun PROVE EndInv'
  <2>1. UNCHANGED result /\ \A b \in Agents : at'[b] = "todo"
    BY <1>8 DEF NextRun
  <2> QED
    BY <1>1, <1>8, <2>1, JobsDropped
<1>9. ASSUME NEW p \in Procs, LooseEnds(p) \/ StopWatcher(p) \/ End(p) PROVE EndInv'
  <2>1. UNCHANGED <<at, got, result>>
    BY <1>9 DEF LooseEnds, StopWatcher, End
  <2> QED
    BY <1>1, <1>9, <2>1, JobsDropped
<1>10. ASSUME NEW p \in Procs,
              \/ ClearFlag(p) \/ PickUp(p) \/ StopPolling(p) \/ Edit(p) \/ Watch(p)
              \/ Interrupt(p) \/ Exit(p)
       PROVE  EndInv'
  <2>1. UNCHANGED <<at, got, result, loose>>
    BY <1>10 DEF ClearFlag, PickUp, StopPolling, Edit, Watch, Interrupt, Exit
  <2> QED
    BY <1>1, <2>1
<1>11. ASSUME UNCHANGED vars PROVE EndInv'
  <2>1. UNCHANGED <<at, got, result, loose>>
    BY <1>11 DEF vars
  <2> QED
    BY <1>1, <2>1
<1> QED
  BY <1>2, <1>3, <1>4, <1>5, <1>6, <1>7, <1>8, <1>9, <1>10, <1>11 DEF Next

LEMMA EndedMeans == EndInv => AdoptedIsFinished
<1> SUFFICES ASSUME EndInv, NEW a \in Agents, NEW p \in Procs,
                    at[a] = "review", got[a].status # "cancelled",
                    [agent |-> a, epoch |-> got[a].epoch] \in Running(p)
             PROVE  FALSE
  BY DEF AdoptedIsFinished
<1>1. [agent |-> a, epoch |-> got[a].epoch] # loose[p] \/ loose[p] = NoTask
  BY DEF EndInv, Quiet, Left
<1>2. ~(pc[p] = "work" /\ job[p].epoch = got[a].epoch)
  BY DEF EndInv, Spent, Open
<1> QED
  BY <1>1, <1>2 DEF Running

(* An adopted answer other than a cancellation means that no thread still  *)
(* runs its dispatch.                                                      *)
THEOREM AnswerIsFinal == Spec => []AdoptedIsFinished
BY AlwaysOnce, InitEnd, EndStep, EndedMeans, PTL DEF Spec

(***************************************************************************)
(* Directories.  A dispatch has the directory of a worker for itself, from *)
(* the claim until the worker goes to the pool, and its task is queued     *)
(* nowhere else.                                                           *)
(***************************************************************************)
Lodged ==
  /\ \A a \in Agents : at[a] \in {"todo", "claim", "done"} => slot[a] = Nobody
  /\ \A a \in Agents : at[a] \in {"todo", "claim", "write", "publish"} /\ slot[a] = Nobody
                         => a \notin used
  /\ \A a \in Agents : slot[a] # Nobody => slot[a] \in used /\ slot[a] \notin pool
  /\ \A a, b \in Agents : a # b /\ slot[a] # Nobody => slot[a] # slot[b]

QueuedHere ==
  \A w, a \in Agents :
    task[w] # NoTask /\ task[w].agent = a /\ task[w].epoch = nonce[a] /\ at[a] \in Awaiting
    => slot[a] = w

LEMMA InitLodged == Init => Lodged /\ QueuedHere
BY DEF Init, Lodged, QueuedHere

Places ==
  /\ at \in [Agents -> {"todo", "claim", "write", "publish", "launch",
                        "wait", "stale", "review", "abandon", "done"}]
  /\ slot \in [Agents -> Agents \cup {Nobody}]
  /\ pool \subseteq used /\ used \subseteq Agents /\ Nobody \notin Agents
  /\ \A a \in Agents : at[a] \in Awaiting => slot[a] \in used

LEMMA TypedPlaces == ASSUME Typed PROVE Places
BY SetsAssumption DEF Typed, TypeOK, Placed, Places

LEMMA LodgedStep == Typed /\ Lodged /\ [Next]_vars => Lodged'
<1> SUFFICES ASSUME Typed, Lodged, [Next]_vars PROVE Lodged'
  OBVIOUS
<1>0. Places
  BY TypedPlaces
<1> USE <1>0 DEF Places, Lodged, Awaiting, run, disp, sent
<1>1. ASSUME NEW a \in Agents, Prepare(a) PROVE Lodged'
  <2>1. at' = [at EXCEPT ![a] = "claim"] /\ at[a] = "todo" /\ UNCHANGED <<slot, used, pool>>
    BY <1>1 DEF Prepare
  <2> QED
    BY <2>1
<1>2. ASSUME NEW a \in Agents, Claim(a) PROVE Lodged'
  <2>1. /\ at[a] = "claim" /\ at' = [at EXCEPT ![a] = "write"] /\ UNCHANGED used
        /\ pool' \subseteq pool
        /\ \E w \in pool \cup {Nobody} : w \notin pool' /\ slot' = [slot EXCEPT ![a] = w]
    BY <1>2 DEF Claim, Discard
  <2> QED
    BY <2>1
<1>3. ASSUME NEW a \in Agents, WriteExpected(a) PROVE Lodged'
  <2>1. /\ at[a] = "write" /\ at' = [at EXCEPT ![a] = "publish"]
        /\ UNCHANGED <<slot, used, pool>>
    BY <1>3 DEF WriteExpected
  <2> QED
    BY <2>1
<1>4. ASSUME NEW a \in Agents, WriteTask(a) PROVE Lodged'
  <2>1. /\ at[a] = "publish"
        /\ at' \in {[at EXCEPT ![a] = "launch"], [at EXCEPT ![a] = "wait"]}
        /\ slot' = [slot EXCEPT ![a] = Dir(a)] /\ used' = used \cup {Dir(a)}
        /\ UNCHANGED pool
    BY <1>4 DEF WriteTask
  <2>2. CASE slot[a] = Nobody
    BY <2>1, <2>2 DEF Dir
  <2>3. CASE slot[a] # Nobody
    <3>1. Dir(a) = slot[a] /\ slot[a] \in used
      BY <2>3 DEF Dir
    <3>2. slot' = slot /\ used' = used
      BY <2>1, <3>1
    <3> QED
      BY <2>1, <2>3, <3>2
  <2> QED
    BY <2>2, <2>3
<1>5. ASSUME NEW a \in Agents,
             Launch(a) \/ ReadResult(a) \/ Quarantine(a) \/ GiveUp(a)
      PROVE  Lodged'
  <2>1. /\ at[a] \in Awaiting /\ UNCHANGED <<slot, used, pool>>
        /\ \E n \in Awaiting : at' = [at EXCEPT ![a] = n]
    BY <1>5 DEF Launch, ReadResult, Quarantine, GiveUp, Adopt
  <2> QED
    BY <2>1
<1>6. ASSUME NEW a \in Agents, Abandon(a) \/ Finish(a) PROVE Lodged'
  <2>1. /\ at[a] \in Awaiting /\ UNCHANGED used
        /\ at' = [at EXCEPT ![a] = "done"] /\ slot' = [slot EXCEPT ![a] = Nobody]
        /\ pool' \in {pool, pool \cup {slot[a]}}
    BY <1>6 DEF Abandon, Finish, Return
  <2> QED
    BY <2>1
<1>7. ASSUME NEW a \in Agents, Reject(a) PROVE Lodged'
  <2>1. /\ at[a] = "review" /\ at' = [at EXCEPT ![a] = "write"]
        /\ UNCHANGED <<slot, used, pool>>
    BY <1>7 DEF Reject
  <2> QED
    BY <2>1
<1>8. ASSUME NextRun PROVE Lodged'
  <2>1. /\ \A a \in Agents : at[a] \in {"todo", "done"}
        /\ at' = [a \in Agents |-> "todo"] /\ used' = {} /\ UNCHANGED slot
    BY <1>8 DEF NextRun
  <2> QED
    BY <2>1
<1>9. ASSUME NEW p \in Procs,
             \/ ClearFlag(p) \/ PickUp(p) \/ StopPolling(p) \/ Edit(p) \/ LooseEnds(p)
             \/ Complete(p)
      PROVE  Lodged'
  <2>1. UNCHANGED <<at, slot, used, pool>>
    BY <1>9 DEF ClearFlag, PickUp, StopPolling, Edit, LooseEnds, Complete
  <2> QED
    BY <2>1
<1>10. ASSUME NEW p \in Procs,
              StopWatcher(p) \/ Watch(p) \/ Interrupt(p) \/ Exit(p) \/ End(p)
       PROVE  Lodged'
  <2>1. UNCHANGED <<at, slot, used, pool>>
    BY <1>10 DEF StopWatcher, Watch, Interrupt, Exit, End
  <2> QED
    BY <2>1
<1>11. CASE UNCHANGED vars
  <2>1. UNCHANGED <<at, slot, used, pool>>
    BY <1>11 DEF vars
  <2> QED
    BY <2>1
<1> QED
  BY <1>1, <1>2, <1>3, <1>4, <1>5, <1>6, <1>7, <1>8, <1>9, <1>10, <1>11 DEF Next

LEMMA QueuedStep == Typed /\ Once /\ Lodged /\ QueuedHere /\ [Next]_vars => QueuedHere'
<1> SUFFICES ASSUME Typed, Once, Lodged, QueuedHere, [Next]_vars PROVE QueuedHere'
  OBVIOUS
<1>0. Places /\ Shapes
  BY TypedPlaces, TypedShapes
<1> USE DEF run, disp, sent
<1>1. ASSUME \A w \in Agents : task'[w] \in {task[w], NoTask},
             \A a \in Agents : at'[a] \in Awaiting =>
                 at[a] \in Awaiting /\ UNCHANGED <<slot[a], nonce[a]>>
      PROVE  QueuedHere'
  BY <1>1 DEF QueuedHere
<1>2. ASSUME NEW a \in Agents,
             \/ Prepare(a) \/ Claim(a) \/ WriteExpected(a) \/ Reject(a)
      PROVE  QueuedHere'
  <2>1. /\ UNCHANGED task /\ at'[a] \notin Awaiting
        /\ \A b \in Agents \ {a} : UNCHANGED <<at[b], slot[b], nonce[b]>>
    BY <1>0, <1>2 DEF Prepare, Claim, WriteExpected, Reject, Places, Shapes, Awaiting
  <2> QED
    BY <1>1, <2>1
<1>3. ASSUME NEW a \in Agents, WriteTask(a) PROVE QueuedHere'
  <2> DEFINE t == [agent |-> a, epoch |-> nonce[a]]
  <2>1. /\ at[a] = "publish" /\ UNCHANGED nonce
        /\ slot' = [slot EXCEPT ![a] = Dir(a)] /\ task' = [task EXCEPT ![Dir(a)] = t]
        /\ \A b \in Agents \ {a} : at'[b] = at[b]
    BY <1>0, <1>3 DEF WriteTask, Places
  <2>2. t.agent = a /\ slot'[a] = Dir(a) /\ \A b \in Agents \ {a} : slot'[b] = slot[b]
    BY <1>0, <2>1 DEF Places
  <2>3. \A w \in Agents : (w = Dir(a) /\ task'[w] = t) \/ task'[w] = task[w]
    BY <1>0, <2>1 DEF Shapes
  <2> HIDE DEF t
  <2> QED
    BY <2>1, <2>2, <2>3 DEF QueuedHere, Once
<1>4. ASSUME NEW a \in Agents,
             Launch(a) \/ ReadResult(a) \/ Quarantine(a) \/ GiveUp(a)
      PROVE  QueuedHere'
  <2>1. /\ at[a] \in Awaiting /\ UNCHANGED <<slot, nonce, task>>
        /\ \E n \in Awaiting : at' = [at EXCEPT ![a] = n]
    BY <1>4 DEF Launch, ReadResult, Quarantine, GiveUp, Adopt, Awaiting
  <2> QED
    BY <1>0, <1>1, <2>1 DEF Places
<1>5. ASSUME NEW a \in Agents, Abandon(a) \/ Finish(a) PROVE QueuedHere'
  <2>1. /\ UNCHANGED task /\ at' = [at EXCEPT ![a] = "done"]
        /\ slot' = [slot EXCEPT ![a] = Nobody] /\ nonce' = [nonce EXCEPT ![a] = 0]
    BY <1>5 DEF Abandon, Finish, Return
  <2> QED
    BY <1>0, <1>1, <2>1 DEF Places, Shapes, Awaiting
<1>6. ASSUME NextRun PROVE QueuedHere'
  <2>1. UNCHANGED task /\ \A a \in Agents : at'[a] = "todo"
    BY <1>6 DEF NextRun
  <2> QED
    BY <1>1, <2>1 DEF Awaiting
<1>7. ASSUME NEW p \in Procs, PickUp(p) PROVE QueuedHere'
  <2>1. UNCHANGED <<at, slot, nonce>> /\ task' = [task EXCEPT ![home[p]] = NoTask]
    BY <1>7 DEF PickUp, Taken
  <2> QED
    BY <1>0, <1>1, <2>1 DEF Shapes
<1>8. ASSUME NEW p \in Procs,
             ClearFlag(p) \/ StopPolling(p) \/ Edit(p) \/ LooseEnds(p) \/ Complete(p)
      PROVE  QueuedHere'
  <2>1. UNCHANGED <<at, slot, nonce, task>>
    BY <1>8 DEF ClearFlag, StopPolling, Edit, LooseEnds, Complete
  <2> QED
    BY <1>1, <2>1
<1>9. ASSUME NEW p \in Procs,
             StopWatcher(p) \/ Watch(p) \/ Interrupt(p) \/ Exit(p) \/ End(p)
      PROVE  QueuedHere'
  <2>1. UNCHANGED <<at, slot, nonce, task>>
    BY <1>9 DEF StopWatcher, Watch, Interrupt, Exit, End
  <2> QED
    BY <1>1, <2>1
<1>10. CASE UNCHANGED vars
  <2>1. UNCHANGED <<at, slot, nonce, task>>
    BY <1>10 DEF vars
  <2> QED
    BY <1>1, <2>1
<1> QED
  BY <1>2, <1>3, <1>4, <1>5, <1>6, <1>7, <1>8, <1>9, <1>10 DEF Next

LEMMA QueuedMeans ==
  ASSUME Typed, Lodged, QueuedHere, [Next]_vars,
         NEW w \in Agents, task[w] # NoTask, task'[w] # task[w],
         at[task[w].agent] = "wait", nonce[task[w].agent] = task[w].epoch
  PROVE  /\ task'[w] = NoTask
         /\ \E p \in Procs : home[p] = w /\ (job'[p] = task[w] \/ quit[p])
<1> USE DEF run, disp, sent
<1> DEFINE a == task[w].agent
<1>0. Places /\ Shapes
  BY TypedPlaces, TypedShapes
<1>1. a \in Agents /\ slot[a] = w /\ w \in used
  BY <1>0 DEF Shapes, Places, Tasks, QueuedHere, Awaiting
<1>2. ASSUME NEW b \in Agents, WriteTask(b) PROVE FALSE
  <2>1. at[b] = "publish" /\ task' = [task EXCEPT ![Dir(b)] = [agent |-> b, epoch |-> nonce[b]]]
    BY <1>2 DEF WriteTask
  <2>2. Dir(b) = w
    BY <1>0, <2>1 DEF Shapes
  <2>3. a # b
    BY <2>1
  <2> QED
    BY <1>1, <2>1, <2>2, <2>3, SetsAssumption DEF Dir, Lodged
<1>3. ASSUME NEW p \in Procs, PickUp(p)
      PROVE  task'[w] = NoTask /\ home[p] = w /\ (job'[p] = task[w] \/ quit[p])
  <2>1. /\ task' = [task EXCEPT ![home[p]] = NoTask]
        /\ quit[p] \/ job' = [job EXCEPT ![p] = task[home[p]]]
    BY <1>3 DEF PickUp, Taken
  <2>2. home[p] = w
    BY <1>0, <2>1 DEF Shapes
  <2> QED
    BY <1>0, <2>1, <2>2 DEF Shapes
<1>4. ASSUME NEW b \in Agents,
             \/ Prepare(b) \/ Claim(b) \/ WriteExpected(b) \/ Launch(b) \/ ReadResult(b)
             \/ Quarantine(b) \/ GiveUp(b) \/ Abandon(b) \/ Finish(b) \/ Reject(b)
      PROVE  UNCHANGED task
  BY <1>4 DEF Prepare, Claim, WriteExpected, Launch, ReadResult, Quarantine, GiveUp,
              Abandon, Finish, Reject
<1>5. ASSUME NEW p \in Procs,
             \/ ClearFlag(p) \/ StopPolling(p) \/ Edit(p) \/ LooseEnds(p) \/ Complete(p)
             \/ StopWatcher(p) \/ Watch(p) \/ Interrupt(p) \/ Exit(p) \/ End(p)
      PROVE  UNCHANGED task
  BY <1>5 DEF ClearFlag, StopPolling, Edit, LooseEnds, Complete, StopWatcher, Watch,
              Interrupt, Exit, End
<1>6. NextRun \/ UNCHANGED vars => UNCHANGED task
  BY DEF NextRun, vars
<1> QED
  BY <1>2, <1>3, <1>4, <1>5, <1>6 DEF Next

LEMMA AlwaysLodged == Spec => [](Typed /\ Once /\ Lodged /\ QueuedHere)
BY AlwaysOnce, InitLodged, LodgedStep, QueuedStep, PTL DEF Spec

(* A queued task somebody waits for is taken by a worker of its directory, *)
(* and never overwritten by the task of another sub-agent.                 *)
THEOREM TaskKept == Spec => QueuedTaskKept
<1> DEFINE Kept == \A w \in Agents :
                     /\ task[w] # NoTask /\ task'[w] # task[w]
                     /\ at[task[w].agent] = "wait" /\ nonce[task[w].agent] = task[w].epoch
                     => /\ task'[w] = NoTask
                        /\ \E p \in Procs : home[p] = w /\ (job'[p] = task[w] \/ quit[p])
<1>1. Typed /\ Once /\ Lodged /\ QueuedHere /\ [Next]_vars => [Kept]_vars
  <2> SUFFICES ASSUME Typed, Lodged, QueuedHere, [Next]_vars PROVE Kept
    OBVIOUS
  <2> QED
    BY QueuedMeans
<1> QED
  BY <1>1, AlwaysLodged, PTL DEF Spec, QueuedTaskKept
=============================================================================
