--------------------------- MODULE BackgroundJobs ---------------------------
(***************************************************************************)
(* Shell commands that outlive their tool call                             *)
(* (agent/background_job_manager.py): a registry of at most MaxJobs jobs,  *)
(* a ring of the results of jobs that left it, and the jobs whose process  *)
(* survived its kill.  Tool calls of several agents start, kill and read   *)
(* jobs while a reaper thread sweeps the registry.                         *)
(*                                                                         *)
(* The manager's lock guards the registries and is never held across a     *)
(* wait; a kill holds the lock of its job for seconds.  poll_status does   *)
(* not wait for that lock: it answers with the status it last saw.         *)
(*                                                                         *)
(* The output of a job is reduced to its last words: written before the    *)
(* process ends, then in the pipe until somebody reads it.  Sweeps are     *)
(* rate limited to one per reap_interval (30 s), whichever thread runs     *)
(* them, so at most one is under way.                                      *)
(***************************************************************************)
EXTENDS Naturals, FiniteSets, SequencesExt

CONSTANTS
    Jobs,       \* job ids; each is started at most once
    Callers,    \* threads that run tool calls
    Nobody,     \* no thread, or no job
    Reaper,     \* the thread of the current sweep
    Exits,      \* how a process may end by itself
    MaxJobs,    \* max_jobs
    RingCap     \* _REAPED_RESULTS_MAX

NamesAssumption == /\ Nobody \notin Jobs \cup Callers
                   /\ Reaper \notin Callers \cup {Nobody}
ExitsAssumption == Exits \subseteq {"zero", "error"}
BoundsAssumption == MaxJobs \in Nat \ {0} /\ RingCap \in Nat \ {0}

VARIABLES
    rc,         \* what the process of a job is doing, or how it ended
    told,       \* a signal reached it while it lived
    words,      \* its last words: "unsaid", in the "pipe", or in the "buffer"
    status,     \* job.status
    killer,     \* holder of job._lock
    mgr,        \* holder of the manager's _lock across a step
    active,     \* _jobs
    since,      \* of each job: how many were started before it
    ring,       \* _reaped_results, oldest first
    stale,      \* _stale_jobs, oldest first
    pc,         \* where a caller is
    job,        \* the job it works on
    goal,       \* why it kills it: "user" or "evict"
    sweep,      \* where the sweep is
    todo,       \* the jobs it has still to look at
    seen        \* the job it settles, and the poll it settles it by

process == <<rc, told, words>>
registry == <<active, since, ring, stale>>
caller == <<pc, job, goal>>
reap == <<sweep, todo, seen>>
vars == <<process, status, killer, mgr, registry, caller, reap>>

Final == {"completed", "failed", "killed"}
Ended == {"zero", "error", "signal"}
NoCheck == [job |-> Nobody, rc |-> "unborn"]

Init ==
    /\ rc = [j \in Jobs |-> "unborn"]
    /\ told = [j \in Jobs |-> FALSE]
    /\ words = [j \in Jobs |-> "unsaid"]
    /\ status = [j \in Jobs |-> "running"]
    /\ killer = [j \in Jobs |-> Nobody]
    /\ mgr = Nobody
    /\ active = {} /\ ring = <<>> /\ stale = <<>>
    /\ since = [j \in Jobs |-> 0]
    /\ pc = [t \in Callers |-> "idle"]
    /\ job = [t \in Callers |-> Nobody]
    /\ goal = [t \in Callers |-> "user"]
    /\ sweep = "idle" /\ todo = {} /\ seen = NoCheck

Born == {j \in Jobs : rc[j] # "unborn"}
Oldest(js) == {j \in js : \A k \in js : since[j] <= since[k]}
Listed(j) == {i \in DOMAIN ring : ring[i].job = j}

-----------------------------------------------------------------------------
(* The process: it may be asked to end, and survive that.                  *)
Die(j) ==
    /\ rc[j] = "alive"
    /\ \E r \in Exits \cup {"signal"} :
          /\ r = "signal" => told[j]
          /\ rc' = [rc EXCEPT ![j] = r]
    /\ words' = [words EXCEPT ![j] = "pipe"]
    /\ UNCHANGED <<told, status, killer, mgr, registry, caller, reap>>

(* poll_status *)
Polled(j) ==
    IF killer[j] # Nobody \/ status[j] # "running" THEN status[j]
    ELSE CASE rc[j] \in {"unborn", "alive"} -> "running"
           [] rc[j] = "zero" -> "completed"
           [] OTHER -> "failed"

NotRunning(js) == {j \in js : Polled(j) # "running"}

PollAll(js) == status' = [j \in Jobs |-> IF j \in js THEN Polled(j) ELSE status[j]]

(* _settle_status, for a process whose poll answered r *)
Settled(r) ==
    CASE r = "alive" -> "running"
      [] r = "zero" -> "completed"
      [] r = "error" -> "failed"
      [] OTHER -> "killed"

(* read_output *)
Said(js) == [j \in Jobs |-> IF j \in js /\ words[j] = "pipe" THEN "buffer" ELSE words[j]]

(* _snapshot_job_locked: no I/O, what was read so far *)
Snapshot(j, s) == [job |-> j, status |-> s, full |-> words[j] = "buffer"]

(* _store_reaped_locked: a job has one result, the latest                  *)
Unlisted(r, j) ==
    IF \E i \in DOMAIN r : r[i].job = j
      THEN RemoveAt(r, CHOOSE i \in DOMAIN r : r[i].job = j) ELSE r

Capped(s, cap) == IF Len(s) > cap THEN Tail(s) ELSE s

Stored(r, e) == Capped(Append(Unlisted(r, e.job), e), RingCap)

-----------------------------------------------------------------------------
(* start: the job is inserted and the registry brought back to MaxJobs     *)
(* under one hold of the lock.  A job polled as ended is dropped at once   *)
(* (its pipe is not read); otherwise the oldest job is the victim.         *)
Start(t, j) ==
    /\ pc[t] = "idle" /\ mgr = Nobody
    /\ rc[j] = "unborn"
    /\ rc' = [rc EXCEPT ![j] = "alive"]
    /\ since' = [since EXCEPT ![j] = Cardinality(Born)]
    /\ \/ /\ Cardinality(active) < MaxJobs
          /\ active' = active \cup {j}
          /\ UNCHANGED <<status, mgr, ring, pc, job>>
       \/ /\ Cardinality(active) >= MaxJobs
          /\ \E old \in Oldest(NotRunning(active)) :
                /\ PollAll({k \in active : since[k] <= since[old]})
                /\ ring' = Stored(ring, Snapshot(old, Polled(old)))
                /\ active' = (active \ {old}) \cup {j}
          /\ UNCHANGED <<mgr, pc, job>>
       \/ /\ Cardinality(active) >= MaxJobs /\ NotRunning(active) = {}
          /\ \E old \in Oldest(active) : job' = [job EXCEPT ![t] = old]
          /\ active' = active \cup {j}
          /\ mgr' = t
          /\ pc' = [pc EXCEPT ![t] = "mark"]
          /\ UNCHANGED <<status, ring>>
    /\ UNCHANGED <<told, words, killer, stale, goal, reap>>

\* Slip: the victim leaves the registry without a placeholder.
NoPlaceholder(j) == ring

Placeholder(j) == Stored(ring, Snapshot(j, "killing"))

(* _evict_over_capacity_locked: the victim, polled as running a moment ago *)
Mark(t) ==
    /\ pc[t] = "mark"
    /\ status' = [status EXCEPT ![job[t]] = "killing"]
    /\ ring' = Placeholder(job[t])
    /\ active' = active \ {job[t]}
    /\ mgr' = Nobody
    /\ pc' = [pc EXCEPT ![t] = "kill"]
    /\ goal' = [goal EXCEPT ![t] = "evict"]
    /\ UNCHANGED <<process, killer, since, stale, job, reap>>

(* manager.kill finds the job *)
AskKill(t, j) ==
    /\ pc[t] = "idle" /\ mgr = Nobody
    /\ j \in active
    /\ pc' = [pc EXCEPT ![t] = "kill"]
    /\ job' = [job EXCEPT ![t] = j]
    /\ goal' = [goal EXCEPT ![t] = "user"]
    /\ UNCHANGED <<process, status, killer, mgr, registry, reap>>

AfterKill(t) == IF goal[t] = "user" THEN "answer" ELSE "drain"

KillReturns(t) == /\ pc' = [pc EXCEPT ![t] = AfterKill(t)]
                  /\ killer' = [killer EXCEPT ![job[t]] = Nobody]

(* job.kill: nothing to do, the process has ended by itself, or it lives   *)
KillBegins(t) ==
    LET j == job[t]
    IN  /\ pc[t] = "kill" /\ killer[j] = Nobody
        /\ IF status[j] \in Final \/ rc[j] # "alive"
             THEN /\ KillReturns(t)
                  /\ status' = [status EXCEPT ![j] =
                        IF @ \in Final THEN @
                        ELSE IF rc[j] = "zero" THEN "completed" ELSE "failed"]
             ELSE /\ killer' = [killer EXCEPT ![j] = t]
                  /\ pc' = [pc EXCEPT ![t] = "signal"]
                  /\ UNCHANGED status
        /\ UNCHANGED <<process, mgr, registry, job, goal, reap>>

(* killpg(SIGTERM).  A process that has ended since is a zombie to some    *)
(* systems, which take the signal, and unknown to others.                  *)
Signal(t) ==
    LET j == job[t]
    IN  /\ pc[t] = "signal"
        /\ told' = [told EXCEPT ![j] = @ \/ rc[j] = "alive"]
        /\ \/ /\ pc' = [pc EXCEPT ![t] = "wait"]
              /\ UNCHANGED <<status, killer>>
           \/ /\ rc[j] # "alive"
              /\ status' = [status EXCEPT ![j] = Settled(rc[j])]
              /\ KillReturns(t)
        /\ UNCHANGED <<rc, words, mgr, registry, job, goal, reap>>

AfterTimeout(j) == Settled(rc[j])

(* proc.wait, SIGKILL and proc.wait: the process ended, or survived both   *)
Waited(t) ==
    LET j == job[t]
    IN  /\ pc[t] = "wait"
        /\ \/ /\ rc[j] # "alive"
              /\ status' = [status EXCEPT ![j] = "killed"]
           \/ status' = [status EXCEPT ![j] = AfterTimeout(j)]
        /\ KillReturns(t)
        /\ UNCHANGED <<process, mgr, registry, job, goal, reap>>

(* The caller is done, and its locals are gone.                            *)
Idle(t) == /\ pc' = [pc EXCEPT ![t] = "idle"]
           /\ job' = [job EXCEPT ![t] = Nobody]
           /\ goal' = [goal EXCEPT ![t] = "user"]

(* What manager.kill answers a user                                        *)
Answer(j) == IF j \in active THEN Polled(j) ELSE "killed"

AnswerKill(t) ==
    /\ pc[t] = "answer" /\ mgr = Nobody
    /\ PollAll({job[t]} \cap active)
    /\ Idle(t)
    /\ UNCHANGED <<process, killer, mgr, registry, reap>>

(* start reads what its victim printed *)
DrainVictim(t) ==
    /\ pc[t] = "drain"
    /\ pc' = [pc EXCEPT ![t] = "store"]
    /\ words' = Said({job[t]})
    /\ UNCHANGED <<rc, told, status, killer, mgr, registry, job, goal, reap>>

(* _stale_jobs takes a victim that lives, and drops its oldest over the    *)
(* cap.                                                                    *)
Track(s, j) == Capped(Append(s, j), MaxJobs)

(* start replaces the placeholder of its victim *)
StoreVictim(t) ==
    LET j == job[t]
    IN  /\ pc[t] = "store" /\ mgr = Nobody
        /\ ring' = Stored(ring, Snapshot(j, status[j]))
        /\ stale' = IF status[j] \in Final THEN stale ELSE Track(stale, j)
        /\ Idle(t)
        /\ UNCHANGED <<process, status, killer, mgr, active, since, reap>>

(* get_info and list_jobs of a job in the registry *)
Look(j) ==
    /\ mgr = Nobody /\ j \in active
    /\ status' = [status EXCEPT ![j] = Polled(j)]
    /\ words' = Said({j})
    /\ UNCHANGED <<rc, told, killer, mgr, registry, caller, reap>>

-----------------------------------------------------------------------------
(* A sweep: _maybe_reap, then the pipes of the jobs that run               *)

SweepTo(s) == sweep' = s

(* _drain_finished *)
DrainFinished ==
    /\ sweep = "idle" /\ mgr = Nobody
    /\ SweepTo("snapshot")
    /\ PollAll(active)
    /\ words' = Said(NotRunning(active))
    /\ UNCHANGED <<rc, told, killer, mgr, registry, caller, todo, seen>>

(* cleanup, under the lock: every job polled as ended is stored            *)
CleanupBegins ==
    /\ sweep = "snapshot" /\ mgr = Nobody
    /\ mgr' = Reaper
    /\ SweepTo("store")
    /\ todo' = active
    /\ UNCHANGED <<process, status, killer, registry, caller, seen>>

CleanupStore(j) ==
    /\ sweep = "store" /\ j \in Oldest(todo)
    /\ todo' = todo \ {j}
    /\ PollAll({j})
    /\ ring' = IF Polled(j) = "running" THEN ring
               ELSE Stored(ring, Snapshot(j, Polled(j)))
    /\ UNCHANGED <<process, killer, mgr, active, since, stale, caller, sweep, seen>>

(* It polls again, and keeps those that run.                               *)
CleanupRemove ==
    /\ sweep = "store" /\ todo = {}
    /\ mgr' = Nobody
    /\ SweepTo("settle")
    /\ PollAll(active)
    /\ active' = active \ NotRunning(active)
    /\ todo' = ToSet(stale)
    /\ UNCHANGED <<process, killer, since, ring, stale, caller, seen>>

(* _reap_stale: _settle_status polls, then writes the status; it does not  *)
(* take the lock of the job.                                               *)
SettlePoll(j) ==
    /\ sweep = "settle" /\ seen = NoCheck
    /\ j \in todo
    /\ todo' = todo \ {j}
    /\ seen' = [job |-> j, rc |-> rc[j]]
    /\ UNCHANGED <<process, status, killer, mgr, registry, caller, sweep>>

SettleWrite ==
    LET j == seen.job
        s == Settled(seen.rc)
    IN  /\ sweep = "settle" /\ seen # NoCheck
        /\ status' = [status EXCEPT ![j] = s]
        /\ words' = Said({j})
        /\ IF s \in Final THEN SweepTo("converge") /\ UNCHANGED seen
                          ELSE seen' = NoCheck /\ UNCHANGED sweep
        /\ UNCHANGED <<rc, told, killer, mgr, registry, caller, todo>>

\* Slip: the result is stored and the job stays tracked.
KeepTracked(s, j) == s

Untrack(s, j) == RemoveAt(s, CHOOSE i \in DOMAIN s : s[i] = j)

Converge ==
    LET j == seen.job
    IN  /\ sweep = "converge" /\ mgr = Nobody
        /\ SweepTo("settle")
        /\ seen' = NoCheck
        /\ IF j \in ToSet(stale)
             THEN /\ stale' = Untrack(stale, j)
                  /\ ring' = Stored(ring, Snapshot(j, status[j]))
             ELSE UNCHANGED <<stale, ring>>
        /\ UNCHANGED <<process, status, killer, mgr, active, since, caller, todo>>

(* The end of the sweep, and _reap_tick's drain of the jobs that run       *)
DrainRunning ==
    /\ sweep = "settle" /\ todo = {} /\ seen = NoCheck /\ mgr = Nobody
    /\ SweepTo("idle")
    /\ PollAll(active)
    /\ words' = Said(active \ NotRunning(active))
    /\ UNCHANGED <<rc, told, killer, mgr, registry, caller, todo, seen>>

-----------------------------------------------------------------------------
CallSteps(t) == \/ KillBegins(t) \/ Signal(t) \/ Waited(t) \/ AnswerKill(t)
                \/ Mark(t) \/ DrainVictim(t) \/ StoreVictim(t)
SweepSteps == \/ DrainFinished \/ CleanupBegins \/ CleanupRemove
              \/ \E j \in Jobs : CleanupStore(j) \/ SettlePoll(j)
              \/ SettleWrite \/ Converge \/ DrainRunning

Next ==
    \/ \E j \in Jobs : Die(j) \/ Look(j)
    \/ \E t \in Callers :
          \/ \E j \in Jobs : Start(t, j) \/ AskKill(t, j)
          \/ CallSteps(t)
    \/ SweepSteps

Spec == Init /\ [][Next]_vars

(* The threads run; the reaper's timer is armed again after every tick.    *)
(* The manager's lock is held for microseconds and wanted by few threads:  *)
(* a thread that waits for it gets it.  No process need ever end.          *)
Fairness == (\A t \in Callers : SF_vars(CallSteps(t))) /\ SF_vars(SweepSteps)

FairSpec == Spec /\ Fairness

-----------------------------------------------------------------------------
RingStatus(j) == IF Listed(j) = {} THEN "absent"
                 ELSE ring[CHOOSE i \in Listed(j) : TRUE].status

(* The registries have the shape the code gives them.                      *)
TypeOK ==
    /\ rc \in [Jobs -> {"unborn", "alive"} \cup Ended]
    /\ told \in [Jobs -> BOOLEAN]
    /\ words \in [Jobs -> {"unsaid", "pipe", "buffer"}]
    /\ status \in [Jobs -> {"running", "killing"} \cup Final]
    /\ killer \in [Jobs -> Callers \cup {Nobody}]
    /\ mgr \in Callers \cup {Nobody, Reaper}
    /\ active \subseteq Jobs /\ IsFiniteSet(active) /\ since \in [Jobs -> Nat]
    /\ stale \in Seq(Jobs)
    /\ ring \in Seq([job : Jobs, status : {"running", "killing"} \cup Final,
                     full : BOOLEAN])
    /\ pc \in [Callers -> {"idle", "mark", "kill", "signal", "wait", "answer",
                           "drain", "store"}]
    /\ job \in [Callers -> Jobs \cup {Nobody}]
    /\ \A t \in Callers : job[t] = Nobody <=> pc[t] = "idle"
    /\ \A j \in Jobs : killer[j] # Nobody =>
          job[killer[j]] = j /\ pc[killer[j]] \in {"signal", "wait"}
    /\ goal \in [Callers -> {"user", "evict"}]
    /\ sweep \in {"idle", "snapshot", "store", "settle", "converge"}
    /\ todo \subseteq Jobs
    /\ seen \in {NoCheck} \cup [job : Jobs, rc : {"alive"} \cup Ended]

(* Whoever holds the manager's lock sees registries within their caps, no  *)
(* job in two of them, and no job twice in one.                            *)
RegistriesBounded ==
    /\ mgr = Nobody => Cardinality(active) <= MaxJobs
    /\ Len(ring) <= RingCap /\ Len(stale) <= MaxJobs
    /\ \A i, k \in DOMAIN ring : ring[i].job = ring[k].job => i = k
    /\ IsInjective(stale) /\ active \cap ToSet(stale) = {}
    /\ sweep # "store" => \A j \in active : Listed(j) = {}

(* The jobs whose results may want a place in the ring                     *)
Over == {j \in Born : j \in active => rc[j] # "alive"}

(* A process that lives can be found: its job is in the registry, or in    *)
(* the ring with a status that says it is not over, whether it is being    *)
(* evicted or survived its kill; until the ring has no room for the jobs   *)
(* that were evicted or ended, and results displace each other.            *)
LivingIsFindable ==
    Cardinality(Over) <= RingCap =>
      \A j \in Jobs : rc[j] = "alive" =>
          j \in active \/ RingStatus(j) \in {"running", "killing"}

(* "this placeholder must never freeze": the mark of a kill in flight is   *)
(* replaced by what became of it.                                          *)
PlaceholderSettles == \A j \in Jobs : RingStatus(j) = "killing" ~> RingStatus(j) # "killing"

(* A job that ended leaves the registry though nobody asks for it.         *)
EndedIsReaped ==
    \A j \in Jobs : rc[j] \in Ended ~> j \notin active

(* A victim that survived its kill and ends later gets its result.         *)
StaleConverges ==
    \A j \in Jobs : rc[j] \in Ended /\ j \in ToSet(stale) ~> j \notin ToSet(stale)

(* "Before removal, each job's final state is snapshotted into a bounded   *)
(* ring buffer": a job that leaves the registry is in the ring.            *)
RemovedIsRemembered ==
    [][\A j \in Jobs : j \in active /\ j \notin active'
          => Listed(j)' # {}]_vars

(* "Snapshot before removal so output is preserved": a result in the ring  *)
(* has the output of the job to its end.                                   *)
OutputPreserved ==
    \A i \in DOMAIN ring : ring[i].status \in Final => ring[i].full

(* "a build that succeeded and one that failed must stay distinguishable   *)
(* even in this narrow window": a job reads "killed" only when a signal    *)
(* reached its process while it lived.                                     *)
KilledMeansSignalled == \A j \in Jobs : status[j] = "killed" => told[j]

(* "Returns the final status string": a user who asks for a kill is told   *)
(* what became of the job.                                                 *)
AnswerIsTrue ==
    [][\A t \in Callers :
          pc[t] = "answer" /\ pc'[t] = "idle" /\ status[job[t]] \in Final
          => Answer(job[t]) = status[job[t]]]_vars
=============================================================================
