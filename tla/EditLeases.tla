----------------------------- MODULE EditLeases -----------------------------
(***************************************************************************)
(* The advisory edit leases of parallel asicode sessions                   *)
(* (common/edit_lease.py) and the write tools that check and record them   *)
(* (tool_handlers/write_tools_*_mixin.py).                                 *)
(*                                                                         *)
(* A write tool looks for a live foreign lease on its file, changes the    *)
(* file, records its own lease by an atomic replace and sweeps the leases  *)
(* nobody touched for a week, by a stat and an unlink per file.  No lock   *)
(* spans these steps.  Time is a clock of coarse ticks; a lease file's     *)
(* mtime and its "ts" are the tick of the write.                           *)
(***************************************************************************)
EXTENDS Naturals, FiniteSets

CONSTANTS Sessions,      \* asicode processes that ever run
          Files,         \* files of the shared working tree
          Hosts,         \* machines
          HostOf,        \* the machine of each session
          Pids,          \* process ids of a machine
          TtlSameHost, TtlCrossHost, SweepMaxAge,   \* in ticks
          MaxClock,      \* bound: ticks
          MayOverlap     \* whether tools of two sessions may run at once

HostAssumption ==
  HostOf \in [Sessions -> Hosts] /\ "none" \notin Sessions \cup Files
TtlAssumption ==
  /\ {TtlSameHost, TtlCrossHost, SweepMaxAge, MaxClock} \subseteq Nat
  /\ TtlCrossHost <= TtlSameHost /\ TtlSameHost < SweepMaxAge

VARIABLES
  clock,
  life,     \* of each session: "new", "live" or "gone"
  pid,      \* of each session: its process id, from its start
  taken,    \* of each machine: process ids other programs hold
  lease,    \* of each file: the record on disk, NoLease when there is none
  pc,       \* of each session: the step of its tool call
  file,     \* of each session: the file of its tool call
  records,  \* of each session: whether the tool at hand records a lease
  unswept,  \* of each session: files its sweep has still to look at
  doomed,   \* of each session: the files its sweep found old, to be unlinked
  edited,   \* of each file: who changed it last, when, and whether the tool records it
  wip       \* of each file: sessions with an edit of it not yet committed

vars == <<clock, life, pid, taken, lease, pc, file, records, unswept, doomed,
          edited, wip>>
people == <<life, pid, taken>>
tool == <<pc, file, records, unswept, doomed>>

NoLease == [owner |-> "none", ts |-> 0]
NoEdit == [owner |-> "none", ts |-> 0, recorded |-> FALSE]
NoFile == "none"

Init ==
  /\ clock = 0
  /\ life = [s \in Sessions |-> "new"]
  /\ pid \in [Sessions -> Pids]
  /\ taken = [h \in Hosts |-> {}]
  /\ lease = [f \in Files |-> NoLease]
  /\ pc = [s \in Sessions |-> "idle"]
  /\ file = [s \in Sessions |-> NoFile]
  /\ records = [s \in Sessions |-> TRUE]
  /\ unswept = [s \in Sessions |-> {}]
  /\ doomed = [s \in Sessions |-> NoFile]
  /\ edited = [f \in Files |-> NoEdit]
  /\ wip = [f \in Files |-> {}]

Live == {s \in Sessions : life[s] = "live"}
PidsInUse(h) == taken[h] \cup {pid[s] : s \in {t \in Live : HostOf[t] = h}}

(***************************************************************************)
(* Processes and time                                                      *)
(***************************************************************************)
Tick ==
  /\ clock < MaxClock /\ clock' = clock + 1
  /\ UNCHANGED <<people, lease, tool, edited, wip>>

\* A session starts with an id that is free, perhaps one of a dead session.
Begin(s) ==
  /\ life[s] = "new" /\ pid[s] \notin PidsInUse(HostOf[s])
  /\ life' = [life EXCEPT ![s] = "live"]
  /\ UNCHANGED <<clock, pid, taken, lease, tool, edited, wip>>

\* A session ends, perhaps within a tool call.
End(s) ==
  /\ s \in Live
  /\ life' = [life EXCEPT ![s] = "gone"]
  /\ pc' = [pc EXCEPT ![s] = "idle"]
  /\ file' = [file EXCEPT ![s] = NoFile]
  /\ records' = [records EXCEPT ![s] = TRUE]
  /\ unswept' = [unswept EXCEPT ![s] = {}]
  /\ doomed' = [doomed EXCEPT ![s] = NoFile]
  /\ UNCHANGED <<clock, pid, taken, lease, edited, wip>>

\* Another program gets the process id of a session that ended.
Recycle(s) ==
  /\ life[s] = "gone" /\ pid[s] \notin PidsInUse(HostOf[s])
  /\ taken' = [taken EXCEPT ![HostOf[s]] = @ \cup {pid[s]}]
  /\ UNCHANGED <<clock, life, pid, lease, tool, edited, wip>>

\* The user of a session commits its edits of a file.
Commit(s, f) ==
  /\ s \in Live \cap wip[f] /\ pc[s] = "idle"
  /\ wip' = [wip EXCEPT ![f] = @ \ {s}]
  /\ UNCHANGED <<clock, people, lease, tool, edited>>

(***************************************************************************)
(* A write tool                                                            *)
(***************************************************************************)
\* Slip: only the recency of a lease counts on the same machine, and no pid of
\* another session is taken for alive.
ForeignIfRecycled(s, l) ==
  /\ l # NoLease /\ l.owner # s
  /\ IF HostOf[l.owner] = HostOf[s]
     THEN /\ pid[l.owner] # pid[s] /\ pid[l.owner] \in taken[HostOf[s]]
          /\ clock - l.ts <= TtlSameHost
     ELSE clock - l.ts <= TtlCrossHost

\* _conflict_from_lease: is l the lease of another session that seems alive?
\* On its own machine the process id is probed (a pid like ours was recycled
\* into us); on another one only the age tells.
LiveForeign(s, l) ==
  /\ l # NoLease /\ l.owner # s
  /\ IF HostOf[l.owner] = HostOf[s]
     THEN /\ pid[l.owner] # pid[s] /\ pid[l.owner] \in PidsInUse(HostOf[s])
          /\ clock - l.ts <= TtlSameHost
     ELSE clock - l.ts <= TtlCrossHost

MayCheck(s) ==
  /\ s \in Live /\ pc[s] = "idle"
  /\ MayOverlap \/ \A t \in Sessions : pc[t] = "idle"

\* The guard passes, for a tool that records its edit (r) or for write_plan,
\* which does not.
Check(s, f, r) ==
  /\ MayCheck(s) /\ ~LiveForeign(s, lease[f])
  /\ pc' = [pc EXCEPT ![s] = "write"]
  /\ file' = [file EXCEPT ![s] = f]
  /\ records' = [records EXCEPT ![s] = r]
  /\ UNCHANGED <<clock, people, lease, unswept, doomed, edited, wip>>

\* The guard refuses: nothing is written.
Refuse(s, f) ==
  /\ MayCheck(s) /\ LiveForeign(s, lease[f])
  /\ UNCHANGED vars

Done(s) ==
  /\ pc' = [pc EXCEPT ![s] = "idle"]
  /\ file' = [file EXCEPT ![s] = NoFile]
  /\ records' = [records EXCEPT ![s] = TRUE]

\* The edit fails and leaves the file as it was.
WriteFails(s) ==
  /\ pc[s] = "write" /\ Done(s)
  /\ UNCHANGED <<clock, people, lease, unswept, doomed, edited, wip>>

Write(s) ==
  /\ pc[s] = "write"
  /\ wip' = [wip EXCEPT ![file[s]] = @ \cup {s}]
  /\ edited' = [edited EXCEPT ![file[s]] =
                  [owner |-> s, ts |-> clock, recorded |-> records[s]]]
  /\ IF records[s] THEN pc' = [pc EXCEPT ![s] = "acquire"] /\ UNCHANGED <<file, records>>
     ELSE Done(s)
  /\ UNCHANGED <<clock, people, lease, unswept, doomed>>

\* acquire_edit_lease: the record replaces whatever is there; then the sweep
\* lists the directory.
Acquire(s) ==
  LET f == file[s] now == [owner |-> s, ts |-> clock] IN
  /\ pc[s] = "acquire"
  /\ lease' = [lease EXCEPT ![f] = now]
  /\ pc' = [pc EXCEPT ![s] = "sweep"]
  /\ unswept' = [unswept EXCEPT ![s] = {g \in Files : lease'[g] # NoLease}]
  /\ UNCHANGED <<clock, people, file, records, doomed, edited, wip>>

SweepStat(s, f) ==
  /\ pc[s] = "sweep" /\ doomed[s] = NoFile /\ f \in unswept[s]
  /\ unswept' = [unswept EXCEPT ![s] = @ \ {f}]
  /\ doomed' = [doomed EXCEPT ![s] =
       IF lease[f] # NoLease /\ clock - lease[f].ts > SweepMaxAge THEN f ELSE NoFile]
  /\ UNCHANGED <<clock, people, lease, pc, file, records, edited, wip>>

SweepUnlink(s) ==
  /\ pc[s] = "sweep" /\ doomed[s] # NoFile
  /\ lease' = [lease EXCEPT ![doomed[s]] = NoLease]
  /\ doomed' = [doomed EXCEPT ![s] = NoFile]
  /\ UNCHANGED <<clock, people, pc, file, records, unswept, edited, wip>>

SweepDone(s) ==
  /\ pc[s] = "sweep" /\ doomed[s] = NoFile /\ unswept[s] = {}
  /\ Done(s)
  /\ UNCHANGED <<clock, people, lease, unswept, doomed, edited, wip>>

Next ==
  \/ Tick
  \/ \E s \in Sessions :
       \/ Begin(s) \/ End(s) \/ Recycle(s)
       \/ WriteFails(s) \/ Write(s) \/ Acquire(s)
       \/ SweepUnlink(s) \/ SweepDone(s)
       \/ \E f \in Files :
            \/ Commit(s, f) \/ Refuse(s, f) \/ SweepStat(s, f)
            \/ \E r \in BOOLEAN : Check(s, f, r)

Spec == Init /\ [][Next]_vars

(***************************************************************************)
(* Properties                                                              *)
(***************************************************************************)
Records == [owner : Sessions, ts : 0 .. MaxClock] \cup {NoLease}
Edits == [owner : Sessions, ts : 0 .. MaxClock, recorded : BOOLEAN] \cup {NoEdit}

\* The variables have their types, and a session within a tool call has a file.
TypeOK ==
  /\ clock \in 0 .. MaxClock
  /\ life \in [Sessions -> {"new", "live", "gone"}] /\ pid \in [Sessions -> Pids]
  /\ taken \in [Hosts -> SUBSET Pids]
  /\ lease \in [Files -> Records] /\ edited \in [Files -> Edits]
  /\ pc \in [Sessions -> {"idle", "write", "acquire", "sweep"}]
  /\ file \in [Sessions -> Files \cup {NoFile}] /\ records \in [Sessions -> BOOLEAN]
  /\ \A s \in Sessions : pc[s] # "idle" <=> file[s] # NoFile
  /\ unswept \in [Sessions -> SUBSET Files]
  /\ doomed \in [Sessions -> Files \cup {NoFile}]
  /\ wip \in [Files -> SUBSET Sessions]

Ttl(s, t) == IF HostOf[s] = HostOf[t] THEN TtlSameHost ELSE TtlCrossHost

Guarded(s, e) == e.owner \in Live \ {s} => clock - e.ts > Ttl(s, e.owner)

\* While the session that changed a file last runs, and changed it with a tool
\* that records its edits, no tool of another session passes the guard for the
\* file within the time of the lease: whatever sessions ended within a call,
\* whatever process ids were used again, whatever the sweep removed.
RecordedEditorIsGuarded ==
  [][\A s \in Sessions :
       pc[s] = "idle" /\ pc'[s] = "write" /\ edited[file'[s]].recorded
         => Guarded(s, edited[file'[s]])]_vars

\* The same of every tool: "Every successful write-tool edit records" a lease.
LastEditorIsGuarded ==
  [][\A s \in Sessions :
       pc[s] = "idle" /\ pc'[s] = "write" => Guarded(s, edited[file'[s]])]_vars

\* The sweep deletes no lease that somebody still relies on.
SweptIsOld ==
  [][\A f \in Files :
       lease[f] # NoLease /\ lease'[f] = NoLease => clock - lease[f].ts > SweepMaxAge]_vars

\* "Let the other session commit or finish first": nobody is refused because of
\* a running session when no edit of the file is left uncommitted.
CommittedIsFree ==
  \A s \in Live, f \in Files :
    LiveForeign(s, lease[f]) /\ lease[f].owner \in Live => wip[f] # {}

=============================================================================
