----------------------------- MODULE ToolCache -----------------------------
(***************************************************************************)
(* The cache of read-only tool results (agent/tool_result_cache.py) and    *)
(* the dispatch that fills it and invalidates it (agent/tool_registry.py). *)
(*                                                                         *)
(* The turn runs its reads in parallel and then its mutating calls, on     *)
(* pool threads; a cancelled turn stops waiting for threads that go on.    *)
(* Other processes change files unannounced.  A file's signature changes   *)
(* with every change of it; a directory's does not (it tells of direct     *)
(* children that come and go only).  Expiry is a choice made at each look, *)
(* so that what holds of entries here holds for every TTL.                 *)
(***************************************************************************)
EXTENDS Naturals, Sequences, FiniteSets, SequencesExt, Selections

CONSTANTS Files,       \* files of the repository, all inside one directory tree
          Wide,        \* queries of a directory, and Everywhere
          Everywhere,  \* queries without a path: the scope is unknown
          Readers,     \* pool threads that run read-only calls
          MaxEntries,  \* capacity of the cache
          MaxChanges   \* bound: changes of a file

Writer == "writer"
NoFile == "none"

QueryAssumption ==
  /\ Everywhere \subseteq Wide /\ Files \cap Wide = {}
  /\ Writer \notin Readers /\ NoFile \notin Files
  /\ MaxEntries \in Nat \ {0} /\ MaxChanges \in Nat

VARIABLES
  disk,     \* of each file: signature and content
  entry,    \* of each query: the cached answer, NoEntry when there is none
  order,    \* the cached queries, least recently used first
  pc,       \* of each reader: "idle", "look", "read" or "store"
  query,    \* of each reader: its query
  sig,      \* of each reader: the signature taken before the handler ran
  seen,     \* of each reader: the contents its handler read
  wpc,      \* the mutating call: "idle" or "changed"
  target,   \* its file, what it held before, whether the call tells its paths
  awaited,  \* the threads the turn waits for
  past,     \* of each file: contents that own calls have replaced or rolled back
  lapses    \* "cancelled" once a turn was, "dirty" once a command changed and failed

vars ==
  <<disk, entry, order, pc, query, sig, seen, wpc, target, awaited, past, lapses>>
cache == <<entry, order>>
reads == <<pc, query, sig, seen>>
writes == <<wpc, target>>

Queries == Files \cup Wide
NoEntry == [none |-> TRUE]
NoQuery == "none"
NoTarget == [file |-> NoFile, before |-> 0, told |-> FALSE]
DependsOn(q) == IF q \in Files THEN {q} ELSE Files

\* The contents a query's answer rests on, and _path_sig of its scope.
Contents == [f \in Files |-> disk[f].content]
Sig(q) == IF q \in Files THEN disk[q].sig ELSE 0

Init ==
  /\ disk = [f \in Files |-> [sig |-> 0, content |-> 0]]
  /\ entry = [q \in Queries |-> NoEntry] /\ order = <<>>
  /\ pc = [r \in Readers |-> "idle"]
  /\ query = [r \in Readers |-> NoQuery]
  /\ sig = [r \in Readers |-> 0] /\ seen = [r \in Readers |-> [f \in Files |-> 0]]
  /\ wpc = "idle" /\ target = NoTarget /\ awaited = {}
  /\ past = [f \in Files |-> {}] /\ lapses = {}

\* Every change gives a new signature; its content is new, or an old one again.
Changed(f, c) == [disk EXCEPT ![f] = [sig |-> @.sig + 1, content |-> c]]
Fresh(f) == disk[f].sig + 1

OtherWrites(f) ==
  /\ disk[f].sig < MaxChanges
  /\ disk' = Changed(f, Fresh(f))
  /\ UNCHANGED <<cache, reads, writes, awaited, past, lapses>>

(***************************************************************************)
(* A read-only call                                                        *)
(***************************************************************************)
Without(qs) == Pick(order, {k \in DOMAIN order : order[k] \notin qs})

Forget(qs) ==
  /\ entry' = [q \in Queries |-> IF q \in qs THEN NoEntry ELSE entry[q]]
  /\ order' = Without(qs)

StartRead(r, q) ==
  /\ pc[r] = "idle" /\ Writer \notin awaited
  /\ pc' = [pc EXCEPT ![r] = "look"]
  /\ query' = [query EXCEPT ![r] = q]
  /\ awaited' = awaited \cup {r}
  /\ UNCHANGED <<disk, cache, sig, seen, writes, past, lapses>>

Finish(r) ==
  /\ pc' = [pc EXCEPT ![r] = "idle"]
  /\ query' = [query EXCEPT ![r] = NoQuery]
  /\ sig' = [sig EXCEPT ![r] = 0]
  /\ seen' = [seen EXCEPT ![r] = [f \in Files |-> 0]]
  /\ awaited' = awaited \ {r}

\* Does a look at the entry of q find it valid, short of its age?
Matches(q) == entry[q] # NoEntry /\ (q \in Everywhere \/ entry[q].sig = Sig(q))

Hit(r) ==
  LET q == query[r] IN
  /\ pc[r] = "look" /\ Matches(q)
  /\ order' = Append(Without({q}), q)
  /\ Finish(r)
  /\ UNCHANGED <<disk, entry, writes, past, lapses>>

\* No entry, or one too old (which any may be) or with another signature, which
\* is dropped; the signature of the scope is taken before the handler runs.
Miss(r) ==
  /\ pc[r] = "look"
  /\ Forget({query[r]})
  /\ pc' = [pc EXCEPT ![r] = "read"]
  /\ sig' = [sig EXCEPT ![r] = Sig(query[r])]
  /\ UNCHANGED <<disk, query, seen, writes, awaited, past, lapses>>

Read(r) ==
  /\ pc[r] = "read"
  /\ seen' = [seen EXCEPT ![r] = Contents]
  /\ pc' = [pc EXCEPT ![r] = "store"]
  /\ UNCHANGED <<disk, cache, query, sig, writes, awaited, past, lapses>>

\* The handler reports a failure, or stops because its call was given up.
ReadFails(r) ==
  /\ pc[r] = "read" /\ Finish(r)
  /\ UNCHANGED <<disk, cache, writes, past, lapses>>

\* set(): an entry that is there is replaced; a new one may evict the oldest.
Store(r) ==
  LET q == query[r]
      out == IF entry[q] = NoEntry /\ Len(order) >= MaxEntries THEN {Head(order)} ELSE {}
  IN
  /\ pc[r] = "store"
  /\ entry' = [p \in Queries |->
                 IF p = q THEN [seen |-> seen[r], sig |-> sig[r]]
                 ELSE IF p \in out THEN NoEntry ELSE entry[p]]
  /\ order' = Append(Without(out \cup {q}), q)
  /\ Finish(r)
  /\ UNCHANGED <<disk, writes, past, lapses>>

(***************************************************************************)
(* A mutating call: a write tool tells its paths, bash does not            *)
(***************************************************************************)
Write(f, told) ==
  /\ wpc = "idle" /\ awaited = {} /\ disk[f].sig + 1 < MaxChanges
  /\ disk' = Changed(f, Fresh(f))
  /\ wpc' = "changed"
  /\ target' = [file |-> f, before |-> disk[f].content, told |-> told]
  /\ awaited' = {Writer}
  /\ UNCHANGED <<cache, reads, past, lapses>>

WriteReturns ==
  /\ wpc' = "idle" /\ target' = NoTarget /\ awaited' = awaited \ {Writer}

\* Slip: an entry is dropped only when its scope is the very path written.
OverlapsExactly(f) == {q \in Queries : q = f}

\* invalidate_paths: the scope is the file, a directory above it, or unknown.
Overlaps(f) == {q \in Queries : f \in DependsOn(q)}

\* The call succeeded: what it may have made stale is dropped.
WriteSucceeds ==
  LET f == target.file IN
  /\ wpc = "changed"
  /\ Forget(IF target.told THEN Overlaps(f) ELSE Queries)
  /\ past' = [past EXCEPT ![f] = @ \cup {target.before}]
  /\ WriteReturns
  /\ UNCHANGED <<disk, reads, lapses>>

\* The written file does not compile: it is restored and nothing is dropped.
RollBack ==
  LET f == target.file IN
  /\ wpc = "changed" /\ target.told /\ disk[f].sig < MaxChanges
  /\ disk' = Changed(f, target.before)
  /\ past' = [past EXCEPT ![f] = @ \cup {disk[f].content}]
  /\ WriteReturns
  /\ UNCHANGED <<cache, reads, lapses>>

\* A command that changed a file exits with an error or at its timeout.
FailDirty ==
  LET f == target.file IN
  /\ wpc = "changed" /\ ~target.told
  /\ lapses' = lapses \cup {"dirty"}
  /\ past' = [past EXCEPT ![f] = @ \cup {target.before}]
  /\ WriteReturns
  /\ UNCHANGED <<disk, cache, reads>>

\* The user cancels the turn: nobody waits, and the threads go on.
Cancel ==
  /\ awaited # {}
  /\ awaited' = {} /\ lapses' = lapses \cup {"cancelled"}
  /\ UNCHANGED <<disk, cache, reads, writes, past>>

Next ==
  \/ WriteSucceeds \/ RollBack \/ FailDirty \/ Cancel
  \/ \E f \in Files : OtherWrites(f) \/ \E told \in BOOLEAN : Write(f, told)
  \/ \E r \in Readers :
       \/ Hit(r) \/ Miss(r) \/ Read(r) \/ ReadFails(r) \/ Store(r)
       \/ \E q \in Queries : StartRead(r, q)

Spec == Init /\ [][Next]_vars

(***************************************************************************)
(* Properties                                                              *)
(***************************************************************************)
Ids == 0 .. MaxChanges

\* Types; the order lists the cached queries once each, within the capacity.
TypeOK ==
  /\ disk \in [Files -> [sig : Ids, content : Ids]]
  /\ entry \in [Queries -> [seen : [Files -> Ids], sig : Ids] \cup {NoEntry}]
  /\ pc \in [Readers -> {"idle", "look", "read", "store"}]
  /\ query \in [Readers -> Queries \cup {NoQuery}]
  /\ sig \in [Readers -> Ids] /\ seen \in [Readers -> [Files -> Ids]]
  /\ wpc \in {"idle", "changed"} /\ (wpc = "idle" <=> target = NoTarget)
  /\ awaited \subseteq Readers \cup {Writer} /\ past \in [Files -> SUBSET Ids]
  /\ lapses \subseteq {"cancelled", "dirty"}
  /\ ToSet(order) = {q \in Queries : entry[q] # NoEntry}
  /\ Len(order) = Cardinality(ToSet(order)) /\ Len(order) <= MaxEntries

\* A hit on a query of one file answers what the file holds at that moment:
\* whoever wrote it, also while it was read, and whatever thread stored it.
FileHitIsFresh ==
  \A f \in Files : Matches(f) => entry[f].seen[f] = disk[f].content

\* Between mutating calls no hit, of whatever scope, answers with contents that
\* one of the registry's own calls replaced or rolled back.
NothingOldIsAnswered ==
  wpc = "idle" =>
    \A q \in Queries, f \in Files :
      Matches(q) /\ f \in DependsOn(q) => entry[q].seen[f] \notin past[f]

\* So it is where every turn runs to its end and no command fails after a change.
OwnWritesAreSeen == lapses = {} => NothingOldIsAnswered

\* "Its result is simply discarded": nor does a cancelled turn bring it about.
CancelledIsDiscarded == "dirty" \notin lapses => NothingOldIsAnswered

\* Whether a command succeeded makes no difference, only what it changed does.
ChangesInvalidate == "cancelled" \notin lapses => NothingOldIsAnswered

=============================================================================
