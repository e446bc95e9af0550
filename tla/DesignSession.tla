--------------------------- MODULE DesignSession ---------------------------
(***************************************************************************)
(* One design session shared by several processes (design_session.py): the *)
(* active file, the append-only archive of compressed turns, the object    *)
(* each process caches, the background compression of each process         *)
(* (agent/context_manager.py) and the merge that runs under the            *)
(* cross-process lock before every write.                                  *)
(*                                                                         *)
(* A turn is its number and the process whose unanswered request it is.    *)
(* Of a summary only the turns it covers are kept.  A process stands for   *)
(* one life of a pid: killed, it does not come back.                       *)
(***************************************************************************)
EXTENDS Naturals, FiniteSets, SequencesExt, Selections

CONSTANTS
    Procs,
    Nobody,         \* owner of a turn that is not in progress
    KeepRecent,     \* MIN_RECENT_TURNS_KEEP
    ArchiveCap,     \* records an archive may have before it is folded
    MaxTurns,       \* bound: turns added
    MaxIndex,       \* bound: the absolute index a compression reaches
    MaxFails,       \* bound: writes that fail
    MaxKills,       \* bound: processes killed
    MaxTears        \* bound: appends that stop in the middle of a record

SessionAssumption == /\ Nobody \notin Procs
                     /\ KeepRecent \in Nat /\ ArchiveCap \in Nat \ {0}
                     /\ {MaxTurns, MaxIndex, MaxFails, MaxKills, MaxTears} \subseteq Nat

VARIABLES
    file,       \* the active file, or NoFile
    archive,    \* the archive's whole records: <<[i, ids]>>
    torn,       \* the archive ends in a part of a record, without a newline
    mem,        \* the cached session of a process, or NoFile
    synced,     \* the process has the present mtime of the file in _mtimes
    lock,       \* holder of the session lock: <<process, thread>> or <<>>
    main,       \* what the chat thread of a process is doing
    back,       \* what its compression thread is doing
    open,       \* the request of a process that has no answer yet, 0 for none
    next,       \* turns made so far
    saved,      \* turns that have been in the active file
    dead,       \* processes killed
    fails, tears,
    compressors,    \* processes that have begun to compress
    spoilt          \* a write broke off and left a wrong archive behind

disk == <<file, archive, torn>>
idle == <<next, saved, dead, fails, tears>>
past == <<compressors, spoilt>>
vars == <<disk, mem, synced, lock, main, back, open, idle, past>>

Ids   == 1 .. MaxTurns
Turn  == [id : Ids, owner : Procs \cup {Nobody}]
Empty == [turns |-> <<>>, arch |-> 0, upto |-> 0, covers |-> {}]
NoFile == [Empty EXCEPT !.covers = Ids]     \* no real session looks so
Rest  == [at |-> "rest", cut |-> 0, covers |-> {}]

IdsOf(turns) == {turns[k].id : k \in DOMAIN turns}
Archived     == UNION {archive[k].ids : k \in DOMAIN archive}

Init ==
    /\ file = NoFile /\ archive = <<>> /\ torn = FALSE
    /\ mem = [p \in Procs |-> NoFile]
    /\ synced = [p \in Procs |-> FALSE]
    /\ lock = <<>>
    /\ main = [p \in Procs |-> "rest"] /\ back = [p \in Procs |-> Rest]
    /\ open = [p \in Procs |-> 0]
    /\ next = 0 /\ saved = {} /\ dead = {} /\ fails = 0 /\ tears = 0
    /\ compressors = {} /\ spoilt = FALSE

-----------------------------------------------------------------------------
(* The merge.                                                              *)

(* Turns of the other side that the base does not have.                    *)
Absent(base, other) == Pick(other, {k \in DOMAIN other : other[k].id \notin IdsOf(base)})

(* The side with more archive progress is the base, of equals the file.    *)
DiskLeads(s) == file.arch >= s.arch

\* Slip: the last writer wins.
NeverAdopted(s) == s

Adopted(s) ==
    IF file = NoFile THEN s
    ELSE LET base  == IF DiskLeads(s) THEN file ELSE s
             other == IF DiskLeads(s) THEN s ELSE file
             ahead == file.upto > s.upto
         IN  [turns  |-> base.turns \o Absent(base.turns, other.turns),
              arch   |-> base.arch,
              upto   |-> IF ahead THEN file.upto ELSE s.upto,
              covers |-> IF ahead /\ file.covers # {} THEN file.covers ELSE s.covers]

(* Requests of processes that died are released.                           *)
Reaped(turns) ==
    [k \in DOMAIN turns |-> IF turns[k].owner \in dead THEN [turns[k] EXCEPT !.owner = Nobody]
                                                       ELSE turns[k]]

Newest(turns, p) == {k \in DOMAIN turns : /\ turns[k].owner = p
                                          /\ \A j \in DOMAIN turns : turns[j].owner = p => j <= k}

(* An answer releases the most recent request of its own process.          *)
Cleared(turns, p) ==
    [k \in DOMAIN turns |-> IF k \in Newest(turns, p) THEN [turns[k] EXCEPT !.owner = Nobody]
                                                      ELSE turns[k]]

-----------------------------------------------------------------------------
(* The chat: a request, then its answer.                                   *)

Lives(p) == p \notin dead

(* get_or_create: load, or refresh under the lock when the mtime moved.    *)
Open(p) ==
    /\ Lives(p) /\ main[p] = "rest" /\ next < MaxTurns
    /\ IF mem[p] = NoFile
       THEN /\ mem' = [mem EXCEPT ![p] = IF file = NoFile THEN Empty ELSE file]
            /\ synced' = [synced EXCEPT ![p] = file # NoFile]
       ELSE IF file = NoFile \/ synced[p] THEN UNCHANGED <<mem, synced>>
       ELSE /\ lock = <<>>
            /\ mem' = [mem EXCEPT ![p] = Adopted(@)]
            /\ synced' = [synced EXCEPT ![p] = TRUE]
    /\ main' = [main EXCEPT ![p] = "add"]
    /\ UNCHANGED <<disk, lock, back, open, idle, past>>

(* add_turn up to the write: merge, reap, release, append.                 *)
AddTurn(p) ==
    LET s    == Adopted(mem[p])
        kept == IF open[p] = 0 THEN Reaped(s.turns) ELSE Cleared(Reaped(s.turns), p)
        turn == [id |-> next + 1, owner |-> IF open[p] = 0 THEN p ELSE Nobody]
    IN  /\ Lives(p) /\ main[p] = "add" /\ lock = <<>> /\ next < MaxTurns
        /\ lock' = <<p, "main">>
        /\ next' = next + 1
        /\ mem' = [mem EXCEPT ![p] = [s EXCEPT !.turns = Append(kept, turn)]]
        /\ open' = [open EXCEPT ![p] = IF @ = 0 THEN next + 1 ELSE 0]
        /\ main' = [main EXCEPT ![p] = "archive"]
        /\ UNCHANGED <<disk, synced, back, saved, dead, fails, tears, past>>

-----------------------------------------------------------------------------
(* Compression, in a thread of its own and without the lock.               *)

LocalCut(s) == IF s.upto > s.arch THEN s.upto - s.arch ELSE 0

(* What is to be summarised is chosen ...                                  *)
Choose(p) ==
    LET s == mem[p]
        n == Len(s.turns)
    IN  /\ Lives(p) /\ s # NoFile /\ back[p] = Rest
        /\ n > KeepRecent + LocalCut(s) /\ s.arch + n - KeepRecent <= MaxIndex
        /\ back' = [back EXCEPT ![p] =
               [at     |-> "summarise",
                cut    |-> s.arch + n - KeepRecent,
                covers |-> s.covers \cup IdsOf(SubSeq(s.turns, LocalCut(s) + 1, n - KeepRecent))]]
        /\ compressors' = compressors \cup {p}
        /\ UNCHANGED <<disk, mem, synced, lock, main, open, idle, spoilt>>

(* ... and when the model has answered the pointer advances.               *)
Summarise(p) ==
    /\ Lives(p) /\ back[p].at = "summarise"
    /\ mem' = [mem EXCEPT ![p].upto = back[p].cut, ![p].covers = back[p].covers]
    /\ back' = [back EXCEPT ![p] = [Rest EXCEPT !.at = "save"]]
    /\ UNCHANGED <<disk, synced, lock, main, open, idle, past>>

(* No summary: nothing is discarded.                                       *)
SummaryFails(p) ==
    /\ Lives(p) /\ back[p].at = "summarise"
    /\ back' = [back EXCEPT ![p] = [Rest EXCEPT !.at = "save"]]
    /\ UNCHANGED <<disk, mem, synced, lock, main, open, idle, past>>

(* _save: merge and reap.                                                  *)
Save(p) ==
    LET s == Adopted(mem[p])
    IN  /\ Lives(p) /\ back[p].at = "save" /\ lock = <<>>
        /\ lock' = <<p, "back">>
        /\ mem' = [mem EXCEPT ![p] = [s EXCEPT !.turns = Reaped(@)]]
        /\ back' = [back EXCEPT ![p].at = "archive"]
        /\ UNCHANGED <<disk, synced, main, open, idle, past>>

-----------------------------------------------------------------------------
(* _write_session, by the thread that holds the lock.                      *)

At(p, at) ==
    \/ lock = <<p, "main">> /\ main[p] = at
    \/ lock = <<p, "back">> /\ back[p].at = at

GoOn(p, at) ==
    IF lock = <<p, "main">>
    THEN main' = [main EXCEPT ![p] = at] /\ UNCHANGED back
    ELSE back' = [back EXCEPT ![p] = [Rest EXCEPT !.at = at]] /\ UNCHANGED main

Smaller(a, b) == IF a <= b THEN a ELSE b

LastIndex == IF archive = <<>> THEN 0 ELSE Last(archive).i

(* The records of the first n turns.  Those a killed predecessor has       *)
(* appended are skipped by their index.                                    *)
NewRecords(s, n) ==
    LET there == IF LastIndex > s.arch THEN LastIndex - s.arch ELSE 0
    IN  [k \in 1 .. (Smaller(n, Len(s.turns)) - there) |->
            [i |-> s.arch + there + k, ids |-> {s.turns[there + k].id}]]

(* A fold carries the last index of its block.                             *)
FoldIndex(block) == Last(block).i

OverCap == Len(archive) > ArchiveCap

(* An archive over its cap has its oldest records folded into one, and     *)
(* what is no record is left out.                                          *)
Compacted ==
    IF ~OverCap THEN archive
    ELSE LET n     == Len(archive) - ArchiveCap \div 2
             block == SubSeq(archive, 1, n)
         IN  <<[i |-> FoldIndex(block), ids |-> UNION {block[k].ids : k \in 1 .. n}]>>
               \o SubSeq(archive, n + 1, Len(archive))

(* Turns leave the active list when the archive has them.                  *)
CutOff(s, n, written) ==
    IF written THEN [s EXCEPT !.turns = SubSeq(@, n + 1, Len(@)), !.arch = @ + n] ELSE s

StillTorn == torn /\ ~OverCap

(* The first record appended after a torn one continues its line, which    *)
(* then is no record for any reader.                                       *)
Readable(records) == IF StillTorn /\ records # <<>> THEN Tail(records) ELSE records

(* An append of the records, or of the first k of them and perhaps a part  *)
(* of the next.                                                            *)
Appended(records) ==
    /\ archive' = Compacted \o Readable(records)
    /\ torn' = (StillTorn /\ records = <<>>)
    /\ UNCHANGED tears

AppendedInPart(records) ==
    \E k \in 0 .. Len(records) - 1, part \in BOOLEAN :
        LET first == SubSeq(records, 1, k)
        IN  /\ part => tears < MaxTears
            /\ archive' = Compacted \o Readable(first)
            /\ torn' = (part \/ (StillTorn /\ first = <<>>))
            /\ tears' = IF part THEN tears + 1 ELSE tears

(* An index in the archive past those of a session is that of its turn at  *)
(* this place, which a predecessor archived.                               *)
InPlace(s) ==
    \A i \in s.arch + 1 .. LastIndex :
        i - s.arch <= Len(s.turns) /\ s.turns[i - s.arch].id \in Archived

ArchiveTurns(p) ==
    /\ Lives(p) /\ At(p, "archive")
    /\ LET n   == LocalCut(mem[p])
           new == NewRecords(mem[p], n)
       IN  \/ /\ IF n = 0 THEN UNCHANGED <<archive, torn, tears>> ELSE Appended(new)
              /\ mem' = [mem EXCEPT ![p] = CutOff(@, n, TRUE)]
              /\ UNCHANGED <<fails, spoilt>>
           \/ /\ n > 0 /\ fails < MaxFails
              /\ AppendedInPart(new)
              /\ mem' = [mem EXCEPT ![p] = CutOff(@, n, FALSE)]
              /\ fails' = fails + 1
              /\ spoilt' = (spoilt \/ torn')
    /\ GoOn(p, "write")
    /\ UNCHANGED <<file, synced, lock, open, next, saved, dead, compressors>>

WriteFile(p) ==
    /\ Lives(p) /\ At(p, "write")
    /\ file' = mem[p]
    /\ saved' = saved \cup IdsOf(mem[p].turns)
    /\ synced' = [q \in Procs |-> q = p]
    /\ GoOn(p, "rest") /\ lock' = <<>>
    /\ UNCHANGED <<archive, torn, mem, open, next, dead, fails, tears, past>>

(* A full disk is logged; the object in memory keeps what was done to it.  *)
WriteFails(p) ==
    /\ Lives(p) /\ At(p, "write") /\ fails < MaxFails
    /\ fails' = fails + 1
    /\ spoilt' = (spoilt \/ mem[p].arch > file.arch \/ ~InPlace(file))
    /\ GoOn(p, "rest") /\ lock' = <<>>
    /\ UNCHANGED <<disk, mem, synced, open, next, saved, dead, tears, compressors>>

-----------------------------------------------------------------------------
(* The kernel drops the lock of a killed process; what it was appending    *)
(* may be there in part.                                                   *)
Holds(p) == lock # <<>> /\ lock[1] = p

Kill(p) ==
    /\ Lives(p) /\ Cardinality(dead) < MaxKills
    /\ dead' = dead \cup {p}
    /\ \/ UNCHANGED <<archive, torn, tears>>
       \/ At(p, "archive") /\ AppendedInPart(NewRecords(mem[p], LocalCut(mem[p])))
    /\ lock' = IF Holds(p) THEN <<>> ELSE lock
    /\ mem' = [mem EXCEPT ![p] = NoFile]
    /\ main' = [main EXCEPT ![p] = "rest"] /\ back' = [back EXCEPT ![p] = Rest]
    /\ open' = [open EXCEPT ![p] = 0]
    /\ UNCHANGED <<file, synced, next, saved, fails, compressors>>
    /\ spoilt' = (spoilt \/ torn' \/ (Holds(p) /\ ~InPlace(file)'))

Next ==
    \E p \in Procs :
        \/ Open(p) \/ AddTurn(p)
        \/ Choose(p) \/ Summarise(p) \/ SummaryFails(p) \/ Save(p)
        \/ ArchiveTurns(p) \/ WriteFile(p) \/ WriteFails(p)
        \/ Kill(p)

Spec == Init /\ [][Next]_vars

-----------------------------------------------------------------------------
Session == [turns : Seq(Turn), arch : 0 .. MaxIndex, upto : 0 .. MaxIndex, covers : SUBSET Ids]
Record  == [i : Nat, ids : SUBSET Ids]
Work    == [at : {"rest", "summarise", "save", "archive", "write"},
            cut : 0 .. MaxIndex, covers : SUBSET Ids]

TypeOK ==
    /\ file \in Session /\ mem \in [Procs -> Session]
    /\ archive \in Seq(Record)
    /\ synced \in [Procs -> BOOLEAN] /\ torn \in BOOLEAN
    /\ lock \in {<<>>} \cup (Procs \X {"main", "back"})
    /\ main \in [Procs -> {"rest", "add", "archive", "write"}] /\ back \in [Procs -> Work]
    /\ open \in [Procs -> 0 .. MaxTurns]
    /\ next \in 0 .. MaxTurns /\ saved \subseteq Ids /\ dead \subseteq Procs
    /\ fails \in 0 .. MaxFails /\ tears \in 0 .. MaxTears
    /\ compressors \subseteq Procs /\ spoilt \in BOOLEAN

(* No turn that was ever in the active file is lost: it is in the file or  *)
(* in the archive, whoever merges, archives, folds, fails or is killed     *)
(* (design_session.py:236-240, 607-609).                                   *)
NoTurnLost == saved \subseteq IdsOf(file.turns) \cup Archived

(* The archive's indices grow: the "monotonic-i crash-recovery invariant"  *)
(* (design_session.py:650-651).                                            *)
IndicesGrow == \A j, k \in DOMAIN archive : j < k => archive[j].i < archive[k].i

(* They reach to where the active file begins.                             *)
ArchiveReachesFile == file # NoFile => LastIndex >= file.arch

(* A turn leaves the context verbatim only if the summary covers it: what  *)
(* the active file no longer holds is covered by the summary in it.        *)
ArchivedIsSummarised ==
    file # NoFile => saved \ IdsOf(file.turns) \subseteq file.covers

(* "Compression/archive pointers: monotonic" (design_session.py:222): the  *)
(* file's never go back.                                                   *)
PointersAreMonotone ==
    [][file # NoFile /\ file' # NoFile => file'.upto >= file.upto /\ file'.arch >= file.arch]_vars

(* A request shown as in progress is one that its process is working on,   *)
(* or that of a process killed before it could answer.                     *)
InProgressIsOpen ==
    \A k \in DOMAIN file.turns :
        LET p == file.turns[k].owner
        IN  p # Nobody => p \in dead \/ open[p] = file.turns[k].id \/ lock = <<p, "main">>

(* The request a process works on is not taken for abandoned by another    *)
(* one: its flag stays until its own answer.                               *)
OpenIsInProgress ==
    \A p \in Procs : open[p] \in IdsOf(file.turns) /\ lock # <<p, "main">> =>
        \E k \in DOMAIN file.turns : file.turns[k] = [id |-> open[p], owner |-> p]

(* "Compressed turns are moved to an append-only archive, leaving only the *)
(* summary + recent turns in the active JSON file" (design_session.py:     *)
(* 563-564): no turn of the archived part is in the active file again.     *)
ArchivedLeavesActive ==
    \A k \in DOMAIN archive : archive[k].i <= file.arch => archive[k].ids \cap IdsOf(file.turns) = {}

(* What holds of these where: the turns are kept unless a write broke off  *)
(* and left an index for another turn; the summary covers what one         *)
(* compressor moved out; requests stand as they are until one compresses.  *)
OneCompresses == \A p, q \in compressors : p = q

TurnsAreKept ==
    /\ IndicesGrow
    /\ ~spoilt => NoTurnLost /\ ArchiveReachesFile
    /\ OneCompresses /\ fails = 0 => ArchivedIsSummarised
    /\ compressors = {} /\ fails = 0 => OpenIsInProgress /\ InProgressIsOpen
=============================================================================
