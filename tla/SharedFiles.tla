---------------------------- MODULE SharedFiles -----------------------------
(***************************************************************************)
(* What several asicode processes of one repository do to each other's     *)
(* files: a lock file that is taken and swept away, the leases of edited   *)
(* files, the results of tools that one of them keeps while the others     *)
(* write, a design session that several continue, and the failure patterns *)
(* that all of them count.  The five share no variable, and each runs at   *)
(* its own pace.                                                           *)
(***************************************************************************)
EXTENDS FlockFiles

CONSTANTS
  Files,        \* files of the repository
  Sessions, Hosts, HostOf, Pids, TtlSameHost, TtlCrossHost, SweepMaxAge, LeaseClock,
  Wide, Everywhere, Readers, MaxEntries, MaxChanges,
  Chats,        \* processes that continue the design session
  KeepRecent, ArchiveCap, MaxTurns, MaxIndex, MaxFails, MaxKills, MaxTears,
  Learners,     \* processes that count failure patterns
  Keys, FlushInterval, MaxPatterns, MaxRecords, MaxCount, MaxDeletions

VARIABLES
  elClock, elLife, elPid, elTaken, elLease, elPc, elFile, elRecords,
  elUnswept, elDoomed, elEdited, elWip,
  tcDisk, tcEntry, tcOrder, tcPc, tcQuery, tcSig, tcSeen, tcWpc, tcTarget,
  tcAwaited, tcPast, tcLapses,
  dsFile, dsArchive, dsTorn, dsMem, dsSynced, dsLock, dsMain, dsBack, dsOpen,
  dsNext, dsSaved, dsDead, dsFails, dsTears, dsCompressors, dsSpoilt,
  fpDisk, fpLife, fpLoaded, fpMem, fpBase, fpDirty, fpPc, fpTold, fpDeleted,
  fpDeletions, fpLapses

\* The leases, with one tool call at a time.
Leases == INSTANCE EditLeases WITH
  MaxClock <- LeaseClock, MayOverlap <- FALSE, clock <- elClock, life <- elLife,
  pid <- elPid, taken <- elTaken, lease <- elLease, pc <- elPc, file <- elFile,
  records <- elRecords, unswept <- elUnswept, doomed <- elDoomed,
  edited <- elEdited, wip <- elWip

\* The tool results of a process.
Cache == INSTANCE ToolCache WITH
  disk <- tcDisk, entry <- tcEntry, order <- tcOrder, pc <- tcPc,
  query <- tcQuery, sig <- tcSig, seen <- tcSeen, wpc <- tcWpc,
  target <- tcTarget, awaited <- tcAwaited, past <- tcPast, lapses <- tcLapses

\* The design session.
Session == INSTANCE DesignSession WITH
  Procs <- Chats, file <- dsFile, archive <- dsArchive, torn <- dsTorn,
  mem <- dsMem, synced <- dsSynced, lock <- dsLock, main <- dsMain,
  back <- dsBack, open <- dsOpen, next <- dsNext, saved <- dsSaved,
  dead <- dsDead, fails <- dsFails, tears <- dsTears,
  compressors <- dsCompressors, spoilt <- dsSpoilt

\* The failure patterns.
Patterns == INSTANCE FailurePatterns WITH
  Processes <- Learners, disk <- fpDisk, life <- fpLife, loaded <- fpLoaded,
  mem <- fpMem, base <- fpBase, dirty <- fpDirty, pc <- fpPc, told <- fpTold,
  deleted <- fpDeleted, deletions <- fpDeletions, lapses <- fpLapses

leaseVars ==
  <<elClock, elLife, elPid, elTaken, elLease, elPc, elFile, elRecords,
    elUnswept, elDoomed, elEdited, elWip>>
cacheVars ==
  <<tcDisk, tcEntry, tcOrder, tcPc, tcQuery, tcSig, tcSeen, tcWpc, tcTarget,
    tcAwaited, tcPast, tcLapses>>
sessionVars ==
  <<dsFile, dsArchive, dsTorn, dsMem, dsSynced, dsLock, dsMain, dsBack, dsOpen,
    dsNext, dsSaved, dsDead, dsFails, dsTears, dsCompressors, dsSpoilt>>
patternVars ==
  <<fpDisk, fpLife, fpLoaded, fpMem, fpBase, fpDirty, fpPc, fpTold, fpDeleted,
    fpDeletions, fpLapses>>

ASSUME SharedAssumption ==
  Leases!HostAssumption /\ Leases!TtlAssumption /\ Cache!QueryAssumption

ASSUME StoresAssumption ==
  Session!SessionAssumption /\ Patterns!SizeAssumption

SharedInit == Init /\ Leases!Init /\ Cache!Init /\ Session!Init /\ Patterns!Init

LocksStep    == Next /\ UNCHANGED <<leaseVars, cacheVars, sessionVars, patternVars>>
LeasesStep   == Leases!Next /\ UNCHANGED <<vars, cacheVars, sessionVars, patternVars>>
CacheStep    == Cache!Next /\ UNCHANGED <<vars, leaseVars, sessionVars, patternVars>>
SessionStep  == Session!Next /\ UNCHANGED <<vars, leaseVars, cacheVars, patternVars>>
PatternsStep == Patterns!Next /\ UNCHANGED <<vars, leaseVars, cacheVars, sessionVars>>

SharedNext == LocksStep \/ LeasesStep \/ CacheStep \/ SessionStep \/ PatternsStep

sharedVars == <<vars, leaseVars, cacheVars, sessionVars, patternVars>>

SharedSpec == SharedInit /\ [][SharedNext]_sharedVars

-----------------------------------------------------------------------------
\* The types of the five, with who has a lock, lease or place in the order of
\* the cache where it does.
TypesOK ==
  /\ TypeOK /\ Leases!TypeOK /\ Cache!TypeOK
  /\ Session!TypeOK /\ Patterns!TypeOK

\* While the last editor of a file lives and its lease has not aged out, no
\* other session passes the check of that file (edit_lease.check_edit_lease;
\* RecordedEditorIsGuarded of EditLeases).
EditorIsGuarded == Leases!RecordedEditorIsGuarded

\* A file's cached answer is what the file holds, and where turns run to their
\* end what a session's own calls wrote or rolled back is never answered to it
\* again, whichever reads were under way and whatever others write
\* (ToolRegistry._dispatch_impl; FileHitIsFresh, OwnWritesAreSeen of ToolCache).
CacheIsHonest == Cache!FileHitIsFresh /\ Cache!OwnWritesAreSeen

\* Every turn once written is in the session's file or in its archive, whose
\* indices grow to where the file begins, unless a failed write or a kill left
\* an index for another turn.  What one compressor moved out of the file its
\* summary covers, and until one compresses a request another process works on
\* is not taken for an abandoned one, nor an abandoned one for a request at work
\* (DesignSessionManager._adopt_from_disk, _archive_compressed_turns,
\* _reap_zombie_in_progress; TurnsAreKept of DesignSession).
TurnsAreKept == Session!TurnsAreKept

\* Merged with what other processes wrote, the counts on disk and still to be
\* written add up to the records made, none lost and none counted twice
\* (FailurePatternStore._merge_max; RecordsAddUp of FailurePatterns).
RecordsAddUp == Patterns!RecordsAddUp
==============================================================================
