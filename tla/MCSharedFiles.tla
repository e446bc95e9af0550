---------------------------- MODULE MCSharedFiles ----------------------------
(***************************************************************************)
(* Small instances of what several asicode processes of one repository     *)
(* share through files.                                                    *)
(*                                                                         *)
(* The parts have no variable in common and one run takes steps in one of  *)
(* them only, so that their states add up; the others rest in an initial   *)
(* state.                                                                  *)
(***************************************************************************)
EXTENDS SharedFiles, TLC

\* Two sessions of one machine and one of another.
MCHostOf == [s \in Sessions |-> IF s = "s3" THEN "h2" ELSE "h1"]

VARIABLE scenario

MCInit ==
  /\ scenario \in {"flock", "leases", "cache", "session", "torn", "summary",
                   "requests", "patterns", "worn"}
  /\ SharedInit
  /\ scenario # "flock" => name = NoInode
  /\ elPid["s1"] = "p1" /\ elPid["s3"] = "p1"   \* the ids of a machine are alike
  /\ scenario # "leases" => elPid["s2"] = "p2"

\* Pool threads are alike, and so are processes that share a session.
Alike == Permutations(Readers) \cup Permutations(Chats)

\* Once a turn has lapsed no file has changed more than once.
LapsesAreEarly == tcLapses' # {} => \A f \in Files : tcDisk'[f].sig <= 1

\* Three turns of two processes that both compress, one write that fails and one
\* process that is killed at any step; or an append that a kill stops inside a
\* record.
Short  == dsNext' <= 3 /\ \A p \in Chats : dsBack'[p].cut <= 3
Broken == Short /\ dsTears' = 0
Torn   == Short /\ dsFails' = 0

\* One of them compresses; or neither, and their requests overlap.
OneOfThem == Cardinality(dsCompressors') <= 1 /\ dsFails' = 0 /\ dsTears' = 0
Neither   == dsCompressors' = {} /\ dsFails' = 0 /\ dsTears' = 0

\* Nothing is deleted, decays, fails or is left out, so that every record can be
\* counted; or all of it, in a few records.
Counted == fpDeletions' = 0 /\ fpLapses' = {} /\ fpTold'["k3"] = 0
Worn    == \A k \in Keys : fpTold'[k] <= 1

MCNext ==
  /\ UNCHANGED scenario
  /\ \/ scenario = "flock" /\ LocksStep
     \/ scenario = "leases" /\ LeasesStep
     \/ scenario = "cache" /\ CacheStep /\ LapsesAreEarly
     \/ scenario = "session" /\ SessionStep /\ Broken
     \/ scenario = "torn" /\ SessionStep /\ Torn
     \/ scenario = "summary" /\ SessionStep /\ OneOfThem
     \/ scenario = "requests" /\ SessionStep /\ Neither
     \/ scenario = "patterns" /\ PatternsStep /\ Counted
     \/ scenario = "worn" /\ PatternsStep /\ Worn

\* A behaviour of SharedSpec, with fewer interleavings.
MCSpec == MCInit /\ [][MCNext]_<<scenario, sharedVars>>
==============================================================================
