-------------------------- MODULE SharedFilesProofs --------------------------
(***************************************************************************)
(* What SharedFiles keeps for any number of processes, files and queries:  *)
(* the guard of the leases and the truth of cached answers.                *)
(***************************************************************************)
EXTENDS DesignSessionProofs

-----------------------------------------------------------------------------
(***************************************************************************)
(* The lock files, for any number of users, sweeps and inodes: the inode   *)
(* parity of the sweep, taken with the lock in hand, is enough.            *)
(***************************************************************************)
\* Who has not opened the file has no descriptor of it.
ClosedWhenIdle ==
  \A p \in Processes : pc[p] \in {"idle", "probe"} => fd[p] = NoInode

\* A sweep past its try has the lock of the inode it opened; and between the
\* comparison and the unlink the name still leads there, since only another
\* sweep with that lock could take it away.
SweepersHold ==
  \A p \in Processes :
    /\ pc[p] = "try" => fd[p] # NoInode
    /\ pc[p] \in {"compare", "unlink"} => fd[p] # NoInode /\ holder[fd[p]] = p
    /\ pc[p] = "unlink" => name = fd[p]

\* The inductive invariant of the lock files.
Descriptors == TypeOK /\ ClosedWhenIdle /\ SweepersHold

\* No file is open at the start.
LEMMA InitDescriptors == Init => Descriptors
<1>1. SUFFICES ASSUME Init PROVE Descriptors
  OBVIOUS
<1>2. TypeOK
  BY <1>1, BoundAssumption DEF Init, TypeOK, Ticks, Inodes, NoInode
<1>3. ClosedWhenIdle /\ SweepersHold
  BY <1>1 DEF Init, ClosedWhenIdle, SweepersHold
<1>4. QED
  BY <1>2, <1>3 DEF Descriptors

\* Closing a descriptor frees its lock and no other.
LEMMA CloseKeeps ==
  ASSUME Descriptors, NEW p \in Processes, Close(p),
         UNCHANGED <<clock, name, last, empty, mtime, used>>
  PROVE  Descriptors'
<1> USE DEF Descriptors
<1>1. \A i \in Inodes : holder'[i] = IF holder[i] = p THEN Nobody ELSE holder[i]
  BY DEF Close
<1>2. /\ \A q \in Processes : pc'[q] = IF q = p THEN "idle" ELSE pc[q]
      /\ \A q \in Processes : fd'[q] = IF q = p THEN NoInode ELSE fd[q]
  BY DEF Close, To, TypeOK
<1>3. TypeOK'
  <2>1. pc' \in [Processes -> {"idle", "wait", "within", "probe", "try", "compare",
                               "unlink", "close"}]
    BY DEF Close, To, TypeOK
  <2>2. fd' \in [Processes -> 0 .. last']
    BY DEF Close, TypeOK, NoInode, Inodes
  <2>3. holder' \in [Inodes -> Processes \cup {Nobody}]
    BY DEF Close, TypeOK
  <2>4. \A i \in Inodes : holder'[i] # Nobody => fd'[holder'[i]] = i
    BY <1>1, <1>2 DEF TypeOK
  <2>5. QED
    BY <2>1, <2>2, <2>3, <2>4 DEF TypeOK
<1>4. ClosedWhenIdle'
  BY <1>2 DEF ClosedWhenIdle
<1>5. ASSUME NEW q \in Processes, q # p
      PROVE  fd[q] # NoInode /\ holder[fd[q]] = q => holder'[fd[q]] = q
  BY <1>1, <1>5, BoundAssumption DEF TypeOK, NoInode, Inodes
<1>6. SweepersHold'
  BY <1>2, <1>5 DEF SweepersHold
<1>7. QED
  BY <1>3, <1>4, <1>6

\* Every step keeps descriptors, locks and names together.
LEMMA NextDescriptors == Descriptors /\ [Next]_vars => Descriptors'
<1> USE DEF Descriptors
<1>1. SUFFICES ASSUME Descriptors, [Next]_vars PROVE Descriptors'
  OBVIOUS
<1>2. CASE Tick
  <2>1. TypeOK'
    BY <1>1, <1>2, BoundAssumption DEF Tick, TypeOK, Ticks
  <2>2. QED
    BY <1>1, <1>2, <2>1 DEF Tick, ClosedWhenIdle, SweepersHold
<1>3. ASSUME NEW p \in Users, OpenLock(p) PROVE Descriptors'
  <2>1. p \in Processes /\ pc[p] = "idle" /\ fd[p] = NoInode
    BY <1>1, <1>3 DEF OpenLock, Processes, ClosedWhenIdle
  <2>2. /\ last' \in Inodes /\ last' >= last /\ name' \in 1 .. last'
        /\ fd' = [fd EXCEPT ![p] = name']
        /\ name # NoInode => name' = name
    BY <1>1, <1>3, BoundAssumption DEF OpenLock, Open, TypeOK, Inodes, NoInode
  <2>3. \A i \in Inodes : holder[i] # p
    BY <1>1, <2>1, ProcessAssumption DEF TypeOK, Inodes, NoInode
  <2>4. TypeOK'
    <3>1. fd' \in [Processes -> 0 .. last']
      BY <1>1, <2>1, <2>2 DEF TypeOK, Inodes
    <3>2. mtime' \in [Inodes -> Ticks] /\ used' \in [Inodes -> Ticks]
          /\ empty' \subseteq Inodes /\ clock' \in Ticks /\ name' \in 0 .. last'
      <4>1. fd'[p] = name' /\ name' \in Inodes
        BY <1>1, <2>1, <2>2, BoundAssumption DEF TypeOK, Inodes
      <4>2. QED
        <5>1. clock' = clock /\ empty' \subseteq empty
          BY <1>3 DEF OpenLock
        <5>2. clock \in Ticks /\ used' = [used EXCEPT ![name'] = clock]
              /\ (mtime' = mtime \/ mtime' = [mtime EXCEPT ![name'] = clock])
          BY <1>1, <1>3, <4>1 DEF OpenLock, TypeOK
        <5>3. name' \in 0 .. last'
          BY <2>2 DEF Inodes
        <5>4. QED
          BY <1>1, <4>1, <5>1, <5>2, <5>3 DEF TypeOK
    <3>3. holder' = holder /\ pc' \in [Processes ->
             {"idle", "wait", "within", "probe", "try", "compare", "unlink", "close"}]
      BY <1>1, <1>3 DEF OpenLock, To, TypeOK
    <3>4. \A i \in Inodes : holder'[i] # Nobody => fd'[holder'[i]] = i
      BY <1>1, <2>1, <2>2, <2>3, <3>3 DEF TypeOK
    <3>5. QED
      BY <2>2, <3>1, <3>2, <3>3, <3>4, <1>1 DEF TypeOK
  <2>5. \A q \in Processes : q # p => pc'[q] = pc[q] /\ fd'[q] = fd[q]
    BY <1>1, <1>3, <2>2 DEF OpenLock, To, TypeOK
  <2>6. pc'[p] = "wait" /\ holder' = holder
    BY <1>1, <1>3, <2>1 DEF OpenLock, To, TypeOK
  <2>7. ClosedWhenIdle' /\ SweepersHold'
    BY <1>1, <2>2, <2>5, <2>6 DEF ClosedWhenIdle, SweepersHold
  <2>8. QED
    BY <2>4, <2>7
<1>4. ASSUME NEW p \in Users, Degrade(p) PROVE Descriptors'
  <2>1. p \in Processes /\ pc'[p] = "within"
        /\ \A q \in Processes : q # p => pc'[q] = pc[q]
    BY <1>1, <1>4 DEF Degrade, To, TypeOK, Processes
  <2>2. TypeOK'
    BY <1>1, <1>4 DEF Degrade, To, TypeOK
  <2>3. ClosedWhenIdle' /\ SweepersHold'
    BY <1>1, <1>4, <2>1 DEF Degrade, ClosedWhenIdle, SweepersHold
  <2>4. QED
    BY <2>2, <2>3
<1>5. ASSUME NEW p \in Processes, holder[fd[p]] = Nobody,
             holder' = [holder EXCEPT ![fd[p]] = p],
             NEW step \in {"within", "compare"}, To(p, step),
             step = "compare" => fd[p] # NoInode,
             UNCHANGED <<clock, name, last, empty, mtime, used, fd>>
      PROVE  Descriptors'
  <2>1. pc'[p] = step /\ \A q \in Processes : q # p => pc'[q] = pc[q]
    BY <1>1, <1>5 DEF To, TypeOK
  <2>2. TypeOK'
    BY <1>1, <1>5 DEF To, TypeOK
  <2>3. ASSUME NEW q \in Processes, pc'[q] \in {"compare", "unlink"}, q # p
        PROVE  fd'[q] # NoInode /\ holder'[fd'[q]] = q
    <3>1. fd[q] # NoInode /\ holder[fd[q]] = q /\ fd[q] \in Inodes
      BY <1>1, <2>1, <2>3, BoundAssumption DEF SweepersHold, TypeOK, Inodes, NoInode
    <3>2. fd[q] # fd[p]
      BY <3>1, <1>5, ProcessAssumption
    <3>3. QED
      BY <1>1, <1>5, <3>1, <3>2 DEF TypeOK
  <2>4. step = "compare" => fd'[p] # NoInode /\ holder'[fd'[p]] = p
    BY <1>1, <1>5, BoundAssumption DEF TypeOK, Inodes, NoInode
  <2>5. SweepersHold'
    BY <1>1, <1>5, <2>1, <2>3, <2>4 DEF SweepersHold
  <2>6. ClosedWhenIdle'
    BY <1>1, <1>5, <2>1 DEF ClosedWhenIdle
  <2>7. QED
    BY <2>2, <2>5, <2>6
<1>6. ASSUME NEW p \in Users, Lock(p) PROVE Descriptors'
  BY <1>5, <1>6 DEF Lock, Processes
<1>7. ASSUME NEW p \in Users, Unlock(p) PROVE Descriptors'
  BY <1>1, <1>7, CloseKeeps DEF Unlock, Processes
<1>8. ASSUME NEW p \in Sweepers, SweepStat(p) PROVE Descriptors'
  <2>1. p \in Processes /\ pc[p] = "idle" /\ pc'[p] = "probe"
        /\ \A q \in Processes : q # p => pc'[q] = pc[q]
    BY <1>1, <1>8 DEF SweepStat, To, TypeOK, Processes
  <2>2. TypeOK'
    BY <1>1, <1>8 DEF SweepStat, To, TypeOK
  <2>3. ClosedWhenIdle' /\ SweepersHold'
    BY <1>1, <1>8, <2>1 DEF SweepStat, ClosedWhenIdle, SweepersHold
  <2>4. QED
    BY <2>2, <2>3
<1>9. ASSUME NEW p \in Sweepers, ProbeOpen(p) PROVE Descriptors'
  <2>1. p \in Processes /\ pc[p] = "probe" /\ fd[p] = NoInode
    BY <1>1, <1>9 DEF ProbeOpen, Processes, ClosedWhenIdle
  <2>2. /\ last' \in Inodes /\ last' >= last /\ name' \in 1 .. last'
        /\ fd' = [fd EXCEPT ![p] = name']
        /\ name # NoInode => name' = name
    BY <1>1, <1>9, BoundAssumption DEF ProbeOpen, Open, TypeOK, Inodes, NoInode
  <2>3. \A i \in Inodes : holder[i] # p
    BY <1>1, <2>1, ProcessAssumption DEF TypeOK, Inodes, NoInode
  <2>4. TypeOK'
    <3>1. fd' \in [Processes -> 0 .. last']
      BY <1>1, <2>1, <2>2 DEF TypeOK, Inodes
    <3>2. mtime' \in [Inodes -> Ticks] /\ used' \in [Inodes -> Ticks]
          /\ empty' \subseteq Inodes /\ clock' \in Ticks /\ name' \in 0 .. last'
      <4>1. fd'[p] = name' /\ name' \in Inodes
        BY <1>1, <2>1, <2>2, BoundAssumption DEF TypeOK, Inodes
      <4>2. QED
        <5>1. clock' \in Ticks /\ name' \in 0 .. last' /\ used' = used
          BY <1>1, <1>9, <2>2 DEF ProbeOpen, TypeOK, Inodes
        <5>2. /\ clock \in Ticks
              /\ mtime' = mtime \/ mtime' = [mtime EXCEPT ![name'] = clock]
              /\ empty' = empty \/ empty' = empty \cup {name'}
          BY <1>1, <1>9, <4>1 DEF ProbeOpen, TypeOK
        <5>3. mtime \in [Inodes -> Ticks] /\ used \in [Inodes -> Ticks] /\ empty \subseteq Inodes
          BY <1>1 DEF TypeOK
        <5>4. mtime' \in [Inodes -> Ticks]
          BY <5>2, <5>3
        <5>5. empty' \subseteq Inodes
          BY <4>1, <5>2, <5>3
        <5>6. QED
          BY <5>1, <5>2, <5>3, <5>4, <5>5
    <3>3. holder' = holder /\ pc' \in [Processes ->
             {"idle", "wait", "within", "probe", "try", "compare", "unlink", "close"}]
      BY <1>1, <1>9 DEF ProbeOpen, To, TypeOK
    <3>4. \A i \in Inodes : holder'[i] # Nobody => fd'[holder'[i]] = i
      BY <1>1, <2>1, <2>2, <2>3, <3>3 DEF TypeOK
    <3>5. QED
      BY <2>2, <3>1, <3>2, <3>3, <3>4, <1>1 DEF TypeOK
  <2>5. \A q \in Processes : q # p => pc'[q] = pc[q] /\ fd'[q] = fd[q]
    BY <1>1, <1>9, <2>2 DEF ProbeOpen, To, TypeOK
  <2>6. pc'[p] = "try" /\ holder' = holder
    BY <1>1, <1>9, <2>1 DEF ProbeOpen, To, TypeOK
  <2>7. ClosedWhenIdle' /\ SweepersHold'
    <3>1. fd'[p] # NoInode
      BY <1>1, <2>1, <2>2 DEF TypeOK, Inodes, NoInode
    <3>2. QED
      BY <1>1, <2>2, <2>5, <2>6, <3>1 DEF ClosedWhenIdle, SweepersHold
  <2>8. QED
    BY <2>4, <2>7
<1>10. ASSUME NEW p \in Sweepers, TryLock(p) PROVE Descriptors'
  <2>1. p \in Processes /\ fd[p] # NoInode
    BY <1>1, <1>10 DEF Processes, TryLock, SweepersHold
  <2>2. CASE holder[fd[p]] = Nobody
    BY <1>5, <1>10, <2>1, <2>2 DEF TryLock
  <2>3. CASE holder[fd[p]] # Nobody
    BY <1>1, <1>10, <2>1, <2>3, CloseKeeps DEF TryLock
  <2>4. QED
    BY <2>2, <2>3
<1>11. ASSUME NEW p \in Sweepers, Compare(p) PROVE Descriptors'
  <2>1. p \in Processes
    BY DEF Processes
  <2>2. CASE name = fd[p]
    <3>1. pc'[p] = "unlink" /\ UNCHANGED <<clock, name, last, empty, mtime, used, holder, fd>>
          /\ \A q \in Processes : q # p => pc'[q] = pc[q]
      BY <1>1, <1>11, <2>1, <2>2 DEF Compare, To, TypeOK
    <3>2. TypeOK'
      BY <1>1, <1>11, <2>2, <3>1 DEF Compare, To, TypeOK
    <3>3. ClosedWhenIdle' /\ SweepersHold'
      BY <1>1, <1>11, <2>1, <2>2, <3>1 DEF Compare, ClosedWhenIdle, SweepersHold
    <3>4. QED
      BY <3>2, <3>3
  <2>3. CASE name # fd[p]
    BY <1>1, <1>11, <2>1, <2>3, CloseKeeps DEF Compare
  <2>4. QED
    BY <2>2, <2>3
<1>12. ASSUME NEW p \in Sweepers, Unlink(p) PROVE Descriptors'
  <2>1. p \in Processes /\ pc[p] = "unlink" /\ pc'[p] = "close" /\ name' = NoInode
        /\ \A q \in Processes : q # p => pc'[q] = pc[q]
    BY <1>1, <1>12 DEF Unlink, To, TypeOK, Processes
  <2>2. TypeOK'
    <3>1. name' \in 0 .. last' /\ last' \in Inodes
      BY <1>1, <1>12, BoundAssumption DEF Unlink, TypeOK, NoInode, Inodes
    <3>2. QED
      BY <1>1, <1>12, <3>1 DEF Unlink, To, TypeOK
  <2>3. ClosedWhenIdle'
    BY <1>1, <1>12, <2>1 DEF Unlink, ClosedWhenIdle
  <2>4. \A q \in Processes : q # p => pc[q] # "unlink"
    BY <1>1, <2>1 DEF SweepersHold
  <2>5. SweepersHold'
    BY <1>1, <1>12, <2>1, <2>4 DEF Unlink, SweepersHold
  <2>6. QED
    BY <2>2, <2>3, <2>5
<1>13. ASSUME NEW p \in Sweepers, EndProbe(p) PROVE Descriptors'
  BY <1>1, <1>13, CloseKeeps DEF EndProbe, Processes
<1>14. CASE UNCHANGED vars
  BY <1>1, <1>14 DEF vars, TypeOK, ClosedWhenIdle, SweepersHold
<1>15. QED
  BY <1>1, <1>2, <1>3, <1>4, <1>6, <1>7, <1>8, <1>9, <1>10, <1>11, <1>12, <1>13, <1>14
     DEF Next


-----------------------------------------------------------------------------
\* What a user has locked, a sweep does not take away.
LEMMA UnlinkedIsFree ==
  ASSUME Descriptors, [Next]_vars, name # NoInode, name' # name
  PROVE  holder[name] \notin Users
<1>1. PICK p \in Sweepers : Unlink(p)
  BY DEF Descriptors, Next, vars, Tick, OpenLock, Open, Degrade, Lock, Unlock,
         SweepStat, ProbeOpen, TryLock, Compare, EndProbe
<1>2. p \in Processes /\ holder[name] = p
  BY <1>1 DEF Descriptors, SweepersHold, Unlink, Processes
<1>3. QED
  BY <1>2, ProcessAssumption

\* TypeOK of every reachable state: no lock outlives its descriptor.
THEOREM TypeCorrect == Spec => []TypeOK
<1>1. Descriptors => TypeOK
  BY DEF Descriptors
<1>2. QED
  BY <1>1, InitDescriptors, NextDescriptors, PTL DEF Spec

\* The sweep takes away no name whose lock a user has, for any number of users
\* and sweeps: the gate of cross_process_flock's callers.
THEOREM HeldNamesStay == Spec => SweepLeavesHeld
<1>1. Descriptors /\ [Next]_vars
      => [name # NoInode /\ name' # name => holder[name] \notin Users]_vars
  BY UnlinkedIsFree
<1>2. QED
  BY <1>1, InitDescriptors, NextDescriptors, PTL DEF Spec, SweepLeavesHeld

-----------------------------------------------------------------------------
(***************************************************************************)
(* The leases                                                              *)
(***************************************************************************)
\* Tools of two sessions do not overlap, and only a session that runs has one.
OneAtWork ==
  /\ \A s \in Sessions : elPc[s] # "idle" => elLife[s] = "live"
  /\ \A s, t \in Sessions : elPc[s] # "idle" /\ elPc[t] # "idle" => s = t

\* Sessions of a machine that run have process ids of their own.
PidsApart ==
  \A s, t \in Sessions :
    /\ elLife[s] = "live" /\ elLife[t] = "live"
    /\ HostOf[s] = HostOf[t] /\ elPid[s] = elPid[t]
    => s = t

\* No record is dated ahead.
StampsPast == \A f \in Files : elLease[f].ts <= elClock /\ elEdited[f].ts <= elClock

\* Who made an edit has begun.
EditorsBegan ==
  \A f \in Files, s \in Sessions : elEdited[f].owner = s => elLife[s] # "new"

\* Who is about to record an edit made the last one.
AboutToRecord ==
  \A s \in Sessions : elPc[s] = "acquire" => elEdited[elFile[s]].owner = s

\* What a sweep is about to unlink is gone already, or too old for any guard.
DoomedIsOld ==
  \A s \in Sessions :
    elDoomed[s] # "none" =>
      /\ elPc[s] = "sweep"
      /\ \/ elLease[elDoomed[s]] = Leases!NoLease
         \/ elClock - elLease[elDoomed[s]].ts > SweepMaxAge

\* The last edit of a file, by a tool that records it, of a session that runs,
\* is on record, with its time or a later one; but for the moment before it is
\* recorded, and for edits too old for any guard.
EditIsLeased ==
  \A f \in Files, s \in Sessions :
    /\ elEdited[f].owner = s /\ elEdited[f].recorded /\ elLife[s] = "live"
    /\ ~(elPc[s] = "acquire" /\ elFile[s] = f)
    => \/ elLease[f].owner = s /\ elLease[f].ts >= elEdited[f].ts
       \/ elClock - elEdited[f].ts > SweepMaxAge

\* The inductive invariant of the leases.
LeasesInv ==
  /\ Leases!TypeOK /\ OneAtWork /\ PidsApart /\ StampsPast
  /\ EditorsBegan /\ AboutToRecord /\ DoomedIsOld /\ EditIsLeased

-----------------------------------------------------------------------------
(***************************************************************************)
(* The cache                                                               *)
(***************************************************************************)
Answers == [seen : [Files -> Nat], sig : Nat]

\* The part of the types that does not count changes or order entries.
CacheTypes ==
  /\ tcDisk \in [Files -> [sig : Nat, content : Nat]]
  /\ tcEntry \in [Cache!Queries -> Answers \cup {Cache!NoEntry}]
  /\ tcPc \in [Readers -> {"idle", "look", "read", "store"}]
  /\ tcQuery \in [Readers -> Cache!Queries \cup {Cache!NoQuery}]
  /\ \A r \in Readers : tcPc[r] # "idle" => tcQuery[r] \in Cache!Queries
  /\ tcSig \in [Readers -> Nat] /\ tcSeen \in [Readers -> [Files -> Nat]]
  /\ tcWpc \in {"idle", "changed"}
  /\ tcWpc = "changed" => tcTarget.file \in Files /\ tcTarget.before \in Nat
  /\ tcPast \in [Files -> SUBSET Nat]

\* Every change has a number of its own, and nothing is known of later ones.
NumbersGrow ==
  \A f \in Files :
    /\ tcDisk[f].content <= tcDisk[f].sig
    /\ \A c \in tcPast[f] : c <= tcDisk[f].sig
    /\ \A q \in Cache!Queries :
         tcEntry[q] # Cache!NoEntry => tcEntry[q].seen[f] <= tcDisk[f].sig
    /\ \A r \in Readers : tcPc[r] = "store" => tcSeen[r][f] <= tcDisk[f].sig

\* What bears the signature of a file bears its contents.
SignedIsTrue ==
  \A f \in Files :
    /\ tcEntry[f] # Cache!NoEntry =>
         /\ tcEntry[f].sig <= tcDisk[f].sig
         /\ tcEntry[f].sig = tcDisk[f].sig => tcEntry[f].seen[f] = tcDisk[f].content
    /\ \A r \in Readers :
         tcQuery[r] = f /\ tcPc[r] \in {"read", "store"} =>
           /\ tcSig[r] <= tcDisk[f].sig
           /\ tcPc[r] = "store" /\ tcSig[r] = tcDisk[f].sig
              => tcSeen[r][f] = tcDisk[f].content

\* What a file holds was not replaced; what it held before the call at work will
\* be, and is not what it holds.
ContentIsNew ==
  /\ \A f \in Files : tcDisk[f].content \notin tcPast[f]
  /\ tcWpc = "changed" =>
       /\ tcTarget.before \notin tcPast[tcTarget.file]
       /\ tcTarget.before # tcDisk[tcTarget.file].content
       /\ tcTarget.before <= tcDisk[tcTarget.file].sig

\* Without lapses the turn waits for every thread at work, so that no read is
\* under way while a call changes files.
TurnWaits ==
  tcLapses = {} =>
    /\ \A r \in Readers : tcPc[r] # "idle" => r \in tcAwaited
    /\ tcWpc = "changed" => tcAwaited = {Cache!Writer}

\* Without lapses no answer, kept or about to be, holds what calls have replaced,
\* nor what the call at work has written.
AnswersAreNew ==
  tcLapses = {} =>
    /\ \A q \in Wide, f \in Files :
         tcEntry[q] # Cache!NoEntry =>
           /\ tcEntry[q].seen[f] \notin tcPast[f]
           /\ tcWpc = "changed" /\ tcTarget.file = f
              => tcEntry[q].seen[f] # tcDisk[f].content
    /\ \A r \in Readers, f \in Files :
         tcPc[r] = "store" => tcSeen[r][f] \notin tcPast[f]

\* The inductive invariant of the cached answers.
CacheInv ==
  /\ CacheTypes /\ NumbersGrow /\ SignedIsTrue /\ ContentIsNew
  /\ TurnWaits /\ AnswersAreNew

-----------------------------------------------------------------------------
(***************************************************************************)
(* Proofs: the leases                                                      *)
(***************************************************************************)
\* What the types say of single records.
LEMMA RecordTypes ==
  ASSUME Leases!TypeOK, NEW f \in Files
  PROVE  /\ elClock \in Nat /\ elLease[f].ts \in Nat /\ elEdited[f].ts \in Nat
         /\ elLease[f].owner \in Sessions => elLease[f] # Leases!NoLease
         /\ elLease[f] = Leases!NoLease => elLease[f].owner \notin Sessions
<1>1. elLease[f] \in Leases!Records /\ elEdited[f] \in Leases!Edits /\ elClock \in 0 .. LeaseClock
  BY DEF Leases!TypeOK
<1>2. LeaseClock \in Nat /\ "none" \notin Sessions
  BY SharedAssumption DEF Leases!TtlAssumption, Leases!HostAssumption
<1>3. QED
  BY <1>1, <1>2 DEF Leases!Records, Leases!Edits, Leases!NoLease, Leases!NoEdit

\* At the start nobody has edited anything.
LEMMA LeasesInit == Leases!Init => LeasesInv
<1>1. SUFFICES ASSUME Leases!Init PROVE LeasesInv
  OBVIOUS
<1>2. "none" \notin Sessions \cup Files /\ LeaseClock \in Nat
  BY SharedAssumption DEF Leases!TtlAssumption, Leases!HostAssumption
<1>3. Leases!TypeOK
  BY <1>1, <1>2 DEF Leases!Init, Leases!TypeOK, Leases!Records, Leases!Edits, Leases!NoFile
<1>4. OneAtWork /\ PidsApart /\ AboutToRecord /\ DoomedIsOld
  BY <1>1 DEF Leases!Init, OneAtWork, PidsApart, AboutToRecord, DoomedIsOld, Leases!NoFile
<1>5. StampsPast
  BY <1>1 DEF Leases!Init, StampsPast, Leases!NoLease, Leases!NoEdit
<1>6. EditIsLeased /\ EditorsBegan
  BY <1>1, <1>2 DEF Leases!Init, EditIsLeased, EditorsBegan, Leases!NoEdit
<1>7. QED
  BY <1>3, <1>4, <1>5, <1>6 DEF LeasesInv

\* One step of the leases, by its kind.
LEMMA LeaseSteps ==
  ASSUME Leases!Next
  PROVE  \/ Leases!Tick
         \/ \E s \in Sessions : Leases!Begin(s) \/ Leases!End(s) \/ Leases!Recycle(s)
         \/ \E s \in Sessions, f \in Files : Leases!Commit(s, f) \/ Leases!Refuse(s, f)
         \/ \E s \in Sessions, f \in Files, r \in BOOLEAN : Leases!Check(s, f, r)
         \/ \E s \in Sessions : Leases!WriteFails(s) \/ Leases!SweepDone(s)
         \/ \E s \in Sessions : Leases!Write(s)
         \/ \E s \in Sessions : Leases!Acquire(s)
         \/ \E s \in Sessions, f \in Files : Leases!SweepStat(s, f)
         \/ \E s \in Sessions : Leases!SweepUnlink(s)
BY Zenon DEF Leases!Next

\* The types of the leases stay.
LEMMA LeaseTypes ==
  ASSUME LeasesInv, Leases!Next
  PROVE  Leases!TypeOK'
<1> USE DEF Leases!NoFile, Leases!people, Leases!tool
<1>1. Leases!TypeOK /\ OneAtWork
  BY DEF LeasesInv
<1>2. "none" \notin Sessions \cup Files /\ LeaseClock \in Nat
  BY SharedAssumption DEF Leases!TtlAssumption, Leases!HostAssumption
<1>3. HostOf \in [Sessions -> Hosts]
  BY SharedAssumption DEF Leases!HostAssumption
<1>4. CASE Leases!Tick
  BY <1>1, <1>2, <1>4 DEF Leases!Tick, Leases!TypeOK
<1>5. ASSUME NEW s \in Sessions, Leases!Begin(s) PROVE Leases!TypeOK'
  BY <1>1, <1>5 DEF Leases!Begin, Leases!TypeOK
<1>6. ASSUME NEW s \in Sessions, Leases!End(s) PROVE Leases!TypeOK'
  BY <1>1, <1>6 DEF Leases!End, Leases!TypeOK
<1>7. ASSUME NEW s \in Sessions, Leases!Recycle(s) PROVE Leases!TypeOK'
  BY <1>1, <1>3, <1>7 DEF Leases!Recycle, Leases!TypeOK
<1>8. ASSUME NEW s \in Sessions, NEW f \in Files, Leases!Commit(s, f) PROVE Leases!TypeOK'
  BY <1>1, <1>8 DEF Leases!Commit, Leases!TypeOK
<1>9. ASSUME NEW s \in Sessions, NEW f \in Files, Leases!Refuse(s, f) PROVE Leases!TypeOK'
  BY <1>1, <1>9 DEF Leases!Refuse, Leases!vars, Leases!TypeOK
<1>10. ASSUME NEW s \in Sessions, NEW f \in Files, NEW r \in BOOLEAN, Leases!Check(s, f, r)
       PROVE  Leases!TypeOK'
  BY <1>1, <1>2, <1>10 DEF Leases!Check, Leases!TypeOK
<1>11. ASSUME NEW s \in Sessions, Leases!WriteFails(s) \/ Leases!SweepDone(s)
       PROVE  Leases!TypeOK'
  <2>1. CASE Leases!WriteFails(s)
    BY <1>1, <2>1 DEF Leases!WriteFails, Leases!Done, Leases!TypeOK
  <2>2. CASE Leases!SweepDone(s)
    BY <1>1, <2>2 DEF Leases!SweepDone, Leases!Done, Leases!TypeOK
  <2>3. QED
    BY <1>11, <2>1, <2>2
<1>12. ASSUME NEW s \in Sessions, Leases!Write(s) PROVE Leases!TypeOK'
  <2>1. /\ elFile[s] \in Files
        /\ [owner |-> s, ts |-> elClock, recorded |-> elRecords[s]] \in Leases!Edits
    BY <1>1, <1>12 DEF Leases!Write, Leases!TypeOK, Leases!Edits
  <2>2. elEdited' \in [Files -> Leases!Edits] /\ elWip' \in [Files -> SUBSET Sessions]
    BY <1>1, <1>12, <2>1 DEF Leases!Write, Leases!TypeOK
  <2>3. CASE elRecords[s]
    BY <1>1, <1>12, <2>1, <2>2, <2>3 DEF Leases!Write, Leases!TypeOK
  <2>4. CASE ~elRecords[s]
    <3>1. Leases!Done(s) /\ UNCHANGED <<elClock, Leases!people, elLease, elUnswept, elDoomed>>
      BY <1>12, <2>4, Zenon DEF Leases!Write
    <3>2. QED
      BY <1>1, <2>2, <3>1 DEF Leases!Done, Leases!TypeOK
  <2>5. QED
    BY <2>3, <2>4
<1>13. ASSUME NEW s \in Sessions, Leases!Acquire(s) PROVE Leases!TypeOK'
  <2>1. elFile[s] \in Files /\ [owner |-> s, ts |-> elClock] \in Leases!Records
    BY <1>1, <1>13 DEF Leases!Acquire, Leases!TypeOK, Leases!Records
  <2>2. QED
    BY <1>1, <1>13, <2>1 DEF Leases!Acquire, Leases!TypeOK
<1>14. ASSUME NEW s \in Sessions, NEW f \in Files, Leases!SweepStat(s, f) PROVE Leases!TypeOK'
  BY <1>1, <1>14 DEF Leases!SweepStat, Leases!TypeOK
<1>15. ASSUME NEW s \in Sessions, Leases!SweepUnlink(s) PROVE Leases!TypeOK'
  <2>1. Leases!NoLease \in Leases!Records
    BY DEF Leases!Records
  <2>2. QED
    BY <1>1, <1>15, <2>1 DEF Leases!SweepUnlink, Leases!TypeOK
<1>16. QED
  BY LeaseSteps, <1>4, <1>5, <1>6, <1>7, <1>8, <1>9, <1>10, <1>11, <1>12, <1>13, <1>14, <1>15

\* Who begins, ends or gets an id again; what runs is apart from the rest.
LEMMA SessionsApart ==
  ASSUME LeasesInv, Leases!Next
  PROVE  OneAtWork' /\ PidsApart'
<1> USE DEF Leases!people, Leases!tool
<1>1. /\ OneAtWork /\ PidsApart
      /\ elLife \in [Sessions -> {"new", "live", "gone"}] /\ elPid \in [Sessions -> Pids]
      /\ elPc \in [Sessions -> {"idle", "write", "acquire", "sweep"}]
      /\ HostOf \in [Sessions -> Hosts]
  BY SharedAssumption DEF LeasesInv, Leases!TypeOK, Leases!HostAssumption
<1>2. ASSUME UNCHANGED <<elLife, elPid, elPc>> PROVE OneAtWork' /\ PidsApart'
  BY <1>1, <1>2 DEF OneAtWork, PidsApart
<1>3. ASSUME NEW s \in Sessions, Leases!Begin(s) PROVE OneAtWork' /\ PidsApart'
  <2>1. elLife' = [elLife EXCEPT ![s] = "live"] /\ UNCHANGED <<elPid, elPc>>
    BY <1>3 DEF Leases!Begin
  <2>2. \A t \in Sessions :
          elLife[t] = "live" /\ HostOf[t] = HostOf[s] => elPid[t] # elPid[s]
    BY <1>3 DEF Leases!Begin, Leases!PidsInUse, Leases!Live
  <2>3. PidsApart'
    BY <1>1, <2>1, <2>2 DEF PidsApart
  <2>4. OneAtWork'
    BY <1>1, <2>1 DEF OneAtWork
  <2>5. QED
    BY <2>3, <2>4
<1>4. ASSUME NEW s \in Sessions, Leases!End(s) PROVE OneAtWork' /\ PidsApart'
  BY <1>1, <1>4 DEF Leases!End, OneAtWork, PidsApart
<1>5. ASSUME NEW s \in Sessions, NEW f \in Files, NEW r \in BOOLEAN, Leases!Check(s, f, r)
      PROVE  OneAtWork' /\ PidsApart'
  <2>1. /\ elPc' = [elPc EXCEPT ![s] = "write"] /\ UNCHANGED <<elLife, elPid>>
        /\ elLife[s] = "live" /\ \A t \in Sessions : elPc[t] = "idle"
    BY <1>5 DEF Leases!Check, Leases!MayCheck, Leases!Live
  <2>2. QED
    BY <1>1, <2>1 DEF OneAtWork, PidsApart
<1>6. ASSUME NEW s \in Sessions, elPc[s] # "idle", NEW step, elPc' = [elPc EXCEPT ![s] = step],
             UNCHANGED <<elLife, elPid>>
      PROVE  OneAtWork' /\ PidsApart'
  BY <1>1, <1>6 DEF OneAtWork, PidsApart
<1>7. ASSUME NEW s \in Sessions, Leases!Write(s) PROVE OneAtWork' /\ PidsApart'
  <2>1. elPc[s] # "idle" /\ UNCHANGED <<elLife, elPid>>
    BY <1>7 DEF Leases!Write
  <2>2. \/ elPc' = [elPc EXCEPT ![s] = "acquire"] \/ elPc' = [elPc EXCEPT ![s] = "idle"]
    BY <1>7, Zenon DEF Leases!Write, Leases!Done
  <2>3. QED
    BY <1>6, <2>1, <2>2
<1>8. ASSUME NEW s \in Sessions, Leases!Acquire(s) PROVE OneAtWork' /\ PidsApart'
  BY <1>6, <1>8 DEF Leases!Acquire
<1>9. ASSUME NEW s \in Sessions, Leases!WriteFails(s) \/ Leases!SweepDone(s)
      PROVE  OneAtWork' /\ PidsApart'
  BY <1>6, <1>9 DEF Leases!WriteFails, Leases!SweepDone, Leases!Done
<1>10. ASSUME Leases!Tick \/ (\E s \in Sessions : Leases!Recycle(s) \/ Leases!SweepUnlink(s))
              \/ (\E s \in Sessions, f \in Files :
                    Leases!Commit(s, f) \/ Leases!Refuse(s, f) \/ Leases!SweepStat(s, f))
       PROVE  OneAtWork' /\ PidsApart'
  BY <1>2, <1>10 DEF Leases!Tick, Leases!Recycle, Leases!SweepUnlink, Leases!Commit,
     Leases!Refuse, Leases!vars, Leases!SweepStat
<1>11. QED
  BY LeaseSteps, <1>3, <1>4, <1>5, <1>7, <1>8, <1>9, <1>10

\* Records are never dated ahead, and time only goes on.
LEMMA StampsKept ==
  ASSUME LeasesInv, Leases!Next
  PROVE  StampsPast' /\ elClock' >= elClock
<1>1. /\ StampsPast /\ elClock \in Nat /\ Leases!TypeOK
      /\ \A f \in Files : elLease[f].ts \in Nat /\ elEdited[f].ts \in Nat
  <2>1. Leases!TypeOK /\ StampsPast /\ LeaseClock \in Nat
    BY SharedAssumption DEF LeasesInv, Leases!TtlAssumption
  <2>2. elClock \in Nat
    BY <2>1 DEF Leases!TypeOK
  <2>3. QED
    BY <2>1, <2>2, RecordTypes
<1>2. elClock' \in Nat /\ elClock' >= elClock
  <2>1. CASE Leases!Tick
    BY <1>1, <2>1 DEF Leases!Tick
  <2>2. CASE ~Leases!Tick
    <3>1. elClock' = elClock
      BY <2>2, LeaseSteps, Zenon DEF Leases!Begin, Leases!End, Leases!Recycle,
         Leases!Commit, Leases!Refuse, Leases!vars, Leases!Check, Leases!WriteFails,
         Leases!SweepDone, Leases!Write, Leases!Acquire, Leases!SweepStat, Leases!SweepUnlink
    <3>2. QED
      BY <1>1, <3>1
  <2>3. QED
    BY <2>1, <2>2
<1>3. elLease \in [Files -> Leases!Records] /\ elEdited \in [Files -> Leases!Edits]
  BY <1>1 DEF Leases!TypeOK
<1>4. ASSUME UNCHANGED <<elLease, elEdited>> PROVE StampsPast'
  BY <1>1, <1>2, <1>4 DEF StampsPast
<1>5. ASSUME NEW s \in Sessions, Leases!Write(s) PROVE StampsPast'
  <2>1. /\ elEdited' = [elEdited EXCEPT ![elFile[s]] =
                          [owner |-> s, ts |-> elClock, recorded |-> elRecords[s]]]
        /\ UNCHANGED <<elClock, elLease>>
    BY <1>5 DEF Leases!Write
  <2>2. QED
    BY <1>1, <1>3, <2>1 DEF StampsPast
<1>6. ASSUME NEW s \in Sessions, Leases!Acquire(s) PROVE StampsPast'
  BY <1>1, <1>3, <1>6 DEF Leases!Acquire, StampsPast
<1>7. ASSUME NEW s \in Sessions, Leases!SweepUnlink(s) PROVE StampsPast'
  <2>1. Leases!NoLease.ts = 0
    BY DEF Leases!NoLease
  <2>2. QED
    BY <1>1, <1>3, <1>7, <2>1 DEF Leases!SweepUnlink, StampsPast
<1>8. QED
  <2>1. StampsPast'
    BY LeaseSteps, <1>4, <1>5, <1>6, <1>7 DEF Leases!Tick, Leases!Begin, Leases!End,
       Leases!Recycle,
       Leases!Commit, Leases!Refuse, Leases!vars, Leases!Check, Leases!WriteFails,
       Leases!SweepDone, Leases!SweepStat
  <2>2. QED
    BY <1>2, <2>1

\* Who is about to record is the last editor.
LEMMA RecordersKept ==
  ASSUME LeasesInv, Leases!Next
  PROVE  AboutToRecord'
<1> USE DEF Leases!people, Leases!tool
<1>1. /\ AboutToRecord /\ OneAtWork
      /\ elPc \in [Sessions -> {"idle", "write", "acquire", "sweep"}]
      /\ elEdited \in [Files -> Leases!Edits] /\ elFile \in [Sessions -> Files \cup {"none"}]
      /\ \A s \in Sessions : elPc[s] # "idle" <=> elFile[s] # "none"
  BY DEF LeasesInv, Leases!TypeOK, Leases!NoFile
<1>2. ASSUME NEW s \in Sessions, Leases!End(s) PROVE AboutToRecord'
  BY <1>1, <1>2 DEF Leases!End, AboutToRecord
<1>3. ASSUME NEW s \in Sessions, NEW f \in Files, NEW r \in BOOLEAN, Leases!Check(s, f, r)
      PROVE  AboutToRecord'
  BY <1>1, <1>3 DEF Leases!Check, AboutToRecord
<1>4. ASSUME NEW s \in Sessions, Leases!WriteFails(s) \/ Leases!SweepDone(s)
      PROVE  AboutToRecord'
  BY <1>1, <1>4 DEF Leases!WriteFails, Leases!SweepDone, Leases!Done, AboutToRecord
<1>5. ASSUME NEW s \in Sessions, Leases!Write(s) PROVE AboutToRecord'
  <2>1. /\ elPc[s] = "write" /\ elFile[s] \in Files /\ \A t \in Sessions : t # s => elPc[t] = "idle"
        /\ elEdited'[elFile[s]].owner = s
    BY <1>1, <1>5 DEF Leases!Write, OneAtWork
  <2>2. \/ elPc' = [elPc EXCEPT ![s] = "acquire"] /\ elFile' = elFile
        \/ elPc' = [elPc EXCEPT ![s] = "idle"]
    BY <1>5, Zenon DEF Leases!Write, Leases!Done
  <2>3. QED
    BY <1>1, <2>1, <2>2 DEF AboutToRecord
<1>6. ASSUME NEW s \in Sessions, Leases!Acquire(s) PROVE AboutToRecord'
  BY <1>1, <1>6 DEF Leases!Acquire, AboutToRecord
<1>7. QED
  BY LeaseSteps, <1>1, <1>2, <1>3, <1>4, <1>5, <1>6 DEF Leases!Tick, Leases!Begin, Leases!Recycle,
     Leases!Commit, Leases!Refuse, Leases!vars, Leases!SweepStat, Leases!SweepUnlink, AboutToRecord

\* Recorded editors have begun.
LEMMA EditorsKept ==
  ASSUME LeasesInv, Leases!Next
  PROVE  EditorsBegan'
<1> USE DEF Leases!people, Leases!tool
<1>1. /\ EditorsBegan /\ OneAtWork /\ elLife \in [Sessions -> {"new", "live", "gone"}]
      /\ elEdited \in [Files -> Leases!Edits]
  BY DEF LeasesInv, Leases!TypeOK
<1>2. ASSUME elEdited' = elEdited, \A s \in Sessions : elLife'[s] = "new" => elLife[s] = "new"
      PROVE  EditorsBegan'
  BY <1>1, <1>2 DEF EditorsBegan
<1>3. ASSUME NEW s \in Sessions, Leases!Begin(s) \/ Leases!End(s) PROVE EditorsBegan'
  BY <1>1, <1>2, <1>3 DEF Leases!Begin, Leases!End
<1>4. ASSUME NEW s \in Sessions, Leases!Write(s) PROVE EditorsBegan'
  <2>1. /\ elLife[s] = "live" /\ elLife' = elLife
        /\ elEdited' = [elEdited EXCEPT ![elFile[s]] =
                          [owner |-> s, ts |-> elClock, recorded |-> elRecords[s]]]
    BY <1>1, <1>4 DEF Leases!Write, OneAtWork
  <2>2. QED
    BY <1>1, <2>1 DEF EditorsBegan
<1>5. QED
  BY LeaseSteps, <1>2, <1>3, <1>4 DEF Leases!Tick, Leases!Recycle, Leases!Commit, Leases!Refuse,
     Leases!vars, Leases!Check, Leases!WriteFails, Leases!SweepDone, Leases!Acquire,
     Leases!SweepStat, Leases!SweepUnlink

\* What a sweep is about to remove is old, or was renewed since.
LEMMA DoomedKept ==
  ASSUME LeasesInv, Leases!Next
  PROVE  DoomedIsOld'
<1> USE DEF Leases!people, Leases!tool, Leases!NoFile
<1>1. /\ DoomedIsOld /\ OneAtWork /\ Leases!TypeOK
      /\ elPc \in [Sessions -> {"idle", "write", "acquire", "sweep"}]
      /\ elLease \in [Files -> Leases!Records] /\ elDoomed \in [Sessions -> Files \cup {"none"}]
  BY DEF LeasesInv, Leases!TypeOK
<1>2. /\ SweepMaxAge \in Nat /\ elClock \in Nat /\ elClock' \in Nat /\ elClock' >= elClock
      /\ \A f \in Files : elLease[f].ts \in Nat
  <2>1. elClock \in Nat /\ elClock' \in Nat /\ SweepMaxAge \in Nat
    BY SharedAssumption, <1>1, LeaseTypes DEF Leases!TypeOK, Leases!TtlAssumption
  <2>2. QED
    BY <1>1, <2>1, RecordTypes, StampsKept
<1>3. ASSUME elLease' = elLease,
             \A t \in Sessions : elDoomed'[t] # "none" =>
               elDoomed'[t] = elDoomed[t] /\ (elPc[t] = "sweep" => elPc'[t] = "sweep")
      PROVE  DoomedIsOld'
  BY <1>1, <1>2, <1>3 DEF DoomedIsOld
<1>4. CASE Leases!Tick
  BY <1>3, <1>4 DEF Leases!Tick
<1>5. ASSUME NEW s \in Sessions, Leases!End(s) PROVE DoomedIsOld'
  BY <1>1, <1>3, <1>5 DEF Leases!End
<1>6. ASSUME NEW s \in Sessions, elPc[s] # "sweep", NEW step, elPc' = [elPc EXCEPT ![s] = step],
             UNCHANGED <<elLease, elDoomed>>
      PROVE  DoomedIsOld'
  BY <1>1, <1>3, <1>6
<1>7. ASSUME NEW s \in Sessions, NEW f \in Files, NEW r \in BOOLEAN, Leases!Check(s, f, r)
      PROVE  DoomedIsOld'
  BY <1>6, <1>7 DEF Leases!Check, Leases!MayCheck
<1>8. ASSUME NEW s \in Sessions, Leases!WriteFails(s) PROVE DoomedIsOld'
  BY <1>6, <1>8 DEF Leases!WriteFails, Leases!Done
<1>9. ASSUME NEW s \in Sessions, Leases!Write(s) PROVE DoomedIsOld'
  <2>1. \/ elPc' = [elPc EXCEPT ![s] = "acquire"] \/ elPc' = [elPc EXCEPT ![s] = "idle"]
    BY <1>9, Zenon DEF Leases!Write, Leases!Done
  <2>2. elPc[s] # "sweep" /\ UNCHANGED <<elLease, elDoomed>>
    BY <1>9 DEF Leases!Write
  <2>3. QED
    BY <1>6, <2>1, <2>2
<1>10. ASSUME NEW s \in Sessions, Leases!Acquire(s) PROVE DoomedIsOld'
  <2>1. \A t \in Sessions : elDoomed[t] = "none"
    BY <1>1, <1>10 DEF Leases!Acquire, OneAtWork, DoomedIsOld
  <2>2. QED
    BY <1>10, <2>1 DEF Leases!Acquire, DoomedIsOld
<1>11. ASSUME NEW s \in Sessions, Leases!SweepDone(s) PROVE DoomedIsOld'
  <2>1. /\ elDoomed[s] = "none" /\ elPc' = [elPc EXCEPT ![s] = "idle"]
        /\ UNCHANGED <<elLease, elDoomed>>
    BY <1>11 DEF Leases!SweepDone, Leases!Done
  <2>2. QED
    BY <1>1, <1>3, <2>1
<1>12. ASSUME NEW s \in Sessions, NEW f \in Files, Leases!SweepStat(s, f) PROVE DoomedIsOld'
  <2>1. /\ elPc[s] = "sweep" /\ UNCHANGED <<elClock, elLease, elPc>>
        /\ \A t \in Sessions : t # s => elDoomed'[t] = elDoomed[t]
        /\ elDoomed'[s] # "none" => elDoomed'[s] = f /\ elClock - elLease[f].ts > SweepMaxAge
    BY <1>1, <1>12 DEF Leases!SweepStat
  <2>2. QED
    BY <1>1, <2>1 DEF DoomedIsOld
<1>13. ASSUME NEW s \in Sessions, Leases!SweepUnlink(s) PROVE DoomedIsOld'
  <2>1. \A t \in Sessions : t # s => elDoomed[t] = "none"
    BY <1>1, <1>13 DEF Leases!SweepUnlink, OneAtWork, DoomedIsOld
  <2>2. \A t \in Sessions : elDoomed'[t] = "none"
    BY <1>1, <1>13, <2>1 DEF Leases!SweepUnlink
  <2>3. QED
    BY <2>2 DEF DoomedIsOld
<1>14. QED
  BY LeaseSteps, <1>3, <1>4, <1>5, <1>7, <1>8, <1>9, <1>10, <1>11, <1>12, <1>13
     DEF Leases!Begin, Leases!Recycle, Leases!Commit, Leases!Refuse, Leases!vars

\* The last edit stays on record: only its file's next edit replaces the record,
\* and a sweep takes away what is too old for any guard.
LEMMA EditsKept ==
  ASSUME LeasesInv, Leases!Next
  PROVE  EditIsLeased'
<1> USE DEF Leases!people, Leases!tool, Leases!NoFile
<1>1. /\ EditIsLeased /\ OneAtWork /\ AboutToRecord /\ DoomedIsOld /\ StampsPast
      /\ EditorsBegan /\ Leases!TypeOK
      /\ elPc \in [Sessions -> {"idle", "write", "acquire", "sweep"}]
      /\ elLife \in [Sessions -> {"new", "live", "gone"}]
      /\ elLease \in [Files -> Leases!Records] /\ elEdited \in [Files -> Leases!Edits]
      /\ elFile \in [Sessions -> Files \cup {"none"}]
      /\ elDoomed \in [Sessions -> Files \cup {"none"}]
      /\ \A s \in Sessions : elPc[s] # "idle" <=> elFile[s] # "none"
  BY DEF LeasesInv, Leases!TypeOK
<1>2. /\ SweepMaxAge \in Nat /\ elClock \in Nat /\ elClock' \in Nat /\ elClock' >= elClock
      /\ \A f \in Files : elLease[f].ts \in Nat /\ elEdited[f].ts \in Nat
  <2>1. elClock \in Nat /\ elClock' \in Nat /\ SweepMaxAge \in Nat
    BY SharedAssumption, <1>1, LeaseTypes DEF Leases!TypeOK, Leases!TtlAssumption
  <2>2. QED
    BY <1>1, <2>1, RecordTypes, StampsKept
<1>3. ASSUME UNCHANGED <<elLease, elEdited>>,
             \A s \in Sessions : elLife'[s] = "live" =>
               /\ elLife[s] = "live" \/ \A f \in Files : elEdited[f].owner # s
               /\ elPc[s] = "acquire" => elPc'[s] = "acquire" /\ elFile'[s] = elFile[s]
      PROVE  EditIsLeased'
  <2>1. SUFFICES ASSUME NEW f \in Files, NEW s \in Sessions,
                        elEdited[f].owner = s, elEdited[f].recorded, elLife'[s] = "live",
                        ~(elPc'[s] = "acquire" /\ elFile'[s] = f)
                 PROVE  \/ elLease[f].owner = s /\ elLease[f].ts >= elEdited[f].ts
                        \/ elClock' - elEdited[f].ts > SweepMaxAge
    BY <1>3 DEF EditIsLeased
  <2>2. elLife[s] = "live" /\ ~(elPc[s] = "acquire" /\ elFile[s] = f)
    BY <1>3, <2>1
  <2>3. \/ elLease[f].owner = s /\ elLease[f].ts >= elEdited[f].ts
        \/ elClock - elEdited[f].ts > SweepMaxAge
    BY <1>1, <2>1, <2>2, Zenon DEF EditIsLeased
  <2>4. QED
    BY <1>2, <2>3
<1>4. CASE Leases!Tick
  BY <1>3, <1>4 DEF Leases!Tick
<1>5. ASSUME NEW s \in Sessions, Leases!End(s) PROVE EditIsLeased'
  BY <1>1, <1>3, <1>5 DEF Leases!End
<1>6. ASSUME NEW s \in Sessions, elPc[s] # "acquire", NEW step, elPc' = [elPc EXCEPT ![s] = step],
             NEW f, elFile' = [elFile EXCEPT ![s] = f],
             UNCHANGED <<elLife, elLease, elEdited>>
      PROVE  EditIsLeased'
  BY <1>1, <1>3, <1>6
<1>7. ASSUME NEW s \in Sessions, NEW f \in Files, NEW r \in BOOLEAN, Leases!Check(s, f, r)
      PROVE  EditIsLeased'
  BY <1>6, <1>7 DEF Leases!Check, Leases!MayCheck
<1>8. ASSUME NEW s \in Sessions, Leases!WriteFails(s) \/ Leases!SweepDone(s)
      PROVE  EditIsLeased'
  BY <1>6, <1>8 DEF Leases!WriteFails, Leases!SweepDone, Leases!Done
<1>9. ASSUME NEW s \in Sessions, Leases!Write(s) PROVE EditIsLeased'
  <2>1. /\ elPc[s] = "write" /\ elFile[s] \in Files /\ \A t \in Sessions : t # s => elPc[t] = "idle"
        /\ elEdited' = [elEdited EXCEPT ![elFile[s]] =
                          [owner |-> s, ts |-> elClock, recorded |-> elRecords[s]]]
        /\ UNCHANGED <<elClock, elLife, elLease>>
    BY <1>1, <1>9 DEF Leases!Write, OneAtWork
  <2>2. CASE elRecords[s]
    <3>1. elPc' = [elPc EXCEPT ![s] = "acquire"] /\ elFile' = elFile
      BY <1>9, <2>2, Zenon DEF Leases!Write
    <3>2. \A f \in Files : f # elFile[s] => elEdited'[f] = elEdited[f]
      BY <1>1, <2>1
    <3>3. elEdited'[elFile[s]].owner = s
      BY <1>1, <2>1
    <3>4. SUFFICES ASSUME NEW f \in Files, NEW t \in Sessions,
                          elEdited'[f].owner = t, elEdited'[f].recorded, elLife[t] = "live",
                          ~(elPc'[t] = "acquire" /\ elFile'[t] = f)
                   PROVE  \/ elLease[f].owner = t /\ elLease[f].ts >= elEdited'[f].ts
                          \/ elClock - elEdited'[f].ts > SweepMaxAge
      BY <2>1 DEF EditIsLeased
    <3>5. f # elFile[s]
      BY <1>1, <2>1, <3>1, <3>3, <3>4
    <3>6. ~(elPc[t] = "acquire" /\ elFile[t] = f) /\ elEdited'[f] = elEdited[f]
      BY <2>1, <3>2, <3>5
    <3>7. QED
      BY <1>1, <3>4, <3>6 DEF EditIsLeased
  <2>3. CASE ~elRecords[s]
    <3>1. ~elEdited'[elFile[s]].recorded
      BY <1>1, <2>1, <2>3
    <3>2. \A f \in Files : f # elFile[s] => elEdited'[f] = elEdited[f]
      BY <1>1, <2>1
    <3>3. \A t \in Sessions : elPc[t] # "acquire"
      BY <2>1
    <3>4. SUFFICES ASSUME NEW f \in Files, NEW t \in Sessions,
                          elEdited'[f].owner = t, elEdited'[f].recorded, elLife[t] = "live"
                   PROVE  \/ elLease[f].owner = t /\ elLease[f].ts >= elEdited'[f].ts
                          \/ elClock - elEdited'[f].ts > SweepMaxAge
      BY <2>1 DEF EditIsLeased
    <3>5. elEdited'[f] = elEdited[f]
      BY <3>1, <3>2, <3>4
    <3>6. QED
      BY <1>1, <3>3, <3>4, <3>5 DEF EditIsLeased
  <2>4. QED
    BY <2>2, <2>3
<1>10. ASSUME NEW s \in Sessions, Leases!Acquire(s) PROVE EditIsLeased'
  <2>1. /\ elPc[s] = "acquire" /\ elFile[s] \in Files /\ \A t \in Sessions : t # s => elPc[t] = "idle"
        /\ elLease' = [elLease EXCEPT ![elFile[s]] = [owner |-> s, ts |-> elClock]]
        /\ elPc' = [elPc EXCEPT ![s] = "sweep"]
        /\ UNCHANGED <<elClock, elLife, elFile, elEdited>>
    BY <1>1, <1>10 DEF Leases!Acquire, OneAtWork
  <2>2. elEdited[elFile[s]].owner = s /\ elEdited[elFile[s]].ts <= elClock
    BY <1>1, <2>1 DEF AboutToRecord, StampsPast
  <2>3. elLease'[elFile[s]].owner = s /\ elLease'[elFile[s]].ts = elClock
    BY <1>1, <2>1
  <2>4. \A f \in Files : f # elFile[s] => elLease'[f] = elLease[f]
    BY <1>1, <2>1
  <2>5. SUFFICES ASSUME NEW f \in Files, NEW t \in Sessions,
                        elEdited[f].owner = t, elEdited[f].recorded, elLife[t] = "live"
                 PROVE  \/ elLease'[f].owner = t /\ elLease'[f].ts >= elEdited[f].ts
                        \/ elClock - elEdited[f].ts > SweepMaxAge
    BY <2>1 DEF EditIsLeased
  <2>6. CASE f = elFile[s]
    BY <2>2, <2>3, <2>5, <2>6
  <2>7. CASE f # elFile[s]
    <3>1. ~(elPc[t] = "acquire" /\ elFile[t] = f) /\ elLease'[f] = elLease[f]
      BY <2>1, <2>4, <2>7
    <3>2. QED
      BY <1>1, <2>5, <3>1 DEF EditIsLeased
  <2>8. QED
    BY <2>6, <2>7
<1>11. ASSUME NEW s \in Sessions, Leases!SweepUnlink(s) PROVE EditIsLeased'
  <2>1. /\ elDoomed[s] \in Files /\ elDoomed[s] # "none"
        /\ elPc[s] = "sweep" /\ \A t \in Sessions : t # s => elPc[t] = "idle"
        /\ elLease' = [elLease EXCEPT ![elDoomed[s]] = Leases!NoLease]
        /\ UNCHANGED <<elClock, elLife, elPc, elFile, elEdited>>
    BY <1>1, <1>11 DEF Leases!SweepUnlink, OneAtWork
  <2>2. \/ elLease[elDoomed[s]] = Leases!NoLease
        \/ elClock - elLease[elDoomed[s]].ts > SweepMaxAge
    BY <1>1, <2>1 DEF DoomedIsOld
  <2>3. \A f \in Files : f # elDoomed[s] => elLease'[f] = elLease[f]
    BY <1>1, <2>1
  <2>4. SUFFICES ASSUME NEW f \in Files, NEW t \in Sessions,
                        elEdited[f].owner = t, elEdited[f].recorded, elLife[t] = "live"
                 PROVE  \/ elLease'[f].owner = t /\ elLease'[f].ts >= elEdited[f].ts
                        \/ elClock - elEdited[f].ts > SweepMaxAge
    BY <2>1 DEF EditIsLeased
  <2>5. \/ elLease[f].owner = t /\ elLease[f].ts >= elEdited[f].ts
        \/ elClock - elEdited[f].ts > SweepMaxAge
    <3>1. elPc[t] # "acquire"
      BY <2>1
    <3>2. QED
      BY <1>1, <2>4, <3>1 DEF EditIsLeased
  <2>6. CASE f = elDoomed[s] /\ elLease[f].owner = t /\ elLease[f].ts >= elEdited[f].ts
    <3>1. elClock - elLease[f].ts > SweepMaxAge
      BY <1>1, <2>2, <2>6, RecordTypes
    <3>2. QED
      BY <1>2, <2>6, <3>1
  <2>7. QED
    BY <2>3, <2>5, <2>6
<1>12. ASSUME NEW s \in Sessions, Leases!Begin(s) PROVE EditIsLeased'
  <2>1. /\ elLife[s] = "new" /\ elLife' = [elLife EXCEPT ![s] = "live"]
        /\ UNCHANGED <<elClock, elLease, elPc, elFile, elEdited>>
    BY <1>12 DEF Leases!Begin
  <2>2. \A f \in Files : elEdited[f].owner # s
    BY <1>1, <2>1 DEF EditorsBegan
  <2>3. QED
    BY <1>1, <1>3, <2>1, <2>2
<1>13. QED
  BY LeaseSteps, <1>3, <1>4, <1>5, <1>7, <1>8, <1>9, <1>10, <1>11, <1>12
     DEF Leases!Recycle, Leases!Commit, Leases!Refuse, Leases!vars, Leases!SweepStat

\* Every step of the leases keeps their invariant.
LEMMA LeasesNext ==
  ASSUME LeasesInv, Leases!Next \/ UNCHANGED leaseVars
  PROVE  LeasesInv'
<1>1. CASE Leases!Next
  BY <1>1, LeaseTypes, SessionsApart, StampsKept, EditorsKept, RecordersKept, DoomedKept,
     EditsKept DEF LeasesInv
<1>2. CASE UNCHANGED leaseVars
  BY <1>2 DEF leaseVars, LeasesInv, Leases!TypeOK, OneAtWork, PidsApart, StampsPast,
     EditorsBegan, AboutToRecord, DoomedIsOld, EditIsLeased
<1>3. QED
  BY <1>1, <1>2

\* Where the record is there, the guard of another session sees it.
LEMMA GuardSees ==
  ASSUME LeasesInv, Leases!Next, NEW s \in Sessions, elPc[s] = "idle", elPc'[s] = "write",
         elEdited[elFile'[s]].recorded
  PROVE  Leases!Guarded(s, elEdited[elFile'[s]])
<1> USE DEF Leases!people, Leases!tool
<1>1. /\ Leases!TypeOK /\ EditIsLeased /\ PidsApart /\ StampsPast
      /\ elPc \in [Sessions -> {"idle", "write", "acquire", "sweep"}]
      /\ elFile \in [Sessions -> Files \cup {"none"}]
  BY DEF LeasesInv, Leases!TypeOK, Leases!NoFile
<1>2. PICK f \in Files, r \in BOOLEAN : Leases!Check(s, f, r)
  <2>1. ASSUME NEW t \in Sessions, NEW f \in Files, NEW r \in BOOLEAN, Leases!Check(t, f, r)
        PROVE  t = s
    BY <1>1, <2>1 DEF Leases!Check
  <2>2. ASSUME NEW t \in Sessions, Leases!Write(t) PROVE FALSE
    <3>1. \/ elPc' = [elPc EXCEPT ![t] = "acquire"] \/ elPc' = [elPc EXCEPT ![t] = "idle"]
      BY <2>2, Zenon DEF Leases!Write, Leases!Done
    <3>2. QED
      BY <1>1, <3>1
  <2>3. ASSUME NEW t \in Sessions,
               Leases!End(t) \/ Leases!WriteFails(t) \/ Leases!SweepDone(t) \/ Leases!Acquire(t)
        PROVE  FALSE
    BY <1>1, <2>3 DEF Leases!End, Leases!WriteFails, Leases!SweepDone, Leases!Done, Leases!Acquire
  <2>4. QED
    BY LeaseSteps, <2>1, <2>2, <2>3 DEF Leases!Tick, Leases!Begin, Leases!Recycle,
       Leases!Commit, Leases!Refuse, Leases!vars, Leases!SweepStat, Leases!SweepUnlink
<1>3. /\ elFile'[s] = f /\ elLife[s] = "live" /\ ~Leases!LiveForeign(s, elLease[f])
      /\ \A t \in Sessions : elPc[t] = "idle"
  BY <1>1, <1>2 DEF Leases!Check, Leases!MayCheck, Leases!Live
<1>4. SUFFICES ASSUME elEdited[f].owner \in Leases!Live \ {s}
               PROVE  elClock - elEdited[f].ts > Leases!Ttl(s, elEdited[f].owner)
  BY <1>3 DEF Leases!Guarded
<1> DEFINE o == elEdited[f].owner
<1>5. o \in Sessions /\ o # s /\ elLife[o] = "live"
  BY <1>4 DEF Leases!Live
<1>6. /\ {TtlSameHost, TtlCrossHost, SweepMaxAge} \subseteq Nat
      /\ TtlCrossHost < SweepMaxAge /\ TtlSameHost < SweepMaxAge
      /\ elClock \in Nat /\ elLease[f].ts \in Nat /\ elEdited[f].ts \in Nat
  BY <1>1, SharedAssumption, RecordTypes DEF Leases!TtlAssumption
<1>7. CASE elClock - elEdited[f].ts > SweepMaxAge
  BY <1>6, <1>7 DEF Leases!Ttl
<1>8. CASE elLease[f].owner = o /\ elLease[f].ts >= elEdited[f].ts
  <2>1. elLease[f] # Leases!NoLease
    BY <1>1, <1>5, <1>8, RecordTypes
  <2>2. CASE HostOf[o] = HostOf[s]
    <3>1. elPid[o] # elPid[s]
      BY <1>1, <1>3, <1>5, <2>2 DEF PidsApart
    <3>2. elPid[o] \in Leases!PidsInUse(HostOf[s])
      BY <1>5, <2>2 DEF Leases!PidsInUse, Leases!Live
    <3>3. ~(elClock - elLease[f].ts <= TtlSameHost)
      BY <1>3, <1>5, <1>8, <2>1, <2>2, <3>1, <3>2 DEF Leases!LiveForeign
    <3>4. QED
      BY <1>6, <1>8, <2>2, <3>3 DEF Leases!Ttl
  <2>3. CASE HostOf[o] # HostOf[s]
    <3>1. ~(elClock - elLease[f].ts <= TtlCrossHost)
      BY <1>3, <1>5, <1>8, <2>1, <2>3 DEF Leases!LiveForeign
    <3>2. QED
      BY <1>6, <1>8, <2>3, <3>1 DEF Leases!Ttl
  <2>4. QED
    BY <2>2, <2>3
<1>9. QED
  BY <1>1, <1>2, <1>3, <1>5, <1>7, <1>8 DEF EditIsLeased

-----------------------------------------------------------------------------
(***************************************************************************)
(* Proofs: the cache                                                       *)
(***************************************************************************)
LEMMA CacheInit == Cache!Init => CacheInv
<1>1. SUFFICES ASSUME Cache!Init PROVE CacheInv
  OBVIOUS
<1>2. CacheTypes
  BY <1>1 DEF Cache!Init, CacheTypes
<1>3. NumbersGrow /\ SignedIsTrue
  BY <1>1 DEF Cache!Init, NumbersGrow, SignedIsTrue, Cache!Queries
<1>4. ContentIsNew /\ TurnWaits /\ AnswersAreNew
  BY <1>1 DEF Cache!Init, ContentIsNew, TurnWaits, AnswersAreNew, Cache!Queries
<1>5. QED
  BY <1>2, <1>3, <1>4 DEF CacheInv

\* An entry that is there is an answer.
LEMMA EntriesAreAnswers ==
  ASSUME CacheTypes, NEW q \in Cache!Queries, tcEntry[q] # Cache!NoEntry
  PROVE  tcEntry[q] \in Answers
BY DEF CacheTypes

\* Dropping entries, and going on without one, disturbs nothing.
LEMMA ForgetKeeps ==
  ASSUME CacheInv, NEW qs, Cache!Forget(qs)
  PROVE  /\ tcEntry' \in [Cache!Queries -> Answers \cup {Cache!NoEntry}]
         /\ \A q \in Cache!Queries :
              tcEntry'[q] # Cache!NoEntry => tcEntry'[q] = tcEntry[q] /\ q \notin qs
BY DEF CacheInv, CacheTypes, Cache!Forget

\* A step that changes no file, keeps entries or drops them, and leaves readers
\* where they were or brings them to an end or a look.
LEMMA QuietCacheKeeps ==
  ASSUME CacheInv, UNCHANGED <<tcDisk, tcPast>>, CacheTypes', TurnWaits',
         tcLapses \subseteq tcLapses',
         \A q \in Cache!Queries : tcEntry'[q] # Cache!NoEntry => tcEntry'[q] = tcEntry[q],
         \A r \in Readers : tcPc'[r] \in {"read", "store"} =>
           tcPc'[r] = tcPc[r] /\ tcQuery'[r] = tcQuery[r]
             /\ tcSig'[r] = tcSig[r] /\ tcSeen'[r] = tcSeen[r],
         tcWpc' = "changed" => tcWpc = "changed" /\ tcTarget' = tcTarget
  PROVE  CacheInv'
<1>1. NumbersGrow'
  BY DEF CacheInv, NumbersGrow
<1>2. SignedIsTrue'
  BY DEF CacheInv, SignedIsTrue, Cache!Queries
<1>3. ContentIsNew'
  BY DEF CacheInv, ContentIsNew
<1>4. AnswersAreNew'
  BY DEF CacheInv, AnswersAreNew, Cache!Queries
<1>5. QED
  BY <1>1, <1>2, <1>3, <1>4 DEF CacheInv

\* A file changes to contents c that no call has replaced; what is kept of it by
\* then has another signature.
LEMMA ChangeKeeps ==
  ASSUME CacheInv, NEW f \in Files, NEW c \in Nat, c <= tcDisk[f].sig + 1,
         tcDisk' = Cache!Changed(f, c),
         UNCHANGED <<tcEntry, tcPc, tcQuery, tcSig, tcSeen>>
  PROVE  /\ tcDisk' \in [Files -> [sig : Nat, content : Nat]]
         /\ tcDisk'[f] = [sig |-> tcDisk[f].sig + 1, content |-> c]
         /\ \A g \in Files \ {f} : tcDisk'[g] = tcDisk[g]
         /\ tcPast' = tcPast \/ (\E d \in Nat : d <= tcDisk[f].sig /\ tcPast' = [tcPast EXCEPT ![f] = @ \cup {d}])
              => NumbersGrow'
         /\ SignedIsTrue'
<1>1. /\ tcDisk \in [Files -> [sig : Nat, content : Nat]]
      /\ tcPast \in [Files -> SUBSET Nat] /\ tcSig \in [Readers -> Nat]
      /\ tcSeen \in [Readers -> [Files -> Nat]]
      /\ NumbersGrow /\ SignedIsTrue
      /\ \A q \in Cache!Queries : tcEntry[q] # Cache!NoEntry => tcEntry[q] \in Answers
  BY EntriesAreAnswers DEF CacheInv, CacheTypes
<1>2. /\ tcDisk' \in [Files -> [sig : Nat, content : Nat]]
      /\ tcDisk'[f].sig = tcDisk[f].sig + 1 /\ tcDisk'[f].content = c
      /\ tcDisk'[f] = [sig |-> tcDisk[f].sig + 1, content |-> c]
      /\ \A g \in Files \ {f} : tcDisk'[g] = tcDisk[g]
  BY <1>1 DEF Cache!Changed
<1>3. tcDisk[f].sig \in Nat /\ tcDisk[f].content \in Nat
  BY <1>1
<1>4. ASSUME tcPast' = tcPast
             \/ (\E d \in Nat : d <= tcDisk[f].sig /\ tcPast' = [tcPast EXCEPT ![f] = @ \cup {d}])
      PROVE  NumbersGrow'
  <2>1. SUFFICES ASSUME NEW g \in Files
                 PROVE  /\ tcDisk'[g].content <= tcDisk'[g].sig
                        /\ \A d \in tcPast'[g] : d <= tcDisk'[g].sig
                        /\ \A q \in Cache!Queries :
                             tcEntry[q] # Cache!NoEntry => tcEntry[q].seen[g] <= tcDisk'[g].sig
                        /\ \A r \in Readers : tcPc[r] = "store" => tcSeen[r][g] <= tcDisk'[g].sig
    BY Zenon DEF NumbersGrow
  <2>2. \A d \in tcPast'[g] : d \in Nat /\ d <= tcDisk[g].sig
    BY <1>1, <1>4 DEF NumbersGrow
  <2>3. /\ tcDisk'[g].sig \in Nat /\ tcDisk[g].sig \in Nat /\ tcDisk'[g].sig >= tcDisk[g].sig
        /\ tcDisk'[g].content <= tcDisk'[g].sig
    BY <1>1, <1>2, <1>3 DEF NumbersGrow
  <2>4. ASSUME NEW q \in Cache!Queries, tcEntry[q] # Cache!NoEntry
        PROVE  tcEntry[q].seen[g] \in Nat /\ tcEntry[q].seen[g] <= tcDisk[g].sig
    BY <1>1, <2>4 DEF NumbersGrow, Answers
  <2>5. ASSUME NEW r \in Readers, tcPc[r] = "store"
        PROVE  tcSeen[r][g] \in Nat /\ tcSeen[r][g] <= tcDisk[g].sig
    BY <1>1, <2>5 DEF NumbersGrow
  <2>6. QED
    BY <2>2, <2>3, <2>4, <2>5
<1>5. SignedIsTrue'
  <2>1. SUFFICES ASSUME NEW g \in Files
                 PROVE  /\ tcEntry[g] # Cache!NoEntry =>
                             /\ tcEntry[g].sig <= tcDisk'[g].sig
                             /\ tcEntry[g].sig = tcDisk'[g].sig
                                => tcEntry[g].seen[g] = tcDisk'[g].content
                        /\ \A r \in Readers :
                             tcQuery[r] = g /\ tcPc[r] \in {"read", "store"} =>
                               /\ tcSig[r] <= tcDisk'[g].sig
                               /\ tcPc[r] = "store" /\ tcSig[r] = tcDisk'[g].sig
                                  => tcSeen[r][g] = tcDisk'[g].content
    BY Zenon DEF SignedIsTrue
  <2>2. tcEntry[g] # Cache!NoEntry => tcEntry[g].sig \in Nat
    BY <1>1 DEF Cache!Queries, Answers
  <2>3. CASE g # f
    <3>1. tcDisk'[g] = tcDisk[g]
      BY <1>2, <2>3
    <3>2. QED
      BY <1>1, <3>1 DEF SignedIsTrue
  <2>4. CASE g = f
    <3>1. tcEntry[f] # Cache!NoEntry => tcEntry[f].sig < tcDisk'[f].sig
      BY <1>1, <1>2, <1>3, <2>2, <2>4 DEF SignedIsTrue
    <3>2. ASSUME NEW r \in Readers, tcQuery[r] = f, tcPc[r] \in {"read", "store"}
          PROVE  tcSig[r] < tcDisk'[f].sig
      BY <1>1, <1>2, <1>3, <3>2 DEF SignedIsTrue
    <3>3. tcDisk'[f].sig \in Nat
      BY <1>2
    <3>4. QED
      BY <1>1, <2>2, <2>4, <3>1, <3>2, <3>3
  <2>5. QED
    BY <2>3, <2>4
<1>6. QED
  BY <1>2, <1>4, <1>5

\* One step of the cache, by its kind.
LEMMA CacheSteps ==
  ASSUME Cache!Next
  PROVE  \/ Cache!WriteSucceeds \/ Cache!RollBack \/ Cache!FailDirty \/ Cache!Cancel
         \/ \E f \in Files : Cache!OtherWrites(f)
         \/ \E f \in Files, told \in BOOLEAN : Cache!Write(f, told)
         \/ \E r \in Readers : Cache!Hit(r) \/ Cache!ReadFails(r)
         \/ \E r \in Readers : Cache!Miss(r)
         \/ \E r \in Readers : Cache!Read(r)
         \/ \E r \in Readers : Cache!Store(r)
         \/ \E r \in Readers, q \in Cache!Queries : Cache!StartRead(r, q)
BY Zenon DEF Cache!Next

\* The types of the cache stay.
LEMMA CacheTypesKept ==
  ASSUME CacheInv, Cache!Next
  PROVE  CacheTypes'
<1> USE DEF Cache!cache, Cache!reads, Cache!writes
<1>1. CacheTypes
  BY DEF CacheInv
<1>2. tcTarget.file \in Files => tcDisk[tcTarget.file].sig \in Nat /\ tcDisk[tcTarget.file].content \in Nat
  BY <1>1 DEF CacheTypes
<1>3. CASE Cache!WriteSucceeds
  <2>1. tcPast' \in [Files -> SUBSET Nat]
    BY <1>1, <1>3 DEF Cache!WriteSucceeds, CacheTypes
  <2>2. PICK qs : Cache!Forget(qs)
    BY <1>3 DEF Cache!WriteSucceeds
  <2>3. tcEntry' \in [Cache!Queries -> Answers \cup {Cache!NoEntry}]
    BY <2>2, ForgetKeeps
  <2>4. QED
    BY <1>1, <1>3, <2>1, <2>3 DEF Cache!WriteSucceeds, Cache!WriteReturns, CacheTypes
<1>4. CASE Cache!RollBack
  <2>1. tcTarget.file \in Files /\ tcTarget.before \in Nat
    BY <1>1, <1>4 DEF Cache!RollBack, CacheTypes
  <2>2. tcDisk' \in [Files -> [sig : Nat, content : Nat]] /\ tcPast' \in [Files -> SUBSET Nat]
    BY <1>1, <1>2, <1>4, <2>1 DEF Cache!RollBack, Cache!Changed, CacheTypes
  <2>3. QED
    BY <1>1, <1>4, <2>2 DEF Cache!RollBack, Cache!WriteReturns, CacheTypes
<1>5. CASE Cache!FailDirty
  <2>1. tcPast' \in [Files -> SUBSET Nat]
    BY <1>1, <1>5 DEF Cache!FailDirty, CacheTypes
  <2>2. QED
    BY <1>1, <1>5, <2>1 DEF Cache!FailDirty, Cache!WriteReturns, CacheTypes
<1>6. CASE Cache!Cancel
  BY <1>1, <1>6 DEF Cache!Cancel, CacheTypes
<1>7. ASSUME NEW f \in Files, Cache!OtherWrites(f) PROVE CacheTypes'
  <2>1. tcDisk' \in [Files -> [sig : Nat, content : Nat]]
    BY <1>1, <1>7 DEF Cache!OtherWrites, Cache!Changed, Cache!Fresh, CacheTypes
  <2>2. QED
    BY <1>1, <1>7, <2>1 DEF Cache!OtherWrites, CacheTypes
<1>8. ASSUME NEW f \in Files, NEW told \in BOOLEAN, Cache!Write(f, told) PROVE CacheTypes'
  <2>1. tcDisk' \in [Files -> [sig : Nat, content : Nat]] /\ tcDisk[f].content \in Nat
    BY <1>1, <1>8 DEF Cache!Write, Cache!Changed, Cache!Fresh, CacheTypes
  <2>2. QED
    BY <1>1, <1>8, <2>1 DEF Cache!Write, CacheTypes
<1>9. ASSUME NEW r \in Readers, Cache!Hit(r) \/ Cache!ReadFails(r) PROVE CacheTypes'
  <2>1. Cache!Finish(r) /\ UNCHANGED <<tcDisk, tcEntry, tcWpc, tcTarget, tcPast>>
    BY <1>9 DEF Cache!Hit, Cache!ReadFails
  <2>2. QED
    BY <1>1, <2>1 DEF Cache!Finish, CacheTypes
<1>10. ASSUME NEW r \in Readers, Cache!Miss(r) PROVE CacheTypes'
  <2>1. Cache!Sig(tcQuery[r]) \in Nat
    BY <1>1 DEF CacheTypes, Cache!Sig
  <2>2. PICK qs : Cache!Forget(qs)
    BY <1>10 DEF Cache!Miss
  <2>3. tcEntry' \in [Cache!Queries -> Answers \cup {Cache!NoEntry}]
    BY <2>2, ForgetKeeps
  <2>4. QED
    BY <1>1, <1>10, <2>1, <2>3 DEF Cache!Miss, CacheTypes
<1>11. ASSUME NEW r \in Readers, Cache!Read(r) PROVE CacheTypes'
  <2>1. Cache!Contents \in [Files -> Nat]
    BY <1>1 DEF CacheTypes, Cache!Contents
  <2>2. QED
    BY <1>1, <1>11, <2>1 DEF Cache!Read, CacheTypes
<1>12. ASSUME NEW r \in Readers, Cache!Store(r) PROVE CacheTypes'
  <2>1. [seen |-> tcSeen[r], sig |-> tcSig[r]] \in Answers
    BY <1>1 DEF CacheTypes, Answers
  <2>2. tcEntry' \in [Cache!Queries -> Answers \cup {Cache!NoEntry}]
    BY <1>1, <1>12, <2>1 DEF Cache!Store, CacheTypes
  <2>3. QED
    BY <1>1, <1>12, <2>2 DEF Cache!Store, Cache!Finish, CacheTypes
<1>13. ASSUME NEW r \in Readers, NEW q \in Cache!Queries, Cache!StartRead(r, q)
       PROVE  CacheTypes'
  BY <1>1, <1>13 DEF Cache!StartRead, CacheTypes
<1>14. QED
  BY CacheSteps, <1>3, <1>4, <1>5, <1>6, <1>7, <1>8, <1>9, <1>10, <1>11, <1>12, <1>13

\* The turn goes on waiting for its threads, and lapses stay.
LEMMA TurnWaitsKept ==
  ASSUME CacheInv, Cache!Next
  PROVE  TurnWaits' /\ tcLapses \subseteq tcLapses'
<1> USE DEF Cache!cache, Cache!reads, Cache!writes, Cache!Writer
<1>1. /\ TurnWaits /\ tcPc \in [Readers -> {"idle", "look", "read", "store"}]
      /\ "writer" \notin Readers
  BY SharedAssumption DEF CacheInv, CacheTypes, Cache!QueryAssumption
<1>2. CASE Cache!WriteSucceeds \/ Cache!RollBack
  BY <1>1, <1>2 DEF Cache!WriteSucceeds, Cache!RollBack, Cache!WriteReturns, TurnWaits
<1>3. CASE Cache!FailDirty \/ Cache!Cancel
  BY <1>1, <1>3 DEF Cache!FailDirty, Cache!Cancel, TurnWaits
<1>4. ASSUME NEW f \in Files, Cache!OtherWrites(f) PROVE TurnWaits' /\ tcLapses \subseteq tcLapses'
  BY <1>1, <1>4 DEF Cache!OtherWrites, TurnWaits
<1>5. ASSUME NEW f \in Files, NEW told \in BOOLEAN, Cache!Write(f, told)
      PROVE  TurnWaits' /\ tcLapses \subseteq tcLapses'
  BY <1>1, <1>5 DEF Cache!Write, TurnWaits
<1>6. ASSUME NEW r \in Readers, Cache!Finish(r), tcPc[r] # "idle", UNCHANGED <<tcWpc, tcLapses>>
      PROVE  TurnWaits' /\ tcLapses \subseteq tcLapses'
  BY <1>1, <1>6 DEF Cache!Finish, TurnWaits
<1>7. ASSUME NEW r \in Readers, Cache!Hit(r) \/ Cache!ReadFails(r) \/ Cache!Store(r)
      PROVE  TurnWaits' /\ tcLapses \subseteq tcLapses'
  BY <1>6, <1>7 DEF Cache!Hit, Cache!ReadFails, Cache!Store
<1>8. ASSUME NEW r \in Readers, Cache!Miss(r) \/ Cache!Read(r)
      PROVE  TurnWaits' /\ tcLapses \subseteq tcLapses'
  BY <1>1, <1>8 DEF Cache!Miss, Cache!Read, TurnWaits
<1>9. ASSUME NEW r \in Readers, NEW q \in Cache!Queries, Cache!StartRead(r, q)
      PROVE  TurnWaits' /\ tcLapses \subseteq tcLapses'
  BY <1>1, <1>9 DEF Cache!StartRead, TurnWaits
<1>10. QED
  BY CacheSteps, <1>2, <1>3, <1>4, <1>5, <1>7, <1>8, <1>9

\* A change by anybody but a call at its end: the contents are new to all.
LEMMA WriteKeeps ==
  ASSUME CacheInv, NEW f \in Files,
         tcDisk' = Cache!Changed(f, Cache!Fresh(f)), CacheTypes', TurnWaits',
         UNCHANGED <<tcEntry, tcPc, tcQuery, tcSig, tcSeen, tcPast, tcLapses>>,
         \/ UNCHANGED <<tcWpc, tcTarget>>
         \/ /\ tcWpc' = "changed"
            /\ tcTarget'.file = f /\ tcTarget'.before = tcDisk[f].content
  PROVE  CacheInv'
<1>1. /\ CacheTypes /\ ContentIsNew /\ NumbersGrow /\ AnswersAreNew
      /\ tcDisk[f] \in [sig : Nat, content : Nat]
  BY DEF CacheInv, CacheTypes
<1>2. /\ tcDisk'[f] = [sig |-> tcDisk[f].sig + 1, content |-> tcDisk[f].sig + 1]
      /\ \A g \in Files \ {f} : tcDisk'[g] = tcDisk[g]
      /\ NumbersGrow' /\ SignedIsTrue'
  <2>1. tcDisk[f].sig + 1 \in Nat /\ tcDisk[f].sig + 1 <= tcDisk[f].sig + 1
    BY <1>1
  <2>2. QED
    BY <2>1, ChangeKeeps DEF Cache!Fresh
<1>3. tcDisk'[f].content \notin tcPast[f] /\ tcDisk'[f].content > tcDisk[f].content
  BY <1>1, <1>2 DEF NumbersGrow, CacheTypes
<1>4. ContentIsNew'
  <2>1. \A g \in Files : tcDisk'[g].content \notin tcPast'[g]
    BY <1>1, <1>2, <1>3 DEF ContentIsNew
  <2>2. CASE UNCHANGED <<tcWpc, tcTarget>> /\ tcWpc = "changed"
    <3>1. tcTarget.file \in Files /\ tcTarget.before \in Nat
      BY <1>1, <2>2 DEF CacheTypes
    <3>2. QED
      BY <1>1, <1>2, <2>1, <2>2, <3>1 DEF ContentIsNew
  <2>3. CASE tcTarget'.file = f /\ tcTarget'.before = tcDisk[f].content
    BY <1>1, <1>2, <1>3, <2>1, <2>3 DEF ContentIsNew, NumbersGrow
  <2>4. QED
    BY <2>1, <2>2, <2>3 DEF ContentIsNew
<1>5. AnswersAreNew'
  <2>1. SUFFICES ASSUME tcLapses = {} PROVE AnswersAreNew'
    BY DEF AnswersAreNew
  <2>2. ASSUME NEW q \in Wide, NEW g \in Files, tcEntry[q] # Cache!NoEntry
        PROVE  /\ tcEntry[q].seen[g] \notin tcPast[g]
               /\ tcWpc' = "changed" /\ tcTarget'.file = g
                  => tcEntry[q].seen[g] # tcDisk'[g].content
    <3>1. q \in Cache!Queries /\ tcEntry[q].seen[g] \in Nat
      BY <1>1, <2>2, EntriesAreAnswers DEF Cache!Queries, Answers
    <3>2. tcEntry[q].seen[g] <= tcDisk[g].sig /\ tcEntry[q].seen[g] \notin tcPast[g]
      BY <1>1, <2>1, <2>2, <3>1 DEF NumbersGrow, AnswersAreNew
    <3>3. CASE g = f
      BY <1>1, <1>2, <3>1, <3>2, <3>3
    <3>4. CASE g # f
      <4>1. tcWpc' = "changed" /\ tcTarget'.file = g => tcWpc = "changed" /\ tcTarget.file = g
        BY <3>4
      <4>2. QED
        BY <1>1, <1>2, <2>1, <2>2, <3>2, <3>4, <4>1 DEF AnswersAreNew
    <3>5. QED
      BY <3>3, <3>4
  <2>3. QED
    BY <1>1, <2>1, <2>2 DEF AnswersAreNew
<1>6. QED
  BY <1>2, <1>4, <1>5 DEF CacheInv

\* The written contents are taken back: of what the turn's calls know nobody
\* holds them, and they are another signature's.
LEMMA RollBackKeeps ==
  ASSUME CacheInv, Cache!RollBack, CacheTypes', TurnWaits'
  PROVE  CacheInv'
<1> USE DEF Cache!cache, Cache!reads, Cache!writes, Cache!WriteReturns
<1> DEFINE f == tcTarget.file
<1>1. /\ CacheTypes /\ ContentIsNew /\ NumbersGrow /\ AnswersAreNew /\ TurnWaits
      /\ tcWpc = "changed" /\ f \in Files /\ tcTarget.before \in Nat
      /\ tcDisk[f] \in [sig : Nat, content : Nat]
  BY DEF CacheInv, CacheTypes, Cache!RollBack
<1>2. /\ tcDisk' = Cache!Changed(f, tcTarget.before)
      /\ tcPast' = [tcPast EXCEPT ![f] = @ \cup {tcDisk[f].content}]
      /\ tcWpc' = "idle"
      /\ UNCHANGED <<tcEntry, tcPc, tcQuery, tcSig, tcSeen, tcLapses>>
  BY DEF Cache!RollBack
<1>3. /\ tcTarget.before <= tcDisk[f].sig + 1
      /\ tcDisk[f].content \in Nat /\ tcDisk[f].content <= tcDisk[f].sig
  BY <1>1 DEF ContentIsNew, NumbersGrow
<1>4. /\ tcDisk'[f].content = tcTarget.before
      /\ \A g \in Files \ {f} : tcDisk'[g] = tcDisk[g]
      /\ NumbersGrow' /\ SignedIsTrue'
  <2>1. /\ tcDisk'[f] = [sig |-> tcDisk[f].sig + 1, content |-> tcTarget.before]
        /\ \A g \in Files \ {f} : tcDisk'[g] = tcDisk[g]
        /\ (\E d \in Nat : d <= tcDisk[f].sig /\ tcPast' = [tcPast EXCEPT ![f] = @ \cup {d}])
           => NumbersGrow'
        /\ SignedIsTrue'
    BY <1>1, <1>2, <1>3, ChangeKeeps
  <2>2. NumbersGrow'
    BY <1>2, <1>3, <2>1
  <2>3. QED
    BY <2>1, <2>2
<1>5. \A g \in Files : tcPast'[g] = IF g = f THEN tcPast[f] \cup {tcDisk[f].content} ELSE tcPast[g]
  BY <1>1, <1>2 DEF CacheTypes
<1>6. ContentIsNew'
  BY <1>1, <1>2, <1>4, <1>5 DEF ContentIsNew
<1>7. AnswersAreNew'
  <2>1. SUFFICES ASSUME tcLapses = {} PROVE AnswersAreNew'
    BY <1>2 DEF AnswersAreNew
  <2>2. \A r \in Readers : tcPc[r] = "idle"
    BY <1>1, <2>1, SharedAssumption DEF TurnWaits, Cache!QueryAssumption
  <2>3. QED
    BY <1>1, <1>2, <1>5, <2>1, <2>2 DEF AnswersAreNew
<1>8. QED
  BY <1>4, <1>6, <1>7 DEF CacheInv

\* A call that succeeds, or fails after it changed a file: what it replaced is
\* past, and where nothing lapsed nobody holds it any more.
LEMMA ReplaceKeeps ==
  ASSUME CacheInv, Cache!WriteSucceeds \/ Cache!FailDirty, CacheTypes', TurnWaits'
  PROVE  CacheInv'
<1> USE DEF Cache!cache, Cache!reads, Cache!writes, Cache!WriteReturns
<1> DEFINE f == tcTarget.file
<1>1. /\ CacheTypes /\ ContentIsNew /\ NumbersGrow /\ SignedIsTrue /\ AnswersAreNew /\ TurnWaits
      /\ tcWpc = "changed" /\ f \in Files /\ tcTarget.before \in Nat
  BY DEF CacheInv, CacheTypes, Cache!WriteSucceeds, Cache!FailDirty
<1>2. /\ tcPast' = [tcPast EXCEPT ![f] = @ \cup {tcTarget.before}] /\ tcWpc' = "idle"
      /\ UNCHANGED <<tcDisk, tcPc, tcQuery, tcSig, tcSeen>>
  BY DEF Cache!WriteSucceeds, Cache!FailDirty
<1>3. \A g \in Files : tcPast'[g] = IF g = f THEN tcPast[f] \cup {tcTarget.before} ELSE tcPast[g]
  BY <1>1, <1>2 DEF CacheTypes
<1>4. \A q \in Cache!Queries : tcEntry'[q] # Cache!NoEntry => tcEntry'[q] = tcEntry[q]
  <2>1. CASE Cache!WriteSucceeds
    <3>1. PICK qs : Cache!Forget(qs)
      BY <2>1 DEF Cache!WriteSucceeds
    <3>2. QED
      BY <3>1, ForgetKeeps
  <2>2. CASE Cache!FailDirty
    BY <2>2 DEF Cache!FailDirty
  <2>3. QED
    BY <2>1, <2>2
<1>5. NumbersGrow'
  <2>1. \A g \in Files : \A d \in tcPast'[g] : d <= tcDisk[g].sig
    BY <1>1, <1>3 DEF NumbersGrow, ContentIsNew
  <2>2. QED
    BY <1>1, <1>2, <1>4, <2>1 DEF NumbersGrow
<1>6. SignedIsTrue'
  BY <1>1, <1>2, <1>4 DEF SignedIsTrue, Cache!Queries
<1>7. ContentIsNew'
  BY <1>1, <1>2, <1>3 DEF ContentIsNew
<1>8. AnswersAreNew'
  <2>1. SUFFICES ASSUME tcLapses' = {} PROVE AnswersAreNew'
    BY DEF AnswersAreNew
  <2>2. Cache!WriteSucceeds /\ tcLapses = {}
    BY <2>1 DEF Cache!WriteSucceeds, Cache!FailDirty
  <2>3. \A r \in Readers : tcPc[r] = "idle"
    BY <1>1, <2>2, SharedAssumption DEF TurnWaits, Cache!QueryAssumption
  <2>4. \A q \in Wide : tcEntry'[q] = Cache!NoEntry
    <3>1. PICK qs : Cache!Forget(qs) /\ Wide \subseteq qs
      <4>1. Wide \subseteq Cache!Overlaps(f) /\ Wide \subseteq Cache!Queries
        BY <1>1, SharedAssumption DEF Cache!Overlaps, Cache!DependsOn, Cache!Queries,
           Cache!QueryAssumption
      <4>2. QED
        BY <2>2, <4>1 DEF Cache!WriteSucceeds
    <3>2. QED
      BY <3>1, ForgetKeeps DEF Cache!Queries
  <2>5. QED
    BY <1>2, <2>3, <2>4 DEF AnswersAreNew
<1>9. QED
  BY <1>5, <1>6, <1>7, <1>8 DEF CacheInv

\* A reader takes the signature before its handler runs.
LEMMA MissKeeps ==
  ASSUME CacheInv, NEW r \in Readers, Cache!Miss(r), CacheTypes', TurnWaits'
  PROVE  CacheInv'
<1> USE DEF Cache!reads, Cache!writes
<1>1. /\ CacheTypes /\ ContentIsNew /\ NumbersGrow /\ SignedIsTrue /\ AnswersAreNew
      /\ tcPc[r] = "look"
  BY DEF CacheInv, Cache!Miss
<1>2. /\ tcPc' = [tcPc EXCEPT ![r] = "read"]
      /\ tcSig' = [tcSig EXCEPT ![r] = Cache!Sig(tcQuery[r])]
      /\ UNCHANGED <<tcDisk, tcQuery, tcSeen, tcWpc, tcTarget, tcPast, tcLapses>>
  BY DEF Cache!Miss
<1>3. \A q \in Cache!Queries : tcEntry'[q] # Cache!NoEntry => tcEntry'[q] = tcEntry[q]
  <2>1. Cache!Forget({tcQuery[r]})
    BY DEF Cache!Miss
  <2>2. QED
    BY <2>1, ForgetKeeps
<1>4. /\ tcPc'[r] = "read"
      /\ \A p \in Readers \ {r} : tcPc'[p] = tcPc[p] /\ tcSig'[p] = tcSig[p]
      /\ \A f \in Files : tcQuery[r] = f => tcSig'[r] = tcDisk[f].sig
      /\ \A f \in Files : tcDisk[f].sig \in Nat
  BY <1>1, <1>2 DEF CacheTypes, Cache!Sig
<1>5. NumbersGrow'
  BY <1>1, <1>2, <1>3, <1>4 DEF NumbersGrow
<1>6. SignedIsTrue'
  BY <1>1, <1>2, <1>3, <1>4 DEF SignedIsTrue, Cache!Queries
<1>7. ContentIsNew'
  BY <1>1, <1>2 DEF ContentIsNew
<1>8. AnswersAreNew'
  BY <1>1, <1>2, <1>3, <1>4 DEF AnswersAreNew, Cache!Queries
<1>9. QED
  BY <1>5, <1>6, <1>7, <1>8 DEF CacheInv

\* The handler reads what is on disk at that moment.
LEMMA ReadKeeps ==
  ASSUME CacheInv, NEW r \in Readers, Cache!Read(r), CacheTypes', TurnWaits'
  PROVE  CacheInv'
<1> USE DEF Cache!cache, Cache!writes
<1>1. /\ CacheTypes /\ ContentIsNew /\ NumbersGrow /\ SignedIsTrue /\ AnswersAreNew
      /\ tcPc[r] = "read"
  BY DEF CacheInv, Cache!Read
<1>2. /\ tcPc' = [tcPc EXCEPT ![r] = "store"]
      /\ tcSeen' = [tcSeen EXCEPT ![r] = Cache!Contents]
      /\ UNCHANGED <<tcDisk, tcEntry, tcQuery, tcSig, tcWpc, tcTarget, tcPast, tcLapses>>
  BY DEF Cache!Read
<1>3. /\ \A p \in Readers \ {r} : tcPc'[p] = tcPc[p] /\ tcSeen'[p] = tcSeen[p]
      /\ \A f \in Files : tcSeen'[r][f] = tcDisk[f].content
      /\ tcPc'[r] = "store"
  BY <1>1, <1>2 DEF CacheTypes, Cache!Contents
<1>4. NumbersGrow'
  BY <1>1, <1>2, <1>3 DEF NumbersGrow
<1>5. SignedIsTrue'
  BY <1>1, <1>2, <1>3 DEF SignedIsTrue
<1>6. ContentIsNew'
  BY <1>1, <1>2 DEF ContentIsNew
<1>7. AnswersAreNew'
  BY <1>1, <1>2, <1>3 DEF AnswersAreNew, ContentIsNew
<1>8. QED
  BY <1>4, <1>5, <1>6, <1>7 DEF CacheInv

\* What a reader brings is as true as an entry has to be.
LEMMA StoreKeeps ==
  ASSUME CacheInv, NEW r \in Readers, Cache!Store(r), CacheTypes', TurnWaits'
  PROVE  CacheInv'
<1> USE DEF Cache!writes
<1> DEFINE answer == [seen |-> tcSeen[r], sig |-> tcSig[r]]
<1>1. /\ CacheTypes /\ ContentIsNew /\ NumbersGrow /\ SignedIsTrue /\ AnswersAreNew /\ TurnWaits
      /\ tcPc[r] = "store" /\ tcQuery[r] \in Cache!Queries
  BY DEF CacheInv, CacheTypes, Cache!Store
<1>2. /\ tcPc' = [tcPc EXCEPT ![r] = "idle"]
      /\ tcQuery' = [tcQuery EXCEPT ![r] = Cache!NoQuery]
      /\ tcSig' = [tcSig EXCEPT ![r] = 0]
      /\ tcSeen' = [tcSeen EXCEPT ![r] = [f \in Files |-> 0]]
      /\ UNCHANGED <<tcDisk, tcWpc, tcTarget, tcPast, tcLapses>>
  BY DEF Cache!Store, Cache!Finish
<1>3. \A q \in Cache!Queries :
        tcEntry'[q] # Cache!NoEntry =>
          IF q = tcQuery[r] THEN tcEntry'[q] = answer ELSE tcEntry'[q] = tcEntry[q]
  BY DEF Cache!Store
<1>4. /\ tcPc'[r] = "idle"
      /\ \A p \in Readers \ {r} :
           /\ tcPc'[p] = tcPc[p] /\ tcQuery'[p] = tcQuery[p]
           /\ tcSig'[p] = tcSig[p] /\ tcSeen'[p] = tcSeen[p]
  BY <1>1, <1>2 DEF CacheTypes
<1>5. NumbersGrow'
  <2>1. \A f \in Files : answer.seen[f] <= tcDisk[f].sig
    BY <1>1 DEF NumbersGrow
  <2>2. \A f \in Files, q \in Cache!Queries :
          tcEntry'[q] # Cache!NoEntry => tcEntry'[q].seen[f] <= tcDisk[f].sig
    BY <1>1, <1>3, <2>1 DEF NumbersGrow
  <2>3. \A f \in Files, p \in Readers : tcPc'[p] = "store" => tcSeen'[p][f] <= tcDisk[f].sig
    BY <1>1, <1>4 DEF NumbersGrow
  <2>4. QED
    BY <1>1, <1>2, <2>2, <2>3 DEF NumbersGrow
<1>6. SignedIsTrue'
  <2>1. \A f \in Files : tcQuery[r] = f =>
          /\ answer.sig <= tcDisk[f].sig
          /\ answer.sig = tcDisk[f].sig => answer.seen[f] = tcDisk[f].content
    BY <1>1 DEF SignedIsTrue
  <2>2. \A f \in Files : tcEntry'[f] # Cache!NoEntry =>
          /\ tcEntry'[f].sig <= tcDisk[f].sig
          /\ tcEntry'[f].sig = tcDisk[f].sig => tcEntry'[f].seen[f] = tcDisk[f].content
    BY <1>1, <1>3, <2>1 DEF SignedIsTrue, Cache!Queries
  <2>3. \A f \in Files, p \in Readers :
          tcQuery'[p] = f /\ tcPc'[p] \in {"read", "store"} =>
            /\ tcSig'[p] <= tcDisk[f].sig
            /\ tcPc'[p] = "store" /\ tcSig'[p] = tcDisk[f].sig
               => tcSeen'[p][f] = tcDisk[f].content
    BY <1>1, <1>4 DEF SignedIsTrue
  <2>4. QED
    BY <1>2, <2>2, <2>3 DEF SignedIsTrue
<1>7. ContentIsNew'
  BY <1>1, <1>2 DEF ContentIsNew
<1>8. AnswersAreNew'
  <2>1. SUFFICES ASSUME tcLapses = {} PROVE AnswersAreNew'
    BY <1>2 DEF AnswersAreNew
  <2>2. tcWpc # "changed"
    BY <1>1, <2>1, SharedAssumption DEF TurnWaits, Cache!QueryAssumption
  <2>3. \A f \in Files : answer.seen[f] \notin tcPast[f]
    BY <1>1, <2>1 DEF AnswersAreNew
  <2>4. \A q \in Wide, f \in Files :
          tcEntry'[q] # Cache!NoEntry => tcEntry'[q].seen[f] \notin tcPast[f]
    BY <1>1, <1>3, <2>1, <2>3 DEF AnswersAreNew, Cache!Queries
  <2>5. \A p \in Readers, f \in Files : tcPc'[p] = "store" => tcSeen'[p][f] \notin tcPast[f]
    BY <1>1, <1>4, <2>1 DEF AnswersAreNew
  <2>6. QED
    BY <1>2, <2>2, <2>4, <2>5 DEF AnswersAreNew
<1>9. QED
  BY <1>5, <1>6, <1>7, <1>8 DEF CacheInv

\* Every step of the cache keeps its invariant.
LEMMA CacheNext ==
  ASSUME CacheInv, Cache!Next \/ UNCHANGED cacheVars
  PROVE  CacheInv'
<1> USE DEF Cache!cache, Cache!reads, Cache!writes
<1>1. CASE UNCHANGED cacheVars
  BY <1>1 DEF cacheVars, CacheInv, CacheTypes, NumbersGrow, SignedIsTrue, ContentIsNew,
     TurnWaits, AnswersAreNew
<1>2. CASE Cache!Next
  <2>1. CacheTypes' /\ TurnWaits' /\ tcLapses \subseteq tcLapses'
    BY <1>2, CacheTypesKept, TurnWaitsKept
  <2>2. tcPc \in [Readers -> {"idle", "look", "read", "store"}]
    BY DEF CacheInv, CacheTypes
  <2>3. CASE Cache!Cancel
    BY <2>1, <2>3, QuietCacheKeeps DEF Cache!Cancel
  <2>4. ASSUME NEW f \in Files, Cache!OtherWrites(f) PROVE CacheInv'
    BY <2>1, <2>4, WriteKeeps DEF Cache!OtherWrites
  <2>5. ASSUME NEW f \in Files, NEW told \in BOOLEAN, Cache!Write(f, told) PROVE CacheInv'
    BY <2>1, <2>5, WriteKeeps DEF Cache!Write
  <2>6. ASSUME NEW r \in Readers, Cache!Hit(r) \/ Cache!ReadFails(r) PROVE CacheInv'
    <3>1. /\ Cache!Finish(r)
          /\ UNCHANGED <<tcDisk, tcEntry, tcWpc, tcTarget, tcPast>>
      BY <2>6 DEF Cache!Hit, Cache!ReadFails
    <3>2. \A p \in Readers : tcPc'[p] \in {"read", "store"} =>
            tcPc'[p] = tcPc[p] /\ tcQuery'[p] = tcQuery[p]
              /\ tcSig'[p] = tcSig[p] /\ tcSeen'[p] = tcSeen[p]
      BY <2>2, <3>1 DEF Cache!Finish, CacheInv, CacheTypes
    <3>3. QED
      BY <2>1, <3>1, <3>2, QuietCacheKeeps
  <2>7. ASSUME NEW r \in Readers, NEW q \in Cache!Queries, Cache!StartRead(r, q)
        PROVE  CacheInv'
    <3>1. \A p \in Readers : tcPc'[p] \in {"read", "store"} =>
            tcPc'[p] = tcPc[p] /\ tcQuery'[p] = tcQuery[p]
              /\ tcSig'[p] = tcSig[p] /\ tcSeen'[p] = tcSeen[p]
      BY <2>2, <2>7 DEF Cache!StartRead, CacheInv, CacheTypes
    <3>2. QED
      BY <2>1, <2>7, <3>1, QuietCacheKeeps DEF Cache!StartRead
  <2>8. QED
    BY <1>2, <2>1, <2>3, <2>4, <2>5, <2>6, <2>7, CacheSteps, ReplaceKeeps, RollBackKeeps,
       MissKeeps, ReadKeeps, StoreKeeps
<1>3. QED
  BY <1>1, <1>2

\* What the invariant says of entries makes the answers true.
LEMMA CacheSpeaksTrue == CacheInv => CacheIsHonest
<1>1. SUFFICES ASSUME CacheInv PROVE CacheIsHonest
  OBVIOUS
<1>2. /\ SignedIsTrue /\ ContentIsNew /\ AnswersAreNew
      /\ Files \cap Wide = {} /\ Everywhere \subseteq Wide
  BY <1>1, SharedAssumption DEF CacheInv, Cache!QueryAssumption
<1>3. Cache!FileHitIsFresh
  BY <1>2 DEF Cache!FileHitIsFresh, Cache!Matches, Cache!Sig, SignedIsTrue
<1>4. Cache!OwnWritesAreSeen
  <2>1. SUFFICES ASSUME tcLapses = {}, NEW q \in Cache!Queries, NEW f \in Files,
                        Cache!Matches(q), f \in Cache!DependsOn(q)
                 PROVE  tcEntry[q].seen[f] \notin tcPast[f]
    BY DEF Cache!OwnWritesAreSeen, Cache!NothingOldIsAnswered
  <2>2. CASE q \in Files
    BY <1>2, <1>3, <2>1, <2>2 DEF Cache!FileHitIsFresh, Cache!DependsOn, ContentIsNew
  <2>3. CASE q \in Wide
    BY <1>2, <2>1, <2>3 DEF AnswersAreNew, Cache!Matches
  <2>4. QED
    BY <2>1, <2>2, <2>3 DEF Cache!Queries
<1>5. QED
  BY <1>3, <1>4 DEF CacheIsHonest

-----------------------------------------------------------------------------
(***************************************************************************)
(* Proofs: what the order of the cache lists, and the bounds               *)
(***************************************************************************)
\* The instance has its own copies of the operators on sets and sequences.
LEMMA CacheOperators ==
  /\ \A S : Cache!Cardinality(S) = Cardinality(S)
  /\ \A s, ks : Cache!Pick(s, ks) = Pick(s, ks)
<1>1. \A S : Cache!Cardinality(S) = Cardinality(S)
  BY DEF Cache!Cardinality, Cardinality
<1>2. \A ks, k : Cache!UpTo(ks, k) = UpTo(ks, k)
  BY DEF Cache!UpTo, UpTo
<1>3. \A ks, n : Cache!Nth(ks, n) = Nth(ks, n)
  BY <1>1, <1>2 DEF Cache!Nth, Nth
<1>4. \A s, ks : Cache!Pick(s, ks) = Pick(s, ks)
  BY <1>1, <1>3 DEF Cache!Pick, Pick
<1>5. QED
  BY <1>1, <1>4

\* The order of a cache, and its entries: each entry once, within the capacity.
Ordered(o, e) ==
  /\ o \in Seq(Cache!Queries)
  /\ \A j, k \in DOMAIN o : o[j] = o[k] => j = k
  /\ \A q \in Cache!Queries : e[q] # Cache!NoEntry <=> \E k \in DOMAIN o : o[k] = q
  /\ Len(o) <= MaxEntries

\* So the order lists the entries, and is as long as they are many.
LEMMA OrderCounts ==
  ASSUME NEW e, NEW o, Ordered(o, e)
  PROVE  /\ Cache!ToSet(o) = {q \in Cache!Queries : e[q] # Cache!NoEntry}
         /\ Len(o) = Cardinality(Cache!ToSet(o))
<1>1. o \in Seq(Cache!Queries) /\ DOMAIN o = 1 .. Len(o) /\ Len(o) \in Nat
  BY DEF Ordered
<1>2. Cache!ToSet(o) = {o[k] : k \in DOMAIN o}
  BY DEF Cache!ToSet
<1>3. Cache!ToSet(o) = {q \in Cache!Queries : e[q] # Cache!NoEntry}
  BY <1>1, <1>2 DEF Ordered
<1>4. ExistsBijection(1 .. Len(o), Cache!ToSet(o))
  <2>1. o \in [1 .. Len(o) -> Cache!ToSet(o)] /\ \A q \in Cache!ToSet(o) : \E k \in 1 .. Len(o) : o[k] = q
    BY <1>1, <1>2
  <2>2. \A j, k \in 1 .. Len(o) : o[j] = o[k] => j = k
    BY <1>1 DEF Ordered
  <2>3. o \in Bijection(1 .. Len(o), Cache!ToSet(o))
    BY <2>1, <2>2 DEF Bijection, Injection, Surjection, IsInjective
  <2>4. QED
    BY <2>3 DEF ExistsBijection
<1>5. Cardinality(Cache!ToSet(o)) = Len(o)
  BY <1>1, <1>4, FS_CountingElements
<1>6. QED
  BY <1>3, <1>5

\* What is left of an order without some queries.
Left(o, qs) == Pick(o, {k \in DOMAIN o : o[k] \notin qs})

\* What is left is in its order, without those dropped, and shorter if any was.
LEMMA LeftFacts ==
  ASSUME NEW S, NEW o \in Seq(S), \A j, k \in DOMAIN o : o[j] = o[k] => j = k, NEW qs
  PROVE  /\ Left(o, qs) \in Seq(S)
         /\ \A j, k \in DOMAIN Left(o, qs) : Left(o, qs)[j] = Left(o, qs)[k] => j = k
         /\ \A q : (\E k \in DOMAIN Left(o, qs) : Left(o, qs)[k] = q)
                     <=> q \notin qs /\ \E k \in DOMAIN o : o[k] = q
         /\ Len(Left(o, qs)) \in Nat /\ Len(Left(o, qs)) <= Len(o)
         /\ (\E k \in DOMAIN o : o[k] \in qs) => Len(Left(o, qs)) < Len(o)
<1>1. PICK ks \in SUBSET DOMAIN o : ks = {k \in DOMAIN o : o[k] \notin qs}
  OBVIOUS
<1>2. PICK w : w = Pick(o, ks)
  OBVIOUS
<1>3. \A k : k \in ks <=> k \in DOMAIN o /\ o[k] \notin qs
  BY <1>1
<1>4. w = Left(o, qs)
  BY <1>1, <1>2 DEF Left
<1>5. /\ w \in Seq(S) /\ Len(w) <= Len(o) /\ Len(w) = Cardinality(ks)
      /\ \A n \in DOMAIN w : \E k \in ks : w[n] = o[k]
      /\ \A k \in ks : \E n \in DOMAIN w : w[n] = o[k]
      /\ \A i, j \in DOMAIN w : i # j =>
           \E h, k \in ks : h # k /\ w[i] = o[h] /\ w[j] = o[k]
  BY <1>2, PickFacts
<1>6. \A j, k \in DOMAIN w : w[j] = w[k] => j = k
  BY <1>3, <1>5
<1>7. \A q : (\E k \in DOMAIN w : w[k] = q)
               <=> q \notin qs /\ \E k \in DOMAIN o : o[k] = q
  BY <1>3, <1>5
<1>8. ASSUME NEW k \in DOMAIN o, o[k] \in qs PROVE Len(w) < Len(o)
  <2>1. IsFiniteSet(DOMAIN o) /\ Cardinality(DOMAIN o) = Len(o)
    <3>1. \A n \in Nat : IsFiniteSet(1 .. n) /\ Cardinality(1 .. n) = n
      BY FS_Interval
    <3>2. QED
      BY <3>1
  <2>2. ks # DOMAIN o
    BY <1>3, <1>8
  <2>3. Cardinality(ks) <= Cardinality(DOMAIN o) /\ Cardinality(ks) # Cardinality(DOMAIN o)
    BY <2>1, <2>2, FS_Subset
  <2>4. QED
    BY <1>5, <2>1, <2>3
<1>9. Len(w) \in Nat
  BY <1>5
<1>10. QED
  BY <1>4, <1>5, <1>6, <1>7, <1>8, <1>9

\* No number goes past the bound of changes, and who is awaited, or has lapsed,
\* is one of those there are.
CacheBounds ==
  /\ tcDisk \in [Files -> [sig : Cache!Ids, content : Cache!Ids]]
  /\ tcEntry \in [Cache!Queries ->
                    [seen : [Files -> Cache!Ids], sig : Cache!Ids] \cup {Cache!NoEntry}]
  /\ tcSig \in [Readers -> Cache!Ids] /\ tcSeen \in [Readers -> [Files -> Cache!Ids]]
  /\ tcPast \in [Files -> SUBSET Cache!Ids]
  /\ tcWpc = "changed" => tcTarget.before \in Cache!Ids
  /\ tcWpc = "idle" <=> tcTarget = Cache!NoTarget
  /\ tcAwaited \subseteq Readers \cup {Cache!Writer}
  /\ tcLapses \subseteq {"cancelled", "dirty"}

\* With the order of the entries, what is known of a cache.
CacheFacts == CacheInv /\ CacheBounds /\ Ordered(tcOrder, tcEntry)

\* A cache begins empty.
LEMMA CacheFactsBegin == Cache!Init => CacheFacts
<1>1. SUFFICES ASSUME Cache!Init PROVE CacheFacts
  OBVIOUS
<1>2. CacheInv /\ MaxChanges \in Nat /\ MaxEntries \in Nat
  BY <1>1, CacheInit, SharedAssumption DEF Cache!QueryAssumption
<1>3. 0 \in Cache!Ids
  BY <1>2 DEF Cache!Ids
<1>4. CacheBounds
  <2>1. /\ tcDisk \in [Files -> [sig : Cache!Ids, content : Cache!Ids]]
        /\ tcSig \in [Readers -> Cache!Ids] /\ tcSeen \in [Readers -> [Files -> Cache!Ids]]
        /\ tcPast \in [Files -> SUBSET Cache!Ids]
    BY <1>1, <1>3 DEF Cache!Init
  <2>2. tcWpc = "idle" /\ tcTarget = Cache!NoTarget /\ tcAwaited = {} /\ tcLapses = {}
    BY <1>1 DEF Cache!Init
  <2>3. tcEntry \in [Cache!Queries -> {Cache!NoEntry}]
    BY <1>1 DEF Cache!Init
  <2>4. QED
    BY <2>1, <2>2, <2>3 DEF CacheBounds
<1>5. Ordered(tcOrder, tcEntry)
  <2>1. tcOrder = <<>> /\ DOMAIN tcOrder = {} /\ Len(tcOrder) = 0
    BY <1>1 DEF Cache!Init
  <2>2. \A q \in Cache!Queries : tcEntry[q] = Cache!NoEntry
    BY <1>1 DEF Cache!Init
  <2>3. QED
    BY <1>2, <2>1, <2>2 DEF Ordered
<1>6. QED
  BY <1>2, <1>4, <1>5 DEF CacheFacts

\* The numbers stay within the bound of changes.
LEMMA BoundsKept ==
  ASSUME CacheInv, CacheBounds, Cache!Next
  PROVE  CacheBounds'
<1> USE DEF Cache!cache, Cache!reads, Cache!writes
<1>1. /\ CacheTypes /\ CacheBounds /\ MaxChanges \in Nat /\ Cache!NoFile \notin Files
  BY SharedAssumption DEF CacheInv, Cache!QueryAssumption
<1>2. /\ 0 \in Cache!Ids
      /\ \A n \in Cache!Ids : n < MaxChanges => n + 1 \in Cache!Ids
      /\ \A n \in Cache!Ids : n + 1 < MaxChanges => n + 1 \in Cache!Ids
  BY <1>1 DEF Cache!Ids
<1>3. tcWpc = "changed" => tcTarget.file \in Files /\ tcTarget.before \in Cache!Ids
  BY <1>1 DEF CacheTypes, CacheBounds
<1>4. ASSUME NEW f \in Files, NEW c \in Cache!Ids, tcDisk' = Cache!Changed(f, c),
             tcDisk[f].sig < MaxChanges
      PROVE  tcDisk' \in [Files -> [sig : Cache!Ids, content : Cache!Ids]]
  <2>1. tcDisk[f].sig + 1 \in Cache!Ids
    BY <1>1, <1>2, <1>4 DEF CacheBounds
  <2>2. [sig |-> tcDisk[f].sig + 1, content |-> c] \in [sig : Cache!Ids, content : Cache!Ids]
    BY <1>4, <2>1
  <2>3. QED
    BY <1>1, <1>4, <2>2 DEF Cache!Changed, CacheBounds
<1>5. ASSUME NEW f \in Files, NEW c \in Cache!Ids, tcPast' = [tcPast EXCEPT ![f] = @ \cup {c}]
      PROVE  tcPast' \in [Files -> SUBSET Cache!Ids]
  BY <1>1, <1>5 DEF CacheBounds
<1>6. ASSUME NEW qs, Cache!Forget(qs)
      PROVE  tcEntry' \in [Cache!Queries ->
                [seen : [Files -> Cache!Ids], sig : Cache!Ids] \cup {Cache!NoEntry}]
  BY <1>1, <1>6 DEF CacheBounds, Cache!Forget
<1>7. CASE Cache!WriteSucceeds
  <2>1. PICK qs : Cache!Forget(qs)
    BY <1>7 DEF Cache!WriteSucceeds
  <2>2. tcPast' \in [Files -> SUBSET Cache!Ids]
    BY <1>3, <1>5, <1>7 DEF Cache!WriteSucceeds
  <2>3. tcEntry' \in [Cache!Queries ->
          [seen : [Files -> Cache!Ids], sig : Cache!Ids] \cup {Cache!NoEntry}]
    BY <1>6, <2>1
  <2>4. Cache!WriteReturns /\ UNCHANGED <<tcDisk, tcSig, tcSeen, tcLapses>>
    BY <1>7 DEF Cache!WriteSucceeds
  <2>5. QED
    BY <1>1, <2>2, <2>3, <2>4 DEF Cache!WriteReturns, CacheBounds
<1>8. CASE Cache!RollBack
  <2>1. tcPast' \in [Files -> SUBSET Cache!Ids]
    <3>1. tcTarget.file \in Files /\ tcDisk[tcTarget.file].content \in Cache!Ids
      BY <1>1, <1>3, <1>8 DEF Cache!RollBack, CacheBounds
    <3>2. QED
      BY <1>5, <1>8, <3>1 DEF Cache!RollBack
  <2>2. tcDisk' \in [Files -> [sig : Cache!Ids, content : Cache!Ids]]
    BY <1>3, <1>4, <1>8 DEF Cache!RollBack
  <2>3. Cache!WriteReturns /\ UNCHANGED <<tcEntry, tcSig, tcSeen, tcLapses>>
    BY <1>8 DEF Cache!RollBack
  <2>4. QED
    BY <1>1, <2>1, <2>2, <2>3 DEF Cache!WriteReturns, CacheBounds
<1>9. CASE Cache!FailDirty
  <2>1. tcPast' \in [Files -> SUBSET Cache!Ids]
    BY <1>3, <1>5, <1>9 DEF Cache!FailDirty
  <2>2. /\ Cache!WriteReturns /\ UNCHANGED <<tcDisk, tcEntry, tcSig, tcSeen>>
        /\ tcLapses' = tcLapses \cup {"dirty"}
    BY <1>9 DEF Cache!FailDirty
  <2>3. QED
    BY <1>1, <2>1, <2>2 DEF Cache!WriteReturns, CacheBounds
<1>10. CASE Cache!Cancel
  BY <1>1, <1>10 DEF Cache!Cancel, CacheBounds
<1>11. ASSUME NEW f \in Files, Cache!OtherWrites(f) PROVE CacheBounds'
  <2>1. Cache!Fresh(f) \in Cache!Ids
    BY <1>1, <1>2, <1>11 DEF Cache!OtherWrites, Cache!Fresh, CacheBounds
  <2>2. tcDisk' \in [Files -> [sig : Cache!Ids, content : Cache!Ids]]
    BY <1>4, <1>11, <2>1 DEF Cache!OtherWrites
  <2>3. QED
    BY <1>1, <1>11, <2>2 DEF Cache!OtherWrites, CacheBounds
<1>12. ASSUME NEW f \in Files, NEW told \in BOOLEAN, Cache!Write(f, told) PROVE CacheBounds'
  <2>1. /\ Cache!Fresh(f) \in Cache!Ids /\ tcDisk[f].sig < MaxChanges
        /\ tcDisk[f].content \in Cache!Ids
    BY <1>1, <1>2, <1>12 DEF Cache!Write, Cache!Fresh, Cache!Ids, CacheBounds
  <2>2. tcDisk' \in [Files -> [sig : Cache!Ids, content : Cache!Ids]]
    BY <1>4, <1>12, <2>1 DEF Cache!Write
  <2>3. tcTarget'.file = f /\ tcTarget'.before \in Cache!Ids /\ tcWpc' = "changed"
    BY <1>12, <2>1 DEF Cache!Write
  <2>4. tcTarget' # Cache!NoTarget
    BY <1>1, <2>3 DEF Cache!NoTarget
  <2>5. QED
    BY <1>1, <1>12, <2>2, <2>3, <2>4 DEF Cache!Write, CacheBounds
<1>13. ASSUME NEW r \in Readers, Cache!Finish(r)
       PROVE  /\ tcSig' \in [Readers -> Cache!Ids]
              /\ tcSeen' \in [Readers -> [Files -> Cache!Ids]]
              /\ tcAwaited' \subseteq Readers \cup {Cache!Writer}
  BY <1>1, <1>2, <1>13 DEF Cache!Finish, CacheBounds
<1>14. ASSUME NEW r \in Readers, Cache!Hit(r) \/ Cache!ReadFails(r) PROVE CacheBounds'
  <2>1. Cache!Finish(r) /\ UNCHANGED <<tcDisk, tcEntry, tcWpc, tcTarget, tcPast, tcLapses>>
    BY <1>14 DEF Cache!Hit, Cache!ReadFails
  <2>2. QED
    BY <1>1, <1>13, <2>1 DEF CacheBounds
<1>15. ASSUME NEW r \in Readers, Cache!Miss(r) PROVE CacheBounds'
  <2>1. Cache!Sig(tcQuery[r]) \in Cache!Ids
    BY <1>1, <1>2 DEF CacheBounds, Cache!Sig
  <2>2. Cache!Forget({tcQuery[r]}) /\ tcSig' = [tcSig EXCEPT ![r] = Cache!Sig(tcQuery[r])]
        /\ UNCHANGED <<tcDisk, tcSeen, tcWpc, tcTarget, tcAwaited, tcPast, tcLapses>>
    BY <1>15 DEF Cache!Miss
  <2>3. tcEntry' \in [Cache!Queries ->
          [seen : [Files -> Cache!Ids], sig : Cache!Ids] \cup {Cache!NoEntry}]
    BY <1>6, <2>2
  <2>4. QED
    BY <1>1, <2>1, <2>2, <2>3 DEF CacheBounds
<1>16. ASSUME NEW r \in Readers, Cache!Read(r) PROVE CacheBounds'
  <2>1. Cache!Contents \in [Files -> Cache!Ids]
    BY <1>1 DEF CacheBounds, Cache!Contents
  <2>2. QED
    BY <1>1, <1>16, <2>1 DEF Cache!Read, CacheBounds
<1>17. ASSUME NEW r \in Readers, Cache!Store(r) PROVE CacheBounds'
  <2>1. [seen |-> tcSeen[r], sig |-> tcSig[r]] \in [seen : [Files -> Cache!Ids], sig : Cache!Ids]
    BY <1>1 DEF CacheBounds
  <2>2. tcEntry' \in [Cache!Queries ->
          [seen : [Files -> Cache!Ids], sig : Cache!Ids] \cup {Cache!NoEntry}]
    BY <1>1, <1>17, <2>1 DEF Cache!Store, CacheBounds
  <2>3. Cache!Finish(r) /\ UNCHANGED <<tcDisk, tcWpc, tcTarget, tcPast, tcLapses>>
    BY <1>17 DEF Cache!Store
  <2>4. QED
    BY <1>1, <1>13, <2>2, <2>3 DEF CacheBounds
<1>18. ASSUME NEW r \in Readers, NEW q \in Cache!Queries, Cache!StartRead(r, q)
       PROVE  CacheBounds'
  BY <1>1, <1>18 DEF Cache!StartRead, CacheBounds
<1>19. QED
  BY CacheSteps, <1>7, <1>8, <1>9, <1>10, <1>11, <1>12, <1>14, <1>15, <1>16, <1>17, <1>18

\* An order without some queries is the order of the entries without them.
LEMMA LeftIsOrdered ==
  ASSUME NEW o, NEW e, NEW e1, NEW qs, Ordered(o, e),
         \A q \in Cache!Queries : e1[q] # Cache!NoEntry <=> q \notin qs /\ e[q] # Cache!NoEntry
  PROVE  Ordered(Left(o, qs), e1)
<1>1. PICK w : w = Left(o, qs)
  OBVIOUS
<1>2. o \in Seq(Cache!Queries) /\ \A j, k \in DOMAIN o : o[j] = o[k] => j = k
  BY DEF Ordered
<1>3. /\ w \in Seq(Cache!Queries) /\ \A j, k \in DOMAIN w : w[j] = w[k] => j = k
      /\ \A q : (\E k \in DOMAIN w : w[k] = q) <=> q \notin qs /\ \E k \in DOMAIN o : o[k] = q
      /\ Len(w) \in Nat /\ Len(w) <= Len(o) /\ Len(o) \in Nat
  BY <1>1, <1>2, LeftFacts
<1>4. \A q \in Cache!Queries : e1[q] # Cache!NoEntry <=> \E k \in DOMAIN w : w[k] = q
  BY <1>3 DEF Ordered
<1>5. Len(w) <= MaxEntries
  <2>1. Len(o) <= MaxEntries /\ MaxEntries \in Nat
    BY SharedAssumption DEF Ordered, Cache!QueryAssumption
  <2>2. QED
    BY <1>3, <2>1
<1>6. QED
  BY <1>1, <1>3, <1>4, <1>5 DEF Ordered

\* A query that is put at the end of an order that has it nowhere else.
LEMMA EndsWith ==
  ASSUME NEW w, NEW q \in Cache!Queries, NEW e1, w \in Seq(Cache!Queries),
         \A j, k \in DOMAIN w : w[j] = w[k] => j = k,
         \A p \in Cache!Queries :
           e1[p] # Cache!NoEntry <=> p = q \/ \E k \in DOMAIN w : w[k] = p,
         \A k \in DOMAIN w : w[k] # q,
         Len(w) < MaxEntries
  PROVE  Ordered(Append(w, q), e1)
<1>1. PICK o : o = Append(w, q)
  OBVIOUS
<1>2. /\ o \in Seq(Cache!Queries) /\ Len(o) = Len(w) + 1 /\ Len(w) \in Nat
      /\ DOMAIN o = 1 .. Len(w) + 1 /\ DOMAIN w = 1 .. Len(w)
      /\ o[Len(w) + 1] = q /\ \A k \in DOMAIN w : o[k] = w[k]
  BY <1>1
<1>3. \A k \in DOMAIN o : k \in DOMAIN w \/ k = Len(w) + 1
  BY <1>2
<1>4. \A j, k \in DOMAIN o : o[j] = o[k] => j = k
  BY <1>2, <1>3
<1>5. \A p : (\E k \in DOMAIN o : o[k] = p) <=> p = q \/ \E k \in DOMAIN w : w[k] = p
  BY <1>2, <1>3
<1>6. Len(o) <= MaxEntries
  BY <1>2, SharedAssumption DEF Cache!QueryAssumption
<1>7. QED
  BY <1>1, <1>2, <1>4, <1>5, <1>6 DEF Ordered

\* What the operation of the cache leaves of its order.
LEMMA WithoutIsLeft == \A qs : Cache!Without(qs) = Left(tcOrder, qs)
BY CacheOperators DEF Cache!Without, Left

\* An order, once all queries of a set are dropped from it and one is put at its
\* end, has room for that one and lists it once.
LEMMA PutLast ==
  ASSUME NEW o, NEW e, NEW e1, NEW qs, NEW q \in Cache!Queries, Ordered(o, e), q \in qs,
         Len(o) < MaxEntries \/ \E k \in DOMAIN o : o[k] \in qs,
         \A p \in Cache!Queries :
           e1[p] # Cache!NoEntry <=> p = q \/ (p \notin qs /\ e[p] # Cache!NoEntry)
  PROVE  Ordered(Append(Left(o, qs), q), e1)
<1>1. PICK w : w = Left(o, qs)
  OBVIOUS
<1>2. /\ o \in Seq(Cache!Queries) /\ \A j, k \in DOMAIN o : o[j] = o[k] => j = k
      /\ Len(o) <= MaxEntries /\ MaxEntries \in Nat
  BY SharedAssumption DEF Ordered, Cache!QueryAssumption
<1>3. /\ w \in Seq(Cache!Queries) /\ \A j, k \in DOMAIN w : w[j] = w[k] => j = k
      /\ \A p : (\E k \in DOMAIN w : w[k] = p) <=> p \notin qs /\ \E k \in DOMAIN o : o[k] = p
      /\ Len(w) \in Nat /\ Len(w) <= Len(o) /\ Len(o) \in Nat
  BY <1>1, <1>2, LeftFacts
<1>4. Len(w) < MaxEntries
  <2>1. (\E k \in DOMAIN o : o[k] \in qs) => Len(w) < Len(o)
    BY <1>1, <1>2, LeftFacts
  <2>2. QED
    BY <1>2, <1>3, <2>1
<1>5. \A p \in Cache!Queries :
        e1[p] # Cache!NoEntry <=> p = q \/ \E k \in DOMAIN w : w[k] = p
  BY <1>3 DEF Ordered
<1>6. \A k \in DOMAIN w : w[k] # q
  BY <1>3
<1>7. QED
  BY <1>1, <1>3, <1>4, <1>5, <1>6, EndsWith

\* The order lists the entries, once each and within the capacity, whatever is
\* dropped, looked at or stored.
LEMMA OrderKept ==
  ASSUME CacheInv, Ordered(tcOrder, tcEntry), Cache!Next
  PROVE  Ordered(tcOrder, tcEntry)'
<1> USE DEF Cache!cache
<1>1. /\ CacheTypes
      /\ \A r \in Readers : tcPc[r] # "idle" => tcQuery[r] \in Cache!Queries
  BY DEF CacheInv, CacheTypes
<1>2. ASSUME UNCHANGED <<tcEntry, tcOrder>> PROVE Ordered(tcOrder, tcEntry)'
  BY <1>2
<1>3. ASSUME NEW qs, Cache!Forget(qs) PROVE Ordered(tcOrder, tcEntry)'
  <2>1. \A q \in Cache!Queries :
          tcEntry'[q] # Cache!NoEntry <=> q \notin qs /\ tcEntry[q] # Cache!NoEntry
    BY <1>3 DEF Cache!Forget
  <2>2. tcOrder' = Left(tcOrder, qs)
    BY <1>3, WithoutIsLeft DEF Cache!Forget
  <2>3. Ordered(Left(tcOrder, qs), tcEntry')
    BY <2>1, LeftIsOrdered
  <2>4. QED
    BY <2>2, <2>3
<1>4. ASSUME NEW r \in Readers, Cache!Hit(r) PROVE Ordered(tcOrder, tcEntry)'
  <2>1. PICK q \in Cache!Queries : q = tcQuery[r]
    BY <1>1, <1>4 DEF Cache!Hit
  <2>2. tcEntry[q] # Cache!NoEntry /\ tcEntry' = tcEntry
        /\ tcOrder' = Append(Left(tcOrder, {q}), q)
    BY <1>4, <2>1, WithoutIsLeft DEF Cache!Hit, Cache!Matches
  <2>3. \E k \in DOMAIN tcOrder : tcOrder[k] \in {q}
    BY <2>2 DEF Ordered
  <2>4. \A p \in Cache!Queries :
          tcEntry[p] # Cache!NoEntry <=> p = q \/ (p \notin {q} /\ tcEntry[p] # Cache!NoEntry)
    BY <2>2
  <2>5. Ordered(Append(Left(tcOrder, {q}), q), tcEntry)
    BY <2>3, <2>4, PutLast
  <2>6. QED
    BY <2>2, <2>5
<1>5. ASSUME NEW r \in Readers, Cache!Store(r) PROVE Ordered(tcOrder, tcEntry)'
  <2>1. PICK q \in Cache!Queries : q = tcQuery[r]
    BY <1>1, <1>5 DEF Cache!Store
  <2>2. PICK out : out = IF tcEntry[q] = Cache!NoEntry /\ Len(tcOrder) >= MaxEntries
                         THEN {Head(tcOrder)} ELSE {}
    OBVIOUS
  <2>3. /\ tcEntry' = [p \in Cache!Queries |->
                         IF p = q THEN [seen |-> tcSeen[r], sig |-> tcSig[r]]
                         ELSE IF p \in out THEN Cache!NoEntry ELSE tcEntry[p]]
        /\ tcOrder' = Append(Left(tcOrder, out \cup {q}), q)
    BY <1>5, <2>1, <2>2, WithoutIsLeft DEF Cache!Store
  <2>4. [seen |-> tcSeen[r], sig |-> tcSig[r]] # Cache!NoEntry
    BY DEF Cache!NoEntry
  <2>5. \A p \in Cache!Queries :
          tcEntry'[p] # Cache!NoEntry
            <=> p = q \/ (p \notin out \cup {q} /\ tcEntry[p] # Cache!NoEntry)
    BY <2>3, <2>4
  <2>6. Len(tcOrder) < MaxEntries \/ \E k \in DOMAIN tcOrder : tcOrder[k] \in out \cup {q}
    <3>1. Len(tcOrder) \in Nat /\ MaxEntries \in Nat /\ MaxEntries # 0
          /\ DOMAIN tcOrder = 1 .. Len(tcOrder)
      BY SharedAssumption DEF Ordered, Cache!QueryAssumption
    <3>2. CASE tcEntry[q] # Cache!NoEntry
      BY <3>2 DEF Ordered
    <3>3. CASE Len(tcOrder) >= MaxEntries /\ tcEntry[q] = Cache!NoEntry
      <4>1. 1 \in DOMAIN tcOrder /\ tcOrder[1] = Head(tcOrder)
        BY <3>1, <3>3 DEF Ordered
      <4>2. QED
        BY <2>2, <3>3, <4>1
    <3>4. QED
      BY <3>1, <3>2, <3>3
  <2>7. Ordered(Append(Left(tcOrder, out \cup {q}), q), tcEntry')
    BY <2>5, <2>6, PutLast
  <2>8. QED
    BY <2>3, <2>7
<1>6. CASE Cache!WriteSucceeds
  <2>1. PICK qs : Cache!Forget(qs)
    BY <1>6 DEF Cache!WriteSucceeds
  <2>2. QED
    BY <1>3, <2>1
<1>7. ASSUME NEW r \in Readers, Cache!Miss(r) PROVE Ordered(tcOrder, tcEntry)'
  BY <1>3, <1>7 DEF Cache!Miss
<1>8. CASE Cache!RollBack \/ Cache!FailDirty \/ Cache!Cancel
  BY <1>2, <1>8 DEF Cache!RollBack, Cache!FailDirty, Cache!Cancel
<1>9. ASSUME NEW f \in Files, Cache!OtherWrites(f) \/ \E told \in BOOLEAN : Cache!Write(f, told)
      PROVE  Ordered(tcOrder, tcEntry)'
  BY <1>2, <1>9 DEF Cache!OtherWrites, Cache!Write
<1>10. ASSUME NEW r \in Readers, Cache!Read(r) \/ Cache!ReadFails(r)
                \/ \E q \in Cache!Queries : Cache!StartRead(r, q)
       PROVE  Ordered(tcOrder, tcEntry)'
  BY <1>2, <1>10 DEF Cache!Read, Cache!ReadFails, Cache!StartRead
<1>11. QED
  BY CacheSteps, <1>4, <1>5, <1>6, <1>7, <1>8, <1>9, <1>10

\* What is known of a cache stays so.
LEMMA CacheFactsStay ==
  ASSUME CacheFacts, Cache!Next \/ UNCHANGED cacheVars
  PROVE  CacheFacts'
<1>1. CacheInv /\ CacheBounds /\ Ordered(tcOrder, tcEntry)
  BY DEF CacheFacts
<1>2. CacheInv'
  BY <1>1, CacheNext
<1>3. CASE UNCHANGED cacheVars
  BY <1>1, <1>2, <1>3 DEF cacheVars, CacheBounds, CacheFacts, Ordered
<1>4. CASE Cache!Next
  BY <1>1, <1>2, <1>4, BoundsKept, OrderKept DEF CacheFacts
<1>5. QED
  BY <1>3, <1>4

\* The types of the cache, and what its order says.
LEMMA CacheTyped == CacheFacts => Cache!TypeOK
<1>1. SUFFICES ASSUME CacheFacts PROVE Cache!TypeOK
  OBVIOUS
<1>2. CacheInv /\ CacheBounds /\ Ordered(tcOrder, tcEntry)
  BY <1>1 DEF CacheFacts
<1>3. /\ Cache!ToSet(tcOrder) = {q \in Cache!Queries : tcEntry[q] # Cache!NoEntry}
      /\ Len(tcOrder) = Cardinality(Cache!ToSet(tcOrder)) /\ Len(tcOrder) <= MaxEntries
  BY <1>2, OrderCounts DEF Ordered
<1>4. Cache!Cardinality(Cache!ToSet(tcOrder)) = Cardinality(Cache!ToSet(tcOrder))
  BY CacheOperators
<1>5. QED
  BY <1>2, <1>3, <1>4 DEF Cache!TypeOK, CacheInv, CacheTypes, CacheBounds

-----------------------------------------------------------------------------
(***************************************************************************)
(* The failure patterns                                                    *)
(***************************************************************************)
\* The instance has its own copies of the operators on sets.
LEMMA PatternOperators ==
  /\ \A S : Patterns!Cardinality(S) = Cardinality(S)
  /\ \A S : Patterns!IsFiniteSet(S) <=> IsFiniteSet(S)
<1>1. \A S : Patterns!Cardinality(S) = Cardinality(S)
  BY DEF Patterns!Cardinality, Cardinality
<1>2. \A S : Patterns!IsFiniteSet(S) <=> IsFiniteSet(S)
  BY DEF Patterns!IsFiniteSet, IsFiniteSet
<1>3. QED
  BY <1>1, <1>2

\* What is assumed of the constants of the failure patterns.
LEMMA PatternConstants ==
  /\ FlushInterval \in Nat /\ FlushInterval >= 1 /\ MaxPatterns \in Nat /\ MaxPatterns >= 1
  /\ MaxRecords \in Nat /\ MaxCount \in Nat /\ MaxDeletions \in Nat
  /\ IsFiniteSet(Learners) /\ IsFiniteSet(Keys)
  BY StoresAssumption, PatternOperators DEF Patterns!SizeAssumption

\* Counts without their bound.
Tallies == [Keys -> Nat]

\* Counts within their bound, and none at all.
LEMMA CountTypes ==
  /\ Patterns!None \in Patterns!Counts /\ Patterns!Present(Patterns!None) = {} /\ \A k \in Keys : Patterns!None[k] = 0
  /\ \A d \in Patterns!Counts : d \in Tallies
  /\ \A d \in Tallies : (\A k \in Keys : d[k] <= MaxCount) => d \in Patterns!Counts
<1>1. \A k \in Keys : Patterns!None[k] = 0
  BY DEF Patterns!None
<1>2. Patterns!None \in Patterns!Counts
  BY PatternConstants DEF Patterns!None, Patterns!Counts
<1>3. Patterns!Present(Patterns!None) = {}
  BY <1>1 DEF Patterns!Present
<1>4. \A d \in Patterns!Counts : d \in Tallies
  BY PatternConstants DEF Patterns!Counts, Tallies
<1>5. \A d \in Tallies : (\A k \in Keys : d[k] <= MaxCount) => d \in Patterns!Counts
  BY PatternConstants DEF Patterns!Counts, Tallies
<1>6. QED
  BY <1>1, <1>2, <1>3, <1>4, <1>5

\* Merging adds what memory has gained to what is on disk.
LEMMA MergeTypes ==
  ASSUME NEW d \in Tallies, NEW m \in Tallies, NEW b \in Tallies
  PROVE  /\ Patterns!Merge(d, m, b) \in Tallies
         /\ \A k \in Keys : b[k] <= m[k] /\ b[k] <= d[k] => Patterns!Merge(d, m, b)[k] = d[k] + (m[k] - b[k])
<1>1. ASSUME NEW k \in Keys
      PROVE  /\ Patterns!Merge(d, m, b)[k] \in Nat
             /\ b[k] <= m[k] /\ b[k] <= d[k] => Patterns!Merge(d, m, b)[k] = d[k] + (m[k] - b[k])
  <2>1. d[k] \in Nat /\ m[k] \in Nat /\ b[k] \in Nat
    BY DEF Tallies
  <2>2. Patterns!Merge(d, m, b)[k] = IF m[k] = 0 \/ d[k] = 0 THEN d[k] + m[k]
                            ELSE IF m[k] >= b[k] THEN d[k] + (m[k] - b[k])
                            ELSE m[k] + Patterns!Bigger(0, d[k] - b[k])
    BY DEF Patterns!Merge
  <2>3. Patterns!Bigger(0, d[k] - b[k]) \in Nat
    BY <2>1 DEF Patterns!Bigger
  <2>4. QED
    BY <2>1, <2>2, <2>3
<1>2. Patterns!Merge(d, m, b) = [k \in Keys |-> Patterns!Merge(d, m, b)[k]]
  BY DEF Patterns!Merge
<1>3. QED
  BY <1>1, <1>2 DEF Tallies

\* What is kept of the counts is no more than the cap.
LEMMA KeptFacts ==
  ASSUME NEW d \in Tallies, NEW ks \in Patterns!Kept(d)
  PROVE  /\ Patterns!Only(d, ks) \in Tallies /\ \A k \in Keys : Patterns!Only(d, ks)[k] <= d[k]
         /\ Patterns!Cardinality(Patterns!Present(Patterns!Only(d, ks))) <= MaxPatterns
         /\ ks = Patterns!Present(d) => Patterns!Only(d, ks) = d
<1>1. /\ Patterns!Present(d) \in SUBSET Keys /\ ks \subseteq Patterns!Present(d)
      /\ Patterns!Cardinality(ks) <= MaxPatterns
  BY DEF Patterns!Kept, Patterns!Present
<1>2. \A k \in Keys : d[k] \in Nat /\ Patterns!Only(d, ks)[k] = IF k \in ks THEN d[k] ELSE 0
  BY DEF Patterns!Only, Tallies
<1>3. Patterns!Present(Patterns!Only(d, ks)) = ks
  BY <1>1, <1>2 DEF Patterns!Present
<1>4. Patterns!Only(d, ks) \in Tallies /\ \A k \in Keys : Patterns!Only(d, ks)[k] <= d[k]
  BY <1>2 DEF Patterns!Only, Tallies
<1>5. ASSUME ks = Patterns!Present(d) PROVE Patterns!Only(d, ks) = d
  <2>1. \A k \in Keys : Patterns!Only(d, ks)[k] = d[k]
    BY <1>2, <1>5 DEF Patterns!Present
  <2>2. QED
    BY <2>1 DEF Patterns!Only, Tallies
<1>6. QED
  BY <1>1, <1>3, <1>4, <1>5

\* A write puts what is kept in the file, or nothing.
LEMMA CountsWritten ==
  ASSUME Patterns!TypeOK, NEW d \in Tallies, NEW ks \in Patterns!Kept(d), NEW before,
         Patterns!Write(d, ks, before),
         before \subseteq {"decayed", "failed", "evicted"}, fpLapses \subseteq before
  PROVE  /\ fpDisk' = Patterns!Only(d, ks) \/ fpDisk' = fpDisk
         /\ fpDisk' \in Tallies /\ Patterns!Cardinality(Patterns!Present(fpDisk')) <= MaxPatterns
         /\ fpLapses' \subseteq {"decayed", "failed", "evicted"} /\ fpLapses \subseteq fpLapses'
         /\ before \subseteq fpLapses'
         /\ fpLapses' = {} => fpDisk' = d /\ Patterns!Only(d, ks) = d
<1>1. fpDisk \in Tallies /\ Patterns!Cardinality(Patterns!Present(fpDisk)) <= MaxPatterns
  BY CountTypes DEF Patterns!TypeOK
<1>2. /\ fpDisk' = Patterns!Only(d, ks) \/ fpDisk' = fpDisk
      /\ fpLapses' \subseteq {"decayed", "failed", "evicted"} /\ before \subseteq fpLapses'
      /\ fpLapses' = {} => fpDisk' = Patterns!Only(d, ks) /\ ks = Patterns!Present(d)
  <2> DEFINE out == IF ks = Patterns!Present(d) THEN {} ELSE {"evicted"}
  <2>1. \/ fpDisk' = Patterns!Only(d, ks) /\ fpLapses' = before \cup out
        \/ fpDisk' = fpDisk /\ fpLapses' = before \cup out \cup {"failed"}
    BY DEF Patterns!Write
  <2>2. out \subseteq {"evicted"} /\ (out = {} => ks = Patterns!Present(d))
    OBVIOUS
  <2> HIDE DEF out
  <2>3. QED
    BY <2>1, <2>2
<1>3. QED
  BY <1>1, <1>2, KeptFacts

\* A save puts the merged counts in the file and in memory.
LEMMA SaveKeeps ==
  ASSUME Patterns!TypeOK, NEW p \in Learners, NEW d \in Tallies, NEW before,
         Patterns!Save(p, d, before),
         before \subseteq {"decayed", "failed", "evicted"}, fpLapses \subseteq before
  PROVE  /\ fpDisk' \in Patterns!Counts
         /\ Patterns!Cardinality(Patterns!Present(fpDisk')) <= MaxPatterns
         /\ fpMem' \in [Learners -> Patterns!Counts] /\ fpBase' \in [Learners -> Patterns!Counts]
         /\ fpLoaded' \in [Learners -> BOOLEAN]
         /\ fpDirty' \in [Learners -> 0 .. FlushInterval - 1]
         /\ fpLapses' \subseteq {"decayed", "failed", "evicted"} /\ fpLapses \subseteq fpLapses'
         /\ before \subseteq fpLapses'
         /\ fpMem' = [fpMem EXCEPT ![p] = d] /\ fpLoaded' = [fpLoaded EXCEPT ![p] = TRUE]
         /\ fpDirty' = [fpDirty EXCEPT ![p] = 0]
         /\ fpLapses' = {} => fpDisk' = d /\ fpBase' = [fpBase EXCEPT ![p] = d]
<1>1. PICK ks \in Patterns!Kept(d) : Patterns!Write(d, ks, before) /\ fpBase' = [fpBase EXCEPT ![p] = Patterns!Only(d, ks)]
  BY DEF Patterns!Save
<1>2. /\ fpMem' = [fpMem EXCEPT ![p] = d] /\ fpLoaded' = [fpLoaded EXCEPT ![p] = TRUE]
      /\ fpDirty' = [fpDirty EXCEPT ![p] = 0] /\ \A k \in Keys : d[k] <= MaxCount
  BY DEF Patterns!Save
<1>3. d \in Patterns!Counts
  BY <1>2, CountTypes
<1>4. Patterns!Only(d, ks) \in Patterns!Counts
  <2>1. Patterns!Only(d, ks) \in Tallies /\ \A k \in Keys : Patterns!Only(d, ks)[k] <= d[k]
    BY <1>1, KeptFacts
  <2>2. \A k \in Keys : Patterns!Only(d, ks)[k] <= MaxCount
    BY <1>2, <2>1, PatternConstants DEF Tallies
  <2>3. QED
    BY <2>1, <2>2, CountTypes
<1>5. /\ fpDisk' = Patterns!Only(d, ks) \/ fpDisk' = fpDisk
      /\ Patterns!Cardinality(Patterns!Present(fpDisk')) <= MaxPatterns
      /\ fpLapses' \subseteq {"decayed", "failed", "evicted"} /\ fpLapses \subseteq fpLapses'
      /\ before \subseteq fpLapses'
      /\ fpLapses' = {} => fpDisk' = d /\ Patterns!Only(d, ks) = d
  BY <1>1, CountsWritten
<1>6. /\ fpMem \in [Learners -> Patterns!Counts] /\ fpBase \in [Learners -> Patterns!Counts]
      /\ fpDisk \in Patterns!Counts
      /\ fpLoaded \in [Learners -> BOOLEAN] /\ fpDirty \in [Learners -> 0 .. FlushInterval - 1]
  BY DEF Patterns!TypeOK
<1>7. 0 \in 0 .. FlushInterval - 1
  BY PatternConstants
<1>8. QED
  BY <1>1, <1>2, <1>3, <1>4, <1>5, <1>6, <1>7

\* At the start no pattern is known.
LEMMA PatternInit == ASSUME Patterns!Init PROVE Patterns!TypeOK
<1>1. Patterns!Cardinality(Patterns!Present(Patterns!None)) = 0
  BY CountTypes, FS_EmptySet, PatternOperators
<1>2. \A p \in Learners : 0 \in 0 .. FlushInterval - 1
  BY PatternConstants
<1>3. fpTold \in [Keys -> 0 .. MaxRecords]
  BY PatternConstants DEF Patterns!Init, Patterns!None
<1>4. QED
  BY <1>1, <1>2, <1>3, CountTypes, PatternConstants DEF Patterns!Init, Patterns!TypeOK

\* What a process has in memory, or would load.
LEMMA MemoryTypes ==
  ASSUME Patterns!TypeOK, NEW p \in Learners
  PROVE  /\ Patterns!Memory(p) \in Patterns!Counts /\ Patterns!Baseline(p) \in Patterns!Counts
         /\ fpDisk \in Tallies
         /\ Patterns!Memory(p) \in Tallies /\ Patterns!Baseline(p) \in Tallies
         /\ fpMem[p] \in Patterns!Counts /\ fpBase[p] \in Patterns!Counts /\ fpMem[p] \in Tallies
         /\ fpBase[p] \in Tallies
         /\ fpDirty[p] \in Nat /\ fpDeletions \in Nat /\ \A k \in Keys : fpTold[k] \in Nat
         /\ \A k \in Keys : Patterns!Pending(p, k) \in Nat /\ Patterns!Pending(p, k) <= MaxCount
         /\ \A k \in Keys : fpBase[p][k] <= fpMem[p][k] => Patterns!Pending(p, k) = fpMem[p][k] - fpBase[p][k]
<1>1. /\ Patterns!Memory(p) \in Patterns!Counts /\ Patterns!Baseline(p) \in Patterns!Counts
      /\ fpDisk \in Patterns!Counts
      /\ fpMem[p] \in Patterns!Counts /\ fpBase[p] \in Patterns!Counts
  BY DEF Patterns!TypeOK, Patterns!Memory, Patterns!Baseline
<1>2. fpDirty[p] \in Nat /\ fpDeletions \in Nat /\ \A k \in Keys : fpTold[k] \in Nat
  BY PatternConstants DEF Patterns!TypeOK
<1>3. \A k \in Keys : Patterns!Pending(p, k) \in Nat /\ Patterns!Pending(p, k) <= MaxCount
  <2>1. \A k \in Keys : fpMem[p][k] \in 0 .. MaxCount /\ fpBase[p][k] \in 0 .. MaxCount
    BY <1>1 DEF Patterns!Counts
  <2>2. QED
    BY <2>1, PatternConstants DEF Patterns!Pending
<1>4. \A k \in Keys : fpBase[p][k] <= fpMem[p][k] => Patterns!Pending(p, k) = fpMem[p][k] - fpBase[p][k]
  <2>1. \A k \in Keys : fpMem[p][k] \in Nat /\ fpBase[p][k] \in Nat
    BY <1>1, CountTypes DEF Tallies
  <2>2. QED
    BY <2>1 DEF Patterns!Pending
<1>5. QED
  BY <1>1, <1>2, <1>3, <1>4, CountTypes

\* The counts in memory after a record.
Counted(p, k, gone) == [Patterns!Memory(p) EXCEPT ![k] = IF gone THEN 1 ELSE @ + 1]

\* A record is one more of its key, kept in memory or saved.
LEMMA RecordFacts ==
  ASSUME Patterns!TypeOK, NEW p \in Learners, NEW k \in Keys, NEW gone \in BOOLEAN,
         Patterns!Record(p, k, gone)
  PROVE  /\ fpLife[p] = "live" /\ fpPc[p] = "idle"
         /\ UNCHANGED <<fpLife, fpPc, fpDeleted, fpDeletions>>
         /\ fpTold' = [fpTold EXCEPT ![k] = @ + 1] /\ fpTold' \in [Keys -> 0 .. MaxRecords]
         /\ Counted(p, k, gone) \in Patterns!Counts /\ Counted(p, k, gone) \in Tallies
         /\ fpDisk' \in Patterns!Counts
         /\ Patterns!Cardinality(Patterns!Present(fpDisk')) <= MaxPatterns
         /\ fpMem' \in [Learners -> Patterns!Counts] /\ fpBase' \in [Learners -> Patterns!Counts]
         /\ fpLoaded' \in [Learners -> BOOLEAN]
         /\ fpDirty' \in [Learners -> 0 .. FlushInterval - 1]
         /\ fpLapses' \subseteq {"decayed", "failed", "evicted"} /\ fpLapses \subseteq fpLapses'
         /\ gone => fpLapses' # {}
         /\ fpLoaded' = [fpLoaded EXCEPT ![p] = TRUE]
         /\ \/ LET d == Patterns!Merge(fpDisk, Counted(p, k, gone), Patterns!Baseline(p))
               IN  /\ d \in Tallies /\ fpMem' = [fpMem EXCEPT ![p] = d] /\ fpDirty' = [fpDirty EXCEPT ![p] = 0]
                   /\ fpLapses' = {} => fpDisk' = d /\ fpBase' = [fpBase EXCEPT ![p] = d]
            \/ /\ fpMem' = [fpMem EXCEPT ![p] = Counted(p, k, gone)]
               /\ fpBase' = [fpBase EXCEPT ![p] = Patterns!Baseline(p)]
               /\ fpDirty' = [fpDirty EXCEPT ![p] = @ + 1] /\ fpDisk' = fpDisk
<1> DEFINE m == Counted(p, k, gone)
           d == Patterns!Merge(fpDisk, m, Patterns!Baseline(p))
           before == IF gone THEN fpLapses \cup {"decayed"} ELSE fpLapses
<1>1. /\ fpLife[p] = "live" /\ fpPc[p] = "idle"
      /\ UNCHANGED <<fpLife, fpPc, fpDeleted, fpDeletions>>
      /\ fpTold' = [fpTold EXCEPT ![k] = @ + 1] /\ fpTold[k] < MaxRecords /\ m[k] <= MaxCount
      /\ IF fpDirty[p] + 1 >= FlushInterval THEN Patterns!Save(p, d, before)
         ELSE /\ fpMem' = [fpMem EXCEPT ![p] = m] /\ fpBase' = [fpBase EXCEPT ![p] = Patterns!Baseline(p)]
              /\ fpLoaded' = [fpLoaded EXCEPT ![p] = TRUE]
              /\ fpDirty' = [fpDirty EXCEPT ![p] = @ + 1]
              /\ fpLapses' = before /\ UNCHANGED fpDisk
  BY DEF Patterns!Record, Patterns!Ready, Counted
<1>2. fpTold' \in [Keys -> 0 .. MaxRecords]
  <2>1. fpTold \in [Keys -> 0 .. MaxRecords] /\ fpTold[k] + 1 \in 0 .. MaxRecords
    BY <1>1, PatternConstants DEF Patterns!TypeOK
  <2>2. QED
    BY <1>1, <2>1
<1>3. m \in Patterns!Counts /\ m \in Tallies
  <2>1. Patterns!Memory(p) \in Tallies
    BY MemoryTypes
  <2>2. /\ Patterns!Memory(p)[k] + 1 \in Nat
        /\ m = [Patterns!Memory(p) EXCEPT ![k] = IF gone THEN 1 ELSE @ + 1]
    BY <2>1 DEF Tallies, Counted
  <2> HIDE DEF m
  <2>3. m \in Tallies /\ \A j \in Keys : j # k => m[j] = Patterns!Memory(p)[j]
    BY <2>1, <2>2 DEF Tallies
  <2>4. \A j \in Keys : Patterns!Memory(p)[j] <= MaxCount
    BY MemoryTypes, PatternConstants DEF Patterns!Counts
  <2>5. \A j \in Keys : m[j] <= MaxCount
    BY <1>1, <2>3, <2>4 DEF m
  <2>6. QED
    BY <2>3, <2>5, CountTypes
<1>4. d \in Tallies
  BY <1>3, MemoryTypes, MergeTypes
<1>5. /\ before \subseteq {"decayed", "failed", "evicted"} /\ fpLapses \subseteq before
      /\ (gone => before # {})
  BY DEF Patterns!TypeOK
<1> HIDE DEF m, d, before
<1>6. CASE fpDirty[p] + 1 >= FlushInterval
  <2>1. Patterns!Save(p, d, before)
    BY <1>1, <1>6
  <2>2. /\ fpDisk' \in Patterns!Counts
        /\ Patterns!Cardinality(Patterns!Present(fpDisk')) <= MaxPatterns
        /\ fpMem' \in [Learners -> Patterns!Counts] /\ fpBase' \in [Learners -> Patterns!Counts]
        /\ fpLoaded' \in [Learners -> BOOLEAN]
        /\ fpDirty' \in [Learners -> 0 .. FlushInterval - 1]
        /\ fpLapses' \subseteq {"decayed", "failed", "evicted"} /\ fpLapses \subseteq fpLapses'
        /\ before \subseteq fpLapses'
        /\ fpMem' = [fpMem EXCEPT ![p] = d] /\ fpLoaded' = [fpLoaded EXCEPT ![p] = TRUE]
        /\ fpDirty' = [fpDirty EXCEPT ![p] = 0]
        /\ fpLapses' = {} => fpDisk' = d /\ fpBase' = [fpBase EXCEPT ![p] = d]
    BY <1>4, <1>5, <2>1, SaveKeeps
  <2>3. gone => fpLapses' # {}
    BY <1>5, <2>2
  <2>4. QED
    BY <1>1, <1>2, <1>3, <1>4, <2>2, <2>3 DEF m, d
<1>7. CASE ~(fpDirty[p] + 1 >= FlushInterval)
  <2>1. /\ fpMem' = [fpMem EXCEPT ![p] = m]
        /\ fpBase' = [fpBase EXCEPT ![p] = Patterns!Baseline(p)]
        /\ fpLoaded' = [fpLoaded EXCEPT ![p] = TRUE] /\ fpDirty' = [fpDirty EXCEPT ![p] = @ + 1]
        /\ fpLapses' = before /\ fpDisk' = fpDisk
    BY <1>1, <1>7
  <2>2. /\ fpDisk \in Patterns!Counts
        /\ Patterns!Cardinality(Patterns!Present(fpDisk)) <= MaxPatterns
        /\ fpMem \in [Learners -> Patterns!Counts] /\ fpBase \in [Learners -> Patterns!Counts]
        /\ fpLoaded \in [Learners -> BOOLEAN] /\ fpDirty \in [Learners -> 0 .. FlushInterval - 1]
    BY DEF Patterns!TypeOK
  <2>3. fpDirty[p] + 1 \in 0 .. FlushInterval - 1
    BY <1>7, <2>2, PatternConstants
  <2>4. Patterns!Baseline(p) \in Patterns!Counts
    BY MemoryTypes
  <2>5. /\ fpMem' \in [Learners -> Patterns!Counts] /\ fpBase' \in [Learners -> Patterns!Counts]
        /\ fpLoaded' \in [Learners -> BOOLEAN]
        /\ fpDirty' \in [Learners -> 0 .. FlushInterval - 1]
    BY <1>3, <2>1, <2>2, <2>3, <2>4
  <2>6. QED
    BY <1>1, <1>2, <1>3, <1>5, <2>1, <2>2, <2>5 DEF m
<1>8. QED
  BY <1>6, <1>7

\* The types of the patterns stay.
LEMMA PatternTypes == ASSUME Patterns!TypeOK, Patterns!Next PROVE Patterns!TypeOK'
<1> DEFINE Lapses == {"decayed", "failed", "evicted"}
<1>0. /\ fpDisk \in Patterns!Counts
      /\ Patterns!Cardinality(Patterns!Present(fpDisk)) <= MaxPatterns
      /\ fpLife \in [Learners -> {"live", "gone"}] /\ fpLoaded \in [Learners -> BOOLEAN]
      /\ fpMem \in [Learners -> Patterns!Counts] /\ fpBase \in [Learners -> Patterns!Counts]
      /\ fpDirty \in [Learners -> 0 .. FlushInterval - 1]
      /\ fpPc \in [Learners -> {"idle", "read", "save"}]
      /\ fpTold \in [Keys -> 0 .. MaxRecords] /\ fpDeleted \subseteq Keys
      /\ fpDeletions \in 0 .. MaxDeletions /\ fpLapses \subseteq {"decayed", "failed", "evicted"}
      /\ 0 \in 0 .. FlushInterval - 1 /\ Patterns!None \in Patterns!Counts
      /\ Patterns!None \in Tallies
      /\ fpDisk \in Tallies
  BY PatternConstants, CountTypes DEF Patterns!TypeOK
<1>1. ASSUME NEW p \in Learners, Patterns!Recall(p) PROVE Patterns!TypeOK'
  <2>1. Patterns!Merge(fpDisk, fpMem[p], fpBase[p]) \in Tallies
    BY MemoryTypes, MergeTypes
  <2>2. /\ fpMem' = [fpMem EXCEPT ![p] = Patterns!Merge(fpDisk, fpMem[p], fpBase[p])]
        /\ fpBase' = [fpBase EXCEPT ![p] = fpDisk] /\ fpLoaded' = [fpLoaded EXCEPT ![p] = TRUE]
        /\ \A k \in Keys : fpMem'[p][k] <= MaxCount
        /\ UNCHANGED <<fpDisk, fpLife, fpDirty, fpPc, fpTold, fpDeleted, fpDeletions, fpLapses>>
    BY <1>1 DEF Patterns!Recall, Patterns!users
  <2>3. fpMem'[p] = Patterns!Merge(fpDisk, fpMem[p], fpBase[p])
    BY <1>0, <2>2
  <2>4. fpMem'[p] \in Patterns!Counts
    BY <2>1, <2>2, <2>3, CountTypes
  <2>5. fpMem' \in [Learners -> Patterns!Counts]
    BY <1>0, <2>2, <2>3, <2>4
  <2>6. fpBase' \in [Learners -> Patterns!Counts] /\ fpLoaded' \in [Learners -> BOOLEAN]
    BY <1>0, <2>2
  <2>7. QED
    BY <1>0, <2>2, <2>5, <2>6 DEF Patterns!TypeOK
<1>2. ASSUME NEW p \in Learners, Patterns!RecallEmpty(p) PROVE Patterns!TypeOK'
  BY <1>0, <1>2 DEF Patterns!RecallEmpty, Patterns!users, Patterns!TypeOK
<1>3. ASSUME NEW p \in Learners, Patterns!Exit(p) PROVE Patterns!TypeOK'
  <2>1. Patterns!Merge(fpDisk, fpMem[p], fpBase[p]) \in Tallies
    BY MemoryTypes, MergeTypes
  <2>2. /\ Patterns!Save(p, Patterns!Merge(fpDisk, fpMem[p], fpBase[p]), fpLapses)
        /\ fpLife' = [fpLife EXCEPT ![p] = "gone"]
        /\ UNCHANGED <<fpPc, fpTold, fpDeleted, fpDeletions>>
    BY <1>3 DEF Patterns!Exit, Patterns!users
  <2>3. fpLife' \in [Learners -> {"live", "gone"}]
    BY <1>0, <2>2
  <2>4. QED
    BY <1>0, <2>1, <2>2, <2>3, SaveKeeps DEF Patterns!TypeOK
<1>4. ASSUME NEW p \in Learners, Patterns!Kill(p) PROVE Patterns!TypeOK'
  <2>1. fpTold' \in [Keys -> 0 .. MaxRecords]
    <3>1. \A k \in Keys : fpTold[k] - (IF Patterns!Pending(p, k) > fpTold[k] THEN fpTold[k] ELSE Patterns!Pending(p, k)) \in 0 .. MaxRecords
      <4>1. \A k \in Keys : fpTold[k] \in 0 .. MaxRecords /\ Patterns!Pending(p, k) \in Nat
        BY <1>0, MemoryTypes
      <4>2. QED
        BY <4>1, PatternConstants
    <3>2. QED
      BY <1>4, <3>1 DEF Patterns!Kill
  <2>2. QED
    BY <1>0, <1>4, <2>1 DEF Patterns!Kill, Patterns!TypeOK
<1>5. ASSUME NEW p \in Learners, Patterns!BeginDrop(p) PROVE Patterns!TypeOK'
  <2>1. /\ fpDeletions < MaxDeletions /\ fpDeletions' = fpDeletions + 1
        /\ fpMem' = [fpMem EXCEPT ![p] = Patterns!None]
        /\ fpBase' = [fpBase EXCEPT ![p] = Patterns!None]
        /\ fpLoaded' = [fpLoaded EXCEPT ![p] = FALSE] /\ fpDirty' = [fpDirty EXCEPT ![p] = 0]
        /\ fpPc' = [fpPc EXCEPT ![p] = "read"] /\ \A k \in Keys : fpDisk'[k] <= MaxCount
        /\ UNCHANGED <<fpLife, fpTold, fpDeleted>>
    BY <1>5 DEF Patterns!BeginDrop, Patterns!MayDelete
  <2>2. fpDeletions' \in 0 .. MaxDeletions
    BY <1>0, <2>1, PatternConstants
  <2>3. /\ fpDisk' \in Tallies /\ Patterns!Cardinality(Patterns!Present(fpDisk')) <= MaxPatterns
        /\ fpLapses' \subseteq Lapses
    <3>1. CASE fpDirty[p] > 0
      <4> DEFINE d == Patterns!Merge(fpDisk, fpMem[p], fpBase[p])
      <4>1. d \in Tallies
        BY MemoryTypes, MergeTypes
      <4>2. PICK ks \in Patterns!Kept(d) : Patterns!Write(d, ks, fpLapses)
        BY <1>5, <3>1 DEF Patterns!BeginDrop
      <4> HIDE DEF d
      <4>3. QED
        BY <1>0, <4>1, <4>2, CountsWritten
    <3>2. CASE ~(fpDirty[p] > 0)
      BY <1>0, <1>5, <3>2 DEF Patterns!BeginDrop
    <3>3. QED
      BY <3>1, <3>2
  <2>4. fpDisk' \in Patterns!Counts
    BY <2>1, <2>3, CountTypes
  <2>5. /\ fpMem' \in [Learners -> Patterns!Counts] /\ fpBase' \in [Learners -> Patterns!Counts]
        /\ fpLoaded' \in [Learners -> BOOLEAN]
        /\ fpDirty' \in [Learners -> 0 .. FlushInterval - 1]
        /\ fpPc' \in [Learners -> {"idle", "read", "save"}]
    BY <1>0, <2>1
  <2>6. QED
    BY <1>0, <2>1, <2>2, <2>3, <2>4, <2>5 DEF Patterns!TypeOK
<1>6. ASSUME NEW p \in Learners, Patterns!ReadToDrop(p) PROVE Patterns!TypeOK'
  BY <1>0, <1>6 DEF Patterns!ReadToDrop, Patterns!users, Patterns!TypeOK
<1>7. ASSUME NEW p \in Learners, Patterns!Clear(p) PROVE Patterns!TypeOK'
  <2>1. /\ Patterns!Save(p, Patterns!None, fpLapses) /\ fpDeletions < MaxDeletions
        /\ fpDeletions' = fpDeletions + 1
        /\ fpDeleted' = Keys /\ UNCHANGED <<fpLife, fpPc, fpTold>>
    BY <1>7 DEF Patterns!Clear, Patterns!MayDelete
  <2>2. fpDeletions' \in 0 .. MaxDeletions
    BY <1>0, <2>1, PatternConstants
  <2>3. QED
    BY <1>0, <2>1, <2>2, SaveKeeps DEF Patterns!TypeOK
<1>8. ASSUME NEW p \in Learners, NEW k \in Keys, NEW gone \in BOOLEAN, Patterns!Record(p, k, gone) PROVE Patterns!TypeOK'
  BY <1>0, <1>8, RecordFacts DEF Patterns!TypeOK
<1>9. ASSUME NEW p \in Learners, NEW ks \in SUBSET Keys, Patterns!SaveDropped(p, ks) PROVE Patterns!TypeOK'
  <2>1. /\ Patterns!Save(p, Patterns!Only(fpMem[p], Keys \ ks), fpLapses)
        /\ fpDeleted' = fpDeleted \cup ks
        /\ fpPc' = [fpPc EXCEPT ![p] = "idle"] /\ UNCHANGED <<fpLife, fpTold, fpDeletions>>
    BY <1>9 DEF Patterns!SaveDropped
  <2>2. Patterns!Only(fpMem[p], Keys \ ks) \in Tallies
    BY MemoryTypes DEF Patterns!Only, Tallies
  <2>3. fpPc' \in [Learners -> {"idle", "read", "save"}]
    BY <1>0, <2>1
  <2>4. QED
    BY <1>0, <2>1, <2>2, <2>3, SaveKeeps DEF Patterns!TypeOK
<1>10. QED
  BY <1>1, <1>2, <1>3, <1>4, <1>5, <1>6, <1>7, <1>8, <1>9 DEF Patterns!Next

\* How far the counts m of p are ahead of the baseline b.
Ahead(m, b, p, k) == IF m[p][k] >= b[p][k] THEN m[p][k] - b[p][k] ELSE 0
\* The records some processes have yet to write, one by one.
AheadIn(ps, m, b, k) == UNION {{q} \X (1 .. Ahead(m, b, q, k)) : q \in ps}

\* Counts, of each process.
Tables == [Learners -> Patterns!Counts]

\* How far a process is ahead is a number.
LEMMA AheadTypes ==
  ASSUME NEW m \in Tables, NEW b \in Tables, NEW p \in Learners, NEW k \in Keys
  PROVE  Ahead(m, b, p, k) \in 0 .. MaxCount
<1>1. m[p][k] \in 0 .. MaxCount /\ b[p][k] \in 0 .. MaxCount
  BY DEF Tables, Patterns!Counts
<1>2. QED
  BY <1>1, PatternConstants DEF Ahead

\* The records of one process are counted beside those of the others.
LEMMA PendingCount ==
  ASSUME NEW m \in Tables, NEW b \in Tables, NEW p \in Learners, NEW k \in Keys
  PROVE  /\ Patterns!Cardinality(AheadIn(Learners \ {p}, m, b, k)) \in Nat
         /\ Patterns!Cardinality(AheadIn(Learners, m, b, k)) =
              Ahead(m, b, p, k) + Patterns!Cardinality(AheadIn(Learners \ {p}, m, b, k))
<1> DEFINE own == {p} \X (1 .. Ahead(m, b, p, k))
           rest == AheadIn(Learners \ {p}, m, b, k)
           all == AheadIn(Learners, m, b, k)
           space == Learners \X (1 .. MaxCount)
<1>1. \A q \in Learners : Ahead(m, b, q, k) \in 0 .. MaxCount
  BY AheadTypes
<1>2. IsFiniteSet(space)
  <2>1. IsFiniteSet(1 .. MaxCount)
    BY PatternConstants, FS_Interval, PatternOperators
  <2>2. IsFiniteSet(Learners)
    BY PatternConstants
  <2> HIDE DEF own, rest, all
  <2>3. QED
    BY <2>1, <2>2, FS_Product, PatternOperators
<1>3. \A q \in Learners : {q} \X (1 .. Ahead(m, b, q, k)) \subseteq space
  BY <1>1, PatternConstants
<1>4. rest \subseteq space
  BY <1>3 DEF AheadIn
<1>5. own \cap rest = {}
  BY DEF AheadIn
<1>6. all = own \cup rest
  BY DEF AheadIn
<1>7. IsFiniteSet(own) /\ Patterns!Cardinality(own) = Ahead(m, b, p, k)
  <2>1. Ahead(m, b, p, k) \in Nat
    BY <1>1
  <2>2. /\ IsFiniteSet(1 .. Ahead(m, b, p, k))
        /\ Cardinality(1 .. Ahead(m, b, p, k)) = Ahead(m, b, p, k)
    BY <2>1, FS_Interval
  <2>3. IsFiniteSet({p}) /\ Cardinality({p}) = 1
    BY FS_Singleton
  <2>4. PICK one, few : one = {p} /\ few = 1 .. Ahead(m, b, p, k)
    OBVIOUS
  <2>5. /\ IsFiniteSet(one \X few)
        /\ Cardinality(one \X few) = Cardinality(one) * Cardinality(few)
    BY <2>2, <2>3, <2>4, FS_Product
  <2>6. QED
    BY <2>1, <2>2, <2>3, <2>4, <2>5, PatternOperators
<1> HIDE DEF own, rest, all, space
<1>8. IsFiniteSet(rest) /\ Patterns!Cardinality(rest) \in Nat
  BY <1>2, <1>4, FS_Subset, FS_CardinalityType, PatternOperators
<1>9. Patterns!Cardinality(all) = Patterns!Cardinality(own) + Patterns!Cardinality(rest) - Patterns!Cardinality(own \cap rest)
  BY <1>6, <1>7, <1>8, FS_Union, PatternOperators
<1>10. Patterns!Cardinality(own \cap rest) = 0
  BY <1>5, FS_EmptySet, PatternOperators
<1>11. Patterns!Cardinality(own) \in Nat
  BY <1>7, FS_CardinalityType, PatternOperators
<1>12. QED
  BY <1>7, <1>8, <1>9, <1>10, <1>11 DEF rest, all

\* While nothing is deleted, decays, fails or meets the cap: a process counts on
\* from a baseline that the file has reached, with nothing to write counts what
\* the baseline does, and the counts on disk and pending are those told.
AddsUp ==
  fpDeletions = 0 /\ fpLapses = {} =>
    /\ \A p \in Learners :
         /\ fpPc[p] = "idle"
         /\ ~fpLoaded[p] => fpMem[p] = Patterns!None /\ fpBase[p] = Patterns!None /\ fpDirty[p] = 0
         /\ fpDirty[p] = 0 => fpMem[p] = fpBase[p]
         /\ \A k \in Keys : fpBase[p][k] <= fpMem[p][k] /\ fpBase[p][k] <= fpDisk[k]
    /\ \A k \in Keys : Patterns!OnDiskOrPending(k) = fpTold[k]

\* What AddsUp says where nothing has been lost or deleted.
LEMMA CountFacts ==
  ASSUME Patterns!TypeOK, AddsUp, fpDeletions = 0, fpLapses = {}, NEW p \in Learners
  PROVE  /\ fpPc[p] = "idle"
         /\ fpDirty[p] = 0 => fpMem[p] = fpBase[p]
         /\ ~fpLoaded[p] => fpMem[p] = Patterns!None /\ fpBase[p] = Patterns!None /\ fpDirty[p] = 0
         /\ \A k \in Keys :
              /\ fpBase[p][k] <= fpMem[p][k] /\ fpBase[p][k] <= fpDisk[k]
              /\ Ahead(fpMem, fpBase, p, k) = fpMem[p][k] - fpBase[p][k]
              /\ Patterns!Baseline(p)[k] <= Patterns!Memory(p)[k]
              /\ Patterns!Baseline(p)[k] <= fpDisk[k]
              /\ Patterns!Memory(p)[k] - Patterns!Baseline(p)[k] = Ahead(fpMem, fpBase, p, k)
              /\ fpDisk[k] \in Nat /\ fpMem[p][k] \in Nat /\ fpBase[p][k] \in Nat
              /\ fpTold[k] \in Nat
              /\ Patterns!Memory(p)[k] \in Nat /\ Patterns!Baseline(p)[k] \in Nat
              /\ Ahead(fpMem, fpBase, p, k) \in Nat /\ Ahead(fpMem, fpBase, p, k) <= fpTold[k]
<1>1. /\ fpPc[p] = "idle"
      /\ fpDirty[p] = 0 => fpMem[p] = fpBase[p]
      /\ ~fpLoaded[p] => fpMem[p] = Patterns!None /\ fpBase[p] = Patterns!None /\ fpDirty[p] = 0
  BY DEF AddsUp
<1>2. ASSUME NEW k \in Keys
      PROVE  /\ fpBase[p][k] <= fpMem[p][k] /\ fpBase[p][k] <= fpDisk[k]
             /\ fpDisk[k] \in Nat /\ fpMem[p][k] \in Nat /\ fpBase[p][k] \in Nat
             /\ fpTold[k] \in Nat
             /\ Patterns!Memory(p)[k] \in Nat /\ Patterns!Baseline(p)[k] \in Nat
  BY MemoryTypes DEF AddsUp, Tallies
<1>3. ASSUME NEW k \in Keys
      PROVE  /\ Ahead(fpMem, fpBase, p, k) = fpMem[p][k] - fpBase[p][k]
             /\ Patterns!Baseline(p)[k] <= Patterns!Memory(p)[k]
             /\ Patterns!Baseline(p)[k] <= fpDisk[k]
             /\ Patterns!Memory(p)[k] - Patterns!Baseline(p)[k] = Ahead(fpMem, fpBase, p, k)
  <2>1. Ahead(fpMem, fpBase, p, k) = fpMem[p][k] - fpBase[p][k]
    BY <1>2 DEF Ahead
  <2>2. CASE fpLoaded[p]
    BY <1>2, <2>1, <2>2 DEF Patterns!Memory, Patterns!Baseline
  <2>3. CASE ~fpLoaded[p]
    <3>1. fpMem[p][k] = 0 /\ fpBase[p][k] = 0
      BY <1>1, <2>3 DEF Patterns!None
    <3>2. Patterns!Memory(p)[k] = fpDisk[k] /\ Patterns!Baseline(p)[k] = fpDisk[k]
      BY <2>3 DEF Patterns!Memory, Patterns!Baseline
    <3>3. QED
      BY <1>2, <2>1, <3>1, <3>2
  <2>4. QED
    BY <2>2, <2>3
<1>4. ASSUME NEW k \in Keys PROVE Ahead(fpMem, fpBase, p, k) <= fpTold[k]
  <2>1. fpMem \in Tables /\ fpBase \in Tables
    BY DEF Patterns!TypeOK, Tables
  <2>2. PICK n \in Nat : Patterns!Cardinality(AheadIn(Learners, fpMem, fpBase, k)) = Ahead(fpMem, fpBase, p, k) + n
    BY <2>1, PendingCount
  <2>3. Patterns!OnDiskOrPending(k) = fpDisk[k] + Patterns!Cardinality(AheadIn(Learners, fpMem, fpBase, k))
    BY DEF Patterns!OnDiskOrPending, Patterns!PendingRecords, AheadIn, Patterns!Pending, Ahead
  <2>4. Patterns!OnDiskOrPending(k) = fpTold[k]
    BY DEF AddsUp
  <2>5. Ahead(fpMem, fpBase, p, k) \in Nat
    BY <1>2, <1>3
  <2>6. QED
    BY <1>2, <2>2, <2>3, <2>4, <2>5
<1>5. QED
  BY <1>1, <1>2, <1>3, <1>4

\* A step of one process keeps the sum when what it adds to the file, to what it
\* has pending and to what was told balances.
LEMMA Balanced ==
  ASSUME Patterns!TypeOK, Patterns!TypeOK', AddsUp, fpDeletions = 0, fpLapses = {},
         NEW p \in Learners,
         \A q \in Learners \ {p} :
           /\ fpMem'[q] = fpMem[q] /\ fpBase'[q] = fpBase[q] /\ fpDirty'[q] = fpDirty[q]
           /\ fpLoaded'[q] = fpLoaded[q] /\ fpPc'[q] = fpPc[q],
         fpPc'[p] = "idle", fpDirty'[p] = 0 => fpMem'[p] = fpBase'[p],
         ~fpLoaded'[p] => fpMem'[p] = Patterns!None /\ fpBase'[p] = Patterns!None /\ fpDirty'[p] = 0,
         \A k \in Keys :
           /\ fpDisk[k] <= fpDisk'[k]
           /\ fpBase'[p][k] <= fpMem'[p][k] /\ fpBase'[p][k] <= fpDisk'[k]
           /\ fpDisk'[k] + (fpMem'[p][k] - fpBase'[p][k]) + fpTold[k]
                = fpDisk[k] + (fpMem[p][k] - fpBase[p][k]) + fpTold'[k]
  PROVE  AddsUp'
<1>1. /\ fpMem \in Tables /\ fpBase \in Tables /\ fpMem' \in Tables /\ fpBase' \in Tables
      /\ \A k \in Keys : fpDisk[k] \in Nat /\ fpDisk'[k] \in Nat /\ fpTold[k] \in Nat /\ fpTold'[k] \in Nat
  BY PatternConstants DEF Patterns!TypeOK, Tables, Patterns!Counts
<1>2. \A q \in Learners, k \in Keys :
        /\ fpMem[q][k] \in Nat /\ fpBase[q][k] \in Nat /\ fpMem'[q][k] \in Nat
        /\ fpBase'[q][k] \in Nat
        /\ fpBase[q][k] <= fpMem[q][k] /\ fpBase[q][k] <= fpDisk[k]
  <2>1. \A m \in Tables, q \in Learners, k \in Keys : m[q][k] \in Nat
    BY PatternConstants DEF Tables, Patterns!Counts
  <2>2. QED
    BY <1>1, <2>1, CountFacts
<1>3. \A q \in Learners :
        /\ fpPc'[q] = "idle"
        /\ ~fpLoaded'[q] => fpMem'[q] = Patterns!None /\ fpBase'[q] = Patterns!None /\ fpDirty'[q] = 0
        /\ fpDirty'[q] = 0 => fpMem'[q] = fpBase'[q]
  BY CountFacts
<1>4. \A q \in Learners, k \in Keys : fpBase'[q][k] <= fpMem'[q][k] /\ fpBase'[q][k] <= fpDisk'[k]
  <2>1. ASSUME NEW q \in Learners \ {p}, NEW k \in Keys
        PROVE  fpBase'[q][k] <= fpMem'[q][k] /\ fpBase'[q][k] <= fpDisk'[k]
    <3>1. fpBase'[q][k] = fpBase[q][k] /\ fpMem'[q][k] = fpMem[q][k] /\ fpDisk[k] <= fpDisk'[k]
      OBVIOUS
    <3>2. fpBase[q][k] <= fpMem[q][k] /\ fpBase[q][k] <= fpDisk[k] /\ fpBase[q][k] \in Nat
      BY <1>2
    <3>3. QED
      BY <1>1, <3>1, <3>2
  <2>2. QED
    BY <2>1
<1>5. ASSUME NEW k \in Keys PROVE Patterns!OnDiskOrPending(k)' = fpTold'[k]
  <2>1. PICK n \in Nat :
          /\ Patterns!Cardinality(AheadIn(Learners, fpMem, fpBase, k)) = Ahead(fpMem, fpBase, p, k) + n
          /\ Patterns!Cardinality(AheadIn(Learners, fpMem', fpBase', k)) = Ahead(fpMem', fpBase', p, k) + n
    <3>1. \A q \in Learners \ {p} : Ahead(fpMem', fpBase', q, k) = Ahead(fpMem, fpBase, q, k)
      BY DEF Ahead
    <3>2. AheadIn(Learners \ {p}, fpMem', fpBase', k) = AheadIn(Learners \ {p}, fpMem, fpBase, k)
      BY <3>1 DEF AheadIn
    <3>3. /\ Patterns!Cardinality(AheadIn(Learners \ {p}, fpMem, fpBase, k)) \in Nat
          /\ Patterns!Cardinality(AheadIn(Learners, fpMem, fpBase, k)) =
               Ahead(fpMem, fpBase, p, k) + Patterns!Cardinality(AheadIn(Learners \ {p}, fpMem, fpBase, k))
      BY <1>1, PendingCount
    <3>4. Patterns!Cardinality(AheadIn(Learners, fpMem', fpBase', k)) =
               Ahead(fpMem', fpBase', p, k) + Patterns!Cardinality(AheadIn(Learners \ {p}, fpMem', fpBase', k))
      BY <1>1, PendingCount
    <3>5. QED
      BY <3>2, <3>3, <3>4
  <2>2. Patterns!OnDiskOrPending(k) = fpDisk[k] + Patterns!Cardinality(AheadIn(Learners, fpMem, fpBase, k))
    BY DEF Patterns!OnDiskOrPending, Patterns!PendingRecords, AheadIn, Patterns!Pending, Ahead
  <2>3. Patterns!OnDiskOrPending(k)' = fpDisk'[k] + Patterns!Cardinality(AheadIn(Learners, fpMem', fpBase', k))
    BY DEF Patterns!OnDiskOrPending, Patterns!PendingRecords, AheadIn, Patterns!Pending, Ahead
  <2>4. Patterns!OnDiskOrPending(k) = fpTold[k]
    BY DEF AddsUp
  <2>5. Ahead(fpMem, fpBase, p, k) = fpMem[p][k] - fpBase[p][k]
    BY <1>2 DEF Ahead
  <2>6. Ahead(fpMem', fpBase', p, k) = fpMem'[p][k] - fpBase'[p][k]
    BY <1>2, <1>4 DEF Ahead
  <2>7. fpDisk'[k] + (fpMem'[p][k] - fpBase'[p][k]) + fpTold[k] = fpDisk[k] + (fpMem[p][k] - fpBase[p][k]) + fpTold'[k]
    OBVIOUS
  <2>8. /\ fpMem[p][k] \in Nat /\ fpBase[p][k] \in Nat /\ fpMem'[p][k] \in Nat
        /\ fpBase'[p][k] \in Nat
    BY <1>2
  <2> DEFINE m == fpMem[p][k] b == fpBase[p][k] mm == fpMem'[p][k] bb == fpBase'[p][k]
             c == Patterns!Cardinality(AheadIn(Learners, fpMem, fpBase, k))
             cc == Patterns!Cardinality(AheadIn(Learners, fpMem', fpBase', k))
             s == Patterns!OnDiskOrPending(k)' 
  <2>9. /\ m \in Nat /\ b \in Nat /\ mm \in Nat /\ bb \in Nat
        /\ fpDisk'[k] + (mm - bb) + fpTold[k] = fpDisk[k] + (m - b) + fpTold'[k]
        /\ c = (m - b) + n /\ cc = (mm - bb) + n /\ fpDisk[k] + c = fpTold[k]
        /\ s = fpDisk'[k] + cc
    BY <2>1, <2>2, <2>3, <2>4, <2>5, <2>6, <2>7, <2>8
  <2> HIDE DEF m, b, mm, bb, c, cc, s
  <2>10. s = fpTold'[k]
    BY <1>1, <2>9
  <2>11. QED
    BY <2>10 DEF s
<1>6. QED
  BY <1>3, <1>4, <1>5 DEF AddsUp

\* Records move from memory to the file, their sum stays.
LEMMA Sums ==
  ASSUME NEW c \in Int, NEW n \in Int, NEW y \in Int, NEW z \in Int, NEW m \in Int, NEW b \in Int,
         NEW t \in Int, NEW u \in Int, y - z = m - b, n - y = u - t, z <= y, z <= n
  PROVE  /\ c + (n - z) + t = c + (m - b) + u
         /\ c <= c + (n - z)
         /\ (c + (n - z)) + ((c + (n - z)) - (c + (n - z))) + t = c + (m - b) + u
  OBVIOUS

\* A record is one more in the sum.
LEMMA RecordAddsUp ==
  ASSUME Patterns!TypeOK, Patterns!TypeOK', AddsUp, fpDeletions = 0, fpLapses = {},
         fpLapses' = {},
         NEW p \in Learners, NEW k \in Keys, NEW gone \in BOOLEAN, Patterns!Record(p, k, gone)
  PROVE  AddsUp'
<1> DEFINE m == Counted(p, k, gone)
           d == Patterns!Merge(fpDisk, m, Patterns!Baseline(p))
<1>1. ~gone /\ fpPc' = fpPc /\ fpTold' = [fpTold EXCEPT ![k] = @ + 1] /\ fpLoaded' = [fpLoaded EXCEPT ![p] = TRUE]
  BY RecordFacts
<1>2. /\ m \in Tallies /\ Patterns!Baseline(p) \in Tallies /\ fpDisk \in Tallies
      /\ Patterns!Memory(p) \in Tallies
  BY RecordFacts, MemoryTypes
<1>3. \A j \in Keys : m[j] = IF j = k THEN Patterns!Memory(p)[j] + 1 ELSE Patterns!Memory(p)[j]
  BY <1>1, <1>2 DEF Counted, Tallies
<1>4. \/ /\ fpMem' = [fpMem EXCEPT ![p] = d] /\ fpDirty' = [fpDirty EXCEPT ![p] = 0]
         /\ fpDisk' = d /\ fpBase' = [fpBase EXCEPT ![p] = d]
      \/ /\ fpMem' = [fpMem EXCEPT ![p] = m] /\ fpBase' = [fpBase EXCEPT ![p] = Patterns!Baseline(p)]
         /\ fpDirty' = [fpDirty EXCEPT ![p] = @ + 1] /\ fpDisk' = fpDisk
  BY RecordFacts
<1> HIDE DEF m
<1>5. \A j \in Keys :
        /\ Patterns!Memory(p)[j] \in Nat /\ Patterns!Baseline(p)[j] \in Nat /\ fpDisk[j] \in Nat
        /\ fpTold[j] \in Nat
        /\ Patterns!Baseline(p)[j] <= Patterns!Memory(p)[j]
        /\ Patterns!Baseline(p)[j] <= fpDisk[j]
        /\ fpMem[p][j] \in Nat /\ fpBase[p][j] \in Nat
        /\ Patterns!Memory(p)[j] - Patterns!Baseline(p)[j] = fpMem[p][j] - fpBase[p][j]
  BY CountFacts
<1>6. \A j \in Keys : m[j] \in Nat /\ Patterns!Baseline(p)[j] <= m[j]
  BY <1>3, <1>5
<1>7. d \in Tallies /\ \A j \in Keys : d[j] = fpDisk[j] + (m[j] - Patterns!Baseline(p)[j])
  BY <1>2, <1>5, <1>6, MergeTypes
<1> HIDE DEF d
<1>8. \A j \in Keys : fpTold'[j] = (IF j = k THEN fpTold[j] + 1 ELSE fpTold[j]) /\ d[j] \in Nat
  BY <1>1, <1>7 DEF Patterns!TypeOK, Tallies
<1>8a. \A j \in Keys :
         /\ fpDisk[j] \in Int /\ m[j] \in Int /\ Patterns!Memory(p)[j] \in Int
         /\ Patterns!Baseline(p)[j] \in Int
         /\ fpMem[p][j] \in Int /\ fpBase[p][j] \in Int /\ fpTold[j] \in Int /\ fpTold'[j] \in Int
         /\ m[j] - Patterns!Memory(p)[j] = fpTold'[j] - fpTold[j]
         /\ Patterns!Memory(p)[j] - Patterns!Baseline(p)[j] = fpMem[p][j] - fpBase[p][j]
         /\ Patterns!Baseline(p)[j] <= Patterns!Memory(p)[j] /\ Patterns!Baseline(p)[j] <= m[j]
  BY <1>3, <1>5, <1>6, <1>8
<1>9. \A q \in Learners \ {p} :
        /\ fpMem'[q] = fpMem[q] /\ fpBase'[q] = fpBase[q] /\ fpDirty'[q] = fpDirty[q]
        /\ fpLoaded'[q] = fpLoaded[q] /\ fpPc'[q] = fpPc[q]
  BY <1>1, <1>4 DEF Patterns!TypeOK
<1>10. /\ fpMem \in [Learners -> Patterns!Counts] /\ fpBase \in [Learners -> Patterns!Counts]
       /\ fpLoaded \in [Learners -> BOOLEAN] /\ fpDirty \in [Learners -> 0 .. FlushInterval - 1]
  BY DEF Patterns!TypeOK
<1>11. fpPc'[p] = "idle" /\ fpLoaded'[p] = TRUE
  BY <1>1, <1>10, CountFacts
<1>12. CASE /\ fpMem' = [fpMem EXCEPT ![p] = d] /\ fpDirty' = [fpDirty EXCEPT ![p] = 0]
            /\ fpDisk' = d /\ fpBase' = [fpBase EXCEPT ![p] = d]
  <2>1. fpMem'[p] = d /\ fpBase'[p] = d
    BY <1>10, <1>12
  <2>2. ASSUME NEW j \in Keys
        PROVE  /\ fpDisk[j] <= d[j]
               /\ d[j] + (d[j] - d[j]) + fpTold[j] = fpDisk[j] + (fpMem[p][j] - fpBase[p][j]) + fpTold'[j]
    <3>1. d[j] = fpDisk[j] + (m[j] - Patterns!Baseline(p)[j])
      BY <1>7
    <3>2. QED
      BY <1>8a, <3>1, Sums
  <2>3. \A j \in Keys :
          /\ fpDisk[j] <= fpDisk'[j]
          /\ fpBase'[p][j] <= fpMem'[p][j] /\ fpBase'[p][j] <= fpDisk'[j]
          /\ fpDisk'[j] + (fpMem'[p][j] - fpBase'[p][j]) + fpTold[j]
               = fpDisk[j] + (fpMem[p][j] - fpBase[p][j]) + fpTold'[j]
    BY <1>8, <1>12, <2>1, <2>2
  <2>4. QED
    BY <1>9, <1>11, <2>1, <2>3, Balanced
<1>13. CASE /\ fpMem' = [fpMem EXCEPT ![p] = m] /\ fpBase' = [fpBase EXCEPT ![p] = Patterns!Baseline(p)]
            /\ fpDirty' = [fpDirty EXCEPT ![p] = @ + 1] /\ fpDisk' = fpDisk
  <2>1. fpMem'[p] = m /\ fpBase'[p] = Patterns!Baseline(p) /\ fpDirty'[p] = fpDirty[p] + 1
    BY <1>10, <1>13
  <2>2. fpDirty'[p] # 0
    BY <2>1, MemoryTypes
  <2>3. ASSUME NEW j \in Keys
        PROVE  fpDisk[j] + (m[j] - Patterns!Baseline(p)[j]) + fpTold[j] = fpDisk[j] + (fpMem[p][j] - fpBase[p][j]) + fpTold'[j]
    BY <1>8a, Sums
  <2>4. \A j \in Keys :
          /\ fpDisk[j] <= fpDisk'[j]
          /\ fpBase'[p][j] <= fpMem'[p][j] /\ fpBase'[p][j] <= fpDisk'[j]
          /\ fpDisk'[j] + (fpMem'[p][j] - fpBase'[p][j]) + fpTold[j]
               = fpDisk[j] + (fpMem[p][j] - fpBase[p][j]) + fpTold'[j]
    BY <1>5, <1>6, <1>13, <2>1, <2>3
  <2>5. QED
    BY <1>9, <1>11, <2>2, <2>4, Balanced
<1>14. QED
  BY <1>4, <1>12, <1>13

\* Reading the file changes no sum.
LEMMA RecallAddsUp ==
  ASSUME Patterns!TypeOK, Patterns!TypeOK', AddsUp, fpDeletions = 0, fpLapses = {},
         NEW p \in Learners, Patterns!Recall(p)
  PROVE  AddsUp'
<1> DEFINE d == Patterns!Merge(fpDisk, fpMem[p], fpBase[p])
<1>1. /\ fpMem' = [fpMem EXCEPT ![p] = d] /\ fpBase' = [fpBase EXCEPT ![p] = fpDisk]
      /\ fpLoaded' = [fpLoaded EXCEPT ![p] = TRUE]
      /\ UNCHANGED <<fpDisk, fpLife, fpDirty, fpPc, fpTold, fpDeleted, fpDeletions, fpLapses>>
  BY DEF Patterns!Recall, Patterns!users
<1>2. \A j \in Keys :
        /\ fpDisk[j] \in Nat /\ fpMem[p][j] \in Nat /\ fpBase[p][j] \in Nat /\ fpTold[j] \in Nat
        /\ fpBase[p][j] <= fpMem[p][j] /\ fpBase[p][j] <= fpDisk[j]
  BY CountFacts
<1>3. d \in Tallies /\ \A j \in Keys : d[j] = fpDisk[j] + (fpMem[p][j] - fpBase[p][j])
  BY <1>2, MemoryTypes, MergeTypes
<1> HIDE DEF d
<1>4. fpMem'[p] = d /\ fpBase'[p] = fpDisk /\ fpLoaded'[p] = TRUE /\ fpPc'[p] = "idle"
  BY <1>1, CountFacts DEF Patterns!TypeOK
<1>5. ASSUME fpDirty'[p] = 0 PROVE fpMem'[p] = fpBase'[p]
  <2>1. fpMem[p] = fpBase[p]
    BY <1>1, <1>5, CountFacts
  <2>2. \A j \in Keys : d[j] = fpDisk[j]
    BY <1>2, <1>3, <2>1
  <2>3. fpDisk \in Tallies
    BY MemoryTypes
  <2>4. d = fpDisk
    BY <1>3, <2>2, <2>3 DEF Tallies
  <2>5. QED
    BY <1>4, <2>4
<1>6. ASSUME NEW j \in Keys
      PROVE  fpDisk[j] <= d[j] /\ fpDisk[j] + (d[j] - fpDisk[j]) + fpTold[j] = fpDisk[j] + (fpMem[p][j] - fpBase[p][j]) + fpTold[j]
  BY <1>2, <1>3
<1>7. \A j \in Keys :
        /\ fpDisk[j] <= fpDisk'[j]
        /\ fpBase'[p][j] <= fpMem'[p][j] /\ fpBase'[p][j] <= fpDisk'[j]
        /\ fpDisk'[j] + (fpMem'[p][j] - fpBase'[p][j]) + fpTold[j]
             = fpDisk[j] + (fpMem[p][j] - fpBase[p][j]) + fpTold'[j]
  BY <1>1, <1>2, <1>4, <1>6
<1>8. \A q \in Learners \ {p} :
        /\ fpMem'[q] = fpMem[q] /\ fpBase'[q] = fpBase[q] /\ fpDirty'[q] = fpDirty[q]
        /\ fpLoaded'[q] = fpLoaded[q] /\ fpPc'[q] = fpPc[q]
  BY <1>1 DEF Patterns!TypeOK
<1>9. QED
  BY <1>4, <1>5, <1>7, <1>8, Balanced

\* An empty file is never found by a process with patterns in memory, as its
\* baseline would be of no counts and its memory no more.
LEMMA RecallEmptyNever ==
  ASSUME Patterns!TypeOK, AddsUp, fpDeletions = 0, fpLapses = {}, NEW p \in Learners
  PROVE  ~Patterns!RecallEmpty(p)
<1>1. SUFFICES ASSUME Patterns!RecallEmpty(p) PROVE FALSE
  OBVIOUS
<1>2. Patterns!Present(fpDisk) = {} /\ fpDirty[p] = 0
  BY <1>1 DEF Patterns!RecallEmpty
<1>3. PICK k \in Keys : fpMem[p][k] > 0
  BY <1>1 DEF Patterns!RecallEmpty, Patterns!Present
<1>4. /\ fpMem[p] = fpBase[p] /\ fpBase[p][k] <= fpDisk[k] /\ fpDisk[k] \in Nat
      /\ fpBase[p][k] \in Nat
  BY <1>2, CountFacts
<1>5. ~(fpDisk[k] > 0)
  BY <1>2 DEF Patterns!Present
<1>6. QED
  BY <1>3, <1>4, <1>5

\* Nor does the last write of a process that ends.
LEMMA ExitAddsUp ==
  ASSUME Patterns!TypeOK, Patterns!TypeOK', AddsUp, fpDeletions = 0, fpLapses = {},
         fpLapses' = {}, NEW p \in Learners, Patterns!Exit(p)
  PROVE  AddsUp'
<1> DEFINE d == Patterns!Merge(fpDisk, fpMem[p], fpBase[p])
<1>1. Patterns!Save(p, d, fpLapses) /\ UNCHANGED <<fpPc, fpTold, fpDeleted, fpDeletions>>
  BY DEF Patterns!Exit, Patterns!users
<1>2. \A j \in Keys :
        /\ fpDisk[j] \in Nat /\ fpMem[p][j] \in Nat /\ fpBase[p][j] \in Nat /\ fpTold[j] \in Nat
        /\ fpBase[p][j] <= fpMem[p][j] /\ fpBase[p][j] <= fpDisk[j]
  BY CountFacts
<1>3. d \in Tallies /\ \A j \in Keys : d[j] = fpDisk[j] + (fpMem[p][j] - fpBase[p][j])
  BY <1>2, MemoryTypes, MergeTypes
<1> HIDE DEF d
<1>4. /\ fpMem' = [fpMem EXCEPT ![p] = d] /\ fpLoaded' = [fpLoaded EXCEPT ![p] = TRUE]
      /\ fpDirty' = [fpDirty EXCEPT ![p] = 0] /\ fpDisk' = d /\ fpBase' = [fpBase EXCEPT ![p] = d]
  <2>1. fpLapses \subseteq {"decayed", "failed", "evicted"}
    BY DEF Patterns!TypeOK
  <2>2. QED
    BY <1>1, <1>3, <2>1, SaveKeeps
<1>5. fpMem'[p] = d /\ fpBase'[p] = d /\ fpLoaded'[p] = TRUE /\ fpPc'[p] = "idle"
  BY <1>1, <1>4, CountFacts DEF Patterns!TypeOK
<1>6. ASSUME NEW j \in Keys
      PROVE  /\ fpDisk[j] <= d[j] /\ d[j] <= d[j]
             /\ d[j] + (d[j] - d[j]) + fpTold[j] = fpDisk[j] + (fpMem[p][j] - fpBase[p][j]) + fpTold[j]
  BY <1>2, <1>3
<1>7. \A j \in Keys :
        /\ fpDisk[j] <= fpDisk'[j]
        /\ fpBase'[p][j] <= fpMem'[p][j] /\ fpBase'[p][j] <= fpDisk'[j]
        /\ fpDisk'[j] + (fpMem'[p][j] - fpBase'[p][j]) + fpTold[j]
             = fpDisk[j] + (fpMem[p][j] - fpBase[p][j]) + fpTold'[j]
  BY <1>1, <1>4, <1>5, <1>6
<1>8. \A q \in Learners \ {p} :
        /\ fpMem'[q] = fpMem[q] /\ fpBase'[q] = fpBase[q] /\ fpDirty'[q] = fpDirty[q]
        /\ fpLoaded'[q] = fpLoaded[q] /\ fpPc'[q] = fpPc[q]
  BY <1>1, <1>4 DEF Patterns!TypeOK
<1>9. QED
  BY <1>5, <1>7, <1>8, Balanced

\* A kill takes what was still to be written, and what was told of it.
LEMMA KillAddsUp ==
  ASSUME Patterns!TypeOK, Patterns!TypeOK', AddsUp, fpDeletions = 0, fpLapses = {},
         NEW p \in Learners, Patterns!Kill(p)
  PROVE  AddsUp'
<1>1. /\ fpPc' = [fpPc EXCEPT ![p] = "idle"]
      /\ fpTold' = [k \in Keys |-> fpTold[k] - (IF Patterns!Pending(p, k) > fpTold[k] THEN fpTold[k] ELSE Patterns!Pending(p, k))]
      /\ fpMem' = [fpMem EXCEPT ![p] = Patterns!None]
      /\ fpBase' = [fpBase EXCEPT ![p] = Patterns!None]
      /\ fpDirty' = [fpDirty EXCEPT ![p] = 0] /\ fpLoaded' = [fpLoaded EXCEPT ![p] = FALSE]
      /\ UNCHANGED <<fpDisk, fpDeleted, fpDeletions, fpLapses>>
  BY DEF Patterns!Kill
<1>2. \A j \in Keys :
        /\ fpDisk[j] \in Nat /\ fpMem[p][j] \in Nat /\ fpBase[p][j] \in Nat /\ fpTold[j] \in Nat
        /\ Ahead(fpMem, fpBase, p, j) = fpMem[p][j] - fpBase[p][j]
        /\ Ahead(fpMem, fpBase, p, j) <= fpTold[j]
        /\ Ahead(fpMem, fpBase, p, j) \in Nat
  BY CountFacts
<1>3. \A j \in Keys : Patterns!Pending(p, j) = Ahead(fpMem, fpBase, p, j)
  BY DEF Patterns!Pending, Ahead
<1>4. \A j \in Keys : fpTold'[j] = fpTold[j] - (fpMem[p][j] - fpBase[p][j])
  BY <1>1, <1>2, <1>3
<1>5. /\ fpMem'[p] = Patterns!None /\ fpBase'[p] = Patterns!None /\ fpDirty'[p] = 0
      /\ fpPc'[p] = "idle"
  BY <1>1 DEF Patterns!TypeOK
<1>6. ASSUME NEW j \in Keys
      PROVE  /\ fpDisk[j] <= fpDisk[j] /\ 0 <= fpDisk[j]
             /\ fpDisk[j] + (0 - 0) + fpTold[j] = fpDisk[j] + (fpMem[p][j] - fpBase[p][j]) + fpTold'[j]
  BY <1>2, <1>4
<1>7. \A j \in Keys : Patterns!None[j] = 0
  BY DEF Patterns!None
<1>8. \A j \in Keys :
        /\ fpDisk[j] <= fpDisk'[j]
        /\ fpBase'[p][j] <= fpMem'[p][j] /\ fpBase'[p][j] <= fpDisk'[j]
        /\ fpDisk'[j] + (fpMem'[p][j] - fpBase'[p][j]) + fpTold[j]
             = fpDisk[j] + (fpMem[p][j] - fpBase[p][j]) + fpTold'[j]
  BY <1>1, <1>5, <1>6, <1>7
<1>9. \A q \in Learners \ {p} :
        /\ fpMem'[q] = fpMem[q] /\ fpBase'[q] = fpBase[q] /\ fpDirty'[q] = fpDirty[q]
        /\ fpLoaded'[q] = fpLoaded[q] /\ fpPc'[q] = fpPc[q]
  BY <1>1 DEF Patterns!TypeOK
<1>10. QED
  BY <1>5, <1>8, <1>9, Balanced

\* At the start nothing was recorded, and nothing is told.
LEMMA PatternsBegin == ASSUME Patterns!Init PROVE Patterns!TypeOK /\ AddsUp
<1>1. Patterns!TypeOK
  BY PatternInit
<1>2. \A p \in Learners :
        fpPc[p] = "idle" /\ fpMem[p] = Patterns!None /\ fpBase[p] = Patterns!None /\ fpDirty[p] = 0 /\ fpLoaded[p] = FALSE
  BY DEF Patterns!Init
<1>3. fpDisk = Patterns!None /\ fpTold = Patterns!None /\ \A k \in Keys : Patterns!None[k] = 0
  BY DEF Patterns!Init, Patterns!None
<1>4. ASSUME NEW k \in Keys PROVE Patterns!OnDiskOrPending(k) = fpTold[k]
  <2>1. \A p \in Learners : Patterns!Pending(p, k) = 0
    BY <1>2, <1>3 DEF Patterns!Pending
  <2>2. Patterns!PendingRecords(k) = {}
    BY <2>1 DEF Patterns!PendingRecords
  <2>3. Patterns!Cardinality(Patterns!PendingRecords(k)) = 0
    BY <2>2, FS_EmptySet, PatternOperators
  <2>4. QED
    BY <1>3, <2>3 DEF Patterns!OnDiskOrPending
<1>5. QED
  BY <1>1, <1>2, <1>3, <1>4 DEF AddsUp

\* Nothing that once was deleted or lost is ever undone.
LEMMA LapsesStay ==
  ASSUME Patterns!TypeOK, Patterns!Next, fpDeletions' = 0, fpLapses' = {}
  PROVE  /\ fpDeletions = 0 /\ fpLapses = {}
         /\ \A p \in Learners : ~Patterns!BeginDrop(p) /\ ~Patterns!Clear(p)
<1>1. /\ fpDeletions \in Nat /\ fpLapses \subseteq {"decayed", "failed", "evicted"}
      /\ fpDisk \in Tallies
  BY PatternConstants, CountTypes DEF Patterns!TypeOK
<1>2. \A p \in Learners : ~Patterns!BeginDrop(p) /\ ~Patterns!Clear(p)
  BY <1>1 DEF Patterns!BeginDrop, Patterns!Clear, Patterns!MayDelete
<1>3. ASSUME NEW p \in Learners, Patterns!Recall(p) \/ Patterns!RecallEmpty(p) \/ Patterns!Kill(p) \/ Patterns!ReadToDrop(p)
      PROVE  fpDeletions = 0 /\ fpLapses = {}
  BY <1>3 DEF Patterns!Recall, Patterns!RecallEmpty, Patterns!Kill, Patterns!ReadToDrop,
     Patterns!users
<1>4. ASSUME NEW p \in Learners, Patterns!Exit(p) PROVE fpDeletions = 0 /\ fpLapses = {}
  <2>1. /\ Patterns!Save(p, Patterns!Merge(fpDisk, fpMem[p], fpBase[p]), fpLapses)
        /\ fpDeletions' = fpDeletions
    BY <1>4 DEF Patterns!Exit, Patterns!users
  <2>2. Patterns!Merge(fpDisk, fpMem[p], fpBase[p]) \in Tallies
    BY MemoryTypes, MergeTypes
  <2>3. fpLapses \subseteq fpLapses'
    BY <1>1, <2>1, <2>2, SaveKeeps
  <2>4. QED
    BY <2>1, <2>3
<1>5. ASSUME NEW p \in Learners, NEW k \in Keys, NEW gone \in BOOLEAN, Patterns!Record(p, k, gone)
      PROVE  fpDeletions = 0 /\ fpLapses = {}
  <2>1. fpDeletions' = fpDeletions /\ fpLapses \subseteq fpLapses'
    BY <1>5, RecordFacts
  <2>2. QED
    BY <2>1
<1>6. ASSUME NEW p \in Learners, NEW ks \in SUBSET Keys, Patterns!SaveDropped(p, ks)
      PROVE  fpDeletions = 0 /\ fpLapses = {}
  <2>1. /\ Patterns!Save(p, Patterns!Only(fpMem[p], Keys \ ks), fpLapses)
        /\ fpDeletions' = fpDeletions
    BY <1>6 DEF Patterns!SaveDropped
  <2>2. Patterns!Only(fpMem[p], Keys \ ks) \in Tallies
    BY MemoryTypes DEF Patterns!Only, Tallies
  <2>3. fpLapses \subseteq fpLapses'
    BY <1>1, <2>1, <2>2, SaveKeeps
  <2>4. QED
    BY <2>1, <2>3
<1>7. QED
  BY <1>2, <1>3, <1>4, <1>5, <1>6 DEF Patterns!Next

\* The sums stay, step by step.
LEMMA AddsUpKept == ASSUME Patterns!TypeOK, AddsUp, Patterns!Next PROVE Patterns!TypeOK' /\ AddsUp'
<1>1. Patterns!TypeOK'
  BY PatternTypes
<1>2. ASSUME fpDeletions' = 0, fpLapses' = {} PROVE AddsUp'
  <2>1. /\ fpDeletions = 0 /\ fpLapses = {}
        /\ \A p \in Learners : ~Patterns!BeginDrop(p) /\ ~Patterns!Clear(p)
    BY <1>2, LapsesStay
  <2>2. \A p \in Learners : ~Patterns!RecallEmpty(p)
    BY <2>1, RecallEmptyNever
  <2>3. \A p \in Learners, ks \in SUBSET Keys : ~Patterns!ReadToDrop(p) /\ ~Patterns!SaveDropped(p, ks)
    BY <2>1, CountFacts DEF Patterns!ReadToDrop, Patterns!SaveDropped
  <2>4. \/ \E p \in Learners : Patterns!Recall(p) \/ Patterns!Exit(p) \/ Patterns!Kill(p)
        \/ \E p \in Learners, k \in Keys, gone \in BOOLEAN : Patterns!Record(p, k, gone)
    BY <2>1, <2>2, <2>3 DEF Patterns!Next
  <2>5. ASSUME NEW p \in Learners, Patterns!Recall(p) PROVE AddsUp'
    BY <1>1, <2>1, <2>5, RecallAddsUp
  <2>6. ASSUME NEW p \in Learners, Patterns!Exit(p) PROVE AddsUp'
    BY <1>1, <1>2, <2>1, <2>6, ExitAddsUp
  <2>7. ASSUME NEW p \in Learners, Patterns!Kill(p) PROVE AddsUp'
    BY <1>1, <2>1, <2>7, KillAddsUp
  <2>8. ASSUME NEW p \in Learners, NEW k \in Keys, NEW gone \in BOOLEAN, Patterns!Record(p, k, gone) PROVE AddsUp'
    BY <1>1, <1>2, <2>1, <2>8, RecordAddsUp
  <2>9. QED
    BY <2>4, <2>5, <2>6, <2>7, <2>8
<1>3. ASSUME ~(fpDeletions' = 0 /\ fpLapses' = {}) PROVE AddsUp'
  BY <1>3 DEF AddsUp
<1>4. QED
  BY <1>1, <1>2, <1>3

\* They speak of the variables of the patterns alone.
LEMMA AddsUpStays == ASSUME Patterns!TypeOK, AddsUp, UNCHANGED Patterns!vars PROVE Patterns!TypeOK' /\ AddsUp'
<1>1. \A k \in Keys : Patterns!OnDiskOrPending(k)' = Patterns!OnDiskOrPending(k)
  BY DEF Patterns!vars, Patterns!OnDiskOrPending, Patterns!PendingRecords, Patterns!Pending
<1>2. Patterns!TypeOK'
  BY DEF Patterns!vars, Patterns!TypeOK, Patterns!Present
<1>3. QED
  BY <1>1, <1>2 DEF Patterns!vars, AddsUp

\* They say what is claimed: nothing lost, nothing invented.
LEMMA SumsAddUp == ASSUME Patterns!TypeOK, AddsUp PROVE Patterns!RecordsAddUp
<1>1. SUFFICES ASSUME fpDeletions = 0, fpLapses = {} PROVE Patterns!NothingLost /\ Patterns!NothingInvented
  BY DEF Patterns!RecordsAddUp
<1>2. ASSUME NEW k \in Keys PROVE Patterns!OnDiskOrPending(k) >= fpTold[k] /\ fpDisk[k] <= fpTold[k]
  <2>1. Patterns!OnDiskOrPending(k) = fpTold[k]
    BY <1>1 DEF AddsUp
  <2>2. fpDisk[k] \in Nat /\ fpTold[k] \in Nat
    BY PatternConstants DEF Patterns!TypeOK, Patterns!Counts
  <2>3. Patterns!Cardinality(Patterns!PendingRecords(k)) \in Nat
    <3>1. fpMem \in Tables /\ fpBase \in Tables
      BY DEF Patterns!TypeOK, Tables
    <3>2. Patterns!PendingRecords(k) = AheadIn(Learners, fpMem, fpBase, k)
      BY DEF Patterns!PendingRecords, AheadIn, Patterns!Pending, Ahead
    <3>3. CASE Learners = {}
      <4>1. Patterns!PendingRecords(k) = {}
        BY <3>3 DEF Patterns!PendingRecords
      <4>2. QED
        BY <4>1, FS_EmptySet, PatternOperators
    <3>4. CASE Learners # {}
      <4>1. PICK p \in Learners : TRUE
        BY <3>4
      <4>2. QED
        <5>1. Ahead(fpMem, fpBase, p, k) \in 0 .. MaxCount
          BY <3>1, AheadTypes
        <5>2. /\ Patterns!Cardinality(AheadIn(Learners \ {p}, fpMem, fpBase, k)) \in Nat
              /\ Patterns!Cardinality(AheadIn(Learners, fpMem, fpBase, k)) =
                   Ahead(fpMem, fpBase, p, k) + Patterns!Cardinality(AheadIn(Learners \ {p}, fpMem, fpBase, k))
          BY <3>1, PendingCount
        <5>3. QED
          BY <3>2, <5>1, <5>2
    <3>5. QED
      BY <3>3, <3>4
  <2>4. QED
    BY <2>1, <2>2, <2>3 DEF Patterns!OnDiskOrPending
<1>3. QED
  BY <1>2 DEF Patterns!NothingLost, Patterns!NothingInvented

-----------------------------------------------------------------------------
\* A step of the whole is a step of each part, or leaves that part alone.
LEMMA StepOfEach ==
  ASSUME [SharedNext]_sharedVars
  PROVE  /\ Next \/ UNCHANGED vars
         /\ Leases!Next \/ UNCHANGED leaseVars
         /\ Cache!Next \/ UNCHANGED cacheVars
         /\ Session!Next \/ UNCHANGED sessionVars
         /\ Patterns!Next \/ UNCHANGED patternVars
<1>1. CASE LocksStep
  BY <1>1, Zenon DEF LocksStep
<1>2. CASE LeasesStep
  BY <1>2, Zenon DEF LeasesStep
<1>3. CASE CacheStep
  BY <1>3, Zenon DEF CacheStep
<1>4. CASE SessionStep
  BY <1>4, Zenon DEF SessionStep
<1>5. CASE PatternsStep
  BY <1>5, Zenon DEF PatternsStep
<1>6. CASE UNCHANGED sharedVars
  BY <1>6, Zenon DEF sharedVars
<1>7. QED
  BY <1>1, <1>2, <1>3, <1>4, <1>5, <1>6, Zenon DEF SharedNext

\* What is known of the session, and of the patterns, outlasts every step.
LEMMA DesignGoesOn ==
  ASSUME DesignInvariant, Session!Next \/ UNCHANGED sessionVars
  PROVE  DesignInvariant'
<1>1. CASE Session!Next
  BY <1>1, DesignKept
<1>2. CASE UNCHANGED sessionVars
  <2>1. Session!vars' = Session!vars
    BY <1>2 DEF sessionVars, Session!vars, Session!disk, Session!idle, Session!past
  <2>2. QED
    BY <2>1, DesignStays
<1>3. QED
  BY <1>1, <1>2

\* The same of the counts.
LEMMA CountsGoOn ==
  ASSUME Patterns!TypeOK, AddsUp, Patterns!Next \/ UNCHANGED patternVars
  PROVE  Patterns!TypeOK' /\ AddsUp'
<1>1. CASE Patterns!Next
  BY <1>1, AddsUpKept
<1>2. CASE UNCHANGED patternVars
  <2>1. UNCHANGED Patterns!vars
    BY <1>2 DEF patternVars, Patterns!vars, Patterns!users
  <2>2. QED
    BY <2>1, AddsUpStays
<1>3. QED
  BY <1>1, <1>2

\* While the last editor of a file runs, no other session passes the guard of the
\* file within the time of the lease: for any sessions, machines and process ids,
\* whatever ends within a call and whatever sweeps remove (EditorIsGuarded).
THEOREM GuardHolds == SharedSpec => EditorIsGuarded
<1>1. SharedInit => LeasesInv
  BY LeasesInit DEF SharedInit
<1>2. LeasesInv /\ [SharedNext]_sharedVars => LeasesInv'
  BY LeasesNext, StepOfEach
<1>3. LeasesInv /\ [SharedNext]_sharedVars
      => [\A s \in Sessions :
            elPc[s] = "idle" /\ elPc'[s] = "write" /\ elEdited[elFile'[s]].recorded
              => Leases!Guarded(s, elEdited[elFile'[s]])]_(Leases!vars)
  <2>1. SUFFICES ASSUME LeasesInv, [SharedNext]_sharedVars, Leases!vars' # Leases!vars,
                        NEW s \in Sessions, elPc[s] = "idle", elPc'[s] = "write",
                        elEdited[elFile'[s]].recorded
                 PROVE  Leases!Guarded(s, elEdited[elFile'[s]])
    OBVIOUS
  <2>2. Leases!Next
    BY <2>1, StepOfEach DEF leaseVars, Leases!vars
  <2>3. QED
    BY <2>1, <2>2, GuardSees
<1>4. QED
  BY <1>1, <1>2, <1>3, PTL DEF SharedSpec, EditorIsGuarded, Leases!RecordedEditorIsGuarded

\* A cached answer about a file is what the file holds, and where no turn lapsed
\* none of any scope holds what own calls replaced or rolled back: for any files,
\* queries and readers, and whatever other processes write (CacheIsHonest).
THEOREM HonestCache == SharedSpec => []CacheIsHonest
<1>1. SharedInit => CacheInv
  BY CacheInit DEF SharedInit
<1>2. CacheInv /\ [SharedNext]_sharedVars => CacheInv'
  BY CacheNext, StepOfEach
<1>3. QED
  BY <1>1, <1>2, CacheSpeaksTrue, PTL DEF SharedSpec

\* The lock files of the whole are those of FlockFiles: what is proved of them
\* holds here, above all that no sweep takes away a held name.
THEOREM LocksInShared == SharedSpec => Spec /\ SweepLeavesHeld
<1>1. SharedInit => Init
  BY DEF SharedInit
<1>2. [SharedNext]_sharedVars => [Next]_vars
  BY StepOfEach
<1>3. QED
  BY <1>1, <1>2, HeldNamesStay, PTL DEF SharedSpec, Spec

\* Every turn once written stays in the file or its archive, what was archived is
\* covered by the summary, and a request at work is one in progress: for any
\* number of chats, turns and kills, and wherever a write breaks off (TurnsAreKept).
THEOREM TurnsStay == SharedSpec => []TurnsAreKept
<1>1. SharedInit => DesignInvariant
  BY DesignBegins DEF SharedInit
<1>2. DesignInvariant /\ [SharedNext]_sharedVars => DesignInvariant'
  BY DesignGoesOn, StepOfEach
<1>3. DesignInvariant => TurnsAreKept
  BY DesignKeepsTurns DEF TurnsAreKept
<1>4. QED
  BY <1>1, <1>2, <1>3, PTL DEF SharedSpec

\* The counts on disk and still to be written add up to the records made, for any
\* number of processes and patterns, and any order of their writes (RecordsAddUp).
THEOREM CountsAddUp == SharedSpec => []RecordsAddUp
<1>1. SharedInit => Patterns!TypeOK /\ AddsUp
  BY PatternsBegin DEF SharedInit
<1>2. Patterns!TypeOK /\ AddsUp /\ [SharedNext]_sharedVars => (Patterns!TypeOK /\ AddsUp)'
  BY CountsGoOn, StepOfEach
<1>3. Patterns!TypeOK /\ AddsUp => RecordsAddUp
  BY SumsAddUp DEF RecordsAddUp
<1>4. QED
  BY <1>1, <1>2, <1>3, PTL DEF SharedSpec

\* The variables of all five keep their types, the leases their owners and the
\* order of the cache its entries, once each and within the capacity (TypesOK).
THEOREM TypesInShared == SharedSpec => []TypesOK
<1> DEFINE Known == /\ Descriptors /\ LeasesInv /\ CacheFacts
                    /\ DesignInvariant /\ Patterns!TypeOK /\ AddsUp
<1>1. SharedInit => Known
  BY InitDescriptors, LeasesInit, CacheFactsBegin, DesignBegins, PatternsBegin DEF SharedInit
<1>2. Known /\ [SharedNext]_sharedVars => Known'
  <2>1. SUFFICES ASSUME Known, [SharedNext]_sharedVars PROVE Known'
    OBVIOUS
  <2>2. Descriptors' /\ LeasesInv' /\ CacheFacts'
    BY <2>1, StepOfEach, NextDescriptors, LeasesNext, CacheFactsStay
  <2>3. DesignInvariant' /\ Patterns!TypeOK' /\ AddsUp'
    BY <2>1, StepOfEach, DesignGoesOn, CountsGoOn
  <2>4. QED
    BY <2>2, <2>3
<1>3. Known => TypesOK
  BY CacheTyped DEF Descriptors, LeasesInv, DesignInvariant, TypesOK
<1> HIDE DEF Known
<1>4. QED
  BY <1>1, <1>2, <1>3, PTL DEF SharedSpec

=============================================================================
