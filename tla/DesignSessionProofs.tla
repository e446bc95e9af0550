------------------------- MODULE DesignSessionProofs -------------------------
(***************************************************************************)
(* What is known of a design session that several processes continue, for  *)
(* any number of them, of turns and of failures: what they make of file,   *)
(* archive and memory keeps every turn (TurnsAreKept of DesignSession).    *)
(*                                                                         *)
(* The invariant has one part for each thing the code relies on: the lock  *)
(* (Control), sessions (SessionsSound), archive and file (DiskIsAhead,     *)
(* ArchiveInPlace), summaries (SummariesFollow) and requests               *)
(* (RequestsFollow).  Of every action a lemma says what it changes (...Facts), *)
(* and of every part another that each action keeps it (...Kept).          *)
(***************************************************************************)
EXTENDS SharedFiles, Selections, Integers, TLAPS, WellFoundedInduction,
        FiniteSetTheorems
\* A set of numbers that is not empty has a least one.
LEMMA Least ==
  ASSUME NEW T \in SUBSET Nat, T # {}
  PROVE  \E n \in T : \A m \in T : n <= m
<1> DEFINE R == OpToRel(<, Nat)
<1>1. IsWellFoundedOn(R, Nat)
  BY NatLessThanWellFounded
<1>2. \A m, n \in Nat : m < n => <<m, n>> \in R
  BY DEF OpToRel
<1> HIDE DEF R
<1>3. PICK n \in T : \A m \in T : <<m, n>> \notin R
  BY <1>1, WFMin, Zenon
<1>4. \A m \in T : ~(m < n)
  BY <1>2, <1>3
<1>5. QED
  BY <1>3, <1>4

\* A set of numbers up to m that is not empty has a greatest one.
LEMMA Greatest ==
  ASSUME NEW m \in Nat, NEW T \in SUBSET (1 .. m), T # {}
  PROVE  \E n \in T : \A k \in T : k <= n
<1> DEFINE U == {i \in Nat : m - i \in T}
<1>1. U \in SUBSET Nat /\ U # {}
  <2>1. PICK k \in T : TRUE
    OBVIOUS
  <2>2. k \in 1 .. m /\ m - (m - k) = k /\ m - k \in Nat
    OBVIOUS
  <2>3. m - k \in U
    BY <2>1, <2>2
  <2>4. QED
    BY <2>3
<1>2. PICK i \in U : \A h \in U : i <= h
  <2> HIDE DEF U
  <2>1. QED
    BY <1>1, Least
<1>3. ASSUME NEW k \in T PROVE k <= m - i
  <2>1. k \in 1 .. m /\ m - k \in Nat /\ m - (m - k) = k
    OBVIOUS
  <2>2. i <= m - k
    BY <1>2, <2>1
  <2>3. QED
    BY <1>2, <2>1, <2>2
<1>4. QED
  BY <1>2, <1>3

\* Positions are finitely many, and so are those up to one of them.
LEMMA CountIsFinite ==
  ASSUME NEW m \in Nat, NEW ks \in SUBSET (1 .. m)
  PROVE  /\ IsFiniteSet(ks) /\ Cardinality(ks) \in Nat /\ Cardinality(ks) <= m
         /\ \A k : /\ IsFiniteSet(UpTo(ks, k)) /\ Cardinality(UpTo(ks, k)) \in Nat
                   /\ Cardinality(UpTo(ks, k)) <= Cardinality(ks)
<1>1. IsFiniteSet(1 .. m) /\ Cardinality(1 .. m) <= m
  BY FS_Interval
<1>2. IsFiniteSet(ks) /\ Cardinality(ks) <= m /\ Cardinality(ks) \in Nat
  <2>1. Cardinality(1 .. m) \in Nat /\ IsFiniteSet(ks) /\ Cardinality(ks) <= Cardinality(1 .. m)
    BY <1>1, FS_Subset, FS_CardinalityType
  <2>2. Cardinality(ks) \in Nat
    BY <2>1, FS_CardinalityType
  <2>3. QED
    BY <1>1, <2>1, <2>2
<1>3. ASSUME NEW k
      PROVE  /\ IsFiniteSet(UpTo(ks, k)) /\ Cardinality(UpTo(ks, k)) \in Nat
             /\ Cardinality(UpTo(ks, k)) <= Cardinality(ks)
  <2>1. UpTo(ks, k) \in SUBSET ks
    BY DEF UpTo
  <2>2. QED
    BY <1>2, <2>1, FS_Subset, FS_CardinalityType
<1>4. QED
  BY <1>2, <1>3

\* Of two of the numbers the larger has more of them up to it.
LEMMA CountGrows ==
  ASSUME NEW m \in Nat, NEW ks \in SUBSET (1 .. m), NEW j \in ks, NEW k \in ks, j < k
  PROVE  Cardinality(UpTo(ks, j)) < Cardinality(UpTo(ks, k))
<1>1. /\ IsFiniteSet(UpTo(ks, j)) /\ Cardinality(UpTo(ks, j)) \in Nat
      /\ IsFiniteSet(UpTo(ks, k)) /\ Cardinality(UpTo(ks, k)) \in Nat
  BY CountIsFinite
<1>2. j \in Nat /\ k \in Nat /\ \A i \in ks : i \in Nat
  OBVIOUS
<1>3. UpTo(ks, j) \in SUBSET UpTo(ks, k)
  <2>1. ASSUME NEW i \in ks, i <= j PROVE i <= k
    BY <1>2, <2>1
  <2>2. QED
    BY <2>1 DEF UpTo
<1>4. k \in UpTo(ks, k)
  <2>1. k <= k
    BY <1>2
  <2>2. QED
    BY <2>1 DEF UpTo
<1>5. k \notin UpTo(ks, j)
  <2>1. ~(k <= j)
    BY <1>2
  <2>2. QED
    BY <2>1 DEF UpTo
<1>6. Cardinality(UpTo(ks, j)) <= Cardinality(UpTo(ks, k))
      /\ Cardinality(UpTo(ks, j)) # Cardinality(UpTo(ks, k))
  BY <1>1, <1>3, <1>4, <1>5, FS_Subset
<1>7. QED
  BY <1>1, <1>6

\* Between none and all of the positions, every count is reached at one.
LEMMA NthExists ==
  ASSUME NEW m \in Nat, NEW ks \in SUBSET (1 .. m), NEW n \in 1 .. Cardinality(ks)
  PROVE  \E k \in ks : Cardinality(UpTo(ks, k)) = n
<1>1. IsFiniteSet(ks) /\ Cardinality(ks) \in Nat
      /\ \A k : IsFiniteSet(UpTo(ks, k)) /\ Cardinality(UpTo(ks, k)) \in Nat
  BY CountIsFinite
<1>2. \A k \in ks : k \in Nat
  OBVIOUS
<1>3. n \in Nat /\ n >= 1 /\ n <= Cardinality(ks)
  BY <1>1
<1> DEFINE Late == {k \in ks : Cardinality(UpTo(ks, k)) >= n}
<1>4. Late # {}
  <2>1. ks # {}
    BY <1>1, <1>3, FS_EmptySet
  <2>2. PICK k \in ks : \A h \in ks : h <= k
    BY <2>1, Greatest
  <2>3. UpTo(ks, k) = ks
    BY <2>2 DEF UpTo
  <2>4. QED
    BY <1>1, <1>3, <2>2, <2>3
<1>5. PICK k \in Late : \A h \in Late : k <= h
  <2>1. Late \in SUBSET Nat
    BY <1>2
  <2> HIDE DEF Late
  <2>2. QED
    BY <1>4, <2>1, Least
<1>6. k \in ks /\ Cardinality(UpTo(ks, k)) >= n
  OBVIOUS
<1> DEFINE D == {j \in ks : j < k}
<1>7. CASE D = {}
  <2>1. UpTo(ks, k) = {k}
    <3>1. ASSUME NEW j \in ks, j <= k PROVE j = k
      <4>1. ~(j < k)
        BY <1>7
      <4>2. QED
        BY <1>2, <1>6, <3>1, <4>1
    <3>2. k <= k
      BY <1>2, <1>6
    <3>3. QED
      BY <1>6, <3>1, <3>2 DEF UpTo
  <2>2. Cardinality(UpTo(ks, k)) = 1
    BY <2>1, FS_Singleton
  <2>3. QED
    BY <1>3, <1>6, <2>2
<1>8. CASE D # {}
  <2>1. D \in SUBSET (1 .. m)
    OBVIOUS
  <2>2. PICK i \in D : \A h \in D : h <= i
    <3> HIDE DEF D
    <3>1. QED
      BY <1>8, <2>1, Greatest
  <2>3. i \in ks /\ i < k /\ i \in Nat /\ k \in Nat
    BY <1>2, <1>6, <2>2
  <2>4. \A j \in ks : j <= k <=> (j <= i \/ j = k)
    <3>1. ASSUME NEW j \in ks, j <= k, j # k PROVE j <= i
      <4>1. j < k
        BY <1>2, <2>3, <3>1
      <4>2. QED
        BY <2>2, <4>1
    <3>2. ASSUME NEW j \in ks, j <= i \/ j = k PROVE j <= k
      BY <1>2, <2>3, <3>2
    <3>3. QED
      BY <3>1, <3>2
  <2>5. UpTo(ks, k) = UpTo(ks, i) \cup {k}
    BY <1>6, <2>4 DEF UpTo
  <2>6. k \notin UpTo(ks, i)
    <3>1. ~(k <= i)
      BY <2>3
    <3>2. QED
      BY <3>1 DEF UpTo
  <2>7. Cardinality(UpTo(ks, k)) = Cardinality(UpTo(ks, i)) + 1
    BY <1>1, <2>5, <2>6, FS_AddElement
  <2>8. ~(Cardinality(UpTo(ks, i)) >= n)
    <3>1. i \notin Late
      <4>1. ~(k <= i)
        BY <2>3
      <4> HIDE DEF Late
      <4>2. QED
        BY <1>5, <4>1
    <3>2. QED
      BY <2>3, <3>1
  <2>9. Cardinality(UpTo(ks, k)) = n
    BY <1>1, <1>3, <1>6, <2>7, <2>8
  <2>10. QED
    BY <1>6, <2>9
<1>9. QED
  BY <1>7, <1>8

\* So the n-th position is one of them, and each is the n-th for some n.
LEMMA NthFacts ==
  ASSUME NEW m \in Nat, NEW ks \in SUBSET (1 .. m)
  PROVE  /\ \A n \in 1 .. Cardinality(ks) :
              Nth(ks, n) \in ks /\ Cardinality(UpTo(ks, Nth(ks, n))) = n
         /\ \A k \in ks : \E n \in 1 .. Cardinality(ks) : Nth(ks, n) = k
<1>1. ASSUME NEW n \in 1 .. Cardinality(ks)
      PROVE  Nth(ks, n) \in ks /\ Cardinality(UpTo(ks, Nth(ks, n))) = n
  <2>1. \E k \in ks : Cardinality(UpTo(ks, k)) = n
    BY NthExists
  <2>2. QED
    BY <2>1, Zenon DEF Nth
<1>2. ASSUME NEW k \in ks
      PROVE  \E n \in 1 .. Cardinality(ks) : Nth(ks, n) = k
  <2> DEFINE n == Cardinality(UpTo(ks, k))
  <2>1. n \in 1 .. Cardinality(ks)
    <3>1. /\ IsFiniteSet(UpTo(ks, k)) /\ n \in Nat /\ n <= Cardinality(ks)
          /\ Cardinality(ks) \in Nat
      BY CountIsFinite
    <3>2. k \in UpTo(ks, k)
      <4>1. k \in Nat /\ k <= k
        OBVIOUS
      <4>2. QED
        BY <4>1 DEF UpTo
    <3>3. n # 0
      BY <3>1, <3>2, FS_EmptySet
    <3>4. QED
      BY <3>1, <3>3
  <2> DEFINE j == Nth(ks, n)
  <2>2. j \in ks /\ Cardinality(UpTo(ks, j)) = n
    BY <1>1, <2>1
  <2> HIDE DEF j
  <2>3. n \in Nat /\ k \in Nat /\ j \in Nat
    BY <2>2, CountIsFinite
  <2>4. ~(j < k) /\ ~(k < j)
    <3>1. j < k => Cardinality(UpTo(ks, j)) < n
      BY <2>2, CountGrows
    <3>2. k < j => n < Cardinality(UpTo(ks, j))
      BY <2>2, CountGrows
    <3> HIDE DEF n
    <3>3. QED
      BY <2>2, <2>3, <3>1, <3>2
  <2>5. j = k
    BY <2>3, <2>4
  <2>6. QED
    BY <2>1, <2>5 DEF j
<1>3. QED
  BY <1>1, <1>2

\* What is picked: elements at the positions, each position once.
LEMMA PickFacts ==
  ASSUME NEW S, NEW s \in Seq(S), NEW ks \in SUBSET DOMAIN s
  PROVE  /\ Pick(s, ks) \in Seq(S) /\ Len(Pick(s, ks)) <= Len(s)
         /\ Len(Pick(s, ks)) = Cardinality(ks)
         /\ \A n \in DOMAIN Pick(s, ks) : \E k \in ks : Pick(s, ks)[n] = s[k]
         /\ \A k \in ks : \E n \in DOMAIN Pick(s, ks) : Pick(s, ks)[n] = s[k]
         /\ \A i, j \in DOMAIN Pick(s, ks) : i # j =>
              \E h, k \in ks : h # k /\ Pick(s, ks)[i] = s[h] /\ Pick(s, ks)[j] = s[k]
<1> DEFINE c == Cardinality(ks)
           g == [n \in 1 .. c |-> Nth(ks, n)]
<1>1. Len(s) \in Nat /\ ks \in SUBSET (1 .. Len(s))
  OBVIOUS
<1>2. c \in Nat /\ c <= Len(s)
  BY <1>1, CountIsFinite
<1>3. /\ \A n \in 1 .. c : g[n] \in ks /\ Cardinality(UpTo(ks, g[n])) = n
      /\ \A k \in ks : \E n \in 1 .. c : g[n] = k
  BY <1>1, NthFacts
<1>5. Pick(s, ks) = [n \in 1 .. c |-> s[g[n]]]
  BY DEF Pick
<1> HIDE DEF c, g
<1>4. \A i, j \in 1 .. c : i # j => g[i] # g[j]
  BY <1>3
<1>6. \A n \in 1 .. c : s[g[n]] \in S
  BY <1>3
<1> DEFINE r == [n \in 1 .. c |-> s[g[n]]]
<1>7. r \in Seq(S) /\ Len(r) = c /\ DOMAIN r = 1 .. c
  BY <1>2, <1>6
<1>8. \A n \in 1 .. c : r[n] = s[g[n]]
  OBVIOUS
<1> HIDE DEF r
<1>9. /\ \A n \in DOMAIN r : \E k \in ks : r[n] = s[k]
      /\ \A k \in ks : \E n \in DOMAIN r : r[n] = s[k]
  <2>1. ASSUME NEW n \in DOMAIN r PROVE \E k \in ks : r[n] = s[k]
    BY <1>3, <1>7, <1>8
  <2>2. ASSUME NEW k \in ks PROVE \E n \in DOMAIN r : r[n] = s[k]
    <3>1. PICK n \in 1 .. c : g[n] = k
      BY <1>3
    <3>2. QED
      BY <1>7, <1>8, <3>1
  <2>3. QED
    BY <2>1, <2>2
<1>10. ASSUME NEW i \in DOMAIN r, NEW j \in DOMAIN r, i # j
       PROVE  \E h, k \in ks : h # k /\ r[i] = s[h] /\ r[j] = s[k]
  <2>1. g[i] \in ks /\ g[j] \in ks /\ g[i] # g[j] /\ r[i] = s[g[i]] /\ r[j] = s[g[j]]
    BY <1>3, <1>4, <1>7, <1>8, <1>10
  <2>2. QED
    BY <2>1
<1>11. QED
  BY <1>2, <1>5, <1>7, <1>9, <1>10 DEF c, r

\* Who holds the lock is writing; who is dead does nothing.
Busy(p) == Session!At(p, "archive") \/ Session!At(p, "write")

\* Whoever writes has the lock, and whoever has it writes.
LockFollows ==
  /\ dsLock # <<>> => Busy(dsLock[1])
  /\ \A p \in Chats : dsMain[p] \in {"archive", "write"} => dsLock = <<p, "main">>
  /\ \A p \in Chats : dsBack[p].at \in {"archive", "write"} => dsLock = <<p, "back">>

\* Who was killed does nothing and remembers nothing.
DeadRest ==
  \A p \in dsDead : dsMem[p] = Session!NoFile /\ dsMain[p] = "rest" /\ dsBack[p] = Session!Rest /\ dsOpen[p] = 0

\* A session that has had a turn.
Begun(s) == s.turns # <<>> \/ s.arch > 0

\* What is compressed or written has had a turn.
WorkHasBegun ==
  \A p \in Chats : dsMain[p] \in {"archive", "write"} \/ dsBack[p] # Session!Rest => Begun(dsMem[p])

\* The file is made by the first write, and begins with a turn.
FirstWrite == IF dsFile = Session!NoFile THEN dsSaved = {} ELSE Begun(dsFile)

\* What the steps of the threads say of lock, memory and file.
Control == LockFollows /\ DeadRest /\ WorkHasBegun /\ FirstWrite

\* A chat that asks has read the session.
Opened == \A p \in Chats : dsMain[p] = "add" => dsMem[p] # Session!NoFile

\* What no failure has kept from it has been in the file.
AllSaved ==
  /\ Session!IdsOf(dsFile.turns) \subseteq dsSaved
  /\ dsFails = 0 => \A p \in Chats : ~Busy(p) => Session!IdsOf(dsMem[p].turns) \subseteq dsSaved

-----------------------------------------------------------------------------
\* A turn is in a session once, and was made; the summary ends within it.
Once(turns) == \A j, k \in DOMAIN turns : j # k => turns[j].id # turns[k].id
Old(turns) == \A k \in DOMAIN turns : turns[k].id <= dsNext
End(s) == s.arch + Len(s.turns)
Sound(s) == Once(s.turns) /\ Old(s.turns) /\ s.upto <= End(s)

\* So it is with the file, with what processes remember, and with what is
\* being summarised.
SessionsSound ==
  /\ Sound(dsFile) /\ \A p \in Chats : Sound(dsMem[p])
  /\ \A p \in Chats : dsBack[p].at = "summarise" => dsBack[p].cut <= End(dsMem[p])
  /\ \A p \in Chats : dsOpen[p] <= dsNext

-----------------------------------------------------------------------------
\* One session begins with the turns of another.
Extends(s, t) ==
  /\ Len(t.turns) <= Len(s.turns)
  /\ \A k \in DOMAIN t.turns : s.turns[k].id = t.turns[k].id

\* No failed write has left the file behind its archive.
NoWriteLost == dsFails = 0 \/ ~dsSpoilt

\* A remembered session is not ahead of the file, except while it is being
\* written; and what is about to be archived continues the file.
DiskIsAhead ==
  NoWriteLost =>
    \A p \in Chats :
      /\ ~Session!At(p, "write") => dsMem[p].arch <= dsFile.arch
      /\ Session!At(p, "write") => dsMem[p].arch >= dsFile.arch
      /\ Session!At(p, "archive") => dsMem[p].arch = dsFile.arch /\ Extends(dsMem[p], dsFile)

\* No turn is lost, the archive reaches the file, and an index of the archive that
\* is an index of the file too has the same turn: of the file when nobody writes,
\* of what is written otherwise.
ArchiveInPlace ==
  ~dsSpoilt =>
    /\ ~dsTorn
    /\ Session!NoTurnLost /\ Session!LastIndex >= dsFile.arch
    /\ (\A p \in Chats : ~Session!At(p, "write")) => Session!InPlace(dsFile)
    /\ \A p \in Chats : Session!At(p, "write") =>
         /\ Session!InPlace(dsMem[p]) /\ Session!LastIndex >= dsMem[p].arch
         /\ Session!IdsOf(dsFile.turns) \subseteq Session!IdsOf(dsMem[p].turns) \cup Session!Archived

-----------------------------------------------------------------------------
\* A missing file is read as an empty session.
Disk == IF dsFile = Session!NoFile THEN Session!Empty ELSE dsFile

\* One summary goes on from another; equal ends mean equal summaries.
Follows(s, t) ==
  s.upto <= t.upto /\ s.covers \subseteq t.covers /\ (s.upto = t.upto => s.covers = t.covers)

\* The summary covers the turns up to its end.
CoveredTo(turns, n, covers) == \A k \in DOMAIN turns : k <= n => turns[k].id \in covers
Covered(s) == CoveredTo(s.turns, s.upto - s.arch, s.covers)

\* Nothing is summarised that is not archived.
Flat(s, d) == s.upto = d.upto /\ d.upto = d.arch

\* The file: its summary covers what has left it.
Summed(f, d, sv, cs) ==
  /\ Covered(f) /\ d.arch <= d.upto
  /\ sv \ Session!IdsOf(f.turns) \subseteq d.covers
  /\ cs = {} => d.upto = 0 /\ d.covers = {}

\* What is to be written: so does its summary.
Fit(s, sv, busy, write) ==
  /\ s # Session!NoFile => s.arch <= s.upto
  /\ busy => Covered(s)
  /\ write => sv \ Session!IdsOf(s.turns) \subseteq s.covers

\* A process that has not compressed is behind the file.
Follower(s, f, d, w, busy, write) ==
  /\ s # Session!NoFile => Follows(s, d)
  /\ busy => s.upto = d.upto /\ s.covers = d.covers
  /\ write => s.arch = s.upto /\ (Flat(f, d) => Extends(s, f))
  /\ w = Session!Rest

\* The one that compresses is ahead of it.
Leader(s, f, d, w, holds) ==
  /\ Follows(d, s)
  /\ w.at = "summarise" =>
       /\ s.upto < w.cut /\ s.covers \subseteq w.covers
       /\ CoveredTo(s.turns, w.cut - s.arch, w.covers)
  /\ w.at \in {"rest", "summarise"} =>
       /\ Flat(s, d) /\ s.arch = s.upto
       /\ IF holds THEN Extends(s, f) ELSE Extends(f, s)
  /\ w.at = "save" /\ ~holds =>
       \/ Flat(s, d)
       \/ /\ s.arch = d.arch /\ Extends(f, s) /\ Covered(s)
          /\ d.upto \in {d.arch, s.upto}
  /\ w.at = "write" => s.arch = s.upto

\* While at most one process compresses and no write has failed: it leads, the
\* others follow the file.
SummariesFollow == Session!OneCompresses /\ dsFails = 0 =>
  /\ Summed(dsFile, Disk, dsSaved, dsCompressors)
  /\ \A p \in Chats : Fit(dsMem[p], dsSaved, Busy(p), Session!At(p, "write"))
  /\ \A p \in Chats \ dsCompressors : Follower(dsMem[p], dsFile, Disk, dsBack[p], Busy(p), Session!At(p, "write"))
  /\ \A p \in dsCompressors : dsMem[p] = Session!NoFile => p \in dsDead
  /\ \A p \in Chats : dsCompressors \subseteq {p} /\ dsMem[p] # Session!NoFile =>
       Leader(dsMem[p], dsFile, Disk, dsBack[p], Session!Holds(p))

-----------------------------------------------------------------------------
\* Every request at work is one in progress, short of the asker p; and every one in
\* progress is at work, was abandoned by a kill, or is about to be answered by p.
Requests(turns, p) ==
  /\ \A q \in Chats : dsOpen[q] \in Session!IdsOf(turns) /\ q # p =>
       \E k \in DOMAIN turns : turns[k] = [id |-> dsOpen[q], owner |-> q]
  /\ \A k \in DOMAIN turns : turns[k].owner # Nobody =>
       turns[k].owner \in dsDead \/ dsOpen[turns[k].owner] = turns[k].id \/ turns[k].owner = p

\* Who holds the lock may answer its request, or make one.
Asker == IF dsLock = <<>> THEN Nobody ELSE dsLock[1]

\* So it is with the file, and with what is being written.
RequestsFollow ==
  dsCompressors = {} /\ dsFails = 0 =>
    /\ Requests(dsFile.turns, Asker)
    /\ \A p \in Chats : Busy(p) => Requests(dsMem[p].turns, Nobody)

\* The inductive invariant.
DesignInvariant ==
  /\ Session!TypeOK /\ Control /\ SessionsSound /\ Session!IndicesGrow /\ Opened /\ AllSaved
  /\ DiskIsAhead /\ ArchiveInPlace /\ SummariesFollow /\ RequestsFollow

\* The instance has its own copies of the operators on sequences.
LEMMA SessionOperators ==
  \A s, ks : Session!Pick(s, ks) = Pick(s, ks)
<1>1. \A S : Session!Cardinality(S) = Cardinality(S)
  BY DEF Session!Cardinality, Cardinality
<1>2. \A ks, k : Session!UpTo(ks, k) = UpTo(ks, k)
  BY DEF Session!UpTo, UpTo
<1>3. \A ks, n : Session!Nth(ks, n) = Nth(ks, n)
  BY <1>1, <1>2 DEF Session!Nth, Nth
<1>4. QED
  BY <1>1, <1>3 DEF Session!Pick, Pick

\* What is assumed of the constants of the session.
LEMMA SessionConstants ==
  /\ Nobody \notin Chats
  /\ KeepRecent \in Nat /\ ArchiveCap \in Nat /\ ArchiveCap >= 1
  /\ MaxTurns \in Nat /\ MaxIndex \in Nat /\ MaxFails \in Nat
  /\ MaxKills \in Nat /\ MaxTears \in Nat
  BY StoresAssumption DEF Session!SessionAssumption

\* The empty session, and what stands for a missing file.
LEMMA EmptyTypes ==
  /\ Session!Empty \in Session!Session /\ Session!NoFile \in Session!Session
  /\ Session!Empty.turns = <<>> /\ Session!Empty.arch = 0 /\ Session!Empty.upto = 0
  /\ Session!Empty.covers = {}
  /\ Session!NoFile.turns = <<>> /\ Session!NoFile.arch = 0 /\ Session!NoFile.upto = 0
  /\ Session!NoFile.covers = Session!Ids
<1>1. <<>> \in Seq(Session!Turn) /\ 0 \in 0 .. MaxIndex
  BY SessionConstants
<1>2. QED
  BY <1>1 DEF Session!Empty, Session!NoFile, Session!Session

\* What the types say of a single session.
LEMMA SessionTypes ==
  ASSUME NEW s \in Session!Session
  PROVE  /\ s.turns \in Seq(Session!Turn) /\ Len(s.turns) \in Nat
         /\ s.arch \in 0 .. MaxIndex /\ s.upto \in 0 .. MaxIndex
         /\ s.arch \in Nat /\ s.upto \in Nat
         /\ s.covers \in SUBSET Session!Ids
         /\ End(s) \in Nat /\ Session!LocalCut(s) \in Nat
         /\ Session!LocalCut(s) = IF s.upto > s.arch THEN s.upto - s.arch ELSE 0
<1>1. /\ s.turns \in Seq(Session!Turn) /\ s.arch \in 0 .. MaxIndex /\ s.upto \in 0 .. MaxIndex
      /\ s.covers \in SUBSET Session!Ids
  BY DEF Session!Session
<1>2. Len(s.turns) \in Nat /\ s.arch \in Nat /\ s.upto \in Nat
  BY <1>1, SessionConstants
<1>3. QED
  BY <1>1, <1>2 DEF End, Session!LocalCut

\* The turns of a session are turns, and their ids are ids.
LEMMA TurnTypes ==
  ASSUME NEW turns \in Seq(Session!Turn), NEW k \in DOMAIN turns
  PROVE  /\ turns[k] \in Session!Turn /\ turns[k].id \in Nat /\ turns[k].id \in Session!Ids
         /\ turns[k].id \in Session!IdsOf(turns) /\ k \in Nat /\ k >= 1 /\ k <= Len(turns)
<1>1. turns[k] \in Session!Turn /\ k \in Nat /\ k >= 1 /\ k <= Len(turns)
  OBVIOUS
<1>2. turns[k].id \in Session!Ids
  BY <1>1 DEF Session!Turn
<1>3. turns[k].id \in Nat
  BY <1>2, SessionConstants DEF Session!Ids
<1>4. turns[k].id \in Session!IdsOf(turns)
  BY DEF Session!IdsOf
<1>5. QED
  BY <1>1, <1>2, <1>3, <1>4

\* A list of turns, each there once, is no longer than one that has them all.
LEMMA LengthByIds ==
  ASSUME NEW s \in Seq(Session!Turn), NEW t \in Seq(Session!Turn), Once(s),
         Session!IdsOf(s) \subseteq Session!IdsOf(t)
  PROVE  Len(s) <= Len(t)
<1> DEFINE f == [k \in 1 .. Len(s) |-> CHOOSE j \in 1 .. Len(t) : t[j].id = s[k].id]
<1>1. Len(s) \in Nat /\ Len(t) \in Nat /\ DOMAIN s = 1 .. Len(s) /\ DOMAIN t = 1 .. Len(t)
  OBVIOUS
<1>2. ASSUME NEW k \in 1 .. Len(s)
      PROVE  f[k] \in 1 .. Len(t) /\ t[f[k]].id = s[k].id
  <2>1. s[k].id \in Session!IdsOf(t)
    BY <1>1 DEF Session!IdsOf
  <2>2. \E j \in 1 .. Len(t) : t[j].id = s[k].id
    BY <1>1, <2>1 DEF Session!IdsOf
  <2>3. f[k] = CHOOSE j \in 1 .. Len(t) : t[j].id = s[k].id
    OBVIOUS
  <2> HIDE DEF f
  <2>4. QED
    BY <2>2, <2>3, Zenon
<1>3. f = [k \in 1 .. Len(s) |-> f[k]]
  OBVIOUS
<1> HIDE DEF f
<1>4. f \in [1 .. Len(s) -> 1 .. Len(t)]
  BY <1>2, <1>3
<1>5. \A j, k \in 1 .. Len(s) : f[j] = f[k] => j = k
  BY <1>1, <1>2 DEF Once
<1>6. f \in Injection(1 .. Len(s), 1 .. Len(t))
  BY <1>4, <1>5 DEF Injection, IsInjective
<1>7. /\ IsFiniteSet(1 .. Len(t))
      /\ Cardinality(1 .. Len(t)) = Len(t) /\ Cardinality(1 .. Len(s)) = Len(s)
  <2>1. \A n \in Nat : IsFiniteSet(1 .. n) /\ Cardinality(1 .. n) = n
    <3>1. ASSUME NEW n \in Nat PROVE IsFiniteSet(1 .. n) /\ Cardinality(1 .. n) = n
      <4>1. 1 \in Int /\ n \in Int
        OBVIOUS
      <4>2. IsFiniteSet(1 .. n) /\ Cardinality(1 .. n) = IF 1 > n THEN 0 ELSE n - 1 + 1
        BY <4>1, FS_Interval
      <4>3. QED
        BY <4>2
    <3>2. QED
      BY <3>1
  <2>2. QED
    BY <1>1, <2>1
<1>8. Cardinality(1 .. Len(s)) <= Cardinality(1 .. Len(t))
  BY <1>6, <1>7, FS_Injection
<1>9. QED
  BY <1>7, <1>8

\* What one list of turns has and another has not.
LEMMA AbsentFacts ==
  ASSUME NEW base \in Seq(Session!Turn), NEW other \in Seq(Session!Turn)
  PROVE  /\ Session!Absent(base, other) \in Seq(Session!Turn)
         /\ Session!IdsOf(Session!Absent(base, other)) = Session!IdsOf(other) \ Session!IdsOf(base)
         /\ Once(other) => Once(Session!Absent(base, other))
         /\ Session!IdsOf(other) \subseteq Session!IdsOf(base) => Session!Absent(base, other) = <<>>
<1> DEFINE ks == {k \in DOMAIN other : other[k].id \notin Session!IdsOf(base)}
           r == Session!Pick(other, ks)
<1>1. /\ r \in Seq(Session!Turn) /\ Len(r) = Cardinality(ks)
      /\ \A n \in DOMAIN r : \E k \in ks : r[n] = other[k]
      /\ \A k \in ks : \E n \in DOMAIN r : r[n] = other[k]
      /\ \A i, j \in DOMAIN r : i # j =>
           \E h, k \in ks : h # k /\ r[i] = other[h] /\ r[j] = other[k]
  <2>1. ks \in SUBSET DOMAIN other
    OBVIOUS
  <2> HIDE DEF ks
  <2>2. r = Pick(other, ks)
    BY SessionOperators
  <2>3. QED
    BY <2>1, <2>2, PickFacts
<1>2. Session!Absent(base, other) = r
  BY DEF Session!Absent
<1>3. Session!IdsOf(other) \subseteq Session!IdsOf(base) => ks = {}
  BY DEF Session!IdsOf
<1>4. \A k \in ks : k \in DOMAIN other /\ other[k].id \notin Session!IdsOf(base)
  OBVIOUS
<1>5. \A k \in DOMAIN other : other[k].id \notin Session!IdsOf(base) => k \in ks
  OBVIOUS
<1> HIDE DEF ks, r
<1>6. Session!IdsOf(r) = Session!IdsOf(other) \ Session!IdsOf(base)
  <2>1. ASSUME NEW x \in Session!IdsOf(r) PROVE x \in Session!IdsOf(other) /\ x \notin Session!IdsOf(base)
    <3>1. PICK n \in DOMAIN r : x = r[n].id
      BY <2>1 DEF Session!IdsOf
    <3>2. PICK k \in ks : r[n] = other[k]
      BY <1>1
    <3>3. other[k].id \in Session!IdsOf(other)
      BY <1>4 DEF Session!IdsOf
    <3>4. QED
      BY <1>4, <3>1, <3>2, <3>3
  <2>2. ASSUME NEW x \in Session!IdsOf(other), x \notin Session!IdsOf(base) PROVE x \in Session!IdsOf(r)
    <3>1. PICK k \in DOMAIN other : x = other[k].id
      BY DEF Session!IdsOf
    <3>2. PICK n \in DOMAIN r : r[n] = other[k]
      BY <1>1, <1>5, <2>2, <3>1
    <3>3. QED
      BY <3>1, <3>2 DEF Session!IdsOf
  <2>3. QED
    BY <2>1, <2>2
<1>7. ASSUME Once(other) PROVE Once(r)
  <2>1. SUFFICES ASSUME NEW i \in DOMAIN r, NEW j \in DOMAIN r, i # j
                 PROVE  r[i].id # r[j].id
    BY DEF Once
  <2>2. PICK h \in ks, k \in ks : h # k /\ r[i] = other[h] /\ r[j] = other[k]
    BY <1>1, <2>1
  <2>3. other[h].id # other[k].id
    BY <1>4, <1>7, <2>2 DEF Once
  <2>4. QED
    BY <2>2, <2>3
<1>8. ks = {} => r = <<>>
  BY <1>1, FS_EmptySet
<1>9. QED
  BY <1>1, <1>2, <1>3, <1>6, <1>7, <1>8

\* One list of turns after another.
LEMMA ConcatFacts ==
  ASSUME NEW a \in Seq(Session!Turn), NEW b \in Seq(Session!Turn)
  PROVE  /\ a \o b \in Seq(Session!Turn) /\ Len(a \o b) = Len(a) + Len(b)
         /\ Session!IdsOf(a \o b) = Session!IdsOf(a) \cup Session!IdsOf(b)
         /\ \A k \in DOMAIN a : k \in DOMAIN (a \o b) /\ (a \o b)[k] = a[k]
         /\ Once(a) /\ Once(b) /\ Session!IdsOf(a) \cap Session!IdsOf(b) = {} => Once(a \o b)
         /\ b = <<>> => a \o b = a
<1> DEFINE c == a \o b
<1>1. /\ c \in Seq(Session!Turn) /\ Len(c) = Len(a) + Len(b) /\ Len(a) \in Nat /\ Len(b) \in Nat
      /\ DOMAIN c = 1 .. Len(a) + Len(b) /\ DOMAIN a = 1 .. Len(a) /\ DOMAIN b = 1 .. Len(b)
  OBVIOUS
<1>2. /\ \A k \in 1 .. Len(a) : c[k] = a[k]
      /\ \A k \in 1 .. Len(b) : c[Len(a) + k] = b[k]
  OBVIOUS
<1>3. b = <<>> => c = a
  OBVIOUS
<1> HIDE DEF c
<1>4. \A k \in DOMAIN a : k \in DOMAIN c /\ c[k] = a[k]
  BY <1>1, <1>2
<1>5. \A k \in DOMAIN c : k \in DOMAIN a \/ (k - Len(a) \in DOMAIN b /\ c[k] = b[k - Len(a)])
  <2>1. ASSUME NEW k \in DOMAIN c, k \notin DOMAIN a
        PROVE  k - Len(a) \in DOMAIN b /\ c[k] = b[k - Len(a)]
    <3>1. k - Len(a) \in 1 .. Len(b) /\ Len(a) + (k - Len(a)) = k
      BY <1>1, <2>1
    <3>2. QED
      BY <1>1, <1>2, <3>1
  <2>2. QED
    BY <2>1
<1>6. \A k \in DOMAIN b : Len(a) + k \in DOMAIN c /\ c[Len(a) + k] = b[k]
  BY <1>1, <1>2
<1>7. Session!IdsOf(c) = Session!IdsOf(a) \cup Session!IdsOf(b)
  <2>1. ASSUME NEW x \in Session!IdsOf(c) PROVE x \in Session!IdsOf(a) \cup Session!IdsOf(b)
    <3>1. PICK k \in DOMAIN c : x = c[k].id
      BY <2>1 DEF Session!IdsOf
    <3>2. QED
      BY <1>4, <1>5, <3>1 DEF Session!IdsOf
  <2>2. ASSUME NEW x \in Session!IdsOf(a) \cup Session!IdsOf(b) PROVE x \in Session!IdsOf(c)
    BY <1>4, <1>6 DEF Session!IdsOf
  <2>3. QED
    BY <2>1, <2>2
<1>8. ASSUME Once(a), Once(b), Session!IdsOf(a) \cap Session!IdsOf(b) = {}
      PROVE  Once(c)
  <2>1. SUFFICES ASSUME NEW j \in DOMAIN c, NEW k \in DOMAIN c, c[j].id = c[k].id
                 PROVE  j = k
    BY DEF Once
  <2>2. CASE j \in DOMAIN a /\ k \in DOMAIN a
    BY <1>4, <1>8, <2>1, <2>2 DEF Once
  <2>3. CASE j \notin DOMAIN a /\ k \notin DOMAIN a
    <3>1. j - Len(a) = k - Len(a)
      BY <1>5, <1>8, <2>1, <2>3 DEF Once
    <3>2. j \in Nat /\ k \in Nat
      BY <1>1
    <3>3. QED
      BY <1>1, <3>1, <3>2
  <2>4. CASE j \in DOMAIN a /\ k \notin DOMAIN a
    BY <1>4, <1>5, <1>8, <2>1, <2>4 DEF Session!IdsOf
  <2>5. CASE j \notin DOMAIN a /\ k \in DOMAIN a
    BY <1>4, <1>5, <1>8, <2>1, <2>5 DEF Session!IdsOf
  <2>6. QED
    BY <2>2, <2>3, <2>4, <2>5
<1>9. QED
  BY <1>1, <1>3, <1>4, <1>7, <1>8 DEF c

\* The merge: no turn of either side is left out, and none doubled; where the
\* file leads, its turns come first as they are.
LEMMA MergeFacts ==
  ASSUME dsFile \in Session!Session, NEW s \in Session!Session, Sound(dsFile), Sound(s),
         dsNext \in Nat
  PROVE  /\ Session!Adopted(s) \in Session!Session /\ Sound(Session!Adopted(s))
         /\ Session!IdsOf(Session!Adopted(s).turns) = Session!IdsOf(dsFile.turns) \cup Session!IdsOf(s.turns)
         /\ End(Session!Adopted(s)) >= End(s)
         /\ Session!Adopted(s).arch = IF dsFile.arch >= s.arch THEN dsFile.arch ELSE s.arch
         /\ Session!Adopted(s).upto = IF dsFile.upto > s.upto THEN dsFile.upto ELSE s.upto
         /\ Session!Adopted(s).covers = IF dsFile # Session!NoFile /\ dsFile.upto > s.upto /\ dsFile.covers # {}
                                THEN dsFile.covers ELSE s.covers
         /\ dsFile.arch >= s.arch =>
              /\ Extends(Session!Adopted(s), dsFile)
              /\ \A k \in DOMAIN dsFile.turns : Session!Adopted(s).turns[k] = dsFile.turns[k]
         /\ dsFile.arch >= s.arch /\ Session!IdsOf(s.turns) \subseteq Session!IdsOf(dsFile.turns)
              => Session!Adopted(s).turns = dsFile.turns
         /\ Begun(dsFile) \/ Begun(s) => Begun(Session!Adopted(s))
<1> DEFINE m == Session!Adopted(s)
           base == IF dsFile.arch >= s.arch THEN dsFile ELSE s
           other == IF dsFile.arch >= s.arch THEN s ELSE dsFile
<1>1. /\ dsFile.turns \in Seq(Session!Turn) /\ dsFile.arch \in Nat /\ dsFile.upto \in Nat
      /\ Len(dsFile.turns) \in Nat /\ dsFile.arch \in 0 .. MaxIndex
      /\ dsFile.upto \in 0 .. MaxIndex
      /\ dsFile.covers \in SUBSET Session!Ids
      /\ s.turns \in Seq(Session!Turn) /\ s.arch \in Nat /\ s.upto \in Nat
      /\ Len(s.turns) \in Nat /\ s.arch \in 0 .. MaxIndex /\ s.upto \in 0 .. MaxIndex
      /\ s.covers \in SUBSET Session!Ids
  BY SessionTypes
<1>2. CASE dsFile = Session!NoFile
  <2>1. m = s /\ dsFile.turns = <<>> /\ dsFile.arch = 0 /\ dsFile.upto = 0
    BY <1>2, EmptyTypes DEF Session!Adopted
  <2>2. Session!IdsOf(dsFile.turns) = {}
    BY <2>1 DEF Session!IdsOf
  <2>3. End(m) >= End(s)
    BY <1>1, <2>1 DEF End
  <2>4. Extends(m, dsFile) /\ \A k \in DOMAIN dsFile.turns : m.turns[k] = dsFile.turns[k]
    BY <1>1, <2>1 DEF Extends
  <2>5. Session!IdsOf(s.turns) \subseteq Session!IdsOf(dsFile.turns) => m.turns = dsFile.turns
    <3>1. ASSUME Session!IdsOf(s.turns) = {} PROVE s.turns = <<>>
      <4>1. \A k \in DOMAIN s.turns : FALSE
        BY <3>1 DEF Session!IdsOf
      <4>2. Len(s.turns) >= 1 => 1 \in DOMAIN s.turns
        BY <1>1
      <4>3. QED
        BY <1>1, <4>1, <4>2
    <3>2. QED
      BY <2>1, <2>2, <3>1
  <2>6. m.arch = IF dsFile.arch >= s.arch THEN dsFile.arch ELSE s.arch
    BY <1>1, <2>1
  <2>7. m.upto = IF dsFile.upto > s.upto THEN dsFile.upto ELSE s.upto
    BY <1>1, <2>1
  <2>8. Begun(dsFile) \/ Begun(s) => Begun(m)
    BY <2>1 DEF Begun
  <2>9. QED
    BY <1>2, <2>1, <2>2, <2>3, <2>4, <2>5, <2>6, <2>7, <2>8
<1>3. CASE dsFile # Session!NoFile
  <2>1. /\ m.turns = base.turns \o Session!Absent(base.turns, other.turns)
        /\ m.arch = base.arch
        /\ m.upto = IF dsFile.upto > s.upto THEN dsFile.upto ELSE s.upto
        /\ m.covers = IF dsFile.upto > s.upto /\ dsFile.covers # {} THEN dsFile.covers ELSE s.covers
        /\ m = [turns |-> m.turns, arch |-> m.arch, upto |-> m.upto, covers |-> m.covers]
    BY <1>3 DEF Session!Adopted, Session!DiskLeads
  <2>2. base.turns \in Seq(Session!Turn) /\ other.turns \in Seq(Session!Turn)
        /\ Once(base.turns) /\ Once(other.turns)
    BY <1>1 DEF Sound
  <2> DEFINE new == Session!Absent(base.turns, other.turns)
  <2>3. /\ new \in Seq(Session!Turn)
        /\ Session!IdsOf(new) = Session!IdsOf(other.turns) \ Session!IdsOf(base.turns)
        /\ Once(new)
        /\ Session!IdsOf(other.turns) \subseteq Session!IdsOf(base.turns) => new = <<>>
    BY <2>2, AbsentFacts
  <2> HIDE DEF new
  <2>4. /\ base.turns \o new \in Seq(Session!Turn)
        /\ Session!IdsOf(base.turns \o new) = Session!IdsOf(base.turns) \cup Session!IdsOf(new)
        /\ Len(base.turns \o new) = Len(base.turns) + Len(new)
        /\ \A k \in DOMAIN base.turns : k \in DOMAIN (base.turns \o new)
                                         /\ (base.turns \o new)[k] = base.turns[k]
        /\ Once(base.turns \o new)
        /\ new = <<>> => base.turns \o new = base.turns
    <3> DEFINE b == base.turns
    <3>1. b \in Seq(Session!Turn) /\ new \in Seq(Session!Turn) /\ Once(b) /\ Once(new)
      BY <2>2, <2>3
    <3>2. Session!IdsOf(b) \cap Session!IdsOf(new) = {}
      BY <2>3
    <3> HIDE DEF b
    <3>3. /\ b \o new \in Seq(Session!Turn)
          /\ Session!IdsOf(b \o new) = Session!IdsOf(b) \cup Session!IdsOf(new)
          /\ Len(b \o new) = Len(b) + Len(new)
          /\ \A k \in DOMAIN b : k \in DOMAIN (b \o new) /\ (b \o new)[k] = b[k]
          /\ Once(b \o new)
          /\ new = <<>> => b \o new = b
      BY <3>1, <3>2, ConcatFacts
    <3>4. QED
      BY <3>3 DEF b
  <2>5. m.turns = base.turns \o new
    BY <2>1 DEF new
  <2> HIDE DEF m
  <2>6. m \in Session!Session
    <3>1. m.arch \in 0 .. MaxIndex /\ m.upto \in 0 .. MaxIndex /\ m.covers \in SUBSET Session!Ids
      BY <1>1, <2>1
    <3>2. QED
      BY <2>1, <2>4, <2>5, <3>1 DEF Session!Session
  <2>7. Session!IdsOf(m.turns) = Session!IdsOf(dsFile.turns) \cup Session!IdsOf(s.turns)
    BY <2>3, <2>4, <2>5
  <2>8. Len(s.turns) <= Len(m.turns) /\ Len(dsFile.turns) <= Len(m.turns)
    <3>1. m.turns \in Seq(Session!Turn)
      BY <2>4, <2>5
    <3>2. QED
      BY <1>1, <2>7, <3>1, LengthByIds DEF Sound
  <2>9. Len(m.turns) \in Nat /\ m.arch \in Nat
    BY <2>6, SessionTypes
  <2>10. End(m) >= End(s) /\ End(m) >= End(dsFile)
    <3>1. m.arch >= s.arch /\ m.arch >= dsFile.arch
      BY <1>1, <2>1
    <3> DEFINE a == m.arch
               n == Len(m.turns)
               sa == s.arch
               sn == Len(s.turns)
               da == dsFile.arch
               dn == Len(dsFile.turns)
    <3>2. /\ a \in Nat /\ n \in Nat /\ sa \in Nat /\ sn \in Nat /\ da \in Nat /\ dn \in Nat
          /\ a >= sa /\ a >= da /\ n >= sn /\ n >= dn
      BY <1>1, <2>8, <2>9, <3>1, SessionTypes
    <3> HIDE DEF a, n, sa, sn, da, dn
    <3>3. a + n >= sa + sn /\ a + n >= da + dn
      BY <3>2
    <3>4. a + n = End(m) /\ sa + sn = End(s) /\ da + dn = End(dsFile)
      BY DEF End, a, n, sa, sn, da, dn
    <3>5. QED
      BY <3>3, <3>4
  <2>11. Sound(m)
    <3>1. Old(m.turns)
      <4>1. ASSUME NEW k \in DOMAIN m.turns PROVE m.turns[k].id <= dsNext
        <5>1. m.turns[k].id \in Session!IdsOf(dsFile.turns) \cup Session!IdsOf(s.turns)
          BY <2>7 DEF Session!IdsOf
        <5>2. QED
          BY <5>1 DEF Session!IdsOf, Sound, Old
      <4>2. QED
        BY <4>1 DEF Old
    <3>2. m.upto <= End(m)
      <4>1. s.upto <= End(s) /\ dsFile.upto <= End(dsFile)
        BY DEF Sound
      <4>2. End(s) \in Nat /\ End(dsFile) \in Nat /\ End(m) \in Nat
        BY <2>6, SessionTypes
      <4>3. QED
        BY <1>1, <2>1, <2>10, <4>1, <4>2
    <3>3. QED
      BY <2>4, <2>5, <3>1, <3>2 DEF Sound
  <2>12. ASSUME dsFile.arch >= s.arch
         PROVE  /\ Extends(m, dsFile) /\ \A k \in DOMAIN dsFile.turns : m.turns[k] = dsFile.turns[k]
                /\ Session!IdsOf(s.turns) \subseteq Session!IdsOf(dsFile.turns) => m.turns = dsFile.turns
    <3>1. base = dsFile /\ other = s
      BY <2>12
    <3>2. QED
      BY <2>3, <2>4, <2>5, <2>8, <3>1 DEF Extends
  <2>13. Begun(dsFile) \/ Begun(s) => Begun(m)
    <3>1. dsFile.arch > 0 \/ s.arch > 0 => m.arch > 0
      BY <1>1, <2>1
    <3>2. dsFile.turns # <<>> \/ s.turns # <<>> => m.turns # <<>>
      <4>1. dsFile.turns # <<>> => Len(dsFile.turns) > 0
        BY <1>1
      <4>2. s.turns # <<>> => Len(s.turns) > 0
        BY <1>1
      <4>3. m.turns = <<>> => Len(m.turns) = 0
        OBVIOUS
      <4>4. QED
        BY <1>1, <2>8, <2>9, <4>1, <4>2, <4>3
    <3>3. QED
      BY <3>1, <3>2 DEF Begun
  <2>14. m.arch = IF dsFile.arch >= s.arch THEN dsFile.arch ELSE s.arch
    BY <2>1
  <2>15. QED
    BY <1>3, <2>1, <2>6, <2>7, <2>10, <2>11, <2>12, <2>13, <2>14 DEF m
<1>4. QED
  BY <1>2, <1>3

\* An archive whose indices grow, the turns in it, and its last index.
Growing(a) == \A j, k \in DOMAIN a : j < k => a[j].i < a[k].i
IdsIn(a) == UNION {a[k].ids : k \in DOMAIN a}
EndsAt(a) == IF a = <<>> THEN 0 ELSE a[Len(a)].i
\* How many turns of a session its archive has already.
There(s) == IF Session!LastIndex > s.arch THEN Session!LastIndex - s.arch ELSE 0

\* The archive is a sequence of records.
LEMMA ArchiveTypes ==
  ASSUME NEW a \in Seq(Session!Record)
  PROVE  /\ EndsAt(a) \in Nat /\ Len(a) \in Nat /\ DOMAIN a = 1 .. Len(a)
         /\ a # <<>> => Len(a) >= 1 /\ Len(a) \in DOMAIN a /\ EndsAt(a) = a[Len(a)].i
         /\ \A k \in DOMAIN a : a[k] \in Session!Record /\ a[k].i \in Nat /\ a[k].ids \in SUBSET Session!Ids
         /\ Growing(a) => \A k \in DOMAIN a : a[k].i <= EndsAt(a)
<1>1. Len(a) \in Nat /\ DOMAIN a = 1 .. Len(a) /\ (a # <<>> => Len(a) >= 1)
  OBVIOUS
<1>2. \A k \in DOMAIN a : a[k] \in Session!Record /\ a[k].i \in Nat /\ a[k].ids \in SUBSET Session!Ids
  <2>1. ASSUME NEW k \in DOMAIN a
        PROVE  a[k] \in Session!Record /\ a[k].i \in Nat /\ a[k].ids \in SUBSET Session!Ids
    <3>1. a[k] \in Session!Record
      OBVIOUS
    <3>2. QED
      BY <3>1 DEF Session!Record
  <2>2. QED
    BY <2>1
<1>3. a # <<>> => Len(a) \in DOMAIN a
  BY <1>1
<1>4. EndsAt(a) \in Nat
  BY <1>2, <1>3 DEF EndsAt
<1>5. ASSUME Growing(a), NEW k \in DOMAIN a PROVE a[k].i <= EndsAt(a)
  <2>1. a # <<>> /\ k \in Nat /\ k <= Len(a)
    BY <1>1
  <2>2. k < Len(a) => a[k].i < a[Len(a)].i
    BY <1>3, <1>5, <2>1 DEF Growing
  <2>3. a[k].i \in Nat /\ a[Len(a)].i \in Nat
    BY <1>2, <1>3, <2>1
  <2>4. QED
    BY <1>1, <2>1, <2>2, <2>3 DEF EndsAt
<1>6. QED
  BY <1>1, <1>2, <1>3, <1>4, <1>5 DEF EndsAt

\* What the model calls the last index, and the archived turns.
LEMMA ArchiveNames ==
  /\ Session!LastIndex = EndsAt(dsArchive) /\ Session!Archived = IdsIn(dsArchive)
  /\ Session!IndicesGrow <=> Growing(dsArchive)
  BY DEF Session!LastIndex, EndsAt, Session!Archived, IdsIn, Session!IndicesGrow, Growing,
     Session!Last

\* A list of records and one whose indices are past it.
LEMMA JoinFacts ==
  ASSUME NEW a \in Seq(Session!Record), NEW b \in Seq(Session!Record), Growing(b),
         \A k \in DOMAIN b : b[k].i > EndsAt(a)
  PROVE  /\ a \o b \in Seq(Session!Record)
         /\ Growing(a) => Growing(a \o b)
         /\ IdsIn(a \o b) = IdsIn(a) \cup IdsIn(b)
         /\ EndsAt(a \o b) = IF b = <<>> THEN EndsAt(a) ELSE EndsAt(b)
<1> DEFINE c == a \o b
<1>1. /\ c \in Seq(Session!Record) /\ Len(c) = Len(a) + Len(b) /\ Len(a) \in Nat /\ Len(b) \in Nat
      /\ DOMAIN c = 1 .. Len(a) + Len(b) /\ DOMAIN a = 1 .. Len(a) /\ DOMAIN b = 1 .. Len(b)
  OBVIOUS
<1>2. /\ \A k \in 1 .. Len(a) : c[k] = a[k]
      /\ \A k \in 1 .. Len(b) : c[Len(a) + k] = b[k]
  OBVIOUS
<1>3. b = <<>> => c = a
  OBVIOUS
<1>4. /\ b = <<>> <=> Len(b) = 0
      /\ a = <<>> <=> Len(a) = 0
      /\ c = <<>> <=> Len(c) = 0
  OBVIOUS
<1> HIDE DEF c
<1>5. \A k \in DOMAIN a : k \in DOMAIN c /\ c[k] = a[k]
  BY <1>1, <1>2
<1>6. \A k \in DOMAIN c : k \in DOMAIN a \/ (k - Len(a) \in DOMAIN b /\ c[k] = b[k - Len(a)])
  <2>1. ASSUME NEW k \in DOMAIN c, k \notin DOMAIN a
        PROVE  k - Len(a) \in DOMAIN b /\ c[k] = b[k - Len(a)]
    <3>1. k - Len(a) \in 1 .. Len(b) /\ Len(a) + (k - Len(a)) = k
      BY <1>1, <2>1
    <3>2. QED
      BY <1>1, <1>2, <3>1
  <2>2. QED
    BY <2>1
<1>7. \A k \in DOMAIN b : Len(a) + k \in DOMAIN c /\ c[Len(a) + k] = b[k]
  BY <1>1, <1>2
<1>8. IdsIn(c) = IdsIn(a) \cup IdsIn(b)
  <2>1. ASSUME NEW x \in IdsIn(c) PROVE x \in IdsIn(a) \cup IdsIn(b)
    <3>1. PICK k \in DOMAIN c : x \in c[k].ids
      BY <2>1 DEF IdsIn
    <3>2. QED
      BY <1>5, <1>6, <3>1 DEF IdsIn
  <2>2. ASSUME NEW x \in IdsIn(a) \cup IdsIn(b) PROVE x \in IdsIn(c)
    <3>1. CASE x \in IdsIn(a)
      <4>1. PICK k \in DOMAIN a : x \in a[k].ids
        BY <3>1 DEF IdsIn
      <4>2. QED
        BY <1>5, <4>1 DEF IdsIn
    <3>2. CASE x \in IdsIn(b)
      <4>1. PICK k \in DOMAIN b : x \in b[k].ids
        BY <3>2 DEF IdsIn
      <4>2. QED
        BY <1>7, <4>1 DEF IdsIn
    <3>3. QED
      BY <2>2, <3>1, <3>2
  <2>3. QED
    BY <2>1, <2>2
<1>9. EndsAt(c) = IF b = <<>> THEN EndsAt(a) ELSE EndsAt(b)
  <2>1. CASE b = <<>>
    BY <1>3, <2>1
  <2>2. CASE b # <<>>
    <3>1. Len(b) \in 1 .. Len(b) /\ c # <<>>
      BY <1>1, <1>4, <2>2
    <3>2. c[Len(c)] = b[Len(b)]
      BY <1>1, <1>2, <3>1
    <3>3. QED
      BY <2>2, <3>1, <3>2 DEF EndsAt
  <2>3. QED
    BY <2>1, <2>2
<1>10. ASSUME Growing(a) PROVE Growing(c)
  <2>1. \A k \in DOMAIN a : a[k].i <= EndsAt(a) /\ a[k].i \in Nat
    BY <1>10, ArchiveTypes
  <2>2. \A k \in DOMAIN b : b[k].i \in Nat /\ EndsAt(a) \in Nat
    BY ArchiveTypes
  <2>3. SUFFICES ASSUME NEW j \in DOMAIN c, NEW k \in DOMAIN c, j < k
                 PROVE  c[j].i < c[k].i
    BY DEF Growing
  <2>4. j \in Nat /\ k \in Nat
    BY <1>1
  <2>5. CASE j \in DOMAIN a /\ k \in DOMAIN a
    BY <1>5, <1>10, <2>3, <2>5 DEF Growing
  <2>6. CASE j \in DOMAIN a /\ k \notin DOMAIN a
    <3>1. c[j].i <= EndsAt(a) /\ c[j].i \in Nat
      BY <1>5, <2>1, <2>6
    <3>2. c[k].i > EndsAt(a) /\ c[k].i \in Nat /\ EndsAt(a) \in Nat
      BY <1>6, <2>2, <2>6
    <3>3. QED
      BY <3>1, <3>2
  <2>7. CASE j \notin DOMAIN a /\ k \notin DOMAIN a
    <3>1. /\ j - Len(a) \in DOMAIN b /\ c[j] = b[j - Len(a)]
          /\ k - Len(a) \in DOMAIN b /\ c[k] = b[k - Len(a)]
      BY <1>6, <2>7
    <3>2. j - Len(a) < k - Len(a)
      BY <1>1, <2>3, <2>4
    <3>3. QED
      BY <3>1, <3>2 DEF Growing
  <2>8. CASE j \notin DOMAIN a /\ k \in DOMAIN a
    BY <1>1, <2>3, <2>4, <2>8
  <2>9. QED
    BY <2>5, <2>6, <2>7, <2>8
<1>11. QED
  BY <1>1, <1>8, <1>9, <1>10 DEF c

\* What SubSeq leaves when the first n are taken away.
LEMMA TailFacts ==
  ASSUME NEW T, NEW a \in Seq(T), NEW n \in Nat, n <= Len(a)
  PROVE  /\ SubSeq(a, n + 1, Len(a)) \in Seq(T)
         /\ Len(SubSeq(a, n + 1, Len(a))) = Len(a) - n
         /\ DOMAIN SubSeq(a, n + 1, Len(a)) = 1 .. Len(a) - n
         /\ \A k \in 1 .. Len(a) - n : SubSeq(a, n + 1, Len(a))[k] = a[n + k]
<1> DEFINE r == SubSeq(a, n + 1, Len(a))
           f == [k \in 1 .. Len(a) - n |-> a[n + k]]
<1>1. Len(a) \in Nat /\ DOMAIN a = 1 .. Len(a) /\ Len(a) - n \in Nat
  OBVIOUS
<1>2. r = f
  <2>1. \A k \in 1 .. Len(a) - n : (n + 1) + k - 1 = n + k
    BY <1>1
  <2>2. r = [k \in 1 .. (1 + Len(a) - (n + 1)) |-> a[(n + 1) + k - 1]]
    BY <1>1 DEF SubSeq
  <2>3. 1 + Len(a) - (n + 1) = Len(a) - n
    BY <1>1
  <2>4. QED
    BY <2>1, <2>2, <2>3
<1>3. \A k \in 1 .. Len(a) - n : f[k] = a[n + k] /\ a[n + k] \in T
  BY <1>1
<1> HIDE DEF r
<1>4. f = [k \in 1 .. Len(a) - n |-> f[k]]
  OBVIOUS
<1> HIDE DEF f
<1>5. f \in Seq(T) /\ Len(f) = Len(a) - n /\ DOMAIN f = 1 .. Len(a) - n
  BY <1>1, <1>3, <1>4
<1>6. QED
  BY <1>2, <1>3, <1>5 DEF r

\* What is folded keeps its turns, and its last index.
LEMMA FoldKeeps ==
  ASSUME dsArchive \in Seq(Session!Record), Growing(dsArchive)
  PROVE  /\ Session!Compacted \in Seq(Session!Record) /\ Growing(Session!Compacted)
         /\ IdsIn(Session!Compacted) = IdsIn(dsArchive)
         /\ EndsAt(Session!Compacted) = EndsAt(dsArchive)
<1>1. CASE ~Session!OverCap
  BY <1>1 DEF Session!Compacted
<1>2. CASE Session!OverCap
  <2> DEFINE n == Len(dsArchive) - ArchiveCap \div 2
             block == SubSeq(dsArchive, 1, n)
             first == [i |-> Session!FoldIndex(block), ids |-> UNION {block[k].ids : k \in 1 .. n}]
             rest == SubSeq(dsArchive, n + 1, Len(dsArchive))
  <2>1. /\ Len(dsArchive) \in Nat /\ n \in Nat /\ n >= 1 /\ n <= Len(dsArchive)
        /\ DOMAIN dsArchive = 1 .. Len(dsArchive)
    <3>1. Len(dsArchive) \in Nat /\ Len(dsArchive) > ArchiveCap /\ DOMAIN dsArchive = 1 .. Len(dsArchive)
      BY <1>2 DEF Session!OverCap
    <3>2. ArchiveCap \div 2 \in Nat /\ ArchiveCap \div 2 <= ArchiveCap
      BY SessionConstants
    <3>3. QED
      BY <3>1, <3>2, SessionConstants
  <2>2. Session!Compacted = <<first>> \o rest
    BY <1>2 DEF Session!Compacted
  <2> HIDE DEF n
  <2>3. /\ block \in Seq(Session!Record) /\ Len(block) = n
        /\ \A k \in 1 .. n : block[k] = dsArchive[k]
    BY <2>1
  <2> HIDE DEF block
  <2>4. /\ rest \in Seq(Session!Record) /\ Len(rest) = Len(dsArchive) - n
        /\ \A k \in 1 .. Len(dsArchive) - n : rest[k] = dsArchive[n + k]
    BY <2>1, TailFacts
  <2> HIDE DEF rest
  <2>5. first \in Session!Record /\ first.i = dsArchive[n].i
        /\ first.ids = UNION {dsArchive[k].ids : k \in 1 .. n}
    <3>1. Session!FoldIndex(block) = dsArchive[n].i
      BY <2>1, <2>3 DEF Session!FoldIndex, Session!Last
    <3>2. {block[k].ids : k \in 1 .. n} = {dsArchive[k].ids : k \in 1 .. n}
      BY <2>3
    <3>3. \A k \in 1 .. n : dsArchive[k].ids \in SUBSET Session!Ids /\ dsArchive[k].i \in Nat
      BY <2>1, ArchiveTypes
    <3>4. UNION {dsArchive[k].ids : k \in 1 .. n} \in SUBSET Session!Ids
      BY <3>3
    <3>5. first.i = dsArchive[n].i /\ first.ids = UNION {dsArchive[k].ids : k \in 1 .. n}
      BY <3>1, <3>2
    <3>6. dsArchive[n].i \in Nat
      BY <2>1, <3>3
    <3>7. first = [i |-> first.i, ids |-> first.ids]
      OBVIOUS
    <3> HIDE DEF first
    <3>8. first \in Session!Record
      BY <3>4, <3>5, <3>6, <3>7 DEF Session!Record
    <3>9. QED
      BY <3>5, <3>8
  <2> HIDE DEF first
  <2>6. /\ <<first>> \in Seq(Session!Record) /\ Growing(<<first>>)
        /\ EndsAt(<<first>>) = first.i /\ IdsIn(<<first>>) = first.ids
    <3>1. <<first>> \in Seq(Session!Record) /\ DOMAIN <<first>> = {1} /\ <<first>>[1] = first
          /\ Len(<<first>>) = 1 /\ <<first>> # <<>>
      BY <2>5
    <3>2. EndsAt(<<first>>) = first.i
      BY <3>1 DEF EndsAt
    <3>3. IdsIn(<<first>>) = UNION {<<first>>[k].ids : k \in {1}}
      BY <3>1 DEF IdsIn
    <3>4. Growing(<<first>>)
      BY <3>1 DEF Growing
    <3>5. QED
      BY <3>1, <3>2, <3>3, <3>4
  <2>7. /\ \A k \in DOMAIN rest : rest[k].i > first.i
        /\ Growing(rest)
    <3>1. \A k \in DOMAIN rest : k \in Nat /\ k >= 1 /\ n + k \in DOMAIN dsArchive
                                 /\ rest[k] = dsArchive[n + k]
      BY <2>1, <2>4
    <3>2. ASSUME NEW k \in DOMAIN rest PROVE rest[k].i > first.i
      <4>1. n \in DOMAIN dsArchive /\ n < n + k
        BY <2>1, <3>1
      <4>2. dsArchive[n].i < dsArchive[n + k].i
        BY <3>1, <4>1 DEF Growing
      <4>3. dsArchive[n].i \in Nat /\ dsArchive[n + k].i \in Nat
        BY <3>1, <4>1, ArchiveTypes
      <4>4. QED
        BY <2>5, <3>1, <4>2, <4>3
    <3>3. ASSUME NEW j \in DOMAIN rest, NEW k \in DOMAIN rest, j < k
          PROVE  rest[j].i < rest[k].i
      <4>1. n + j < n + k
        BY <2>1, <3>1, <3>3
      <4>2. QED
        BY <3>1, <4>1 DEF Growing
    <3>4. QED
      BY <3>2, <3>3 DEF Growing
  <2>8. /\ Session!Compacted \in Seq(Session!Record) /\ Growing(Session!Compacted)
        /\ IdsIn(Session!Compacted) = first.ids \cup IdsIn(rest)
        /\ EndsAt(Session!Compacted) = IF rest = <<>> THEN first.i ELSE EndsAt(rest)
    <3>1. \A k \in DOMAIN rest : rest[k].i > EndsAt(<<first>>)
      BY <2>6, <2>7
    <3>2. /\ <<first>> \o rest \in Seq(Session!Record) /\ Growing(<<first>> \o rest)
          /\ IdsIn(<<first>> \o rest) = IdsIn(<<first>>) \cup IdsIn(rest)
          /\ EndsAt(<<first>> \o rest) = IF rest = <<>> THEN EndsAt(<<first>>) ELSE EndsAt(rest)
      BY <2>4, <2>6, <2>7, <3>1, JoinFacts
    <3>3. QED
      BY <2>2, <2>6, <3>2
  <2>9. IdsIn(dsArchive) = first.ids \cup IdsIn(rest)
    <3>1. ASSUME NEW x \in IdsIn(dsArchive) PROVE x \in first.ids \cup IdsIn(rest)
      <4>1. PICK k \in DOMAIN dsArchive : x \in dsArchive[k].ids
        BY <3>1 DEF IdsIn
      <4>2. CASE k <= n
        <5>1. k \in 1 .. n
          BY <2>1, <4>2
        <5>2. QED
          BY <2>5, <4>1, <5>1
      <4>3. CASE k > n
        <5>1. k - n \in 1 .. Len(dsArchive) - n /\ n + (k - n) = k
          BY <2>1, <4>3
        <5>2. k - n \in DOMAIN rest /\ rest[k - n] = dsArchive[k]
          BY <2>4, <5>1
        <5>3. QED
          BY <4>1, <5>2 DEF IdsIn
      <4>4. QED
        BY <2>1, <4>2, <4>3
    <3>2. ASSUME NEW x \in first.ids PROVE x \in IdsIn(dsArchive)
      <4>1. PICK k \in 1 .. n : x \in dsArchive[k].ids
        BY <2>5, <3>2
      <4>2. k \in DOMAIN dsArchive
        BY <2>1
      <4>3. QED
        BY <4>1, <4>2 DEF IdsIn
    <3>3. ASSUME NEW x \in IdsIn(rest) PROVE x \in IdsIn(dsArchive)
      <4>1. PICK k \in DOMAIN rest : x \in rest[k].ids
        BY <3>3 DEF IdsIn
      <4>2. n + k \in DOMAIN dsArchive /\ rest[k] = dsArchive[n + k]
        BY <2>1, <2>4
      <4>3. QED
        BY <4>1, <4>2 DEF IdsIn
    <3>4. QED
      BY <3>1, <3>2, <3>3
  <2>10. EndsAt(dsArchive) = IF rest = <<>> THEN first.i ELSE EndsAt(rest)
    <3>1. dsArchive # <<>>
      BY <2>1
    <3>2. CASE rest = <<>>
      <4>0. Len(rest) = 0
        BY <3>2
      <4>1. n = Len(dsArchive)
        <5>1. Len(dsArchive) - n = 0
          BY <2>4, <4>0
        <5>2. Len(dsArchive) \in Nat /\ n \in Nat
          BY <2>1
        <5> HIDE DEF n
        <5>3. QED
          BY <5>1, <5>2
      <4>2. QED
        BY <2>5, <3>1, <3>2, <4>1 DEF EndsAt
    <3>3. CASE rest # <<>>
      <4>1. Len(rest) \in 1 .. Len(dsArchive) - n
        BY <2>1, <2>4, <3>3
      <4>2. rest[Len(rest)] = dsArchive[Len(dsArchive)]
        BY <2>1, <2>4, <4>1
      <4>3. QED
        BY <3>1, <3>3, <4>2 DEF EndsAt
    <3>4. QED
      BY <3>2, <3>3
  <2>11. QED
    BY <2>8, <2>9, <2>10
<1>3. QED
  BY <1>1, <1>2

\* The new records begin where the archive ends, and name the turns of the session.
LEMMA NewFacts ==
  ASSUME dsArchive \in Seq(Session!Record), NEW s \in Session!Session, NEW n \in Nat
  PROVE  /\ There(s) \in Nat /\ s.arch + There(s) >= Session!LastIndex
         /\ There(s) > 0 => s.arch + There(s) = Session!LastIndex
         /\ Session!NewRecords(s, n) \in Seq(Session!Record)
         /\ Len(Session!NewRecords(s, n)) =
              IF Session!Smaller(n, Len(s.turns)) > There(s) THEN Session!Smaller(n, Len(s.turns)) - There(s) ELSE 0
         /\ Len(Session!NewRecords(s, n)) \in Nat
         /\ \A k \in DOMAIN Session!NewRecords(s, n) :
              /\ k \in Nat /\ k >= 1 /\ k <= Len(Session!NewRecords(s, n))
              /\ There(s) + k \in DOMAIN s.turns /\ There(s) + k <= n
              /\ Session!NewRecords(s, n)[k].i = s.arch + There(s) + k
              /\ Session!NewRecords(s, n)[k].ids = {s.turns[There(s) + k].id}
<1> DEFINE t == There(s)
           l == Session!Smaller(n, Len(s.turns))
           r == [k \in 1 .. (l - t) |-> [i |-> s.arch + t + k, ids |-> {s.turns[t + k].id}]]
<1>1. s.turns \in Seq(Session!Turn) /\ Len(s.turns) \in Nat /\ s.arch \in Nat
      /\ DOMAIN s.turns = 1 .. Len(s.turns)
  BY SessionTypes
<1>2. Session!LastIndex \in Nat
  BY ArchiveNames, ArchiveTypes
<1>3. t \in Nat /\ s.arch + t >= Session!LastIndex /\ (t > 0 => s.arch + t = Session!LastIndex)
  BY <1>1, <1>2 DEF There
<1>4. l \in Nat /\ l <= n /\ l <= Len(s.turns)
  BY <1>1 DEF Session!Smaller
<1>5. Session!NewRecords(s, n) = r
  BY DEF Session!NewRecords, There
<1> HIDE DEF t, l
<1>6. \A k \in 1 .. (l - t) : k \in Nat /\ k >= 1 /\ t + k \in DOMAIN s.turns /\ t + k <= n
                              /\ k <= l - t
  BY <1>1, <1>3, <1>4
<1>7. \A k \in 1 .. (l - t) : [i |-> s.arch + t + k, ids |-> {s.turns[t + k].id}] \in Session!Record
  <2>1. ASSUME NEW k \in 1 .. (l - t)
        PROVE  [i |-> s.arch + t + k, ids |-> {s.turns[t + k].id}] \in Session!Record
    <3>1. s.turns[t + k].id \in Session!Ids
      BY <1>1, <1>6, TurnTypes
    <3>2. s.arch + t + k \in Nat
      BY <1>1, <1>3, <1>6
    <3>3. QED
      BY <3>1, <3>2 DEF Session!Record
  <2>2. QED
    BY <2>1
<1>8. /\ r \in Seq(Session!Record) /\ Len(r) = (IF l > t THEN l - t ELSE 0)
      /\ DOMAIN r = 1 .. (l - t)
  <2>1. CASE l > t
    <3>1. l - t \in Nat
      BY <1>3, <1>4, <2>1
    <3> HIDE DEF r
    <3>2. \A k \in 1 .. (l - t) : r[k] \in Session!Record
      BY <1>7 DEF r
    <3>3. r = [k \in 1 .. (l - t) |-> r[k]]
      BY DEF r
    <3>4. QED
      BY <2>1, <3>1, <3>2, <3>3
  <2>2. CASE ~(l > t)
    <3>1. 1 .. (l - t) = {} /\ 1 .. 0 = {}
      BY <1>3, <1>4, <2>2
    <3>2. r = [k \in {} |-> [i |-> s.arch + t + k, ids |-> {s.turns[t + k].id}]]
      BY <3>1
    <3>3. r = <<>> /\ DOMAIN r = {}
      BY <3>2
    <3> HIDE DEF r
    <3>4. Len(r) = 0 /\ r \in Seq(Session!Record)
      BY <3>3
    <3>5. QED
      BY <2>2, <3>1, <3>3, <3>4
  <2>3. QED
    BY <2>1, <2>2
<1>9. \A k \in 1 .. (l - t) : r[k].i = s.arch + t + k /\ r[k].ids = {s.turns[t + k].id}
  OBVIOUS
<1> HIDE DEF r
<1>10. Len(r) \in Nat /\ \A k \in DOMAIN r : k <= Len(r)
  BY <1>3, <1>4, <1>8
<1>11. QED
  BY <1>3, <1>5, <1>6, <1>8, <1>9, <1>10 DEF t, l

\* The same turns in the same places, whosever they are.
Relabelled(s, t) == Len(s) = Len(t) /\ \A k \in DOMAIN t : s[k].id = t[k].id

\* Turns with other owners are the same turns.
LEMMA RelabelFacts ==
  ASSUME NEW s \in Seq(Session!Turn), NEW t \in Seq(Session!Turn), Relabelled(s, t)
  PROVE  /\ DOMAIN s = DOMAIN t /\ Session!IdsOf(s) = Session!IdsOf(t)
         /\ Once(t) => Once(s)
         /\ Old(t) => Old(s)
         /\ s = <<>> <=> t = <<>>
<1>1. DOMAIN s = DOMAIN t /\ \A k \in DOMAIN t : s[k].id = t[k].id
  BY DEF Relabelled
<1>2. Session!IdsOf(s) = Session!IdsOf(t)
  BY <1>1 DEF Session!IdsOf
<1>3. s = <<>> <=> t = <<>>
  BY DEF Relabelled
<1>4. Once(t) => Once(s)
  BY <1>1 DEF Once
<1>5. Old(t) => Old(s)
  BY <1>1 DEF Old
<1>6. QED
  BY <1>1, <1>2, <1>3, <1>4, <1>5

\* Reaping changes owners alone: those of the dead.
LEMMA ReapedFacts ==
  ASSUME NEW turns \in Seq(Session!Turn)
  PROVE  /\ Session!Reaped(turns) \in Seq(Session!Turn)
         /\ Relabelled(Session!Reaped(turns), turns)
         /\ \A k \in DOMAIN turns :
              Session!Reaped(turns)[k].owner = IF turns[k].owner \in dsDead THEN Nobody ELSE turns[k].owner
<1> DEFINE r == Session!Reaped(turns)
           f == [k \in DOMAIN turns |-> IF turns[k].owner \in dsDead THEN [turns[k] EXCEPT !.owner = Nobody]
                                                                   ELSE turns[k]]
<1>1. r = f /\ Len(turns) \in Nat /\ DOMAIN turns = 1 .. Len(turns)
  BY DEF Session!Reaped
<1>2. ASSUME NEW k \in DOMAIN turns
      PROVE  /\ f[k] \in Session!Turn /\ f[k].id = turns[k].id
             /\ f[k].owner = IF turns[k].owner \in dsDead THEN Nobody ELSE turns[k].owner
  <2>1. turns[k] \in Session!Turn
    OBVIOUS
  <2>2. turns[k].id \in Session!Ids /\ turns[k] = [id |-> turns[k].id, owner |-> turns[k].owner]
        /\ turns[k].owner \in Chats \cup {Nobody}
    BY <2>1 DEF Session!Turn
  <2>3. f[k] = IF turns[k].owner \in dsDead THEN [turns[k] EXCEPT !.owner = Nobody] ELSE turns[k]
    OBVIOUS
  <2> HIDE DEF f
  <2>4. QED
    BY <2>1, <2>2, <2>3 DEF Session!Turn
<1>3. f = [k \in DOMAIN turns |-> f[k]]
  OBVIOUS
<1> HIDE DEF f, r
<1>4. r \in Seq(Session!Turn) /\ Len(r) = Len(turns)
  BY <1>1, <1>2, <1>3
<1>5. QED
  BY <1>1, <1>2, <1>4 DEF Relabelled, r

\* Answering changes one owner: that of the newest request.
LEMMA ClearedFacts ==
  ASSUME NEW turns \in Seq(Session!Turn), NEW p
  PROVE  /\ Session!Cleared(turns, p) \in Seq(Session!Turn)
         /\ Relabelled(Session!Cleared(turns, p), turns)
         /\ \A k \in DOMAIN turns :
              Session!Cleared(turns, p)[k].owner = IF k \in Session!Newest(turns, p) THEN Nobody ELSE turns[k].owner
<1> DEFINE r == Session!Cleared(turns, p)
           f == [k \in DOMAIN turns |-> IF k \in Session!Newest(turns, p) THEN [turns[k] EXCEPT !.owner = Nobody]
                                                                  ELSE turns[k]]
<1>1. r = f /\ Len(turns) \in Nat /\ DOMAIN turns = 1 .. Len(turns)
  BY DEF Session!Cleared
<1>2. ASSUME NEW k \in DOMAIN turns
      PROVE  /\ f[k] \in Session!Turn /\ f[k].id = turns[k].id
             /\ f[k].owner = IF k \in Session!Newest(turns, p) THEN Nobody ELSE turns[k].owner
  <2>1. turns[k] \in Session!Turn
    OBVIOUS
  <2>2. turns[k].id \in Session!Ids /\ turns[k] = [id |-> turns[k].id, owner |-> turns[k].owner]
        /\ turns[k].owner \in Chats \cup {Nobody}
    BY <2>1 DEF Session!Turn
  <2>3. f[k] = IF k \in Session!Newest(turns, p) THEN [turns[k] EXCEPT !.owner = Nobody] ELSE turns[k]
    OBVIOUS
  <2> HIDE DEF f
  <2>4. QED
    BY <2>1, <2>2, <2>3 DEF Session!Turn
<1>3. f = [k \in DOMAIN turns |-> f[k]]
  OBVIOUS
<1> HIDE DEF f, r
<1>4. r \in Seq(Session!Turn) /\ Len(r) = Len(turns)
  BY <1>1, <1>2, <1>3
<1>5. QED
  BY <1>1, <1>2, <1>4 DEF Relabelled, r

\* A turn at the end of others.
LEMMA AppendFacts ==
  ASSUME NEW turns \in Seq(Session!Turn), NEW turn \in Session!Turn
  PROVE  /\ Append(turns, turn) \in Seq(Session!Turn)
         /\ Len(Append(turns, turn)) = Len(turns) + 1
         /\ DOMAIN Append(turns, turn) = DOMAIN turns \cup {Len(turns) + 1}
         /\ \A k \in DOMAIN turns : Append(turns, turn)[k] = turns[k]
         /\ Append(turns, turn)[Len(turns) + 1] = turn
         /\ Append(turns, turn) # <<>>
         /\ Session!IdsOf(Append(turns, turn)) = Session!IdsOf(turns) \cup {turn.id}
         /\ Once(turns) /\ turn.id \notin Session!IdsOf(turns) => Once(Append(turns, turn))
<1> DEFINE r == Append(turns, turn)
           n == Len(turns) + 1
<1>1. /\ r \in Seq(Session!Turn) /\ Len(r) = n /\ DOMAIN r = DOMAIN turns \cup {n}
      /\ \A k \in DOMAIN turns : r[k] = turns[k]
      /\ r[n] = turn /\ r # <<>>
  OBVIOUS
<1> HIDE DEF r
<1>2. Session!IdsOf(r) = Session!IdsOf(turns) \cup {turn.id}
  BY <1>1 DEF Session!IdsOf
<1>3. ASSUME Once(turns), turn.id \notin Session!IdsOf(turns) PROVE Once(r)
  <2>1. \A k \in DOMAIN turns : r[k].id # turn.id
    BY <1>1, <1>3 DEF Session!IdsOf
  <2>2. QED
    BY <1>1, <1>3, <2>1 DEF Once
<1>4. QED
  BY <1>1, <1>2, <1>3 DEF r

\* A session without the turns its summary covers ends where it did.
LEMMA CutFacts ==
  ASSUME NEW s \in Session!Session, Sound(s)
  PROVE  LET n == Session!LocalCut(s)
             c == Session!CutOff(s, n, TRUE)
         IN  /\ n \in Nat /\ n <= Len(s.turns)
             /\ c \in Session!Session /\ Sound(c)
             /\ c.upto = s.upto /\ c.covers = s.covers /\ c.arch = s.arch + n
             /\ c.arch = IF s.upto > s.arch THEN s.upto ELSE s.arch
             /\ End(c) = End(s)
             /\ DOMAIN c.turns = 1 .. Len(s.turns) - n /\ Len(c.turns) = Len(s.turns) - n
             /\ \A k \in 1 .. Len(s.turns) - n : c.turns[k] = s.turns[n + k]
             /\ Session!IdsOf(c.turns) \subseteq Session!IdsOf(s.turns)
             /\ \A x \in Session!IdsOf(s.turns) :
                  x \in Session!IdsOf(c.turns) \/ \E k \in 1 .. n : k \in DOMAIN s.turns /\ x = s.turns[k].id
             /\ n = 0 => c.turns = s.turns
             /\ Begun(s) => Begun(c)
<1> DEFINE n == Session!LocalCut(s)
           c == Session!CutOff(s, n, TRUE)
<1>1. /\ s.turns \in Seq(Session!Turn) /\ Len(s.turns) \in Nat /\ s.arch \in Nat /\ s.upto \in Nat
      /\ s.arch \in 0 .. MaxIndex /\ s.upto \in 0 .. MaxIndex /\ s.covers \in SUBSET Session!Ids
      /\ DOMAIN s.turns = 1 .. Len(s.turns)
      /\ n \in Nat /\ n = (IF s.upto > s.arch THEN s.upto - s.arch ELSE 0)
  BY SessionTypes
<1>2. s.upto <= s.arch + Len(s.turns)
  BY DEF Sound, End
<1>3. n <= Len(s.turns)
  BY <1>1, <1>2
<1>4. /\ c.turns = SubSeq(s.turns, n + 1, Len(s.turns)) /\ c.arch = s.arch + n
      /\ c.upto = s.upto /\ c.covers = s.covers
      /\ c = [turns |-> c.turns, arch |-> c.arch, upto |-> c.upto, covers |-> c.covers]
  BY DEF Session!Session, Session!CutOff
<1> HIDE DEF c, n
<1>5. /\ c.turns \in Seq(Session!Turn) /\ Len(c.turns) = Len(s.turns) - n
      /\ DOMAIN c.turns = 1 .. Len(s.turns) - n
      /\ \A k \in 1 .. Len(s.turns) - n : c.turns[k] = s.turns[n + k]
  <2>1. LET r == SubSeq(s.turns, n + 1, Len(s.turns))
        IN  /\ r \in Seq(Session!Turn) /\ Len(r) = Len(s.turns) - n
            /\ DOMAIN r = 1 .. Len(s.turns) - n
            /\ \A k \in 1 .. Len(s.turns) - n : r[k] = s.turns[n + k]
    <3> DEFINE t == s.turns
    <3>1. t \in Seq(Session!Turn) /\ n \in Nat /\ n <= Len(t)
      BY <1>1, <1>3
    <3> HIDE DEF t
    <3>2. LET r == SubSeq(t, n + 1, Len(t))
          IN  /\ r \in Seq(Session!Turn) /\ Len(r) = Len(t) - n
              /\ DOMAIN r = 1 .. Len(t) - n
              /\ \A k \in 1 .. Len(t) - n : r[k] = t[n + k]
      BY <3>1, TailFacts
    <3>3. QED
      BY <3>2 DEF t
  <2>2. QED
    BY <1>4, <2>1
<1>0. /\ n \in Nat /\ Len(s.turns) \in Nat /\ DOMAIN s.turns = 1 .. Len(s.turns)
      /\ n <= Len(s.turns)
  BY <1>1, <1>3
<1>6. c.arch = IF s.upto > s.arch THEN s.upto ELSE s.arch
  BY <1>1, <1>4
<1>7. c \in Session!Session
  <2>1. c.arch \in 0 .. MaxIndex
    BY <1>1, <1>6
  <2>2. QED
    BY <1>1, <1>4, <1>5, <2>1 DEF Session!Session
<1>8. End(c) = End(s)
  BY <1>1, <1>3, <1>4, <1>5 DEF End
<1>9. \A k \in DOMAIN c.turns : n + k \in DOMAIN s.turns /\ c.turns[k] = s.turns[n + k] /\ k \in Nat
  BY <1>0, <1>5
<1>10. Sound(c)
  <2>1. Once(c.turns)
    <3>1. SUFFICES ASSUME NEW j \in DOMAIN c.turns, NEW k \in DOMAIN c.turns, j # k
                   PROVE  c.turns[j].id # c.turns[k].id
      BY DEF Once
    <3>2. n + j # n + k
      BY <1>1, <1>9, <3>1
    <3>3. QED
      BY <1>9, <3>1, <3>2 DEF Sound, Once
  <2>2. Old(c.turns)
    BY <1>9 DEF Sound, Old
  <2>3. c.upto <= End(c)
    BY <1>4, <1>8 DEF Sound
  <2>4. QED
    BY <2>1, <2>2, <2>3 DEF Sound
<1>11. Session!IdsOf(c.turns) \subseteq Session!IdsOf(s.turns)
  BY <1>9 DEF Session!IdsOf
<1>12. ASSUME NEW x \in Session!IdsOf(s.turns)
       PROVE  x \in Session!IdsOf(c.turns) \/ \E k \in 1 .. n : k \in DOMAIN s.turns /\ x = s.turns[k].id
  <2>1. PICK k \in DOMAIN s.turns : x = s.turns[k].id
    BY DEF Session!IdsOf
  <2>2. CASE k <= n
    <3>1. k \in 1 .. n
      BY <1>1, <2>2
    <3>2. QED
      BY <2>1, <3>1
  <2>3. CASE k > n
    <3>1. k - n \in DOMAIN c.turns /\ n + (k - n) = k
      <4>1. k \in Nat /\ k <= Len(s.turns)
        BY <1>0, <2>1
      <4>2. k - n \in 1 .. Len(s.turns) - n /\ n + (k - n) = k
        BY <1>0, <2>3, <4>1
      <4>3. QED
        BY <1>5, <4>2
    <3>2. QED
      BY <1>9, <2>1, <3>1 DEF Session!IdsOf
  <2>4. QED
    BY <1>1, <2>2, <2>3
<1>13. n = 0 => c.turns = s.turns
  BY <1>1, <1>5
<1>14. Begun(s) => Begun(c)
  <2>1. CASE n = 0
    BY <1>1, <1>4, <1>13, <2>1 DEF Begun
  <2>2. CASE n # 0
    <3>1. c.arch > 0
      BY <1>1, <1>4, <2>2
    <3>2. QED
      BY <3>1 DEF Begun
  <2>3. QED
    BY <2>1, <2>2
<1>15. QED
  BY <1>1, <1>3, <1>4, <1>5, <1>6, <1>7, <1>8, <1>10, <1>11, <1>12, <1>13, <1>14 DEF c, n

\* The names of the archive, after a step.
LEMMA NamesNext ==
  /\ Session!LastIndex' = EndsAt(dsArchive') /\ Session!Archived' = IdsIn(dsArchive')
  /\ Session!IndicesGrow' <=> Growing(dsArchive')
  BY DEF Session!LastIndex, EndsAt, Session!Archived, IdsIn, Session!IndicesGrow, Growing,
     Session!Last

\* What is past the archive, in order.
OnTop(records) == records \in Seq(Session!Record) /\ Growing(records)
                  /\ \A k \in DOMAIN records : records[k].i > Session!LastIndex

\* The first k of the records, and all but the first.
LEMMA PrefixFacts ==
  ASSUME NEW r \in Seq(Session!Record), OnTop(r), NEW k \in 0 .. Len(r)
  PROVE  LET f == SubSeq(r, 1, k)
         IN  /\ OnTop(f) /\ (f = <<>> <=> k = 0)
             /\ IdsIn(f) = UNION {r[j].ids : j \in 1 .. k}
             /\ EndsAt(f) = IF k = 0 THEN 0 ELSE r[k].i
<1> DEFINE f == SubSeq(r, 1, k)
<1>1. /\ Len(r) \in Nat /\ k \in Nat /\ k <= Len(r) /\ DOMAIN r = 1 .. Len(r)
      /\ f \in Seq(Session!Record) /\ Len(f) = k /\ DOMAIN f = 1 .. k
      /\ \A j \in 1 .. k : f[j] = r[j]
  OBVIOUS
<1>2. f = <<>> <=> k = 0
  <2>1. k = 0 => Len(f) = 0
    BY <1>1
  <2>2. Len(f) = 0 => f = <<>>
    BY <1>1
  <2>3. f = <<>> => Len(f) = 0
    OBVIOUS
  <2>4. QED
    BY <1>1, <2>1, <2>2, <2>3
<1> HIDE DEF f
<1>3. \A j \in DOMAIN f : j \in DOMAIN r /\ f[j] = r[j]
  BY <1>1
<1>4. OnTop(f)
  <2>1. \A j \in DOMAIN f : f[j].i > Session!LastIndex
    BY <1>3 DEF OnTop
  <2>2. Growing(f)
    BY <1>3 DEF OnTop, Growing
  <2>3. QED
    BY <1>1, <2>1, <2>2 DEF OnTop
<1>5. IdsIn(f) = UNION {r[j].ids : j \in 1 .. k}
  <2>1. {f[j].ids : j \in DOMAIN f} = {r[j].ids : j \in 1 .. k}
    BY <1>1
  <2>2. QED
    BY <2>1 DEF IdsIn
<1>6. EndsAt(f) = IF k = 0 THEN 0 ELSE r[k].i
  <2>1. k # 0 => k \in 1 .. k
    BY <1>1
  <2>2. QED
    BY <1>1, <1>2, <2>1 DEF EndsAt
<1>7. QED
  BY <1>2, <1>4, <1>5, <1>6 DEF f

\* Records that grow still do without the first.
LEMMA ButFirstFacts ==
  ASSUME NEW r \in Seq(Session!Record), OnTop(r), r # <<>>
  PROVE  OnTop(Tail(r))
<1> DEFINE t == Tail(r)
<1>1. /\ Len(r) \in Nat /\ DOMAIN r = 1 .. Len(r) /\ Len(r) >= 1
      /\ t \in Seq(Session!Record) /\ Len(t) = Len(r) - 1 /\ DOMAIN t = 1 .. Len(r) - 1
      /\ \A j \in 1 .. Len(r) - 1 : t[j] = r[j + 1]
  OBVIOUS
<1> HIDE DEF t
<1>2. \A j \in DOMAIN t : j + 1 \in DOMAIN r /\ t[j] = r[j + 1] /\ j \in Nat
  BY <1>1
<1>3. \A j \in DOMAIN t : t[j].i > Session!LastIndex
  BY <1>2 DEF OnTop
<1>4. Growing(t)
  <2>1. SUFFICES ASSUME NEW j \in DOMAIN t, NEW k \in DOMAIN t, j < k PROVE t[j].i < t[k].i
    BY DEF Growing
  <2>2. j + 1 < k + 1
    BY <1>2, <2>1
  <2>3. QED
    BY <1>2, <2>2 DEF OnTop, Growing
<1>5. QED
  BY <1>1, <1>3, <1>4 DEF OnTop, t

\* A write adds to the archive what it appends, whatever it folds, and takes
\* nothing away.
LEMMA WriteFacts ==
  ASSUME dsArchive \in Seq(Session!Record), Growing(dsArchive), NEW records, OnTop(records),
         dsArchive' = Session!Compacted \o Session!Readable(records)
  PROVE  /\ dsArchive' \in Seq(Session!Record) /\ Growing(dsArchive')
         /\ Session!Archived \subseteq Session!Archived'
         /\ Session!LastIndex' >= Session!LastIndex
         /\ Session!LastIndex' \in Nat /\ Session!LastIndex \in Nat
         /\ ~dsTorn => /\ Session!Archived' = Session!Archived \cup IdsIn(records)
                     /\ Session!LastIndex' = IF records = <<>> THEN Session!LastIndex ELSE EndsAt(records)
<1> DEFINE r == Session!Readable(records)
<1>1. OnTop(r) /\ (~dsTorn => r = records)
  <2>1. records \in Seq(Session!Record)
    BY DEF OnTop
  <2>2. QED
    BY <2>1, ButFirstFacts DEF Session!Readable, Session!StillTorn
<1> HIDE DEF r
<1>2. /\ Session!Compacted \in Seq(Session!Record) /\ Growing(Session!Compacted)
      /\ IdsIn(Session!Compacted) = Session!Archived
      /\ EndsAt(Session!Compacted) = Session!LastIndex
  BY FoldKeeps, ArchiveNames
<1>3. r \in Seq(Session!Record) /\ Growing(r) /\ \A k \in DOMAIN r : r[k].i > EndsAt(Session!Compacted)
  BY <1>1, <1>2 DEF OnTop
<1>4. dsArchive' = Session!Compacted \o r
  BY DEF r
<1>5. /\ dsArchive' \in Seq(Session!Record) /\ Growing(dsArchive')
      /\ IdsIn(dsArchive') = Session!Archived \cup IdsIn(r)
      /\ EndsAt(dsArchive') = IF r = <<>> THEN Session!LastIndex ELSE EndsAt(r)
  <2> DEFINE C == Session!Compacted
  <2>1. C \in Seq(Session!Record) /\ Growing(C) /\ \A k \in DOMAIN r : r[k].i > EndsAt(C)
    BY <1>2, <1>3
  <2> HIDE DEF C
  <2>2. /\ C \o r \in Seq(Session!Record) /\ Growing(C \o r)
        /\ IdsIn(C \o r) = IdsIn(C) \cup IdsIn(r)
        /\ EndsAt(C \o r) = IF r = <<>> THEN EndsAt(C) ELSE EndsAt(r)
    BY <1>3, <2>1, JoinFacts
  <2>3. QED
    BY <1>2, <1>4, <2>2 DEF C
<1>6. Session!LastIndex \in Nat /\ Session!LastIndex' \in Nat
  BY <1>5, ArchiveNames, NamesNext, ArchiveTypes
<1>7. Session!LastIndex' >= Session!LastIndex
  <2>1. CASE r = <<>>
    BY <1>5, <1>6, <2>1, NamesNext
  <2>2. CASE r # <<>>
    <3>1. Len(r) \in DOMAIN r /\ EndsAt(r) = r[Len(r)].i
      BY <1>3, <2>2, ArchiveTypes
    <3>2. EndsAt(r) > Session!LastIndex
      BY <1>1, <3>1 DEF OnTop
    <3>3. EndsAt(r) = Session!LastIndex'
      BY <1>5, <2>2, NamesNext
    <3>4. QED
      BY <1>6, <3>2, <3>3
  <2>3. QED
    BY <2>1, <2>2
<1>8. QED
  BY <1>1, <1>5, <1>6, <1>7, NamesNext

\* New records grow.
LEMMA NewOnTop ==
  ASSUME dsArchive \in Seq(Session!Record), NEW s \in Session!Session, NEW n \in Nat
  PROVE  OnTop(Session!NewRecords(s, n))
<1> DEFINE r == Session!NewRecords(s, n)
<1>1. /\ r \in Seq(Session!Record) /\ There(s) \in Nat /\ s.arch + There(s) >= Session!LastIndex
      /\ \A k \in DOMAIN r : k \in Nat /\ k >= 1 /\ r[k].i = s.arch + There(s) + k
  BY NewFacts
<1>2. Session!LastIndex \in Nat /\ s.arch \in Nat
  BY ArchiveNames, ArchiveTypes, SessionTypes
<1> HIDE DEF r
<1>3. \A k \in DOMAIN r : r[k].i > Session!LastIndex
  BY <1>1, <1>2
<1>4. Growing(r)
  BY <1>1, <1>2 DEF Growing
<1>5. QED
  BY <1>1, <1>3, <1>4 DEF OnTop, r

\* What an append, whole or in part, does to the archive: the first k records
\* are there, unless the end of the archive was torn.
Adds(new, k) ==
  /\ Session!Archived' = Session!Archived \cup UNION {new[j].ids : j \in 1 .. k}
  /\ Session!LastIndex' = IF k = 0 THEN Session!LastIndex ELSE new[k].i

\* New records put on an archive: it grows by them, if no record was torn.
LEMMA AppendedFacts ==
  ASSUME Session!TypeOK, Session!IndicesGrow, NEW s \in Session!Session, NEW n \in Nat,
         Session!Appended(Session!NewRecords(s, n))
  PROVE  /\ dsArchive' \in Seq(Session!Record) /\ Growing(dsArchive') /\ dsTears' = dsTears
         /\ Session!Archived \subseteq Session!Archived'
         /\ Session!LastIndex' >= Session!LastIndex
         /\ Session!LastIndex' \in Nat /\ Session!LastIndex \in Nat
         /\ dsTorn' \in BOOLEAN /\ (dsTorn' => dsTorn)
         /\ ~dsTorn => Adds(Session!NewRecords(s, n), Len(Session!NewRecords(s, n)))
<1> DEFINE r == Session!NewRecords(s, n)
<1>1. dsArchive \in Seq(Session!Record) /\ Growing(dsArchive) /\ dsTorn \in BOOLEAN
  BY ArchiveNames DEF Session!TypeOK
<1>2. OnTop(r) /\ r \in Seq(Session!Record) /\ Len(r) \in Nat
  <2>1. OnTop(r)
    BY <1>1, NewOnTop
  <2> HIDE DEF r
  <2>2. QED
    BY <2>1 DEF OnTop, Growing
<1>3. /\ dsArchive' = Session!Compacted \o Session!Readable(r)
      /\ dsTorn' = (Session!StillTorn /\ r = <<>>) /\ dsTears' = dsTears
  BY DEF Session!Appended
<1> HIDE DEF r
<1>4. /\ dsArchive' \in Seq(Session!Record) /\ Growing(dsArchive')
      /\ Session!Archived \subseteq Session!Archived' /\ Session!LastIndex' >= Session!LastIndex
      /\ Session!LastIndex' \in Nat /\ Session!LastIndex \in Nat
      /\ ~dsTorn => /\ Session!Archived' = Session!Archived \cup IdsIn(r)
                  /\ Session!LastIndex' = IF r = <<>> THEN Session!LastIndex ELSE EndsAt(r)
  BY <1>1, <1>2, <1>3, WriteFacts
<1>5. r = SubSeq(r, 1, Len(r)) /\ Len(r) \in 0 .. Len(r)
  BY <1>2
<1>6. /\ r = <<>> <=> Len(r) = 0 
      /\ IdsIn(r) = UNION {r[j].ids : j \in 1 .. Len(r)}
      /\ EndsAt(r) = IF Len(r) = 0 THEN 0 ELSE r[Len(r)].i
  BY <1>2, <1>5, PrefixFacts
<1>7. ~dsTorn => Adds(r, Len(r))
  BY <1>4, <1>6 DEF Adds
<1>8. dsTorn' \in BOOLEAN /\ (dsTorn' => dsTorn)
  BY <1>1, <1>3 DEF Session!StillTorn
<1>9. QED
  BY <1>3, <1>4, <1>7, <1>8 DEF r

\* A write that breaks off: the archive grows by some of them.
LEMMA PartFacts ==
  ASSUME Session!TypeOK, Session!IndicesGrow, NEW s \in Session!Session, NEW n \in Nat,
         Session!AppendedInPart(Session!NewRecords(s, n))
  PROVE  /\ dsArchive' \in Seq(Session!Record) /\ Growing(dsArchive')
         /\ dsTears' \in 0 .. MaxTears
         /\ Session!Archived \subseteq Session!Archived'
         /\ Session!LastIndex' >= Session!LastIndex
         /\ Session!LastIndex' \in Nat /\ Session!LastIndex \in Nat
         /\ dsTorn' \in BOOLEAN
         /\ ~dsTorn => \E k \in 0 .. Len(Session!NewRecords(s, n)) - 1 : Adds(Session!NewRecords(s, n), k)
<1> DEFINE r == Session!NewRecords(s, n)
<1>1. dsArchive \in Seq(Session!Record) /\ Growing(dsArchive) /\ dsTorn \in BOOLEAN
      /\ dsTears \in 0 .. MaxTears /\ MaxTears \in Nat
  BY ArchiveNames, SessionConstants DEF Session!TypeOK
<1>2. OnTop(r) /\ r \in Seq(Session!Record) /\ Len(r) \in Nat
  <2>1. OnTop(r)
    BY <1>1, NewOnTop
  <2> HIDE DEF r
  <2>2. QED
    BY <2>1 DEF OnTop, Growing
<1>3. PICK k \in 0 .. Len(r) - 1, part \in BOOLEAN :
        /\ part => dsTears < MaxTears
        /\ dsArchive' = Session!Compacted \o Session!Readable(SubSeq(r, 1, k))
        /\ dsTorn' = (part \/ (Session!StillTorn /\ SubSeq(r, 1, k) = <<>>))
        /\ dsTears' = IF part THEN dsTears + 1 ELSE dsTears
  BY DEF Session!AppendedInPart
<1> HIDE DEF r
<1>4. k \in 0 .. Len(r)
  BY <1>2
<1> DEFINE f == SubSeq(r, 1, k)
<1>5. /\ OnTop(f) /\ (f = <<>> <=> k = 0)
      /\ IdsIn(f) = UNION {r[j].ids : j \in 1 .. k}
      /\ EndsAt(f) = IF k = 0 THEN 0 ELSE r[k].i
  BY <1>2, <1>4, PrefixFacts
<1>6. dsArchive' = Session!Compacted \o Session!Readable(f)
  BY <1>3
<1> HIDE DEF f
<1>7. /\ dsArchive' \in Seq(Session!Record) /\ Growing(dsArchive')
      /\ Session!Archived \subseteq Session!Archived' /\ Session!LastIndex' >= Session!LastIndex
      /\ Session!LastIndex' \in Nat /\ Session!LastIndex \in Nat
      /\ ~dsTorn => /\ Session!Archived' = Session!Archived \cup IdsIn(f)
                  /\ Session!LastIndex' = IF f = <<>> THEN Session!LastIndex ELSE EndsAt(f)
  BY <1>1, <1>5, <1>6, WriteFacts
<1>8. ~dsTorn => Adds(r, k)
  BY <1>5, <1>7 DEF Adds
<1>9. dsTorn' \in BOOLEAN /\ dsTears' \in 0 .. MaxTears
  BY <1>1, <1>3
<1>10. QED
  BY <1>7, <1>8, <1>9 DEF r

\* A step of one process leaves the others as they are.
Aside(p, f, g) == \A q \in Chats : q # p => g[q] = f[q]
\* Where a chat thread may be.
Places == {"rest", "add", "archive", "write"}

\* What each step leaves alone, and what it makes of the session in memory.
LEMMA OpenFacts ==
  ASSUME Session!TypeOK, SessionsSound, NEW p \in Chats, Session!Open(p)
  PROVE  /\ UNCHANGED <<dsFile, dsArchive, dsTorn, dsLock, dsBack, dsOpen, dsNext, dsSaved,
                        dsDead, dsFails, dsTears,
                        dsCompressors, dsSpoilt>>
         /\ p \notin dsDead /\ dsMain[p] = "rest" /\ dsMain'[p] = "add"
         /\ dsMain' \in [Chats -> Places] /\ dsSynced' \in [Chats -> BOOLEAN]
         /\ dsMem' \in [Chats -> Session!Session]
         /\ Aside(p, dsMain, dsMain') /\ Aside(p, dsMem, dsMem')
         /\ \/ dsMem'[p] = dsMem[p]
            \/ dsMem[p] = Session!NoFile /\ dsMem'[p] = Disk
            \/ dsLock = <<>> /\ dsMem[p] # Session!NoFile /\ dsFile # Session!NoFile /\ dsMem'[p] = Session!Adopted(dsMem[p])
<1>1. /\ dsFile \in Session!Session /\ dsMem \in [Chats -> Session!Session]
      /\ dsMem[p] \in Session!Session
      /\ dsMain \in [Chats -> Places] /\ dsSynced \in [Chats -> BOOLEAN] /\ dsNext \in Nat
  BY SessionConstants DEF Session!TypeOK, Places
<1>2. Sound(dsFile) /\ Sound(dsMem[p])
  BY DEF SessionsSound
<1>3. Session!Adopted(dsMem[p]) \in Session!Session /\ Disk \in Session!Session
  <2>1. Session!Adopted(dsMem[p]) \in Session!Session
    BY <1>1, <1>2, MergeFacts
  <2>2. QED
    BY <1>1, <2>1, EmptyTypes DEF Disk
<1>4. dsMain' = [dsMain EXCEPT ![p] = "add"]
  BY DEF Session!Open
<1>5. dsMain' \in [Chats -> Places] /\ dsMain'[p] = "add" /\ Aside(p, dsMain, dsMain')
  BY <1>1, <1>4 DEF Places, Aside
<1>6. /\ dsSynced' \in [Chats -> BOOLEAN] /\ dsMem' \in [Chats -> Session!Session]
      /\ Aside(p, dsMem, dsMem')
      /\ \/ dsMem'[p] = dsMem[p]
         \/ dsMem[p] = Session!NoFile /\ dsMem'[p] = Disk
         \/ dsLock = <<>> /\ dsMem[p] # Session!NoFile /\ dsFile # Session!NoFile /\ dsMem'[p] = Session!Adopted(dsMem[p])
  <2>1. CASE dsMem[p] = Session!NoFile
    <3>1. /\ dsMem' = [dsMem EXCEPT ![p] = Disk]
          /\ dsSynced' = [dsSynced EXCEPT ![p] = dsFile # Session!NoFile]
      BY <2>1 DEF Session!Open, Disk
    <3>2. QED
      BY <1>1, <1>3, <2>1, <3>1 DEF Aside
  <2>2. CASE dsMem[p] # Session!NoFile /\ (dsFile = Session!NoFile \/ dsSynced[p])
    <3>1. dsMem' = dsMem /\ dsSynced' = dsSynced
      BY <2>2 DEF Session!Open
    <3>2. QED
      BY <1>1, <3>1 DEF Aside
  <2>3. CASE dsMem[p] # Session!NoFile /\ ~(dsFile = Session!NoFile \/ dsSynced[p])
    <3>1. /\ dsLock = <<>> /\ dsMem' = [dsMem EXCEPT ![p] = Session!Adopted(dsMem[p])]
          /\ dsSynced' = [dsSynced EXCEPT ![p] = TRUE]
      BY <2>3 DEF Session!Open
    <3>2. QED
      BY <1>1, <1>3, <2>3, <3>1 DEF Aside
  <2>4. QED
    BY <2>1, <2>2, <2>3
<1>7. QED
  BY <1>5, <1>6 DEF Session!Open, Session!disk, Session!idle, Session!past, Session!Lives

\* No turn is newer than the n-th.
OldAt(turns, n) == \A k \in DOMAIN turns : turns[k].id <= n

\* A merge that is then written: what it takes over.
Merged(p) ==
  /\ dsMem'[p] \in Session!Session /\ Once(dsMem'[p].turns) /\ OldAt(dsMem'[p].turns, dsNext')
  /\ dsMem'[p].upto <= End(dsMem'[p])
  /\ Session!IdsOf(dsFile.turns) \cup Session!IdsOf(dsMem[p].turns) \subseteq Session!IdsOf(dsMem'[p].turns)
  /\ End(dsMem'[p]) >= End(dsMem[p])
  /\ dsMem'[p].arch = IF dsFile.arch >= dsMem[p].arch THEN dsFile.arch ELSE dsMem[p].arch
  /\ dsMem'[p].upto = IF dsFile.upto > dsMem[p].upto THEN dsFile.upto ELSE dsMem[p].upto
  /\ dsMem'[p].covers = IF dsFile # Session!NoFile /\ dsFile.upto > dsMem[p].upto /\ dsFile.covers # {}
                      THEN dsFile.covers ELSE dsMem[p].covers
  /\ dsFile.arch >= dsMem[p].arch => Extends(dsMem'[p], dsFile)
  /\ Begun(dsFile) \/ Begun(dsMem[p]) => Begun(dsMem'[p])

\* The turns a new one is put after, and the new one: a request or its answer.
Kept(p) == IF dsOpen[p] = 0 THEN Session!Reaped(Session!Adopted(dsMem[p]).turns)
                          ELSE Session!Cleared(Session!Reaped(Session!Adopted(dsMem[p]).turns), p)
NewTurn(p) == [id |-> dsNext + 1, owner |-> IF dsOpen[p] = 0 THEN p ELSE Nobody]

\* A turn is added to what the process finds on disk and in its memory.
LEMMA AddFacts ==
  ASSUME Session!TypeOK, SessionsSound, NEW p \in Chats, Session!AddTurn(p)
  PROVE  /\ UNCHANGED <<dsFile, dsArchive, dsTorn, dsSynced, dsBack, dsSaved, dsDead, dsFails,
                        dsTears,
                        dsCompressors, dsSpoilt>>
         /\ p \notin dsDead /\ dsMain[p] = "add" /\ dsMain'[p] = "archive"
         /\ dsLock = <<>> /\ dsLock' = <<p, "main">>
         /\ dsNext < MaxTurns /\ dsNext' = dsNext + 1 /\ dsNext \in Nat
         /\ dsMain' \in [Chats -> Places] /\ dsMem' \in [Chats -> Session!Session]
         /\ dsOpen' = [dsOpen EXCEPT ![p] = IF @ = 0 THEN dsNext + 1 ELSE 0]
         /\ Aside(p, dsMain, dsMain') /\ Aside(p, dsMem, dsMem') /\ Aside(p, dsOpen, dsOpen')
         /\ Merged(p) /\ Begun(dsMem'[p])
         /\ Kept(p) \in Seq(Session!Turn) /\ Relabelled(Kept(p), Session!Adopted(dsMem[p]).turns)
         /\ NewTurn(p) \in Session!Turn
         /\ dsMem'[p].turns = Append(Kept(p), NewTurn(p))
<1> DEFINE s == Session!Adopted(dsMem[p])
           m == dsMem'[p]
<1>1. /\ dsFile \in Session!Session /\ dsMem \in [Chats -> Session!Session]
      /\ dsMem[p] \in Session!Session
      /\ dsMain \in [Chats -> Places] /\ dsNext \in Nat /\ dsOpen \in [Chats -> 0 .. MaxTurns]
  BY SessionConstants DEF Session!TypeOK, Places
<1>2. Sound(dsFile) /\ Sound(dsMem[p])
  BY DEF SessionsSound
<1>3. /\ s \in Session!Session /\ Sound(s)
      /\ Session!IdsOf(s.turns) = Session!IdsOf(dsFile.turns) \cup Session!IdsOf(dsMem[p].turns)
      /\ End(s) >= End(dsMem[p])
      /\ s.arch = IF dsFile.arch >= dsMem[p].arch THEN dsFile.arch ELSE dsMem[p].arch
      /\ s.upto = IF dsFile.upto > dsMem[p].upto THEN dsFile.upto ELSE dsMem[p].upto
      /\ s.covers = IF dsFile # Session!NoFile /\ dsFile.upto > dsMem[p].upto /\ dsFile.covers # {}
                    THEN dsFile.covers ELSE dsMem[p].covers
      /\ dsFile.arch >= dsMem[p].arch => Extends(s, dsFile)
  BY <1>1, <1>2, MergeFacts
<1>4. s.turns \in Seq(Session!Turn) /\ Len(s.turns) \in Nat /\ s.arch \in Nat /\ s.upto \in Nat
  BY <1>3, SessionTypes
<1>5. /\ dsMain' = [dsMain EXCEPT ![p] = "archive"] /\ dsLock = <<>> /\ dsLock' = <<p, "main">>
      /\ dsNext < MaxTurns /\ dsNext' = dsNext + 1
      /\ dsMem' = [dsMem EXCEPT ![p] = [s EXCEPT !.turns = Append(Kept(p), NewTurn(p))]]
      /\ dsOpen' = [dsOpen EXCEPT ![p] = IF @ = 0 THEN dsNext + 1 ELSE 0]
      /\ dsMain[p] = "add" /\ p \notin dsDead
  BY DEF Session!AddTurn, Kept, NewTurn, Session!Lives
<1>6. Kept(p) \in Seq(Session!Turn) /\ Relabelled(Kept(p), s.turns)
  <2>1. /\ Session!Reaped(s.turns) \in Seq(Session!Turn)
        /\ Relabelled(Session!Reaped(s.turns), s.turns)
    BY <1>4, ReapedFacts
  <2>2. Session!Cleared(Session!Reaped(s.turns), p) \in Seq(Session!Turn)
        /\ Relabelled(Session!Cleared(Session!Reaped(s.turns), p), Session!Reaped(s.turns))
    BY <2>1, ClearedFacts
  <2>3. Relabelled(Session!Cleared(Session!Reaped(s.turns), p), s.turns)
    BY <2>1, <2>2, RelabelFacts, <1>4 DEF Relabelled
  <2>4. QED
    BY <2>1, <2>2, <2>3 DEF Kept
<1>7. NewTurn(p) \in Session!Turn /\ NewTurn(p).id = dsNext + 1
  BY <1>1, <1>5, SessionConstants DEF NewTurn, Session!Turn, Session!Ids
<1> HIDE DEF s
<1>8. /\ m = [s EXCEPT !.turns = Append(Kept(p), NewTurn(p))]
      /\ Aside(p, dsMem, dsMem') /\ dsMem' = [dsMem EXCEPT ![p] = m]
  BY <1>1, <1>5 DEF Aside
<1>9. /\ m.turns = Append(Kept(p), NewTurn(p)) /\ m.arch = s.arch /\ m.upto = s.upto
      /\ m.covers = s.covers
      /\ m = [turns |-> m.turns, arch |-> m.arch, upto |-> m.upto, covers |-> m.covers]
  BY <1>3, <1>8 DEF Session!Session
<1> HIDE DEF m
<1>10. /\ m.turns \in Seq(Session!Turn) /\ Len(m.turns) = Len(Kept(p)) + 1
       /\ DOMAIN m.turns = DOMAIN Kept(p) \cup {Len(Kept(p)) + 1}
       /\ \A k \in DOMAIN Kept(p) : m.turns[k] = Kept(p)[k]
       /\ m.turns[Len(Kept(p)) + 1] = NewTurn(p) /\ m.turns # <<>>
       /\ Session!IdsOf(m.turns) = Session!IdsOf(Kept(p)) \cup {dsNext + 1}
       /\ Once(Kept(p)) /\ dsNext + 1 \notin Session!IdsOf(Kept(p)) => Once(m.turns)
  BY <1>6, <1>7, <1>9, AppendFacts
<1>11. /\ DOMAIN Kept(p) = DOMAIN s.turns /\ Session!IdsOf(Kept(p)) = Session!IdsOf(s.turns)
       /\ Once(Kept(p)) /\ Old(Kept(p)) /\ Len(Kept(p)) = Len(s.turns)
  BY <1>3, <1>4, <1>6, RelabelFacts DEF Sound, Relabelled
<1>12. Once(m.turns)
  <2>1. \A k \in DOMAIN Kept(p) : Kept(p)[k].id # dsNext + 1
    BY <1>1, <1>6, <1>11, TurnTypes DEF Old
  <2>2. QED
    BY <1>10, <1>11, <2>1 DEF Session!IdsOf
<1>13. \A k \in DOMAIN m.turns : m.turns[k].id <= dsNext'
  <2>1. \A k \in DOMAIN Kept(p) : Kept(p)[k].id <= dsNext + 1
    BY <1>1, <1>6, <1>11, TurnTypes DEF Old
  <2>2. QED
    BY <1>1, <1>5, <1>7, <1>10, <2>1
<1>14. m \in Session!Session
  BY <1>3, <1>9, <1>10 DEF Session!Session
<1>15. m.upto <= End(m) /\ End(m) >= End(dsMem[p])
  <2>1. End(m) = End(s) + 1
    <3>1. Len(m.turns) = Len(s.turns) + 1 /\ m.arch = s.arch
      BY <1>9, <1>10, <1>11
    <3>2. End(m) = m.arch + Len(m.turns) /\ End(s) = s.arch + Len(s.turns)
      BY DEF End
    <3>3. QED
      BY <1>4, <3>1, <3>2
  <2>2. s.upto <= End(s) /\ End(s) \in Nat /\ End(dsMem[p]) \in Nat
    BY <1>1, <1>3, SessionTypes DEF Sound
  <2>3. QED
    BY <1>3, <1>4, <1>9, <2>1, <2>2
<1>16. dsFile.arch >= dsMem[p].arch => Extends(m, dsFile)
  <2>1. ASSUME dsFile.arch >= dsMem[p].arch PROVE Extends(m, dsFile)
    <3>1. Extends(s, dsFile)
      BY <1>3, <2>1
    <3>2. \A k \in DOMAIN dsFile.turns : k \in DOMAIN s.turns
      BY <1>1, <1>4, <3>1, SessionTypes DEF Extends
    <3>3. \A k \in DOMAIN s.turns : m.turns[k].id = s.turns[k].id
      BY <1>6, <1>10, <1>11 DEF Relabelled
    <3>4. Len(dsFile.turns) <= Len(m.turns)
      BY <1>1, <1>4, <1>10, <1>11, <3>1, SessionTypes DEF Extends
    <3>5. QED
      BY <3>1, <3>2, <3>3, <3>4 DEF Extends
  <2>2. QED
    BY <2>1
<1>17. Begun(m)
  BY <1>10 DEF Begun
<1>18. Merged(p)
  <2>1. OldAt(m.turns, dsNext')
    BY <1>13 DEF OldAt
  <2>2. Session!IdsOf(dsFile.turns) \cup Session!IdsOf(dsMem[p].turns) \subseteq Session!IdsOf(m.turns)
    BY <1>3, <1>10, <1>11
  <2>3. QED
    BY <1>3, <1>9, <1>12, <1>14, <1>15, <1>16, <1>17, <2>1, <2>2 DEF Merged, m
<1>19. dsMem' \in [Chats -> Session!Session]
  BY <1>1, <1>8, <1>14
<1>20. /\ dsMain' \in [Chats -> Places] /\ dsMain'[p] = "archive" /\ Aside(p, dsMain, dsMain')
       /\ Aside(p, dsOpen, dsOpen')
  BY <1>1, <1>5 DEF Places, Aside
<1>21. QED
  BY <1>1, <1>5, <1>6, <1>7, <1>8, <1>9, <1>17, <1>18, <1>19, <1>20 DEF Session!AddTurn,
     Session!disk, Session!past, s, m

\* The compression thread at rest, and at each of its steps.
LEMMA RestTypes ==
  /\ Session!Rest \in Session!Work /\ Session!Rest.at = "rest" /\ Session!Rest.cut = 0
  /\ Session!Rest.covers = {}
  /\ \A at \in {"rest", "summarise", "save", "archive", "write"} :
       [Session!Rest EXCEPT !.at = at] \in Session!Work /\ [Session!Rest EXCEPT !.at = at].at = at
  /\ [Session!Rest EXCEPT !.at = "rest"] = Session!Rest
<1>1. 0 \in 0 .. MaxIndex /\ {} \in SUBSET Session!Ids
  BY SessionConstants
<1>2. QED
  BY <1>1 DEF Session!Rest, Session!Work

\* What is saved is what the merge gives, its dead requests released.
LEMMA SaveFacts ==
  ASSUME Session!TypeOK, SessionsSound, NEW p \in Chats, Session!Save(p)
  PROVE  /\ UNCHANGED <<dsFile, dsArchive, dsTorn, dsSynced, dsMain, dsOpen, dsNext, dsSaved,
                        dsDead, dsFails, dsTears,
                        dsCompressors, dsSpoilt>>
         /\ p \notin dsDead /\ dsBack[p].at = "save" /\ dsBack'[p].at = "archive"
         /\ dsLock = <<>> /\ dsLock' = <<p, "back">>
         /\ dsBack' \in [Chats -> Session!Work] /\ dsMem' \in [Chats -> Session!Session]
         /\ Aside(p, dsBack, dsBack') /\ Aside(p, dsMem, dsMem')
         /\ Merged(p)
         /\ Relabelled(dsMem'[p].turns, Session!Adopted(dsMem[p]).turns)
         /\ dsMem'[p].turns = Session!Reaped(Session!Adopted(dsMem[p]).turns)
         /\ Session!Adopted(dsMem[p]).turns \in Seq(Session!Turn)
<1> DEFINE s == Session!Adopted(dsMem[p])
           m == dsMem'[p]
<1>1. /\ dsFile \in Session!Session /\ dsMem \in [Chats -> Session!Session]
      /\ dsMem[p] \in Session!Session
      /\ dsBack \in [Chats -> Session!Work] /\ dsNext \in Nat
  BY SessionConstants DEF Session!TypeOK
<1>2. Sound(dsFile) /\ Sound(dsMem[p])
  BY DEF SessionsSound
<1>3. /\ s \in Session!Session /\ Sound(s)
      /\ Session!IdsOf(s.turns) = Session!IdsOf(dsFile.turns) \cup Session!IdsOf(dsMem[p].turns)
      /\ End(s) >= End(dsMem[p])
      /\ s.arch = IF dsFile.arch >= dsMem[p].arch THEN dsFile.arch ELSE dsMem[p].arch
      /\ s.upto = IF dsFile.upto > dsMem[p].upto THEN dsFile.upto ELSE dsMem[p].upto
      /\ s.covers = IF dsFile # Session!NoFile /\ dsFile.upto > dsMem[p].upto /\ dsFile.covers # {}
                    THEN dsFile.covers ELSE dsMem[p].covers
      /\ dsFile.arch >= dsMem[p].arch => Extends(s, dsFile)
      /\ Begun(dsFile) \/ Begun(dsMem[p]) => Begun(s)
  BY <1>1, <1>2, MergeFacts
<1>4. s.turns \in Seq(Session!Turn) /\ Len(s.turns) \in Nat /\ s.arch \in Nat /\ s.upto \in Nat
  BY <1>3, SessionTypes
<1>5. /\ dsBack' = [dsBack EXCEPT ![p].at = "archive"] /\ dsLock = <<>> /\ dsLock' = <<p, "back">>
      /\ dsMem' = [dsMem EXCEPT ![p] = [s EXCEPT !.turns = Session!Reaped(@)]]
      /\ dsBack[p].at = "save" /\ p \notin dsDead
  BY DEF Session!Save, Session!Lives
<1>6. /\ Session!Reaped(s.turns) \in Seq(Session!Turn)
      /\ Relabelled(Session!Reaped(s.turns), s.turns)
  BY <1>4, ReapedFacts
<1> HIDE DEF s
<1>7. /\ m = [s EXCEPT !.turns = Session!Reaped(s.turns)]
      /\ Aside(p, dsMem, dsMem') /\ dsMem' = [dsMem EXCEPT ![p] = m]
  BY <1>1, <1>5 DEF Aside
<1>8. /\ m.turns = Session!Reaped(s.turns) /\ m.arch = s.arch /\ m.upto = s.upto
      /\ m.covers = s.covers
      /\ m = [turns |-> m.turns, arch |-> m.arch, upto |-> m.upto, covers |-> m.covers]
  BY <1>3, <1>7 DEF Session!Session
<1> HIDE DEF m
<1>9. /\ DOMAIN m.turns = DOMAIN s.turns /\ Session!IdsOf(m.turns) = Session!IdsOf(s.turns)
      /\ Once(m.turns) /\ Old(m.turns) /\ Len(m.turns) = Len(s.turns)
      /\ m.turns \in Seq(Session!Turn)
      /\ (m.turns = <<>> <=> s.turns = <<>>)
  BY <1>3, <1>4, <1>6, <1>8, RelabelFacts DEF Sound, Relabelled
<1>10. m \in Session!Session
  BY <1>3, <1>8, <1>9 DEF Session!Session
<1>11. m.upto <= End(m) /\ End(m) >= End(dsMem[p])
  <2>1. End(m) = End(s)
    BY <1>8, <1>9 DEF End
  <2>2. QED
    BY <1>3, <1>8, <2>1 DEF Sound
<1>12. dsFile.arch >= dsMem[p].arch => Extends(m, dsFile)
  <2>1. ASSUME dsFile.arch >= dsMem[p].arch PROVE Extends(m, dsFile)
    <3>1. Extends(s, dsFile)
      BY <1>3, <2>1
    <3>2. \A k \in DOMAIN dsFile.turns : k \in DOMAIN s.turns
      BY <1>1, <1>4, <3>1, SessionTypes DEF Extends
    <3>3. QED
      BY <1>6, <1>8, <1>9, <3>1, <3>2 DEF Extends, Relabelled
  <2>2. QED
    BY <2>1
<1>13. Begun(dsFile) \/ Begun(dsMem[p]) => Begun(m)
  BY <1>3, <1>8, <1>9 DEF Begun
<1>14. Merged(p)
  <2>0. dsNext' = dsNext
    BY DEF Session!Save, Session!idle
  <2>1. OldAt(m.turns, dsNext')
    BY <1>9, <2>0 DEF OldAt, Old
  <2>2. QED
    BY <1>3, <1>8, <1>9, <1>10, <1>11, <1>12, <1>13, <2>1 DEF Merged, m
<1>15. dsMem' \in [Chats -> Session!Session]
  BY <1>1, <1>7, <1>10
<1>16. /\ dsBack' \in [Chats -> Session!Work] /\ dsBack'[p].at = "archive"
       /\ Aside(p, dsBack, dsBack')
  <2>1. dsBack[p] \in Session!Work
    BY <1>1
  <2>2. /\ [dsBack[p] EXCEPT !.at = "archive"] \in Session!Work
        /\ [dsBack[p] EXCEPT !.at = "archive"].at = "archive"
    BY <2>1 DEF Session!Work
  <2>3. dsBack' = [dsBack EXCEPT ![p] = [dsBack[p] EXCEPT !.at = "archive"]]
    BY <1>5
  <2>4. QED
    BY <1>1, <2>2, <2>3 DEF Aside
<1>17. QED
  BY <1>4, <1>5, <1>6, <1>7, <1>8, <1>14, <1>15, <1>16 DEF Session!Save, Session!disk,
     Session!past, Session!idle, s, m

\* What a compressor chooses ends within its session.
LEMMA ChooseFacts ==
  ASSUME Session!TypeOK, NEW p \in Chats, Session!Choose(p)
  PROVE  /\ UNCHANGED <<dsFile, dsArchive, dsTorn, dsMem, dsSynced, dsLock, dsMain, dsOpen,
                        dsNext, dsSaved, dsDead, dsFails,
                        dsTears, dsSpoilt>>
         /\ p \notin dsDead /\ dsMem[p] # Session!NoFile /\ dsBack[p] = Session!Rest
         /\ dsBack' \in [Chats -> Session!Work] /\ Aside(p, dsBack, dsBack')
         /\ dsCompressors' = dsCompressors \cup {p}
         /\ dsBack'[p].at = "summarise"
         /\ dsBack'[p].cut = End(dsMem[p]) - KeepRecent /\ dsBack'[p].cut <= End(dsMem[p])
         /\ dsBack'[p].cut > dsMem[p].arch + Session!LocalCut(dsMem[p])
         /\ dsBack'[p].covers = dsMem[p].covers \cup
              Session!IdsOf(SubSeq(dsMem[p].turns, Session!LocalCut(dsMem[p]) + 1, Len(dsMem[p].turns) - KeepRecent))
         /\ Begun(dsMem[p])
<1> DEFINE s == dsMem[p]
           n == Len(s.turns)
           cut == s.arch + n - KeepRecent
           rest == SubSeq(s.turns, Session!LocalCut(s) + 1, n - KeepRecent)
           covers == s.covers \cup Session!IdsOf(rest)
           w == [at |-> "summarise", cut |-> cut, covers |-> covers]
<1>1. /\ dsBack \in [Chats -> Session!Work] /\ s \in Session!Session /\ KeepRecent \in Nat
      /\ MaxIndex \in Nat
  BY SessionConstants DEF Session!TypeOK
<1>2. /\ n \in Nat /\ s.arch \in Nat /\ Session!LocalCut(s) \in Nat
      /\ s.covers \in SUBSET Session!Ids
      /\ s.turns \in Seq(Session!Turn) /\ DOMAIN s.turns = 1 .. n
  BY <1>1, SessionTypes
<1>3. /\ n > KeepRecent + Session!LocalCut(s) /\ cut <= MaxIndex
      /\ dsBack' = [dsBack EXCEPT ![p] = w] /\ dsCompressors' = dsCompressors \cup {p}
      /\ s # Session!NoFile /\ dsBack[p] = Session!Rest /\ p \notin dsDead
  BY DEF Session!Choose, Session!Lives
<1>4. cut \in Nat /\ cut <= s.arch + n /\ cut > s.arch + Session!LocalCut(s)
  <2> DEFINE a == s.arch
             l == Session!LocalCut(s)
  <2>1. a \in Nat /\ l \in Nat /\ n \in Nat /\ KeepRecent \in Nat /\ n > KeepRecent + l
    BY <1>1, <1>2, <1>3
  <2> HIDE DEF a, l, n
  <2>2. a + n - KeepRecent \in Nat /\ a + n - KeepRecent <= a + n /\ a + n - KeepRecent > a + l
    BY <2>1
  <2>3. QED
    BY <2>2 DEF a, l
<1>5. rest \in Seq(Session!Turn)
  <2>1. n - KeepRecent \in Nat /\ n - KeepRecent <= n /\ Session!LocalCut(s) + 1 >= 1
    BY <1>1, <1>2, <1>3
  <2> DEFINE a == Session!LocalCut(s) + 1
             b == n - KeepRecent
             t == s.turns
  <2>2. a \in Nat /\ b \in Nat /\ a >= 1 /\ b <= Len(t) /\ t \in Seq(Session!Turn)
    BY <1>2, <2>1
  <2> HIDE DEF a, b, t
  <2>3. SubSeq(t, a, b) \in Seq(Session!Turn)
    BY <2>2
  <2>4. QED
    BY <2>3 DEF a, b, t
<1> HIDE DEF rest, n
<1>6. covers \in SUBSET Session!Ids
  <2>1. Session!IdsOf(rest) \in SUBSET Session!Ids
    BY <1>5, TurnTypes DEF Session!IdsOf
  <2>2. QED
    BY <1>2, <2>1
<1>7. cut \in 0 .. MaxIndex
  BY <1>1, <1>3, <1>4
<1> HIDE DEF cut, covers
<1>8. w \in Session!Work /\ w.at = "summarise" /\ w.cut = cut /\ w.covers = covers
  BY <1>6, <1>7 DEF Session!Work
<1> HIDE DEF w
<1>9. dsBack' \in [Chats -> Session!Work] /\ Aside(p, dsBack, dsBack') /\ dsBack'[p] = w
  BY <1>1, <1>3, <1>8 DEF Aside
<1>10. Begun(s)
  <2>1. s.turns # <<>>
    <3>1. n > 0
      BY <1>1, <1>2, <1>3
    <3>2. s.turns = <<>> => n = 0
      BY DEF n
    <3>3. QED
      BY <3>1, <3>2
  <2>2. QED
    BY <2>1 DEF Begun
<1>11. cut = End(s) - KeepRecent /\ cut <= End(s)
  <2>1. End(s) = s.arch + n
    BY DEF End, n
  <2>2. cut = End(s) - KeepRecent
    BY <1>1, <1>2, <2>1 DEF cut, n
  <2>3. QED
    BY <1>4, <2>1, <2>2
<1>12. UNCHANGED <<dsFile, dsArchive, dsTorn, dsMem, dsSynced, dsLock, dsMain, dsOpen, dsNext,
                   dsSaved, dsDead, dsFails,
                        dsTears, dsSpoilt>>
  BY DEF Session!Choose, Session!disk, Session!idle
<1>13. QED
  BY <1>3, <1>4, <1>8, <1>9, <1>10, <1>11, <1>12 DEF covers, rest, n

\* A summary replaces the one before, and moves its end.
LEMMA SummariseFacts ==
  ASSUME Session!TypeOK, NEW p \in Chats, Session!Summarise(p)
  PROVE  /\ UNCHANGED <<dsFile, dsArchive, dsTorn, dsSynced, dsLock, dsMain, dsOpen, dsNext,
                        dsSaved, dsDead, dsFails,
                        dsTears, dsCompressors, dsSpoilt>>
         /\ p \notin dsDead /\ dsBack[p].at = "summarise" /\ dsBack'[p].at = "save"
         /\ dsBack' \in [Chats -> Session!Work] /\ Aside(p, dsBack, dsBack')
         /\ dsMem' \in [Chats -> Session!Session] /\ Aside(p, dsMem, dsMem')
         /\ dsMem'[p].turns = dsMem[p].turns /\ dsMem'[p].arch = dsMem[p].arch
         /\ dsMem'[p].upto = dsBack[p].cut /\ dsMem'[p].covers = dsBack[p].covers
         /\ End(dsMem'[p]) = End(dsMem[p])
<1>1. /\ dsBack \in [Chats -> Session!Work] /\ dsMem[p] \in Session!Session
      /\ dsBack[p] \in Session!Work /\ dsMem \in [Chats -> Session!Session]
  BY DEF Session!TypeOK
<1>2. /\ dsMem' = [dsMem EXCEPT ![p].upto = dsBack[p].cut, ![p].covers = dsBack[p].covers]
      /\ dsBack' = [dsBack EXCEPT ![p] = [Session!Rest EXCEPT !.at = "save"]]
      /\ p \notin dsDead /\ dsBack[p].at = "summarise"
  BY DEF Session!Summarise, Session!Lives
<1>3. dsBack' \in [Chats -> Session!Work] /\ Aside(p, dsBack, dsBack') /\ dsBack'[p].at = "save"
  BY <1>1, <1>2, RestTypes DEF Aside
<1> DEFINE m == [dsMem[p] EXCEPT !.upto = dsBack[p].cut, !.covers = dsBack[p].covers]
<1>4. /\ m \in Session!Session /\ m.turns = dsMem[p].turns /\ m.arch = dsMem[p].arch
      /\ m.upto = dsBack[p].cut /\ m.covers = dsBack[p].covers
  BY <1>1 DEF Session!Session, Session!Work
<1>5. dsMem' = [dsMem EXCEPT ![p] = m]
  BY <1>1, <1>2
<1> HIDE DEF m
<1>6. dsMem' \in [Chats -> Session!Session] /\ dsMem'[p] = m /\ Aside(p, dsMem, dsMem')
  BY <1>1, <1>4, <1>5 DEF Aside
<1>7. End(dsMem'[p]) = End(dsMem[p])
  BY <1>4, <1>6 DEF End
<1>8. QED
  BY <1>2, <1>3, <1>4, <1>6, <1>7 DEF Session!Summarise, Session!disk, Session!idle, Session!past

\* Without a summary the session stays as it is.
LEMMA NoSummaryFacts ==
  ASSUME Session!TypeOK, NEW p \in Chats, Session!SummaryFails(p)
  PROVE  /\ UNCHANGED <<dsFile, dsArchive, dsTorn, dsMem, dsSynced, dsLock, dsMain, dsOpen,
                        dsNext, dsSaved, dsDead, dsFails,
                        dsTears, dsCompressors, dsSpoilt>>
         /\ p \notin dsDead /\ dsBack[p].at = "summarise" /\ dsBack'[p].at = "save"
         /\ dsBack' \in [Chats -> Session!Work] /\ Aside(p, dsBack, dsBack')
<1>1. dsBack \in [Chats -> Session!Work]
  BY DEF Session!TypeOK
<1>2. /\ dsBack' = [dsBack EXCEPT ![p] = [Session!Rest EXCEPT !.at = "save"]]
      /\ p \notin dsDead /\ dsBack[p].at = "summarise"
  BY DEF Session!SummaryFails, Session!Lives
<1>3. dsBack' \in [Chats -> Session!Work] /\ Aside(p, dsBack, dsBack') /\ dsBack'[p].at = "save"
  BY <1>1, <1>2, RestTypes DEF Aside
<1>4. QED
  BY <1>2, <1>3 DEF Session!SummaryFails, Session!disk, Session!idle, Session!past

\* The thread that holds the lock goes on from a to b.
Moves(p, a, b) ==
  \/ /\ dsLock = <<p, "main">> /\ dsMain[p] = a /\ dsMain'[p] = b /\ Aside(p, dsMain, dsMain')
     /\ dsBack' = dsBack
  \/ /\ dsLock = <<p, "back">> /\ dsBack[p].at = a /\ Aside(p, dsBack, dsBack') /\ dsMain' = dsMain
     /\ dsBack'[p] = [Session!Rest EXCEPT !.at = b] /\ dsBack'[p].at = b

\* A writer goes from one place to the next.
LEMMA MoveFacts ==
  ASSUME Session!TypeOK, NEW p \in Chats, NEW a \in {"archive", "write"},
         NEW b \in {"write", "rest"},
         Session!At(p, a), Session!GoOn(p, b)
  PROVE  Moves(p, a, b) /\ dsMain' \in [Chats -> Places] /\ dsBack' \in [Chats -> Session!Work]
<1>1. dsMain \in [Chats -> Places] /\ dsBack \in [Chats -> Session!Work]
  BY DEF Session!TypeOK, Places
<1>2. [Session!Rest EXCEPT !.at = b] \in Session!Work /\ [Session!Rest EXCEPT !.at = b].at = b
  BY RestTypes
<1>3. CASE dsLock = <<p, "main">>
  <2>1. dsMain[p] = a
    BY <1>3 DEF Session!At
  <2>2. dsMain' = [dsMain EXCEPT ![p] = b] /\ dsBack' = dsBack
    BY <1>3 DEF Session!GoOn
  <2>3. dsMain' \in [Chats -> Places] /\ dsMain'[p] = b /\ Aside(p, dsMain, dsMain')
    BY <1>1, <2>2 DEF Places, Aside
  <2>4. QED
    BY <1>1, <1>3, <2>1, <2>2, <2>3 DEF Moves
<1>4. CASE dsLock # <<p, "main">>
  <2>1. dsLock = <<p, "back">> /\ dsBack[p].at = a
    BY <1>4 DEF Session!At
  <2>2. dsBack' = [dsBack EXCEPT ![p] = [Session!Rest EXCEPT !.at = b]] /\ dsMain' = dsMain
    BY <1>4 DEF Session!GoOn
  <2>3. /\ dsBack' \in [Chats -> Session!Work] /\ dsBack'[p] = [Session!Rest EXCEPT !.at = b]
        /\ Aside(p, dsBack, dsBack')
    BY <1>1, <1>2, <2>2 DEF Aside
  <2>4. QED
    BY <1>1, <1>2, <2>1, <2>2, <2>3 DEF Moves
<1>5. QED
  BY <1>3, <1>4

\* The records a process is about to archive.
New(p) == Session!NewRecords(dsMem[p], Session!LocalCut(dsMem[p]))

\* Archiving cuts the session when its records are whole, or leaves it.
LEMMA ArchiveFacts ==
  ASSUME Session!TypeOK, Session!IndicesGrow, SessionsSound, NEW p \in Chats,
         Session!ArchiveTurns(p)
  PROVE  /\ UNCHANGED <<dsFile, dsSynced, dsLock, dsOpen, dsNext, dsSaved, dsDead, dsCompressors>>
         /\ p \notin dsDead /\ Session!At(p, "archive") /\ Moves(p, "archive", "write")
         /\ dsMain' \in [Chats -> Places] /\ dsBack' \in [Chats -> Session!Work]
         /\ dsMem' \in [Chats -> Session!Session] /\ Aside(p, dsMem, dsMem')
         /\ dsArchive' \in Seq(Session!Record) /\ Session!IndicesGrow'
         /\ dsTears' \in 0 .. MaxTears /\ dsTorn' \in BOOLEAN
         /\ Session!Archived \subseteq Session!Archived'
         /\ Session!LastIndex' >= Session!LastIndex
         /\ Session!LastIndex' \in Nat /\ Session!LastIndex \in Nat
         /\ \/ /\ dsMem'[p] = Session!CutOff(dsMem[p], Session!LocalCut(dsMem[p]), TRUE)
               /\ dsFails' = dsFails /\ dsSpoilt' = dsSpoilt /\ (dsTorn' => dsTorn)
               /\ ~dsTorn => Adds(New(p), Len(New(p)))
            \/ /\ dsMem'[p] = dsMem[p] /\ dsFails < MaxFails /\ dsFails' = dsFails + 1
               /\ dsSpoilt' = (dsSpoilt \/ dsTorn')
               /\ ~dsTorn => \E k \in 0 .. Len(New(p)) - 1 : Adds(New(p), k)
<1> DEFINE n == Session!LocalCut(dsMem[p])
<1>1. /\ dsMem \in [Chats -> Session!Session] /\ dsMem[p] \in Session!Session
      /\ dsArchive \in Seq(Session!Record)
      /\ Growing(dsArchive) /\ dsTears \in 0 .. MaxTears /\ dsTorn \in BOOLEAN
  BY ArchiveNames DEF Session!TypeOK
<1>2. Sound(dsMem[p])
  BY DEF SessionsSound
<1>3. n \in Nat /\ Session!CutOff(dsMem[p], n, TRUE) \in Session!Session
  BY <1>1, <1>2, CutFacts
<1>4. /\ UNCHANGED <<dsFile, dsSynced, dsLock, dsOpen, dsNext, dsSaved, dsDead, dsCompressors>>
      /\ p \notin dsDead /\ Session!At(p, "archive") /\ Session!GoOn(p, "write")
  BY DEF Session!ArchiveTurns, Session!Lives
<1>5. /\ Moves(p, "archive", "write") /\ dsMain' \in [Chats -> Places]
      /\ dsBack' \in [Chats -> Session!Work]
  BY <1>4, MoveFacts
<1>6. CASE /\ IF n = 0 THEN UNCHANGED <<dsArchive, dsTorn, dsTears>> ELSE Session!Appended(New(p))
           /\ dsMem' = [dsMem EXCEPT ![p] = Session!CutOff(@, n, TRUE)]
           /\ UNCHANGED <<dsFails, dsSpoilt>>
  <2>1. /\ dsMem' \in [Chats -> Session!Session] /\ Aside(p, dsMem, dsMem')
        /\ dsMem'[p] = Session!CutOff(dsMem[p], n, TRUE)
    BY <1>1, <1>3, <1>6 DEF Aside
  <2>2. /\ dsArchive' \in Seq(Session!Record) /\ Growing(dsArchive') /\ dsTears' = dsTears
        /\ Session!Archived \subseteq Session!Archived' /\ Session!LastIndex' >= Session!LastIndex
        /\ Session!LastIndex' \in Nat /\ Session!LastIndex \in Nat
        /\ dsTorn' \in BOOLEAN /\ (dsTorn' => dsTorn)
        /\ ~dsTorn => Adds(New(p), Len(New(p)))
    <3>1. CASE n = 0
      <4>1. dsArchive' = dsArchive /\ dsTorn' = dsTorn /\ dsTears' = dsTears
        BY <1>6, <3>1
      <4>2. /\ Session!LastIndex \in Nat /\ Session!LastIndex' = Session!LastIndex
            /\ Session!Archived' = Session!Archived
        BY <1>1, <4>1, ArchiveTypes, ArchiveNames, NamesNext
      <4>3. Len(New(p)) = 0
        <5>1. /\ Len(New(p)) = IF Session!Smaller(n, Len(dsMem[p].turns)) > There(dsMem[p])
                             THEN Session!Smaller(n, Len(dsMem[p].turns)) - There(dsMem[p]) ELSE 0
              /\ There(dsMem[p]) \in Nat
          BY <1>1, <1>3, NewFacts DEF New
        <5>2. Session!Smaller(n, Len(dsMem[p].turns)) = 0
          BY <1>1, <3>1, SessionTypes DEF Session!Smaller
        <5>3. QED
          BY <5>1, <5>2
      <4>4. Adds(New(p), Len(New(p)))
        <5>1. UNION {New(p)[j].ids : j \in 1 .. 0} = {}
          OBVIOUS
        <5>2. QED
          BY <4>2, <4>3, <5>1 DEF Adds
      <4>5. QED
        BY <1>1, <4>1, <4>2, <4>4
    <3>2. CASE n # 0
      <4>1. Session!Appended(Session!NewRecords(dsMem[p], n))
        BY <1>6, <3>2 DEF New
      <4> HIDE DEF n
      <4>2. QED
        BY <1>1, <1>3, <4>1, AppendedFacts DEF New, n
    <3>3. QED
      BY <3>1, <3>2
  <2>3. QED
    BY <1>1, <1>4, <1>5, <1>6, <2>1, <2>2, NamesNext
<1>7. CASE /\ n > 0 /\ dsFails < MaxFails
           /\ Session!AppendedInPart(New(p))
           /\ dsMem' = [dsMem EXCEPT ![p] = Session!CutOff(@, n, FALSE)]
           /\ dsFails' = dsFails + 1
           /\ dsSpoilt' = (dsSpoilt \/ dsTorn')
  <2>1. dsMem' \in [Chats -> Session!Session] /\ Aside(p, dsMem, dsMem') /\ dsMem'[p] = dsMem[p]
    BY <1>1, <1>7 DEF Aside, Session!CutOff
  <2>2. Session!AppendedInPart(Session!NewRecords(dsMem[p], n))
    BY <1>7 DEF New
  <2>3. /\ dsArchive' \in Seq(Session!Record) /\ Growing(dsArchive') /\ dsTears' \in 0 .. MaxTears
        /\ Session!Archived \subseteq Session!Archived' /\ Session!LastIndex' >= Session!LastIndex
        /\ Session!LastIndex' \in Nat /\ Session!LastIndex \in Nat
        /\ dsTorn' \in BOOLEAN
        /\ ~dsTorn => \E k \in 0 .. Len(New(p)) - 1 : Adds(New(p), k)
    <3> HIDE DEF n
    <3>1. QED
      BY <1>1, <1>3, <2>2, PartFacts DEF New, n
  <2>4. QED
    BY <1>4, <1>5, <1>7, <2>1, <2>3, NamesNext
<1>8. QED
  <2>1. \/ /\ IF n = 0 THEN UNCHANGED <<dsArchive, dsTorn, dsTears>> ELSE Session!Appended(New(p))
           /\ dsMem' = [dsMem EXCEPT ![p] = Session!CutOff(@, n, TRUE)]
           /\ UNCHANGED <<dsFails, dsSpoilt>>
        \/ /\ n > 0 /\ dsFails < MaxFails
           /\ Session!AppendedInPart(New(p))
           /\ dsMem' = [dsMem EXCEPT ![p] = Session!CutOff(@, n, FALSE)]
           /\ dsFails' = dsFails + 1
           /\ dsSpoilt' = (dsSpoilt \/ dsTorn')
    BY DEF Session!ArchiveTurns, New
  <2>2. QED
    BY <1>6, <1>7, <2>1

\* The session goes to the file, whole.
LEMMA WriteFileFacts ==
  ASSUME Session!TypeOK, NEW p \in Chats, Session!WriteFile(p)
  PROVE  /\ UNCHANGED <<dsArchive, dsTorn, dsMem, dsOpen, dsNext, dsDead, dsFails, dsTears,
                        dsCompressors, dsSpoilt>>
         /\ p \notin dsDead /\ Session!At(p, "write") /\ Moves(p, "write", "rest")
         /\ dsMain' \in [Chats -> Places] /\ dsBack' \in [Chats -> Session!Work]
         /\ dsFile' = dsMem[p] /\ dsSaved' = dsSaved \cup Session!IdsOf(dsMem[p].turns)
         /\ dsLock' = <<>>
         /\ dsSynced' \in [Chats -> BOOLEAN]
<1>1. /\ UNCHANGED <<dsArchive, dsTorn, dsMem, dsOpen, dsNext, dsDead, dsFails, dsTears,
                     dsCompressors, dsSpoilt>>
      /\ p \notin dsDead /\ Session!At(p, "write") /\ Session!GoOn(p, "rest")
      /\ dsFile' = dsMem[p] /\ dsSaved' = dsSaved \cup Session!IdsOf(dsMem[p].turns)
      /\ dsLock' = <<>>
      /\ dsSynced' = [q \in Chats |-> q = p]
  BY DEF Session!WriteFile, Session!Lives, Session!past
<1>2. /\ Moves(p, "write", "rest") /\ dsMain' \in [Chats -> Places]
      /\ dsBack' \in [Chats -> Session!Work]
  BY <1>1, MoveFacts
<1>3. QED
  BY <1>1, <1>2

\* A write that fails leaves the file, and is told apart if it leaves it wrong.
LEMMA WriteFailsFacts ==
  ASSUME Session!TypeOK, NEW p \in Chats, Session!WriteFails(p)
  PROVE  /\ UNCHANGED <<dsFile, dsArchive, dsTorn, dsMem, dsSynced, dsOpen, dsNext, dsSaved,
                        dsDead, dsTears, dsCompressors>>
         /\ p \notin dsDead /\ Session!At(p, "write") /\ Moves(p, "write", "rest")
         /\ dsMain' \in [Chats -> Places] /\ dsBack' \in [Chats -> Session!Work]
         /\ dsLock' = <<>> /\ dsFails < MaxFails /\ dsFails' = dsFails + 1
         /\ dsSpoilt' = (dsSpoilt \/ dsMem[p].arch > dsFile.arch \/ ~Session!InPlace(dsFile))
<1>1. /\ UNCHANGED <<dsFile, dsArchive, dsTorn, dsMem, dsSynced, dsOpen, dsNext, dsSaved, dsDead,
                     dsTears, dsCompressors>>
      /\ p \notin dsDead /\ Session!At(p, "write") /\ Session!GoOn(p, "rest")
      /\ dsLock' = <<>> /\ dsFails < MaxFails /\ dsFails' = dsFails + 1
      /\ dsSpoilt' = (dsSpoilt \/ dsMem[p].arch > dsFile.arch \/ ~Session!InPlace(dsFile))
  BY DEF Session!WriteFails, Session!Lives, Session!disk
<1>2. /\ Moves(p, "write", "rest") /\ dsMain' \in [Chats -> Places]
      /\ dsBack' \in [Chats -> Session!Work]
  BY <1>1, MoveFacts
<1>3. QED
  BY <1>1, <1>2

\* A kill ends both threads; one in the middle of archiving leaves a part.
LEMMA KillFacts ==
  ASSUME Session!TypeOK, Session!IndicesGrow, NEW p \in Chats, Session!Kill(p)
  PROVE  /\ UNCHANGED <<dsFile, dsSynced, dsNext, dsSaved, dsFails, dsCompressors>>
         /\ p \notin dsDead /\ dsDead' = dsDead \cup {p}
         /\ dsLock' = IF Session!Holds(p) THEN <<>> ELSE dsLock
         /\ dsMem' \in [Chats -> Session!Session] /\ Aside(p, dsMem, dsMem')
         /\ dsMem'[p] = Session!NoFile
         /\ dsMain' \in [Chats -> Places] /\ Aside(p, dsMain, dsMain') /\ dsMain'[p] = "rest"
         /\ dsBack' \in [Chats -> Session!Work] /\ Aside(p, dsBack, dsBack')
         /\ dsBack'[p] = Session!Rest
         /\ dsOpen' \in [Chats -> 0 .. MaxTurns] /\ Aside(p, dsOpen, dsOpen') /\ dsOpen'[p] = 0
         /\ dsArchive' \in Seq(Session!Record) /\ Session!IndicesGrow'
         /\ dsTears' \in 0 .. MaxTears /\ dsTorn' \in BOOLEAN
         /\ Session!Archived \subseteq Session!Archived'
         /\ Session!LastIndex' >= Session!LastIndex
         /\ Session!LastIndex' \in Nat /\ Session!LastIndex \in Nat
         /\ UNCHANGED <<dsArchive, dsTorn, dsTears>> \/ Session!At(p, "archive")
         /\ dsSpoilt' = (dsSpoilt \/ dsTorn' \/ (Session!Holds(p) /\ ~Session!InPlace(dsFile)'))
<1>1. /\ dsMem \in [Chats -> Session!Session] /\ dsMem[p] \in Session!Session
      /\ dsArchive \in Seq(Session!Record)
      /\ Growing(dsArchive) /\ dsTears \in 0 .. MaxTears /\ dsTorn \in BOOLEAN
      /\ dsMain \in [Chats -> Places] /\ dsBack \in [Chats -> Session!Work]
      /\ dsOpen \in [Chats -> 0 .. MaxTurns]
  BY ArchiveNames DEF Session!TypeOK, Places
<1>2. Session!LocalCut(dsMem[p]) \in Nat
  BY <1>1, SessionTypes
<1>3. /\ UNCHANGED <<dsFile, dsSynced, dsNext, dsSaved, dsFails, dsCompressors>>
      /\ p \notin dsDead /\ dsDead' = dsDead \cup {p}
      /\ dsLock' = IF Session!Holds(p) THEN <<>> ELSE dsLock
      /\ dsMem' = [dsMem EXCEPT ![p] = Session!NoFile]
      /\ dsMain' = [dsMain EXCEPT ![p] = "rest"] /\ dsBack' = [dsBack EXCEPT ![p] = Session!Rest]
      /\ dsOpen' = [dsOpen EXCEPT ![p] = 0]
      /\ dsSpoilt' = (dsSpoilt \/ dsTorn' \/ (Session!Holds(p) /\ ~Session!InPlace(dsFile)'))
  BY DEF Session!Kill, Session!Lives
<1>4. /\ dsMem' \in [Chats -> Session!Session] /\ Aside(p, dsMem, dsMem')
      /\ dsMem'[p] = Session!NoFile
      /\ dsMain' \in [Chats -> Places] /\ Aside(p, dsMain, dsMain') /\ dsMain'[p] = "rest"
      /\ dsBack' \in [Chats -> Session!Work] /\ Aside(p, dsBack, dsBack')
      /\ dsBack'[p] = Session!Rest
      /\ dsOpen' \in [Chats -> 0 .. MaxTurns] /\ Aside(p, dsOpen, dsOpen') /\ dsOpen'[p] = 0
  <2>1. 0 \in 0 .. MaxTurns
    BY SessionConstants
  <2>2. QED
    BY <1>1, <1>3, <2>1, EmptyTypes, RestTypes DEF Aside, Places
<1>5. /\ dsArchive' \in Seq(Session!Record) /\ Growing(dsArchive') /\ dsTears' \in 0 .. MaxTears
      /\ dsTorn' \in BOOLEAN
      /\ Session!Archived \subseteq Session!Archived' /\ Session!LastIndex' >= Session!LastIndex
      /\ Session!LastIndex' \in Nat /\ Session!LastIndex \in Nat
      /\ UNCHANGED <<dsArchive, dsTorn, dsTears>> \/ Session!At(p, "archive")
  <2>1. CASE UNCHANGED <<dsArchive, dsTorn, dsTears>>
    <3>1. dsArchive' = dsArchive /\ dsTorn' = dsTorn /\ dsTears' = dsTears
      BY <2>1
    <3>2. /\ Session!LastIndex \in Nat /\ Session!LastIndex' = Session!LastIndex
          /\ Session!Archived' = Session!Archived
      BY <1>1, <3>1, ArchiveTypes, ArchiveNames, NamesNext
    <3>3. QED
      BY <1>1, <2>1, <3>1, <3>2
  <2>2. CASE Session!At(p, "archive") /\ Session!AppendedInPart(Session!NewRecords(dsMem[p], Session!LocalCut(dsMem[p])))
    BY <1>1, <1>2, <2>2, PartFacts
  <2>3. QED
    BY <2>1, <2>2 DEF Session!Kill
<1>6. QED
  BY <1>3, <1>4, <1>5, NamesNext

\* At the start there is no file, no archive and no memory.
LEMMA InitTypes ==
  ASSUME Session!Init
  PROVE  Session!TypeOK /\ Session!IndicesGrow /\ SessionsSound /\ Control
<1>1. /\ MaxTurns \in Nat /\ MaxFails \in Nat /\ MaxTears \in Nat
      /\ 0 \in 0 .. MaxTurns /\ 0 \in 0 .. MaxFails /\ 0 \in 0 .. MaxTears
  BY SessionConstants
<1>2. Session!TypeOK
  <2>1. /\ dsFile \in Session!Session /\ dsMem \in [Chats -> Session!Session]
        /\ dsArchive \in Seq(Session!Record)
    BY EmptyTypes DEF Session!Init
  <2>2. /\ dsSynced \in [Chats -> BOOLEAN] /\ dsTorn \in BOOLEAN
        /\ dsLock \in {<<>>} \cup (Chats \X {"main", "back"})
        /\ dsMain \in [Chats -> {"rest", "add", "archive", "write"}]
        /\ dsSpoilt \in BOOLEAN
    BY DEF Session!Init
  <2>3. dsBack \in [Chats -> Session!Work] /\ dsOpen \in [Chats -> 0 .. MaxTurns]
    BY <1>1, RestTypes DEF Session!Init
  <2>4. /\ dsNext \in 0 .. MaxTurns /\ dsSaved \subseteq Session!Ids /\ dsDead \subseteq Chats
        /\ dsFails \in 0 .. MaxFails /\ dsTears \in 0 .. MaxTears /\ dsCompressors \subseteq Chats
    BY <1>1 DEF Session!Init
  <2>5. QED
    BY <2>1, <2>2, <2>3, <2>4 DEF Session!TypeOK
<1>3. Session!IndicesGrow
  BY DEF Session!Init, Session!IndicesGrow
<1>4. Sound(Session!NoFile)
  <2>1. Once(<<>>) /\ Old(<<>>) /\ Len(<<>>) = 0
    BY DEF Once, Old
  <2>2. QED
    BY <2>1, EmptyTypes DEF Sound, End
<1>5. SessionsSound
  BY <1>1, <1>4, RestTypes DEF Session!Init, SessionsSound
<1>6. Control
  BY RestTypes DEF Session!Init, Control, LockFollows, DeadRest, WorkHasBegun, FirstWrite
<1>7. QED
  BY <1>2, <1>3, <1>5, <1>6

\* The types stay, and the indices of the archive grow.
LEMMA TypesKept ==
  ASSUME Session!TypeOK, Session!IndicesGrow, SessionsSound, Session!Next
  PROVE  Session!TypeOK' /\ Session!IndicesGrow'
<1> USE DEF Places
<1>0. PICK p \in Chats :
        \/ Session!Open(p) \/ Session!AddTurn(p)
        \/ Session!Choose(p) \/ Session!Summarise(p) \/ Session!SummaryFails(p) \/ Session!Save(p)
        \/ Session!ArchiveTurns(p) \/ Session!WriteFile(p) \/ Session!WriteFails(p)
        \/ Session!Kill(p)
  BY DEF Session!Next
<1>1. dsArchive' = dsArchive => Session!IndicesGrow'
  BY DEF Session!IndicesGrow
<1>2. CASE Session!Open(p)
  BY <1>1, <1>2, OpenFacts DEF Session!TypeOK
<1>3. CASE Session!AddTurn(p)
  <2>1. 0 \in 0 .. MaxTurns /\ dsNext + 1 \in 0 .. MaxTurns
    BY <1>3, AddFacts, SessionConstants
  <2>2. dsOpen' \in [Chats -> 0 .. MaxTurns]
    BY <1>3, <2>1, AddFacts DEF Session!TypeOK
  <2>3. <<p, "main">> \in Chats \X {"main", "back"}
    OBVIOUS
  <2>4. dsNext' \in 0 .. MaxTurns
    BY <1>3, <2>1, AddFacts
  <2>5. QED
    BY <1>1, <1>3, <2>2, <2>3, <2>4, AddFacts DEF Session!TypeOK
<1>4. CASE Session!Choose(p)
  BY <1>1, <1>4, ChooseFacts DEF Session!TypeOK
<1>5. CASE Session!Summarise(p)
  BY <1>1, <1>5, SummariseFacts DEF Session!TypeOK
<1>6. CASE Session!SummaryFails(p)
  BY <1>1, <1>6, NoSummaryFacts DEF Session!TypeOK
<1>7. CASE Session!Save(p)
  <2>1. <<p, "back">> \in Chats \X {"main", "back"}
    OBVIOUS
  <2>2. QED
    BY <1>1, <1>7, <2>1, SaveFacts DEF Session!TypeOK
<1>8. CASE Session!ArchiveTurns(p)
  <2>1. dsFails' \in 0 .. MaxFails /\ dsSpoilt' \in BOOLEAN
    <3>1. dsFails' = dsFails \/ (dsFails < MaxFails /\ dsFails' = dsFails + 1)
      BY <1>8, ArchiveFacts
    <3>2. dsFails \in 0 .. MaxFails /\ dsTorn' \in BOOLEAN /\ dsSpoilt \in BOOLEAN
      BY <1>8, ArchiveFacts DEF Session!TypeOK
    <3>3. dsFails' \in 0 .. MaxFails
      BY <3>1, <3>2, SessionConstants
    <3>4. dsSpoilt' \in BOOLEAN
      BY <1>8, <3>2, ArchiveFacts
    <3>5. QED
      BY <3>3, <3>4
  <2>2. QED
    BY <1>8, <2>1, ArchiveFacts DEF Session!TypeOK
<1>9. CASE Session!WriteFile(p)
  <2>1. Session!IdsOf(dsMem[p].turns) \in SUBSET Session!Ids
    <3>1. dsMem[p].turns \in Seq(Session!Turn)
      BY SessionTypes DEF Session!TypeOK
    <3>2. QED
      BY <3>1, TurnTypes DEF Session!IdsOf
  <2>2. QED
    BY <1>1, <1>9, <2>1, WriteFileFacts DEF Session!TypeOK
<1>10. CASE Session!WriteFails(p)
  <2>1. dsFails' \in 0 .. MaxFails /\ dsSpoilt' \in BOOLEAN
    <3>1. dsFails' = dsFails \/ (dsFails < MaxFails /\ dsFails' = dsFails + 1)
      BY <1>10, WriteFailsFacts
    <3>2. dsFails \in 0 .. MaxFails /\ dsTorn' \in BOOLEAN /\ dsSpoilt \in BOOLEAN
      BY <1>10, WriteFailsFacts DEF Session!TypeOK
    <3>3. dsFails' \in 0 .. MaxFails
      BY <3>1, <3>2, SessionConstants
    <3>4. dsSpoilt' \in BOOLEAN
      BY <1>10, <3>2, WriteFailsFacts
    <3>5. QED
      BY <3>3, <3>4
  <2>2. QED
    BY <1>1, <1>10, <2>1, WriteFailsFacts DEF Session!TypeOK
<1>11. CASE Session!Kill(p)
  <2>1. dsSpoilt' \in BOOLEAN
    BY <1>11, KillFacts DEF Session!TypeOK
  <2>2. dsLock' \in {<<>>} \cup (Chats \X {"main", "back"})
    BY <1>11, KillFacts DEF Session!TypeOK
  <2>3. QED
    BY <1>11, <2>1, <2>2, KillFacts DEF Session!TypeOK
<1>12. QED
  BY <1>0, <1>2, <1>3, <1>4, <1>5, <1>6, <1>7, <1>8, <1>9, <1>10, <1>11

-----------------------------------------------------------------------------
\* A session sound when n turns were made.
SoundAt(s, n) == Once(s.turns) /\ OldAt(s.turns, n) /\ s.upto <= End(s)

\* More turns made disturb no session.
LEMMA StaysSound ==
  ASSUME NEW s \in Session!Session, Sound(s), dsNext \in Nat, dsNext' \in Nat, dsNext' >= dsNext
  PROVE  SoundAt(s, dsNext')
<1>1. \A k \in DOMAIN s.turns : s.turns[k].id <= dsNext'
  <2>1. s.turns \in Seq(Session!Turn)
    BY SessionTypes
  <2>2. QED
    BY <2>1, TurnTypes DEF Sound, Old
<1>2. QED
  BY <1>1 DEF Sound, SoundAt, OldAt

\* Sessions stay sound.
LEMMA SessionsKept ==
  ASSUME Session!TypeOK, Session!IndicesGrow, SessionsSound, Session!Next
  PROVE  SessionsSound'
<1>0. PICK p \in Chats :
        \/ Session!Open(p) \/ Session!AddTurn(p)
        \/ Session!Choose(p) \/ Session!Summarise(p) \/ Session!SummaryFails(p) \/ Session!Save(p)
        \/ Session!ArchiveTurns(p) \/ Session!WriteFile(p) \/ Session!WriteFails(p)
        \/ Session!Kill(p)
  BY DEF Session!Next
<1>1. /\ dsFile \in Session!Session /\ dsMem \in [Chats -> Session!Session]
      /\ dsMem[p] \in Session!Session /\ dsNext \in Nat
      /\ dsOpen \in [Chats -> 0 .. MaxTurns] /\ dsBack \in [Chats -> Session!Work]
  BY SessionConstants DEF Session!TypeOK
<1>2. /\ Sound(dsFile) /\ \A q \in Chats : Sound(dsMem[q])
      /\ \A q \in Chats : dsBack[q].at = "summarise" => dsBack[q].cut <= End(dsMem[q])
      /\ \A q \in Chats : dsOpen[q] <= dsNext
  BY DEF SessionsSound
<1>3. dsNext' \in Nat /\ dsNext' >= dsNext
  <2>1. dsNext' = dsNext \/ dsNext' = dsNext + 1
    BY <1>0 DEF Session!Open, Session!AddTurn, Session!Choose, Session!Summarise,
       Session!SummaryFails, Session!Save, Session!ArchiveTurns, Session!WriteFile,
                Session!WriteFails, Session!Kill, Session!idle
  <2>2. QED
    BY <1>1, <2>1
<1>4. SoundAt(dsFile, dsNext') /\ \A q \in Chats : SoundAt(dsMem[q], dsNext')
  BY <1>1, <1>2, <1>3, StaysSound
<1>5. \A q \in Chats : dsOpen[q] <= dsNext'
  <2>1. ASSUME NEW q \in Chats PROVE dsOpen[q] <= dsNext'
    <3>1. dsOpen[q] \in Nat /\ dsOpen[q] <= dsNext
      BY <1>1, <1>2, SessionConstants
    <3>2. QED
      BY <1>1, <1>3, <3>1
  <2>2. QED
    BY <2>1
<1>6. SUFFICES /\ SoundAt(dsFile', dsNext') /\ \A q \in Chats : SoundAt(dsMem'[q], dsNext')
               /\ \A q \in Chats : dsBack'[q].at = "summarise" => dsBack'[q].cut <= End(dsMem'[q])
               /\ \A q \in Chats : dsOpen'[q] <= dsNext'
  BY DEF SessionsSound, Sound, SoundAt, Old, OldAt, End
<1>7. CASE Session!Open(p)
  <2>1. SoundAt(Disk, dsNext') /\ End(Disk) \in Nat /\ End(Session!NoFile) = 0
    <3>1. Sound(Session!Empty) /\ Session!Empty \in Session!Session
      <4>1. Once(<<>>) /\ Old(<<>>) /\ Len(<<>>) = 0
        BY DEF Once, Old
      <4>2. QED
        BY <4>1, EmptyTypes DEF Sound, End
    <3>2. Sound(Disk) /\ Disk \in Session!Session
      BY <1>1, <1>2, <3>1 DEF Disk
    <3>3. End(Session!NoFile) = 0
      BY EmptyTypes DEF End
    <3>4. QED
      BY <1>1, <1>3, <3>2, <3>3, StaysSound, SessionTypes
  <2>2. /\ Sound(Session!Adopted(dsMem[p])) /\ Session!Adopted(dsMem[p]) \in Session!Session
        /\ End(Session!Adopted(dsMem[p])) >= End(dsMem[p])
    BY <1>1, <1>2, MergeFacts
  <2>3. SoundAt(dsMem'[p], dsNext')
    BY <1>1, <1>3, <1>4, <1>7, <2>1, <2>2, OpenFacts, StaysSound
  <2>4. dsBack[p].at = "summarise" => dsBack[p].cut <= End(dsMem'[p])
    <3>1. dsBack[p].cut \in Nat
      BY <1>1, SessionConstants DEF Session!Work
    <3>2. End(dsMem[p]) \in Nat /\ End(Session!Adopted(dsMem[p])) \in Nat
      BY <1>1, <2>2, SessionTypes
    <3>3. QED
      BY <1>2, <1>7, <2>1, <2>2, <3>1, <3>2, OpenFacts
  <2>5. dsFile' = dsFile /\ dsBack' = dsBack /\ dsOpen' = dsOpen /\ \A q \in Chats : q # p => dsMem'[q] = dsMem[q]
    BY <1>7, OpenFacts DEF Aside
  <2>6. QED
    BY <1>2, <1>4, <1>5, <2>3, <2>4, <2>5
<1>8. CASE Session!AddTurn(p)
  <2>1. dsFile' = dsFile /\ dsBack' = dsBack /\ \A q \in Chats : q # p => dsMem'[q] = dsMem[q]
    BY <1>8, AddFacts DEF Aside
  <2>2. /\ SoundAt(dsMem'[p], dsNext') /\ dsMem'[p] \in Session!Session
        /\ End(dsMem'[p]) >= End(dsMem[p])
    BY <1>8, AddFacts DEF Merged, SoundAt
  <2>3. dsBack[p].at = "summarise" => dsBack[p].cut <= End(dsMem'[p])
    <3>1. dsBack[p].cut \in Nat
      BY <1>1, SessionConstants DEF Session!Work
    <3>2. End(dsMem[p]) \in Nat /\ End(dsMem'[p]) \in Nat
      BY <1>1, <2>2, SessionTypes
    <3>3. QED
      BY <1>2, <2>2, <3>1, <3>2
  <2>4. \A q \in Chats : dsOpen'[q] <= dsNext'
    <3>1. dsNext' = dsNext + 1 /\ dsOpen'[p] \in {dsNext + 1, 0} /\ \A q \in Chats : q # p => dsOpen'[q] = dsOpen[q]
      BY <1>1, <1>8, AddFacts DEF Aside
    <3>2. QED
      BY <1>1, <1>5, <3>1
  <2>5. QED
    BY <1>2, <1>4, <2>1, <2>2, <2>3, <2>4
<1>9. CASE Session!Choose(p)
  <2>1. dsFile' = dsFile /\ dsMem' = dsMem /\ dsOpen' = dsOpen /\ \A q \in Chats : q # p => dsBack'[q] = dsBack[q]
    BY <1>9, ChooseFacts DEF Aside
  <2>2. dsBack'[p].cut <= End(dsMem[p])
    BY <1>9, ChooseFacts
  <2>3. QED
    BY <1>2, <1>4, <1>5, <2>1, <2>2
<1>10. CASE Session!Summarise(p)
  <2>1. /\ dsFile' = dsFile /\ dsOpen' = dsOpen
        /\ \A q \in Chats : q # p => dsBack'[q] = dsBack[q] /\ dsMem'[q] = dsMem[q]
    BY <1>10, SummariseFacts DEF Aside
  <2>2. /\ dsBack'[p].at = "save" /\ dsMem'[p].turns = dsMem[p].turns
        /\ dsMem'[p].upto <= End(dsMem'[p])
    BY <1>2, <1>10, SummariseFacts
  <2>3. SoundAt(dsMem'[p], dsNext')
    BY <1>4, <2>2 DEF SoundAt
  <2>4. QED
    BY <1>2, <1>4, <1>5, <2>1, <2>2, <2>3
<1>11. CASE Session!SummaryFails(p)
  <2>1. /\ dsFile' = dsFile /\ dsOpen' = dsOpen /\ dsMem' = dsMem
        /\ \A q \in Chats : q # p => dsBack'[q] = dsBack[q]
    BY <1>11, NoSummaryFacts DEF Aside
  <2>2. dsBack'[p].at = "save"
    BY <1>11, NoSummaryFacts
  <2>3. QED
    BY <1>2, <1>4, <1>5, <2>1, <2>2
<1>12. CASE Session!Save(p)
  <2>1. /\ dsFile' = dsFile /\ dsOpen' = dsOpen
        /\ \A q \in Chats : q # p => dsBack'[q] = dsBack[q] /\ dsMem'[q] = dsMem[q]
    BY <1>12, SaveFacts DEF Aside
  <2>2. SoundAt(dsMem'[p], dsNext') /\ dsBack'[p].at = "archive"
    BY <1>12, SaveFacts DEF Merged, SoundAt
  <2>3. QED
    BY <1>2, <1>4, <1>5, <2>1, <2>2
<1>13. CASE Session!ArchiveTurns(p)
  <2>1. /\ dsFile' = dsFile /\ dsOpen' = dsOpen /\ dsNext' = dsNext
        /\ \A q \in Chats : q # p => dsBack'[q] = dsBack[q] /\ dsMem'[q] = dsMem[q]
    BY <1>13, ArchiveFacts DEF Aside, Moves
  <2>2. dsBack'[p].at = "summarise" => dsBack'[p] = dsBack[p]
    BY <1>13, ArchiveFacts DEF Moves
  <2>3. Sound(dsMem'[p]) /\ dsMem'[p] \in Session!Session /\ End(dsMem'[p]) = End(dsMem[p])
    <3>1. LET c == Session!CutOff(dsMem[p], Session!LocalCut(dsMem[p]), TRUE)
          IN  c \in Session!Session /\ Sound(c) /\ End(c) = End(dsMem[p])
      BY <1>1, <1>2, CutFacts
    <3>2. QED
      BY <1>1, <1>2, <1>13, <3>1, ArchiveFacts
  <2>4. SoundAt(dsMem'[p], dsNext')
    BY <1>1, <1>3, <2>3, StaysSound
  <2>5. QED
    BY <1>2, <1>4, <1>5, <2>1, <2>2, <2>3, <2>4
<1>14. CASE Session!WriteFile(p)
  <2>1. dsFile' = dsMem[p] /\ dsOpen' = dsOpen /\ dsMem' = dsMem
    BY <1>14, WriteFileFacts
  <2>2. \A q \in Chats : dsBack'[q].at = "summarise" => dsBack'[q] = dsBack[q]
    BY <1>14, WriteFileFacts DEF Moves, Aside
  <2>3. QED
    BY <1>2, <1>4, <1>5, <2>1, <2>2
<1>15. CASE Session!WriteFails(p)
  <2>1. dsFile' = dsFile /\ dsOpen' = dsOpen /\ dsMem' = dsMem
    BY <1>15, WriteFailsFacts
  <2>2. \A q \in Chats : dsBack'[q].at = "summarise" => dsBack'[q] = dsBack[q]
    BY <1>15, WriteFailsFacts DEF Moves, Aside
  <2>3. QED
    BY <1>2, <1>4, <1>5, <2>1, <2>2
<1>16. CASE Session!Kill(p)
  <2>1. /\ dsFile' = dsFile
        /\ \A q \in Chats : q # p => dsBack'[q] = dsBack[q] /\ dsMem'[q] = dsMem[q] /\ dsOpen'[q] = dsOpen[q]
    BY <1>16, KillFacts DEF Aside
  <2>2. dsBack'[p] = Session!Rest /\ dsMem'[p] = Session!NoFile /\ dsOpen'[p] = 0
    BY <1>16, KillFacts
  <2>3. SoundAt(Session!NoFile, dsNext') /\ Session!Rest.at # "summarise"
    <3>1. Once(<<>>) /\ OldAt(<<>>, dsNext') /\ Len(<<>>) = 0
      BY DEF Once, OldAt
    <3>2. QED
      BY <3>1, EmptyTypes, RestTypes DEF SoundAt, End
  <2>4. QED
    BY <1>1, <1>2, <1>3, <1>4, <1>5, <2>1, <2>2, <2>3
<1>17. QED
  BY <1>0, <1>7, <1>8, <1>9, <1>10, <1>11, <1>12, <1>13, <1>14, <1>15, <1>16

\* The places of a writer.
Writing == {"archive", "write"}

\* The lock is its holder's: the thread that holds it is writing, no other is.
LEMMA LockNames ==
  ASSUME Session!TypeOK
  PROVE  LockFollows <=>
           /\ \A p \in Chats : dsMain[p] \in Writing <=> dsLock = <<p, "main">>
           /\ \A p \in Chats : dsBack[p].at \in Writing <=> dsLock = <<p, "back">>
<1>1. dsLock = <<>> \/ \E p \in Chats : dsLock = <<p, "main">> \/ dsLock = <<p, "back">>
  BY DEF Session!TypeOK
<1>2. \A p \in Chats : <<p, "main">>[1] = p /\ <<p, "back">>[1] = p
                       /\ <<p, "main">> # <<>> /\ <<p, "back">> # <<>>
                       /\ <<p, "main">> # <<p, "back">>
                       /\ <<p, "main">>[2] = "main" /\ <<p, "back">>[2] = "back"
  OBVIOUS
<1>3. ASSUME LockFollows
      PROVE  /\ \A p \in Chats : dsMain[p] \in Writing <=> dsLock = <<p, "main">>
             /\ \A p \in Chats : dsBack[p].at \in Writing <=> dsLock = <<p, "back">>
  BY <1>2, <1>3 DEF LockFollows, Busy, Session!At, Writing
<1>4. ASSUME /\ \A p \in Chats : dsMain[p] \in Writing <=> dsLock = <<p, "main">>
             /\ \A p \in Chats : dsBack[p].at \in Writing <=> dsLock = <<p, "back">>
      PROVE  LockFollows
  <2>1. dsLock # <<>> => Busy(dsLock[1])
    <3>1. SUFFICES ASSUME dsLock # <<>> PROVE Busy(dsLock[1])
      OBVIOUS
    <3>2. PICK p \in Chats : dsLock = <<p, "main">> \/ dsLock = <<p, "back">>
      BY <1>1, <3>1
    <3>3. Busy(p)
      BY <1>4, <3>2 DEF Busy, Session!At, Writing
    <3>4. dsLock[1] = p
      BY <1>2, <3>2
    <3>5. QED
      BY <3>3, <3>4
  <2>2. QED
    BY <1>4, <2>1 DEF LockFollows, Writing
<1>5. QED
  BY <1>3, <1>4

\* The lock and the places of writers, after a step.
LEMMA LockNamesNext ==
  ASSUME Session!TypeOK'
  PROVE  LockFollows' <=>
           /\ \A p \in Chats : dsMain'[p] \in Writing <=> dsLock' = <<p, "main">>
           /\ \A p \in Chats : dsBack'[p].at \in Writing <=> dsLock' = <<p, "back">>
<1>1. dsLock' = <<>> \/ \E p \in Chats : dsLock' = <<p, "main">> \/ dsLock' = <<p, "back">>
  BY DEF Session!TypeOK
<1>2. \A p \in Chats : <<p, "main">>[1] = p /\ <<p, "back">>[1] = p
                       /\ <<p, "main">> # <<>> /\ <<p, "back">> # <<>>
                       /\ <<p, "main">> # <<p, "back">>
                       /\ <<p, "main">>[2] = "main" /\ <<p, "back">>[2] = "back"
  OBVIOUS
<1>3. ASSUME LockFollows'
      PROVE  /\ \A p \in Chats : dsMain'[p] \in Writing <=> dsLock' = <<p, "main">>
             /\ \A p \in Chats : dsBack'[p].at \in Writing <=> dsLock' = <<p, "back">>
  BY <1>2, <1>3 DEF LockFollows, Busy, Session!At, Writing
<1>4. ASSUME /\ \A p \in Chats : dsMain'[p] \in Writing <=> dsLock' = <<p, "main">>
             /\ \A p \in Chats : dsBack'[p].at \in Writing <=> dsLock' = <<p, "back">>
      PROVE  LockFollows'
  <2>1. dsLock' # <<>> => Busy(dsLock[1])'
    <3>1. SUFFICES ASSUME dsLock' # <<>> PROVE Busy(dsLock[1])'
      OBVIOUS
    <3>2. PICK p \in Chats : dsLock' = <<p, "main">> \/ dsLock' = <<p, "back">>
      BY <1>1, <3>1
    <3>3. Busy(p)'
      BY <1>4, <3>2 DEF Busy, Session!At, Writing
    <3>4. dsLock'[1] = p
      BY <1>2, <3>2
    <3>5. QED
      BY <3>3, <3>4 DEF Busy, Session!At
  <2>2. QED
    BY <1>4, <2>1 DEF LockFollows, Writing
<1>5. QED
  BY <1>3, <1>4

\* Who writes holds the lock, and nobody else writes.
LEMMA AtFacts ==
  ASSUME Session!TypeOK, LockFollows, NEW p \in Chats
  PROVE  /\ \A a \in Writing :
              /\ Session!At(p, a) => Session!Holds(p) /\ dsLock # <<>> /\ \A q \in Chats : q # p => ~Session!Holds(q)
              /\ Session!At(p, a) <=> (dsLock = <<p, "main">> /\ dsMain[p] = a)
                              \/ (dsLock = <<p, "back">> /\ dsBack[p].at = a)
         /\ Session!Holds(p) <=> Busy(p)
         /\ Session!Holds(p) <=> dsLock = <<p, "main">> \/ dsLock = <<p, "back">>
         /\ ~(Session!At(p, "archive") /\ Session!At(p, "write"))
<1>1. dsLock = <<>> \/ \E q \in Chats : dsLock = <<q, "main">> \/ dsLock = <<q, "back">>
  BY DEF Session!TypeOK
<1>2. \A q \in Chats : <<q, "main">>[1] = q /\ <<q, "back">>[1] = q
                       /\ <<q, "main">> # <<>> /\ <<q, "back">> # <<>>
                       /\ <<q, "main">>[2] = "main" /\ <<q, "back">>[2] = "back"
  OBVIOUS
<1>3. Session!Holds(p) <=> dsLock = <<p, "main">> \/ dsLock = <<p, "back">>
  BY <1>1, <1>2 DEF Session!Holds
<1>4. \A a \in Writing :
              /\ Session!At(p, a) => Session!Holds(p) /\ dsLock # <<>> /\ \A q \in Chats : q # p => ~Session!Holds(q)
              /\ Session!At(p, a) <=> (dsLock = <<p, "main">> /\ dsMain[p] = a)
                              \/ (dsLock = <<p, "back">> /\ dsBack[p].at = a)
  BY <1>2 DEF Session!At, Session!Holds
<1>5. Session!Holds(p) <=> Busy(p)
  <2>1. /\ dsMain[p] \in Writing <=> dsLock = <<p, "main">>
        /\ dsBack[p].at \in Writing <=> dsLock = <<p, "back">>
    BY LockNames
  <2>2. QED
    BY <1>3, <2>1 DEF Busy, Session!At, Writing
<1>6. ~(Session!At(p, "archive") /\ Session!At(p, "write"))
  BY <1>2 DEF Session!At
<1>7. QED
  BY <1>3, <1>4, <1>5, <1>6

\* A step that is no writer's.
LEMMA AtStays ==
  ASSUME dsLock' = dsLock, NEW p \in Chats, NEW a,
         dsLock = <<p, "main">> => dsMain'[p] = dsMain[p],
         dsLock = <<p, "back">> => dsBack'[p] = dsBack[p]
  PROVE  Session!At(p, a)' <=> Session!At(p, a)
  BY DEF Session!At

\* Writer and lock stay together.
LEMMA LockKept ==
  ASSUME Session!TypeOK, Session!TypeOK', Session!IndicesGrow, SessionsSound, LockFollows,
         Session!Next
  PROVE  LockFollows'
<1> USE DEF Writing
<1>0. PICK p \in Chats :
        \/ Session!Open(p) \/ Session!AddTurn(p)
        \/ Session!Choose(p) \/ Session!Summarise(p) \/ Session!SummaryFails(p) \/ Session!Save(p)
        \/ Session!ArchiveTurns(p) \/ Session!WriteFile(p) \/ Session!WriteFails(p)
        \/ Session!Kill(p)
  BY DEF Session!Next
<1>1. /\ \A q \in Chats : dsMain[q] \in Writing <=> dsLock = <<q, "main">>
      /\ \A q \in Chats : dsBack[q].at \in Writing <=> dsLock = <<q, "back">>
  BY LockNames
<1>2. \A q, r \in Chats : /\ <<q, "main">> = <<r, "main">> => q = r
                          /\ <<q, "back">> = <<r, "back">> => q = r
                          /\ <<q, "main">> # <<r, "back">>
                          /\ <<q, "main">> # <<>> /\ <<q, "back">> # <<>>
  <2>1. \A q \in Chats : <<q, "main">>[1] = q /\ <<q, "back">>[1] = q
                         /\ <<q, "main">>[2] = "main" /\ <<q, "back">>[2] = "back"
                         /\ <<q, "main">> # <<>> /\ <<q, "back">> # <<>>
    OBVIOUS
  <2>2. "main" # "back"
    OBVIOUS
  <2>3. QED
    BY <2>1, <2>2, Zenon
<1>3. SUFFICES /\ \A q \in Chats : dsMain'[q] \in Writing <=> dsLock' = <<q, "main">>
               /\ \A q \in Chats : dsBack'[q].at \in Writing <=> dsLock' = <<q, "back">>
  BY LockNamesNext
<1>4. CASE Session!Open(p)
  BY <1>1, <1>4, OpenFacts DEF Aside
<1>5. CASE Session!AddTurn(p)
  <2>1. /\ dsLock = <<>> /\ dsLock' = <<p, "main">> /\ dsMain'[p] = "archive" /\ dsBack' = dsBack
        /\ \A q \in Chats : q # p => dsMain'[q] = dsMain[q]
    BY <1>5, AddFacts DEF Aside
  <2>2. QED
    BY <1>1, <1>2, <2>1
<1>6. CASE Session!Choose(p)
  BY <1>1, <1>6, ChooseFacts, RestTypes DEF Aside
<1>7. CASE Session!Summarise(p)
  BY <1>1, <1>7, SummariseFacts DEF Aside
<1>8. CASE Session!SummaryFails(p)
  BY <1>1, <1>8, NoSummaryFacts DEF Aside
<1>9. CASE Session!Save(p)
  BY <1>1, <1>2, <1>9, SaveFacts DEF Aside
<1>10. CASE Session!ArchiveTurns(p)
  <2>1. dsLock' = dsLock /\ Moves(p, "archive", "write")
    BY <1>10, ArchiveFacts
  <2>2. QED
    BY <1>1, <1>2, <2>1 DEF Aside, Moves
<1>11. CASE Session!WriteFile(p)
  <2>1. dsLock' = <<>> /\ Moves(p, "write", "rest")
    BY <1>11, WriteFileFacts
  <2>2. QED
    BY <1>1, <1>2, <2>1 DEF Aside, Moves
<1>12. CASE Session!WriteFails(p)
  <2>1. dsLock' = <<>> /\ Moves(p, "write", "rest")
    BY <1>12, WriteFailsFacts
  <2>2. QED
    BY <1>1, <1>2, <2>1 DEF Aside, Moves
<1>13. CASE Session!Kill(p)
  <2>1. Session!Holds(p) <=> dsLock = <<p, "main">> \/ dsLock = <<p, "back">>
    BY AtFacts
  <2>2. /\ dsMain'[p] = "rest" /\ dsBack'[p].at = "rest"
        /\ dsLock' = IF Session!Holds(p) THEN <<>> ELSE dsLock
        /\ \A q \in Chats : q # p => dsMain'[q] = dsMain[q] /\ dsBack'[q] = dsBack[q]
    BY <1>13, KillFacts, RestTypes DEF Aside
  <2>3. CASE Session!Holds(p)
    BY <1>1, <1>2, <2>1, <2>2, <2>3
  <2>4. CASE ~Session!Holds(p)
    BY <1>1, <1>2, <2>1, <2>2, <2>4
  <2>5. QED
    BY <2>3, <2>4
<1>14. QED
  BY <1>0, <1>4, <1>5, <1>6, <1>7, <1>8, <1>9, <1>10, <1>11, <1>12, <1>13

\* So do the other parts of the control.
LEMMA ControlKept ==
  ASSUME Session!TypeOK, Session!TypeOK', Session!IndicesGrow, SessionsSound, Control,
         Session!Next
  PROVE  Control'
<1>0. PICK p \in Chats :
        \/ Session!Open(p) \/ Session!AddTurn(p)
        \/ Session!Choose(p) \/ Session!Summarise(p) \/ Session!SummaryFails(p) \/ Session!Save(p)
        \/ Session!ArchiveTurns(p) \/ Session!WriteFile(p) \/ Session!WriteFails(p)
        \/ Session!Kill(p)
  BY DEF Session!Next
<1>1. LockFollows'
  BY LockKept DEF Control
<1>2. /\ dsFile \in Session!Session /\ dsMem \in [Chats -> Session!Session]
      /\ dsMem[p] \in Session!Session /\ dsNext \in Nat
      /\ Sound(dsFile) /\ \A q \in Chats : Sound(dsMem[q])
  BY SessionConstants DEF Session!TypeOK, SessionsSound
<1>3. /\ \A q \in dsDead : dsMem[q] = Session!NoFile /\ dsMain[q] = "rest" /\ dsBack[q] = Session!Rest /\ dsOpen[q] = 0
      /\ dsDead \subseteq Chats
  BY DEF Session!TypeOK, Control, DeadRest
<1>4. \A q \in Chats : dsMain[q] \in Writing \/ dsBack[q] # Session!Rest => Begun(dsMem[q])
  BY DEF Control, WorkHasBegun, Writing
<1>5. ~Begun(Session!NoFile)
  BY EmptyTypes DEF Begun
<1>6. FirstWrite
  BY DEF Control
<1>7. /\ dsLock = <<p, "main">> => dsMain[p] \in Writing
      /\ dsLock = <<p, "back">> => dsBack[p].at \in Writing
  BY LockNames DEF Control
<1>8. Session!Rest.at = "rest" /\ "rest" \notin Writing
  BY RestTypes DEF Writing
<1>9. SUFFICES /\ \A q \in dsDead' : dsMem'[q] = Session!NoFile /\ dsMain'[q] = "rest" /\ dsBack'[q] = Session!Rest /\ dsOpen'[q] = 0
               /\ \A q \in Chats : dsMain'[q] \in Writing \/ dsBack'[q] # Session!Rest => Begun(dsMem'[q])
               /\ IF dsFile' = Session!NoFile THEN dsSaved' = {} ELSE Begun(dsFile')
  BY <1>1 DEF Control, DeadRest, WorkHasBegun, Begun, FirstWrite, Writing
<1>10. CASE Session!Open(p)
  <2>1. /\ dsFile' = dsFile /\ dsSaved' = dsSaved /\ dsDead' = dsDead /\ dsBack' = dsBack
        /\ dsOpen' = dsOpen
        /\ p \notin dsDead /\ dsMain'[p] = "add" /\ "add" \notin Writing
        /\ \A q \in Chats : q # p => dsMain'[q] = dsMain[q] /\ dsMem'[q] = dsMem[q]
    BY <1>10, OpenFacts DEF Aside, Writing
  <2>2. dsBack[p] # Session!Rest => Begun(dsMem'[p])
    <3>1. SUFFICES ASSUME dsBack[p] # Session!Rest PROVE Begun(dsMem'[p])
      OBVIOUS
    <3>2. Begun(dsMem[p]) /\ dsMem[p] # Session!NoFile
      BY <1>4, <1>5, <3>1
    <3>3. Begun(Session!Adopted(dsMem[p]))
      BY <1>2, <3>2, MergeFacts
    <3>4. QED
      BY <1>10, <3>2, <3>3, OpenFacts
  <2>3. QED
    BY <1>3, <1>4, <1>6, <2>1, <2>2 DEF FirstWrite
<1>11. CASE Session!AddTurn(p)
  <2>1. /\ dsFile' = dsFile /\ dsSaved' = dsSaved /\ dsDead' = dsDead /\ dsBack' = dsBack
        /\ p \notin dsDead /\ Begun(dsMem'[p])
        /\ \A q \in Chats : q # p => dsMain'[q] = dsMain[q] /\ dsMem'[q] = dsMem[q] /\ dsOpen'[q] = dsOpen[q]
    BY <1>11, AddFacts DEF Aside
  <2>2. QED
    BY <1>3, <1>4, <1>6, <2>1 DEF FirstWrite
<1>12. CASE Session!Choose(p)
  <2>1. /\ dsFile' = dsFile /\ dsSaved' = dsSaved /\ dsDead' = dsDead /\ dsMain' = dsMain
        /\ dsOpen' = dsOpen
        /\ dsMem' = dsMem /\ p \notin dsDead /\ Begun(dsMem[p])
        /\ \A q \in Chats : q # p => dsBack'[q] = dsBack[q]
    BY <1>12, ChooseFacts DEF Aside
  <2>2. QED
    BY <1>3, <1>4, <1>6, <2>1 DEF FirstWrite
<1>13. CASE Session!Summarise(p)
  <2>1. /\ dsFile' = dsFile /\ dsSaved' = dsSaved /\ dsDead' = dsDead /\ dsMain' = dsMain
        /\ dsOpen' = dsOpen
        /\ p \notin dsDead /\ dsMem'[p].turns = dsMem[p].turns /\ dsMem'[p].arch = dsMem[p].arch
        /\ dsBack[p].at = "summarise"
        /\ \A q \in Chats : q # p => dsBack'[q] = dsBack[q] /\ dsMem'[q] = dsMem[q]
    BY <1>13, SummariseFacts DEF Aside
  <2>2. Begun(dsMem'[p])
    BY <1>4, <1>8, <2>1 DEF Begun
  <2>3. QED
    BY <1>3, <1>4, <1>6, <2>1, <2>2 DEF FirstWrite
<1>14. CASE Session!SummaryFails(p)
  <2>1. /\ dsFile' = dsFile /\ dsSaved' = dsSaved /\ dsDead' = dsDead /\ dsMain' = dsMain
        /\ dsOpen' = dsOpen
        /\ p \notin dsDead /\ dsMem' = dsMem /\ dsBack[p].at = "summarise"
        /\ \A q \in Chats : q # p => dsBack'[q] = dsBack[q]
    BY <1>14, NoSummaryFacts DEF Aside
  <2>2. Begun(dsMem[p])
    BY <1>4, <1>8, <2>1
  <2>3. QED
    BY <1>3, <1>4, <1>6, <2>1, <2>2 DEF FirstWrite
<1>15. CASE Session!Save(p)
  <2>1. /\ dsFile' = dsFile /\ dsSaved' = dsSaved /\ dsDead' = dsDead /\ dsMain' = dsMain
        /\ dsOpen' = dsOpen
        /\ p \notin dsDead /\ dsBack[p].at = "save"
        /\ Begun(dsFile) \/ Begun(dsMem[p]) => Begun(dsMem'[p])
        /\ \A q \in Chats : q # p => dsBack'[q] = dsBack[q] /\ dsMem'[q] = dsMem[q]
    BY <1>15, SaveFacts DEF Aside, Merged
  <2>2. Begun(dsMem'[p])
    BY <1>4, <1>8, <2>1
  <2>3. QED
    BY <1>3, <1>4, <1>6, <2>1, <2>2 DEF FirstWrite
<1>16. CASE Session!ArchiveTurns(p)
  <2>1. /\ dsFile' = dsFile /\ dsSaved' = dsSaved /\ dsDead' = dsDead /\ dsOpen' = dsOpen
        /\ p \notin dsDead
        /\ \A q \in Chats : q # p => dsBack'[q] = dsBack[q] /\ dsMem'[q] = dsMem[q] /\ dsMain'[q] = dsMain[q]
    BY <1>16, ArchiveFacts DEF Aside, Moves
  <2>2. Begun(dsMem[p])
    BY <1>4, <1>7, <1>8, <1>16, ArchiveFacts DEF Session!At
  <2>3. Begun(dsMem'[p])
    BY <1>2, <1>16, <2>2, ArchiveFacts, CutFacts
  <2>4. QED
    BY <1>3, <1>4, <1>6, <2>1, <2>3 DEF FirstWrite
<1>17. CASE Session!WriteFile(p)
  <2>1. /\ dsFile' = dsMem[p] /\ dsDead' = dsDead /\ dsOpen' = dsOpen /\ dsMem' = dsMem
        /\ p \notin dsDead
        /\ \A q \in Chats : q # p => dsBack'[q] = dsBack[q] /\ dsMain'[q] = dsMain[q]
    BY <1>17, WriteFileFacts DEF Aside, Moves
  <2>2. Begun(dsMem[p])
    BY <1>4, <1>7, <1>8, <1>17, WriteFileFacts DEF Session!At
  <2>3. QED
    BY <1>3, <1>4, <1>5, <2>1, <2>2
<1>18. CASE Session!WriteFails(p)
  <2>1. /\ dsFile' = dsFile /\ dsSaved' = dsSaved /\ dsDead' = dsDead /\ dsOpen' = dsOpen
        /\ dsMem' = dsMem
        /\ p \notin dsDead
        /\ \A q \in Chats : q # p => dsBack'[q] = dsBack[q] /\ dsMain'[q] = dsMain[q]
    BY <1>18, WriteFailsFacts DEF Aside, Moves
  <2>2. Begun(dsMem[p])
    BY <1>4, <1>7, <1>8, <1>18, WriteFailsFacts DEF Session!At
  <2>3. QED
    BY <1>3, <1>4, <1>6, <2>1, <2>2 DEF FirstWrite
<1>19. CASE Session!Kill(p)
  <2>1. /\ dsFile' = dsFile /\ dsSaved' = dsSaved /\ dsDead' = dsDead \cup {p}
        /\ dsMem'[p] = Session!NoFile /\ dsMain'[p] = "rest" /\ dsBack'[p] = Session!Rest
        /\ dsOpen'[p] = 0
        /\ \A q \in Chats : q # p => dsBack'[q] = dsBack[q] /\ dsMem'[q] = dsMem[q]
                                     /\ dsMain'[q] = dsMain[q] /\ dsOpen'[q] = dsOpen[q]
    BY <1>19, KillFacts DEF Aside
  <2>2. QED
    BY <1>3, <1>4, <1>6, <1>8, <2>1 DEF FirstWrite
<1>20. QED
  BY <1>0, <1>10, <1>11, <1>12, <1>13, <1>14, <1>15, <1>16, <1>17, <1>18, <1>19

\* A step of a process.
Step(p) == Session!Open(p) \/ Session!AddTurn(p) \/ Session!Choose(p) \/ Session!Summarise(p) \/ Session!SummaryFails(p) \/ Session!Save(p)
           \/ Session!ArchiveTurns(p) \/ Session!WriteFile(p) \/ Session!WriteFails(p) \/ Session!Kill(p)

\* What every further part of the invariant rests on.
Base == Session!TypeOK /\ Session!IndicesGrow /\ SessionsSound /\ Control

\* Holders of the lock are told apart by process and thread.
LEMMA Tuples ==
  /\ \A q, r \in Chats : /\ <<q, "main">> = <<r, "main">> => q = r
                         /\ <<q, "back">> = <<r, "back">> => q = r
                         /\ <<q, "main">> # <<r, "back">>
  /\ \A q \in Chats : <<q, "main">> # <<>> /\ <<q, "back">> # <<>>
  /\ \A q \in Chats : <<q, "main">>[1] = q /\ <<q, "back">>[1] = q
                      /\ <<q, "main">>[2] = "main" /\ <<q, "back">>[2] = "back"
<1>1. \A q \in Chats : <<q, "main">>[1] = q /\ <<q, "back">>[1] = q
                       /\ <<q, "main">>[2] = "main" /\ <<q, "back">>[2] = "back"
                       /\ <<q, "main">> # <<>> /\ <<q, "back">> # <<>>
  OBVIOUS
<1>2. "main" # "back"
  OBVIOUS
<1>3. QED
  BY <1>1, <1>2, Zenon

\* Nothing of another process changes, nor whether it holds the lock.
LEMMA Bystanders ==
  ASSUME Base, NEW p \in Chats, Step(p)
  PROVE  \A q \in Chats : q # p =>
           /\ dsMem'[q] = dsMem[q] /\ dsMain'[q] = dsMain[q] /\ dsBack'[q] = dsBack[q]
           /\ dsOpen'[q] = dsOpen[q]
           /\ Session!Holds(q)' <=> Session!Holds(q)
           /\ Busy(q)' <=> Busy(q)
           /\ Session!At(q, "archive")' <=> Session!At(q, "archive")
           /\ Session!At(q, "write")' <=> Session!At(q, "write")
<1>0. Session!TypeOK /\ Session!IndicesGrow /\ SessionsSound /\ LockFollows
  BY DEF Base, Control
<1>1. /\ \A q \in Chats : q # p => dsMem'[q] = dsMem[q] /\ dsMain'[q] = dsMain[q] /\ dsBack'[q] = dsBack[q]
                                   /\ dsOpen'[q] = dsOpen[q]
      /\ \/ dsLock' = dsLock
         \/ dsLock = <<>> /\ dsLock' \in {<<p, "main">>, <<p, "back">>}
         \/ dsLock \in {<<p, "main">>, <<p, "back">>} /\ dsLock' = <<>>
  <2>1. CASE Session!Open(p)
    BY <1>0, <2>1, OpenFacts DEF Aside
  <2>2. CASE Session!AddTurn(p)
    BY <1>0, <2>2, AddFacts DEF Aside
  <2>3. CASE Session!Choose(p)
    BY <1>0, <2>3, ChooseFacts DEF Aside
  <2>4. CASE Session!Summarise(p)
    BY <1>0, <2>4, SummariseFacts DEF Aside
  <2>5. CASE Session!SummaryFails(p)
    BY <1>0, <2>5, NoSummaryFacts DEF Aside
  <2>6. CASE Session!Save(p)
    BY <1>0, <2>6, SaveFacts DEF Aside
  <2>7. CASE Session!ArchiveTurns(p)
    BY <1>0, <2>7, ArchiveFacts DEF Aside, Moves
  <2>8. CASE Session!WriteFile(p)
    BY <1>0, <2>8, WriteFileFacts DEF Aside, Moves
  <2>9. CASE Session!WriteFails(p)
    BY <1>0, <2>9, WriteFailsFacts DEF Aside, Moves
  <2>10. CASE Session!Kill(p)
    <3>1. Session!Holds(p) <=> dsLock = <<p, "main">> \/ dsLock = <<p, "back">>
      BY <1>0, AtFacts
    <3>2. QED
      BY <1>0, <2>10, <3>1, KillFacts DEF Aside
  <2>11. QED
    BY <2>1, <2>2, <2>3, <2>4, <2>5, <2>6, <2>7, <2>8, <2>9, <2>10 DEF Step
<1>2. SUFFICES ASSUME NEW q \in Chats, q # p
               PROVE  /\ Session!Holds(q)' <=> Session!Holds(q)
                      /\ Busy(q)' <=> Busy(q)
                      /\ Session!At(q, "archive")' <=> Session!At(q, "archive")
                      /\ Session!At(q, "write")' <=> Session!At(q, "write")
  BY <1>1
<1>3. dsMain'[q] = dsMain[q] /\ dsBack'[q] = dsBack[q]
  BY <1>1, <1>2
<1>4. CASE dsLock' = dsLock
  BY <1>3, <1>4 DEF Session!Holds, Busy, Session!At
<1>5. CASE dsLock' # dsLock
  <2>1. /\ dsLock' \in {<<>>, <<p, "main">>, <<p, "back">>}
        /\ dsLock \in {<<>>, <<p, "main">>, <<p, "back">>}
    BY <1>1, <1>5
  <2>2. ~Session!Holds(q) /\ ~Session!At(q, "archive") /\ ~Session!At(q, "write")
    BY <1>2, <2>1, Tuples DEF Session!Holds, Session!At
  <2>3. ~Session!Holds(q)' /\ ~Session!At(q, "archive")' /\ ~Session!At(q, "write")'
    BY <1>2, <2>1, Tuples DEF Session!Holds, Session!At
  <2>4. QED
    BY <2>2, <2>3 DEF Busy
<1>6. QED
  BY <1>4, <1>5

\* Where the thread that takes a step was, and is.
LEMMA OwnPlace ==
  ASSUME Base, Control', Session!TypeOK', NEW p \in Chats
  PROVE  /\ Session!Open(p) \/ Session!Choose(p) \/ Session!Summarise(p) \/ Session!SummaryFails(p) =>
              /\ dsLock' = dsLock
              /\ Session!At(p, "archive")' <=> Session!At(p, "archive")
              /\ Session!At(p, "write")' <=> Session!At(p, "write")
         /\ Session!AddTurn(p) \/ Session!Save(p) =>
              dsLock = <<>> /\ ~Session!At(p, "archive") /\ ~Session!At(p, "write") /\ Session!At(p, "archive")' /\ ~Session!At(p, "write")'
         /\ Session!ArchiveTurns(p) =>
              Session!At(p, "archive") /\ ~Session!At(p, "write") /\ ~Session!At(p, "archive")' /\ Session!At(p, "write")'
         /\ Session!WriteFile(p) \/ Session!WriteFails(p) =>
              Session!At(p, "write") /\ ~Session!At(p, "archive") /\ ~Session!At(p, "archive")' /\ ~Session!At(p, "write")'
         /\ Session!Kill(p) => ~Session!At(p, "archive")' /\ ~Session!At(p, "write")'
<1>0. Session!TypeOK /\ Session!IndicesGrow /\ SessionsSound /\ LockFollows
  BY DEF Base, Control
<1>1. /\ dsMain[p] \in Writing <=> dsLock = <<p, "main">>
      /\ dsBack[p].at \in Writing <=> dsLock = <<p, "back">>
      /\ dsMain'[p] \in Writing <=> dsLock' = <<p, "main">>
      /\ dsBack'[p].at \in Writing <=> dsLock' = <<p, "back">>
  BY <1>0, LockNames, LockNamesNext DEF Control
<1>2. Session!Open(p) \/ Session!Choose(p) \/ Session!Summarise(p) \/ Session!SummaryFails(p) =>
              /\ dsLock' = dsLock
              /\ Session!At(p, "archive")' <=> Session!At(p, "archive")
              /\ Session!At(p, "write")' <=> Session!At(p, "write")
  <2>1. ASSUME Session!Open(p) PROVE dsLock' = dsLock /\ dsBack' = dsBack /\ dsMain[p] = "rest"
    BY <1>0, <2>1, OpenFacts
  <2>2. ASSUME Session!Choose(p) PROVE dsLock' = dsLock /\ dsMain' = dsMain /\ dsBack[p].at = "rest"
    BY <1>0, <2>2, ChooseFacts, RestTypes
  <2>3. ASSUME Session!Summarise(p) PROVE dsLock' = dsLock /\ dsMain' = dsMain /\ dsBack[p].at = "summarise"
    BY <1>0, <2>3, SummariseFacts
  <2>4. ASSUME Session!SummaryFails(p) PROVE dsLock' = dsLock /\ dsMain' = dsMain /\ dsBack[p].at = "summarise"
    BY <1>0, <2>4, NoSummaryFacts
  <2>5. ASSUME dsLock' = dsLock, dsBack' = dsBack, dsMain[p] = "rest"
        PROVE  /\ Session!At(p, "archive")' <=> Session!At(p, "archive")
               /\ Session!At(p, "write")' <=> Session!At(p, "write")
    BY <1>1, <2>5 DEF Session!At, Writing
  <2>6. ASSUME dsLock' = dsLock, dsMain' = dsMain, dsBack[p].at \in {"rest", "summarise"}
        PROVE  /\ Session!At(p, "archive")' <=> Session!At(p, "archive")
               /\ Session!At(p, "write")' <=> Session!At(p, "write")
    BY <1>1, <2>6 DEF Session!At, Writing
  <2>7. QED
    BY <2>1, <2>2, <2>3, <2>4, <2>5, <2>6
<1>3. Session!AddTurn(p) \/ Session!Save(p) =>
              dsLock = <<>> /\ ~Session!At(p, "archive") /\ ~Session!At(p, "write") /\ Session!At(p, "archive")' /\ ~Session!At(p, "write")'
  <2>1. ASSUME Session!AddTurn(p) PROVE dsLock = <<>> /\ dsLock' = <<p, "main">> /\ dsMain'[p] = "archive"
    BY <1>0, <2>1, AddFacts
  <2>2. ASSUME Session!Save(p) PROVE dsLock = <<>> /\ dsLock' = <<p, "back">> /\ dsBack'[p].at = "archive"
    BY <1>0, <2>2, SaveFacts
  <2>3. QED
    BY <2>1, <2>2, Tuples DEF Session!At
<1>4. Session!ArchiveTurns(p) =>
              Session!At(p, "archive") /\ ~Session!At(p, "write") /\ ~Session!At(p, "archive")' /\ Session!At(p, "write")'
  <2>1. ASSUME Session!ArchiveTurns(p) PROVE dsLock' = dsLock /\ Moves(p, "archive", "write")
    BY <1>0, <2>1, ArchiveFacts
  <2>2. QED
    BY <2>1, Tuples DEF Session!At, Moves
<1>5. Session!WriteFile(p) \/ Session!WriteFails(p) =>
              Session!At(p, "write") /\ ~Session!At(p, "archive") /\ ~Session!At(p, "archive")' /\ ~Session!At(p, "write")'
  <2>1. ASSUME Session!WriteFile(p) \/ Session!WriteFails(p) PROVE dsLock' = <<>> /\ Moves(p, "write", "rest")
    BY <1>0, <2>1, WriteFileFacts, WriteFailsFacts
  <2>2. QED
    BY <2>1, Tuples DEF Session!At, Moves
<1>6. Session!Kill(p) => ~Session!At(p, "archive")' /\ ~Session!At(p, "write")'
  <2>1. ASSUME Session!Kill(p) PROVE dsMain'[p] = "rest" /\ dsBack'[p].at = "rest"
    BY <1>0, <2>1, KillFacts, RestTypes
  <2>2. QED
    BY <2>1 DEF Session!At
<1>7. QED
  BY <1>2, <1>3, <1>4, <1>5, <1>6

\* A loss is never taken back.
LEMMA LossStays ==
  ASSUME Base, NEW p \in Chats, Step(p)
  PROVE  /\ NoWriteLost' => NoWriteLost
         /\ dsSpoilt => dsSpoilt'
         /\ dsFails' = dsFails \/ dsFails' = dsFails + 1
         /\ dsFails \in Nat /\ (dsFails' = 0 => dsFails = 0)
<1>0. Session!TypeOK /\ Session!IndicesGrow /\ SessionsSound /\ LockFollows /\ dsFails \in Nat
  BY SessionConstants DEF Base, Control, Session!TypeOK
<1>1. (dsSpoilt => dsSpoilt') /\ (dsFails' = dsFails \/ dsFails' = dsFails + 1)
  BY <1>0, ArchiveFacts, KillFacts, WriteFailsFacts, WriteFileFacts
     DEF Step, Session!Open, Session!AddTurn, Session!Choose, Session!Summarise, Session!SummaryFails, Session!Save, Session!idle, Session!past
<1>2. dsFails' = 0 => dsFails = 0
  BY <1>0, <1>1
<1>3. QED
  BY <1>0, <1>1, <1>2 DEF NoWriteLost

\* What processes remember stays behind the file.
LEMMA DiskKept ==
  ASSUME Base, Base', DiskIsAhead, NEW p \in Chats, Step(p)
  PROVE  DiskIsAhead'
<1>0. /\ Session!TypeOK /\ Session!IndicesGrow /\ SessionsSound /\ LockFollows /\ Control'
      /\ Session!TypeOK'
  BY DEF Base, Control
<1>1. /\ dsFile \in Session!Session /\ dsFile' \in Session!Session /\ dsFile.arch \in Nat
      /\ dsFile'.arch \in Nat
      /\ \A q \in Chats : dsMem[q] \in Session!Session /\ dsMem'[q] \in Session!Session
                          /\ dsMem[q].arch \in Nat /\ dsMem'[q].arch \in Nat
  BY <1>0, SessionTypes DEF Session!TypeOK
<1>2. SUFFICES ASSUME NoWriteLost'
               PROVE  \A q \in Chats :
                        /\ ~Session!At(q, "write")' => dsMem'[q].arch <= dsFile'.arch
                        /\ Session!At(q, "write")' => dsMem'[q].arch >= dsFile'.arch
                        /\ Session!At(q, "archive")' => dsMem'[q].arch = dsFile'.arch /\ Extends(dsMem'[q], dsFile')
  BY DEF DiskIsAhead, Extends
<1>3. \A q \in Chats :
        /\ ~Session!At(q, "write") => dsMem[q].arch <= dsFile.arch
        /\ Session!At(q, "write") => dsMem[q].arch >= dsFile.arch
        /\ Session!At(q, "archive") => dsMem[q].arch = dsFile.arch /\ Extends(dsMem[q], dsFile)
  BY <1>2, LossStays DEF DiskIsAhead
<1>4. \A q \in Chats : q # p => /\ dsMem'[q] = dsMem[q]
                                /\ Session!At(q, "archive")' <=> Session!At(q, "archive")
                                /\ Session!At(q, "write")' <=> Session!At(q, "write")
  BY Bystanders
<1>5. ASSUME dsFile' = dsFile,
             /\ ~Session!At(p, "write")' => dsMem'[p].arch <= dsFile.arch
             /\ Session!At(p, "write")' => dsMem'[p].arch >= dsFile.arch
             /\ Session!At(p, "archive")' => dsMem'[p].arch = dsFile.arch /\ Extends(dsMem'[p], dsFile)
      PROVE  \A q \in Chats :
                        /\ ~Session!At(q, "write")' => dsMem'[q].arch <= dsFile'.arch
                        /\ Session!At(q, "write")' => dsMem'[q].arch >= dsFile'.arch
                        /\ Session!At(q, "archive")' => dsMem'[q].arch = dsFile'.arch /\ Extends(dsMem'[q], dsFile')
  BY <1>3, <1>4, <1>5
<1>6. CASE Session!Open(p)
  <2>1. /\ dsFile' = dsFile
        /\ Session!At(p, "archive")' <=> Session!At(p, "archive")
        /\ Session!At(p, "write")' <=> Session!At(p, "write")
    BY <1>0, <1>6, OpenFacts, OwnPlace
  <2>2. CASE dsMem'[p] = dsMem[p]
    BY <1>3, <1>5, <2>1, <2>2
  <2>3. CASE dsMem'[p] # dsMem[p]
    <3>1. ~Session!At(p, "write") /\ ~Session!At(p, "archive")
      <4>1. dsMem[p] = Session!NoFile \/ dsLock = <<>>
        BY <1>0, <1>6, <2>3, OpenFacts
      <4>2. dsMem[p] = Session!NoFile => ~Begun(dsMem[p])
        BY EmptyTypes DEF Begun
      <4>3. Busy(p) => Begun(dsMem[p])
        BY RestTypes DEF Busy, Session!At, Base, Control, WorkHasBegun
      <4>4. dsLock = <<>> => ~Busy(p)
        BY Tuples DEF Busy, Session!At
      <4>5. QED
        BY <4>1, <4>2, <4>3, <4>4 DEF Busy
    <3>2. dsMem'[p].arch <= dsFile.arch
      <4>1. Disk.arch <= dsFile.arch
        BY <1>1, EmptyTypes DEF Disk
      <4>2. Session!Adopted(dsMem[p]).arch = IF dsFile.arch >= dsMem[p].arch THEN dsFile.arch ELSE dsMem[p].arch
        BY <1>0, <1>1, MergeFacts, SessionConstants DEF SessionsSound, Session!TypeOK
      <4>3. dsMem[p].arch <= dsFile.arch
        BY <1>3, <3>1
      <4>4. QED
        BY <1>0, <1>1, <1>6, <4>1, <4>2, <4>3, OpenFacts
    <3>3. QED
      BY <1>5, <2>1, <3>1, <3>2
  <2>4. QED
    BY <2>2, <2>3
<1>7. CASE Session!AddTurn(p) \/ Session!Save(p)
  <2>1. dsFile' = dsFile /\ Merged(p)
    BY <1>0, <1>7, AddFacts, SaveFacts
  <2>2. ~Session!At(p, "write") /\ Session!At(p, "archive")' /\ ~Session!At(p, "write")'
    BY <1>0, <1>7, OwnPlace
  <2>3. dsMem[p].arch <= dsFile.arch
    BY <1>3, <2>2
  <2>4. dsMem'[p].arch = dsFile.arch /\ Extends(dsMem'[p], dsFile)
    BY <1>1, <2>1, <2>3 DEF Merged
  <2>5. QED
    BY <1>1, <1>5, <2>1, <2>2, <2>4
<1>8. CASE Session!Choose(p) \/ Session!SummaryFails(p)
  <2>1. /\ dsFile' = dsFile /\ dsMem' = dsMem
        /\ Session!At(p, "archive")' <=> Session!At(p, "archive")
        /\ Session!At(p, "write")' <=> Session!At(p, "write")
    BY <1>0, <1>8, ChooseFacts, NoSummaryFacts, OwnPlace
  <2>2. QED
    BY <1>3, <1>5, <2>1
<1>9. CASE Session!Summarise(p)
  <2>1. /\ dsFile' = dsFile /\ dsMem'[p].turns = dsMem[p].turns /\ dsMem'[p].arch = dsMem[p].arch
        /\ Session!At(p, "archive")' <=> Session!At(p, "archive")
        /\ Session!At(p, "write")' <=> Session!At(p, "write")
    BY <1>0, <1>9, SummariseFacts, OwnPlace
  <2>2. Extends(dsMem[p], dsFile) => Extends(dsMem'[p], dsFile)
    BY <2>1 DEF Extends
  <2>3. QED
    BY <1>3, <1>5, <2>1, <2>2
<1>10. CASE Session!ArchiveTurns(p)
  <2>1. Session!At(p, "archive") /\ ~Session!At(p, "archive")' /\ Session!At(p, "write")' /\ dsFile' = dsFile
    BY <1>0, <1>10, ArchiveFacts, OwnPlace
  <2>2. dsMem'[p].arch >= dsMem[p].arch
    <3>1. LET n == Session!LocalCut(dsMem[p])
              c == Session!CutOff(dsMem[p], n, TRUE)
          IN  n \in Nat /\ c.arch = dsMem[p].arch + n
      BY <1>0, <1>1, CutFacts DEF SessionsSound
    <3>2. QED
      <4>1. dsMem'[p] = Session!CutOff(dsMem[p], Session!LocalCut(dsMem[p]), TRUE) \/ dsMem'[p] = dsMem[p]
        BY <1>0, <1>10, ArchiveFacts
      <4> DEFINE n == Session!LocalCut(dsMem[p])
      <4>2. n \in Nat /\ Session!CutOff(dsMem[p], n, TRUE).arch = dsMem[p].arch + n
        BY <3>1
      <4>3. dsMem'[p] = Session!CutOff(dsMem[p], n, TRUE) \/ dsMem'[p] = dsMem[p]
        BY <4>1
      <4> HIDE DEF n
      <4>4. dsMem'[p].arch = dsMem[p].arch + n \/ dsMem'[p].arch = dsMem[p].arch
        BY <4>2, <4>3
      <4>5. QED
        BY <1>1, <4>2, <4>4
  <2>3. QED
    BY <1>1, <1>3, <1>5, <2>1, <2>2
<1>11. CASE Session!WriteFile(p)
  <2>1. Session!At(p, "write") /\ ~Session!At(p, "archive")' /\ ~Session!At(p, "write")' /\ dsFile' = dsMem[p] /\ dsMem' = dsMem
    BY <1>0, <1>11, WriteFileFacts, OwnPlace
  <2>2. \A q \in Chats : q # p => ~Session!At(q, "write") /\ ~Session!At(q, "archive")
    BY <1>0, <2>1, AtFacts DEF Writing
  <2>3. \A q \in Chats : dsMem'[q].arch <= dsFile'.arch
    BY <1>1, <1>3, <2>1, <2>2
  <2>4. QED
    BY <1>4, <2>1, <2>2, <2>3
<1>12. CASE Session!WriteFails(p)
  <2>1. /\ Session!At(p, "write") /\ ~Session!At(p, "archive")' /\ ~Session!At(p, "write")' /\ dsFile' = dsFile /\ dsMem' = dsMem
        /\ dsFails' = dsFails + 1
        /\ dsSpoilt' = (dsSpoilt \/ dsMem[p].arch > dsFile.arch \/ ~Session!InPlace(dsFile))
    BY <1>0, <1>12, WriteFailsFacts, OwnPlace
  <2>2. dsFails' # 0
    BY <2>1, LossStays
  <2>3. dsMem[p].arch <= dsFile.arch
    <3>1. ~dsSpoilt'
      BY <1>2, <2>2 DEF NoWriteLost
    <3>2. ~(dsMem[p].arch > dsFile.arch)
      BY <2>1, <3>1, Zenon
    <3>3. QED
      BY <1>1, <3>2
  <2>4. QED
    BY <1>5, <2>1, <2>3
<1>13. CASE Session!Kill(p)
  <2>1. ~Session!At(p, "archive")' /\ ~Session!At(p, "write")' /\ dsFile' = dsFile /\ dsMem'[p] = Session!NoFile
    BY <1>0, <1>13, KillFacts, OwnPlace
  <2>2. Session!NoFile.arch <= dsFile.arch
    BY <1>1, EmptyTypes
  <2>3. QED
    BY <1>5, <2>1, <2>2
<1>14. QED
  BY <1>6, <1>7, <1>8, <1>9, <1>10, <1>11, <1>12, <1>13 DEF Step

\* The turns of a session that are archived too are so under their indices.
InPlaceOf(s, top, ids) ==
  \A i \in s.arch + 1 .. top : i - s.arch <= Len(s.turns) /\ s.turns[i - s.arch].id \in ids

\* The archive as it was.
Untouched == dsArchive' = dsArchive /\ dsTorn' = dsTorn

\* It then has the same turns and the same last index.
LEMMA UntouchedFacts ==
  ASSUME Untouched
  PROVE  Session!Archived' = Session!Archived /\ Session!LastIndex' = Session!LastIndex
  BY ArchiveNames, NamesNext DEF Untouched

\* The records a session adds are those of its own turns at their places.
LEMMA AddsInPlace ==
  ASSUME dsArchive \in Seq(Session!Record), NEW s \in Session!Session, NEW n \in Nat,
         NEW k \in Nat,
         k <= Len(Session!NewRecords(s, n)), Adds(Session!NewRecords(s, n), k),
         InPlaceOf(s, Session!LastIndex, Session!Archived), Session!Archived \subseteq Session!Archived'
  PROVE  InPlaceOf(s, Session!LastIndex', Session!Archived')
<1> DEFINE r == Session!NewRecords(s, n)
           t == There(s)
<1>1. /\ t \in Nat /\ s.arch + t >= Session!LastIndex /\ Len(r) \in Nat
      /\ r \in Seq(Session!Record)
      /\ t > 0 => s.arch + t = Session!LastIndex
      /\ \A j \in DOMAIN r : /\ t + j \in DOMAIN s.turns
                             /\ r[j].i = s.arch + t + j /\ r[j].ids = {s.turns[t + j].id}
  BY NewFacts
<1>2. /\ s.arch \in Nat /\ s.turns \in Seq(Session!Turn) /\ Len(s.turns) \in Nat
      /\ DOMAIN s.turns = 1 .. Len(s.turns) /\ Session!LastIndex \in Nat
  BY SessionTypes, ArchiveNames, ArchiveTypes
<1>3. /\ Session!Archived' = Session!Archived \cup UNION {r[j].ids : j \in 1 .. k}
      /\ Session!LastIndex' = IF k = 0 THEN Session!LastIndex ELSE r[k].i
      /\ k <= Len(r)
  BY DEF Adds
<1> HIDE DEF r, t
<1>4. \A j \in 1 .. k : j \in DOMAIN r
  BY <1>1, <1>3
<1>5. SUFFICES ASSUME NEW i \in s.arch + 1 .. Session!LastIndex'
               PROVE  i - s.arch <= Len(s.turns) /\ s.turns[i - s.arch].id \in Session!Archived'
  BY DEF InPlaceOf
<1>6. Session!LastIndex' \in Nat /\ i \in Nat /\ i >= s.arch + 1 /\ i <= Session!LastIndex'
  <2>1. Session!LastIndex' \in Nat
    <3>1. CASE k = 0
      BY <1>2, <1>3, <3>1
    <3>2. CASE k # 0
      <4>1. k \in 1 .. k
        BY <3>2
      <4>2. r[k].i = s.arch + t + k
        BY <1>1, <1>4, <4>1
      <4>3. Session!LastIndex' = s.arch + t + k
        BY <1>3, <3>2, <4>2
      <4>4. t \in Nat /\ s.arch \in Nat
        BY <1>1, <1>2
      <4>5. QED
        BY <4>3, <4>4
    <3>3. QED
      BY <3>1, <3>2
  <2>2. QED
    BY <1>2, <2>1
<1>7. CASE i <= Session!LastIndex
  <2>1. i \in s.arch + 1 .. Session!LastIndex
    BY <1>2, <1>6, <1>7
  <2>2. QED
    BY <2>1 DEF InPlaceOf
<1>8. CASE i > Session!LastIndex
  <2>1. k # 0
    BY <1>2, <1>3, <1>6, <1>8
  <2>2. k \in 1 .. k
    BY <2>1
  <2>3. Session!LastIndex' = s.arch + t + k
    BY <1>1, <1>3, <1>4, <2>1, <2>2
  <2>4. CASE i <= s.arch + t
    <3>1. t > 0
      <4> DEFINE a == s.arch
      <4>1. a \in Nat /\ t \in Nat /\ i \in Nat /\ i >= a + 1 /\ i <= a + t
        BY <1>1, <1>2, <1>6, <2>4
      <4> HIDE DEF a
      <4>2. QED
        BY <4>1
    <3>2. i <= Session!LastIndex
      BY <1>1, <2>4, <3>1
    <3>3. QED
      BY <1>2, <1>6, <1>8, <3>2
  <2>5. CASE i > s.arch + t
    <3>1. PICK j \in 1 .. k : i = s.arch + t + j
      <4>1. i - (s.arch + t) \in 1 .. k /\ i = s.arch + t + (i - (s.arch + t))
        <5>1. t \in Nat /\ s.arch \in Nat /\ i \in Nat /\ i <= s.arch + t + k
          BY <1>1, <1>2, <1>6, <2>3
        <5> DEFINE b == s.arch + t
        <5>2. b \in Nat /\ i <= b + k /\ i > b
          BY <2>5, <5>1
        <5> HIDE DEF b
        <5>3. i - b \in 1 .. k /\ i = b + (i - b)
          BY <5>1, <5>2
        <5>4. QED
          BY <5>3 DEF b
      <4>2. QED
        BY <4>1
    <3>2. i - s.arch = t + j
      <4> DEFINE a == s.arch
      <4>1. a \in Nat /\ t \in Nat /\ j \in Nat /\ i = a + t + j
        BY <1>1, <1>2, <3>1
      <4> HIDE DEF a
      <4>2. i - a = t + j
        BY <4>1
      <4>3. QED
        BY <4>2 DEF a
    <3>3. t + j \in DOMAIN s.turns /\ r[j].ids = {s.turns[t + j].id}
      BY <1>1, <1>4, <3>1
    <3>4. s.turns[t + j].id \in Session!Archived'
      BY <1>3, <3>3
    <3>5. t + j <= Len(s.turns)
      BY <1>2, <3>3
    <3>6. QED
      BY <3>2, <3>4, <3>5
  <2>6. i <= s.arch + t \/ i > s.arch + t
    <3> DEFINE b == s.arch + t
    <3>1. b \in Nat /\ i \in Nat
      BY <1>1, <1>2, <1>6
    <3> HIDE DEF b
    <3>2. i <= b \/ i > b
      BY <3>1
    <3>3. QED
      BY <3>2 DEF b
  <2>7. QED
    BY <2>4, <2>5, <2>6
<1>9. QED
  BY <1>2, <1>6, <1>7, <1>8

\* What is cut off is archived, and the rest is where the archive says.
LEMMA CutInPlace ==
  ASSUME Base, NEW s \in Session!Session, Sound(s), Session!LastIndex \in Nat,
         Session!LastIndex' \in Nat,
         Session!LastIndex >= s.arch, Session!LastIndex' >= Session!LastIndex,
         Adds(Session!NewRecords(s, Session!LocalCut(s)), Len(Session!NewRecords(s, Session!LocalCut(s)))),
         InPlaceOf(s, Session!LastIndex', Session!Archived')
  PROVE  LET c == Session!CutOff(s, Session!LocalCut(s), TRUE)
         IN  /\ Session!LastIndex' >= c.arch /\ InPlaceOf(c, Session!LastIndex', Session!Archived')
             /\ Session!IdsOf(s.turns) \subseteq Session!IdsOf(c.turns) \cup Session!Archived'
<1> DEFINE n == Session!LocalCut(s)
           c == Session!CutOff(s, n, TRUE)
           r == Session!NewRecords(s, n)
           t == There(s)
<1>1. /\ n \in Nat /\ n <= Len(s.turns) /\ c.arch = s.arch + n
      /\ Len(c.turns) = Len(s.turns) - n
      /\ \A k \in 1 .. Len(s.turns) - n : c.turns[k] = s.turns[n + k]
      /\ \A x \in Session!IdsOf(s.turns) :
           x \in Session!IdsOf(c.turns) \/ \E k \in 1 .. n : k \in DOMAIN s.turns /\ x = s.turns[k].id
  BY CutFacts
<1>2. /\ t \in Nat /\ s.arch + t >= Session!LastIndex
      /\ t > 0 => s.arch + t = Session!LastIndex
      /\ Len(r) = IF Session!Smaller(n, Len(s.turns)) > t THEN Session!Smaller(n, Len(s.turns)) - t ELSE 0
      /\ \A j \in DOMAIN r : r[j].i = s.arch + t + j
      /\ r \in Seq(Session!Record)
  <2>1. dsArchive \in Seq(Session!Record)
    BY DEF Base, Session!TypeOK
  <2>2. QED
    BY <1>1, <2>1, NewFacts
<1>3. s.arch \in Nat /\ Len(s.turns) \in Nat /\ DOMAIN s.turns = 1 .. Len(s.turns)
  BY SessionTypes
<1>4. Session!LastIndex' = IF Len(r) = 0 THEN Session!LastIndex ELSE r[Len(r)].i
  BY DEF Adds
<1> HIDE DEF n, c, r, t
<1>5. Session!LastIndex' >= s.arch + n
  <2>1. Session!Smaller(n, Len(s.turns)) = n
    BY <1>1 DEF Session!Smaller
  <2>2. CASE n > t
    <3>1. Len(r) = n - t /\ Len(r) > 0 /\ Len(r) \in 1 .. Len(r) /\ DOMAIN r = 1 .. Len(r)
      BY <1>1, <1>2, <2>1, <2>2
    <3>2. Session!LastIndex' = s.arch + t + (n - t)
      BY <1>2, <1>4, <3>1
    <3>3. QED
      BY <1>1, <1>2, <1>3, <3>2
  <2>3. CASE n <= t /\ t > 0
    BY <1>1, <1>2, <1>3, <2>3
  <2>4. CASE n <= t /\ t = 0
    BY <1>1, <1>2, <1>3, <2>4
  <2>5. QED
    BY <1>1, <1>2, <2>2, <2>3, <2>4
<1>6. Session!IdsOf(s.turns) \subseteq Session!IdsOf(c.turns) \cup Session!Archived'
  <2>1. ASSUME NEW k \in 1 .. n PROVE s.turns[k].id \in Session!Archived'
    <3>1. s.arch + k \in s.arch + 1 .. Session!LastIndex' /\ (s.arch + k) - s.arch = k
      BY <1>1, <1>3, <1>5
    <3>2. QED
      BY <3>1 DEF InPlaceOf
  <2>2. QED
    BY <1>1, <2>1
<1>7. InPlaceOf(c, Session!LastIndex', Session!Archived')
  <2>1. SUFFICES ASSUME NEW i \in c.arch + 1 .. Session!LastIndex'
                 PROVE  i - c.arch <= Len(c.turns) /\ c.turns[i - c.arch].id \in Session!Archived'
    BY DEF InPlaceOf
  <2>2. i \in Nat /\ i >= s.arch + n + 1 /\ i <= Session!LastIndex'
    BY <1>1, <1>3
  <2>3. i \in s.arch + 1 .. Session!LastIndex'
    BY <1>1, <1>3, <2>2
  <2>4. i - s.arch <= Len(s.turns) /\ s.turns[i - s.arch].id \in Session!Archived'
    BY <2>3 DEF InPlaceOf
  <2>5. i - c.arch \in 1 .. Len(s.turns) - n /\ n + (i - c.arch) = i - s.arch
    <3> DEFINE a == s.arch
               b == c.arch
               l == Len(s.turns)
    <3>1. b = a + n /\ i - a <= l /\ i >= a + n + 1
      BY <1>1, <1>3, <2>2, <2>4
    <3>2. a \in Int /\ b \in Int /\ n \in Int /\ l \in Int /\ i \in Int
      BY <1>1, <1>3, <2>2
    <3> HIDE DEF a, b, l, n, c
    <3>3. i - b \in 1 .. l - n /\ n + (i - b) = i - a
      BY <3>1, <3>2
    <3>4. QED
      BY <3>3 DEF a, b, l
  <2>6. c.turns[i - c.arch] = s.turns[i - s.arch]
    BY <1>1, <2>5
  <2>7. i - c.arch <= Len(c.turns)
    <3>1. \A l \in Nat : \A x \in 1 .. l : x <= l
      OBVIOUS
    <3>2. Len(s.turns) - n \in Nat
      BY <1>1, <1>3
    <3>3. QED
      BY <1>1, <2>5, <3>1, <3>2
  <2>8. QED
    BY <2>4, <2>6, <2>7
<1>8. QED
  BY <1>1, <1>5, <1>6, <1>7 DEF c, n

\* Every turn saved is in a file or its archive, which reaches the file.
NothingDropped(f, sv, top, ids) == sv \subseteq Session!IdsOf(f.turns) \cup ids /\ top >= f.arch

\* The archive and the file stay in step.
LEMMA ArchiveKept ==
  ASSUME Base, Base', DiskIsAhead, ArchiveInPlace, NEW p \in Chats, Step(p)
  PROVE  ArchiveInPlace'
<1>0. /\ Session!TypeOK /\ Session!IndicesGrow /\ SessionsSound /\ LockFollows /\ Control'
      /\ Session!TypeOK'
  BY DEF Base, Control
<1>1. /\ dsFile \in Session!Session /\ dsFile' \in Session!Session /\ dsFile.arch \in Nat
      /\ dsFile'.arch \in Nat
      /\ dsArchive \in Seq(Session!Record) /\ dsTorn \in BOOLEAN /\ dsSpoilt \in BOOLEAN
      /\ \A q \in Chats : dsMem[q] \in Session!Session /\ dsMem'[q] \in Session!Session
                          /\ dsMem[q].arch \in Nat /\ dsMem'[q].arch \in Nat /\ Sound(dsMem[q])
  BY <1>0, SessionTypes DEF Session!TypeOK, SessionsSound
<1>2. SUFFICES ASSUME ~dsSpoilt'
               PROVE  /\ ~dsTorn'
                      /\ NothingDropped(dsFile', dsSaved', Session!LastIndex', Session!Archived')
                      /\ (\A q \in Chats : ~Session!At(q, "write")') => InPlaceOf(dsFile', Session!LastIndex', Session!Archived')
                      /\ \A q \in Chats : Session!At(q, "write")' =>
                           /\ InPlaceOf(dsMem'[q], Session!LastIndex', Session!Archived')
                           /\ Session!LastIndex' >= dsMem'[q].arch
                           /\ Session!IdsOf(dsFile'.turns) \subseteq Session!IdsOf(dsMem'[q].turns) \cup Session!Archived'
  BY DEF ArchiveInPlace, Session!NoTurnLost, NothingDropped, Session!InPlace, InPlaceOf,
     Session!IdsOf
<1>3. ~dsSpoilt
  BY <1>2, LossStays
<1>4. /\ ~dsTorn
      /\ NothingDropped(dsFile, dsSaved, Session!LastIndex, Session!Archived)
      /\ (\A q \in Chats : ~Session!At(q, "write")) => InPlaceOf(dsFile, Session!LastIndex, Session!Archived)
      /\ \A q \in Chats : Session!At(q, "write") =>
           /\ InPlaceOf(dsMem[q], Session!LastIndex, Session!Archived)
           /\ Session!LastIndex >= dsMem[q].arch
           /\ Session!IdsOf(dsFile.turns) \subseteq Session!IdsOf(dsMem[q].turns) \cup Session!Archived
  BY <1>3 DEF ArchiveInPlace, Session!NoTurnLost, NothingDropped, Session!InPlace, InPlaceOf
<1>5. \A q \in Chats : q # p => dsMem'[q] = dsMem[q] /\ (Session!At(q, "write")' <=> Session!At(q, "write"))
  BY Bystanders
<1>6. ASSUME Untouched, dsFile' = dsFile, dsSaved' = dsSaved,
             Session!At(p, "write")' <=> Session!At(p, "write"),
             Session!At(p, "write") => dsMem'[p].turns = dsMem[p].turns /\ dsMem'[p].arch = dsMem[p].arch
      PROVE  /\ ~dsTorn'
             /\ NothingDropped(dsFile', dsSaved', Session!LastIndex', Session!Archived')
             /\ (\A q \in Chats : ~Session!At(q, "write")') => InPlaceOf(dsFile', Session!LastIndex', Session!Archived')
             /\ \A q \in Chats : Session!At(q, "write")' =>
                  /\ InPlaceOf(dsMem'[q], Session!LastIndex', Session!Archived')
                  /\ Session!LastIndex' >= dsMem'[q].arch
                  /\ Session!IdsOf(dsFile'.turns) \subseteq Session!IdsOf(dsMem'[q].turns) \cup Session!Archived'
  <2>1. /\ Session!Archived' = Session!Archived /\ Session!LastIndex' = Session!LastIndex
        /\ dsTorn' = dsTorn
    BY <1>6, UntouchedFacts DEF Untouched
  <2>2. Session!At(p, "write") => (InPlaceOf(dsMem'[p], Session!LastIndex, Session!Archived) <=> InPlaceOf(dsMem[p], Session!LastIndex, Session!Archived))
    BY <1>6 DEF InPlaceOf
  <2>3. \A q \in Chats : Session!At(q, "write")' =>
          /\ InPlaceOf(dsMem'[q], Session!LastIndex', Session!Archived')
          /\ Session!LastIndex' >= dsMem'[q].arch
          /\ Session!IdsOf(dsFile'.turns) \subseteq Session!IdsOf(dsMem'[q].turns) \cup Session!Archived'
    <3>1. SUFFICES ASSUME NEW q \in Chats, Session!At(q, "write")'
                   PROVE  /\ InPlaceOf(dsMem'[q], Session!LastIndex', Session!Archived')
                          /\ Session!LastIndex' >= dsMem'[q].arch
                          /\ Session!IdsOf(dsFile'.turns) \subseteq Session!IdsOf(dsMem'[q].turns) \cup Session!Archived'
      OBVIOUS
    <3>2. CASE q = p
      BY <1>4, <1>6, <2>1, <2>2, <3>1, <3>2
    <3>3. CASE q # p
      BY <1>4, <1>5, <1>6, <2>1, <3>1, <3>3
    <3>4. QED
      BY <3>2, <3>3
  <2>4. (\A q \in Chats : ~Session!At(q, "write")') => InPlaceOf(dsFile', Session!LastIndex', Session!Archived')
    BY <1>4, <1>5, <1>6, <2>1
  <2>5. QED
    BY <1>4, <1>6, <2>1, <2>3, <2>4
<1>7. CASE Session!Open(p)
  <2>1. /\ Untouched /\ dsFile' = dsFile /\ dsSaved' = dsSaved
        /\ (Session!At(p, "write")' <=> Session!At(p, "write"))
    BY <1>0, <1>7, OpenFacts, OwnPlace DEF Untouched
  <2>2. Session!At(p, "write") => dsMem'[p] = dsMem[p]
    <3>1. dsMem'[p] = dsMem[p] \/ dsMem[p] = Session!NoFile \/ dsLock = <<>>
      BY <1>0, <1>7, OpenFacts
    <3>2. dsMem[p] = Session!NoFile => ~Begun(dsMem[p])
      BY EmptyTypes DEF Begun
    <3>3. Busy(p) => Begun(dsMem[p])
      BY RestTypes DEF Busy, Session!At, Base, Control, WorkHasBegun
    <3>4. dsLock = <<>> => ~Busy(p)
      BY Tuples DEF Busy, Session!At
    <3>5. QED
      BY <3>1, <3>2, <3>3, <3>4 DEF Busy
  <2>3. QED
    BY <1>6, <2>1, <2>2
<1>8. CASE Session!Choose(p) \/ Session!SummaryFails(p)
  <2>1. /\ Untouched /\ dsFile' = dsFile /\ dsSaved' = dsSaved
        /\ (Session!At(p, "write")' <=> Session!At(p, "write"))
        /\ dsMem' = dsMem
    BY <1>0, <1>8, ChooseFacts, NoSummaryFacts, OwnPlace DEF Untouched
  <2>2. QED
    BY <1>6, <2>1
<1>9. CASE Session!Summarise(p)
  <2>1. /\ Untouched /\ dsFile' = dsFile /\ dsSaved' = dsSaved
        /\ (Session!At(p, "write")' <=> Session!At(p, "write"))
        /\ dsMem'[p].turns = dsMem[p].turns /\ dsMem'[p].arch = dsMem[p].arch
    BY <1>0, <1>9, SummariseFacts, OwnPlace DEF Untouched
  <2>2. QED
    BY <1>6, <2>1
<1>10. CASE Session!AddTurn(p) \/ Session!Save(p)
  <2>1. Untouched /\ dsFile' = dsFile /\ dsSaved' = dsSaved
    BY <1>0, <1>10, AddFacts, SaveFacts DEF Untouched
  <2>2. ~Session!At(p, "write") /\ ~Session!At(p, "write")'
    BY <1>0, <1>10, OwnPlace
  <2>3. QED
    BY <1>6, <2>1, <2>2
<1>11. CASE Session!ArchiveTurns(p)
  <2> DEFINE s == dsMem[p]
             n == Session!LocalCut(dsMem[p])
             r == Session!NewRecords(s, n)
  <2>1. Session!At(p, "archive") /\ ~Session!At(p, "write") /\ Session!At(p, "write")'
    BY <1>0, <1>11, OwnPlace
  <2>2. \A q \in Chats : q # p => ~Session!At(q, "write") /\ ~Session!At(q, "write")'
    BY <1>0, <1>5, <2>1, AtFacts DEF Writing
  <2>3. /\ dsFile' = dsFile /\ dsSaved' = dsSaved
        /\ Session!Archived \subseteq Session!Archived' /\ Session!LastIndex' >= Session!LastIndex
        /\ Session!LastIndex' \in Nat /\ Session!LastIndex \in Nat
        /\ \/ /\ dsMem'[p] = Session!CutOff(dsMem[p], n, TRUE)
              /\ (dsTorn' => dsTorn)
              /\ Adds(r, Len(r))
           \/ /\ dsMem'[p] = dsMem[p]
              /\ dsSpoilt' = (dsSpoilt \/ dsTorn')
              /\ \E k \in 0 .. Len(r) - 1 : Adds(r, k)
    BY <1>0, <1>4, <1>11, ArchiveFacts DEF New
  <2>4. ~dsTorn'
    BY <1>2, <1>4, <2>3
  <2>5. s.arch = dsFile.arch /\ Extends(s, dsFile)
    BY <1>3, <2>1 DEF DiskIsAhead, NoWriteLost
  <2>6. /\ s \in Session!Session /\ n \in Nat /\ s.turns \in Seq(Session!Turn)
        /\ dsFile.turns \in Seq(Session!Turn)
        /\ Len(s.turns) \in Nat /\ Len(dsFile.turns) \in Nat /\ Sound(s) /\ Len(r) \in Nat
    BY <1>1, SessionTypes, NewFacts
  <2> HIDE DEF s, n, r
  <2>7. InPlaceOf(s, Session!LastIndex, Session!Archived)
    <3>1. InPlaceOf(dsFile, Session!LastIndex, Session!Archived)
      BY <1>4, <2>1, <2>2
    <3>2. SUFFICES ASSUME NEW i \in s.arch + 1 .. Session!LastIndex
                   PROVE  i - s.arch <= Len(s.turns) /\ s.turns[i - s.arch].id \in Session!Archived
      BY DEF InPlaceOf
    <3>3. i - s.arch <= Len(dsFile.turns) /\ dsFile.turns[i - s.arch].id \in Session!Archived
      BY <2>5, <3>1, <3>2 DEF InPlaceOf
    <3>4. i - s.arch \in DOMAIN dsFile.turns
      <4>1. s.arch \in Nat
        BY <1>1, <2>5
      <4>2. i - s.arch \in 1 .. Len(dsFile.turns)
        BY <2>3, <2>6, <3>2, <3>3, <4>1
      <4>3. QED
        BY <2>6, <4>2
    <3>5. /\ s.turns[i - s.arch].id = dsFile.turns[i - s.arch].id
          /\ Len(dsFile.turns) <= Len(s.turns)
      BY <2>5, <3>4 DEF Extends
    <3>6. QED
      <4>1. i - s.arch \in Int
        BY <1>1, <2>5, <3>2
      <4>2. QED
        BY <2>6, <3>3, <3>5, <4>1
  <2>8. \A x \in Session!IdsOf(dsFile.turns) : x \in Session!IdsOf(s.turns)
    <3>1. \A k \in DOMAIN dsFile.turns : k \in DOMAIN s.turns /\ s.turns[k].id = dsFile.turns[k].id
      BY <2>5, <2>6 DEF Extends
    <3>2. QED
      BY <3>1 DEF Session!IdsOf
  <2>9. Session!LastIndex >= dsFile.arch /\ Session!LastIndex' >= dsFile'.arch
        /\ dsSaved' \subseteq Session!IdsOf(dsFile'.turns) \cup Session!Archived'
    BY <1>1, <1>4, <2>3 DEF NothingDropped
  <2>10. /\ InPlaceOf(dsMem'[p], Session!LastIndex', Session!Archived')
         /\ Session!LastIndex' >= dsMem'[p].arch
         /\ Session!IdsOf(dsFile'.turns) \subseteq Session!IdsOf(dsMem'[p].turns) \cup Session!Archived'
    <3>1. CASE dsMem'[p] = Session!CutOff(dsMem[p], n, TRUE) /\ Adds(r, Len(r))
      <4>1. InPlaceOf(s, Session!LastIndex', Session!Archived')
        <5>1. Len(r) <= Len(r)
          BY <2>6
        <5>2. QED
          BY <1>1, <2>3, <2>6, <2>7, <3>1, <5>1, AddsInPlace DEF r
      <4>2. Adds(Session!NewRecords(s, Session!LocalCut(s)), Len(Session!NewRecords(s, Session!LocalCut(s)))) /\ Session!LastIndex >= s.arch
        BY <2>5, <2>9, <3>1 DEF r, n, s
      <4>3. LET c == Session!CutOff(s, Session!LocalCut(s), TRUE)
            IN  /\ Session!LastIndex' >= c.arch /\ InPlaceOf(c, Session!LastIndex', Session!Archived')
                /\ Session!IdsOf(s.turns) \subseteq Session!IdsOf(c.turns) \cup Session!Archived'
        BY <2>3, <2>6, <4>1, <4>2, CutInPlace
      <4>4. dsMem'[p] = Session!CutOff(s, Session!LocalCut(s), TRUE)
        BY <3>1 DEF n, s
      <4>5. QED
        BY <2>3, <2>8, <4>3, <4>4
    <3>2. CASE dsMem'[p] = dsMem[p] /\ \E k \in 0 .. Len(r) - 1 : Adds(r, k)
      <4>1. PICK k \in 0 .. Len(r) - 1 : Adds(r, k)
        BY <3>2
      <4>2. k \in Nat /\ k <= Len(r)
        BY <2>6
      <4>3. InPlaceOf(s, Session!LastIndex', Session!Archived')
        BY <1>1, <2>3, <2>6, <2>7, <4>1, <4>2, AddsInPlace DEF r
      <4>4. dsMem'[p] = s
        BY <3>2 DEF s
      <4>5. QED
        BY <2>3, <2>5, <2>8, <2>9, <4>3, <4>4
    <3>3. QED
      BY <2>3, <3>1, <3>2
  <2>11. QED
    BY <2>1, <2>2, <2>4, <2>9, <2>10 DEF NothingDropped
<1>12. CASE Session!WriteFile(p)
  <2>1. /\ Session!At(p, "write") /\ ~Session!At(p, "write")' /\ Untouched /\ dsFile' = dsMem[p]
        /\ dsSaved' = dsSaved \cup Session!IdsOf(dsMem[p].turns)
    BY <1>0, <1>12, WriteFileFacts, OwnPlace DEF Untouched
  <2>2. \A q \in Chats : q # p => ~Session!At(q, "write")'
    BY <1>0, <1>5, <2>1, AtFacts DEF Writing
  <2>3. /\ Session!Archived' = Session!Archived /\ Session!LastIndex' = Session!LastIndex
        /\ dsTorn' = dsTorn
    BY <2>1, UntouchedFacts DEF Untouched
  <2>4. /\ InPlaceOf(dsMem[p], Session!LastIndex, Session!Archived)
        /\ Session!LastIndex >= dsMem[p].arch
        /\ Session!IdsOf(dsFile.turns) \subseteq Session!IdsOf(dsMem[p].turns) \cup Session!Archived
    BY <1>4, <2>1
  <2>5. NothingDropped(dsFile', dsSaved', Session!LastIndex', Session!Archived')
    BY <1>4, <2>1, <2>3, <2>4 DEF NothingDropped
  <2>6. QED
    BY <1>4, <2>1, <2>2, <2>3, <2>4, <2>5
<1>13. CASE Session!WriteFails(p)
  <2>1. /\ Session!At(p, "write") /\ ~Session!At(p, "write")' /\ Untouched /\ dsFile' = dsFile /\ dsSaved' = dsSaved
        /\ dsSpoilt' = (dsSpoilt \/ dsMem[p].arch > dsFile.arch \/ ~Session!InPlace(dsFile))
    BY <1>0, <1>13, WriteFailsFacts, OwnPlace DEF Untouched
  <2>2. \A q \in Chats : q # p => ~Session!At(q, "write")'
    BY <1>0, <1>5, <2>1, AtFacts DEF Writing
  <2>3. /\ Session!Archived' = Session!Archived /\ Session!LastIndex' = Session!LastIndex
        /\ dsTorn' = dsTorn
    BY <2>1, UntouchedFacts DEF Untouched
  <2>4. InPlaceOf(dsFile, Session!LastIndex, Session!Archived)
    <3>1. Session!InPlace(dsFile)
      BY <1>2, <2>1, Zenon
    <3>2. QED
      BY <3>1 DEF Session!InPlace, InPlaceOf
  <2>5. QED
    BY <1>4, <2>1, <2>2, <2>3, <2>4
<1>14. CASE Session!Kill(p)
  <2>1. /\ ~Session!At(p, "write")' /\ dsFile' = dsFile /\ dsSaved' = dsSaved
        /\ Session!Archived \subseteq Session!Archived' /\ Session!LastIndex' >= Session!LastIndex
        /\ Session!LastIndex' \in Nat /\ Session!LastIndex \in Nat
        /\ UNCHANGED <<dsArchive, dsTorn, dsTears>> \/ Session!At(p, "archive")
        /\ dsSpoilt' = (dsSpoilt \/ dsTorn' \/ (Session!Holds(p) /\ ~Session!InPlace(dsFile)'))
    BY <1>0, <1>14, KillFacts, OwnPlace
  <2>2. ~dsTorn' /\ (Session!Holds(p) => Session!InPlace(dsFile)')
    BY <1>2, <2>1, Zenon
  <2>3. CASE Session!Holds(p)
    <3>1. \A q \in Chats : q # p => ~Session!At(q, "write")'
      BY <1>0, <1>5, <2>3, AtFacts, Tuples DEF Writing, Session!Holds, Session!At
    <3>2. InPlaceOf(dsFile', Session!LastIndex', Session!Archived')
      BY <2>2, <2>3 DEF Session!InPlace, InPlaceOf
    <3>3. NothingDropped(dsFile', dsSaved', Session!LastIndex', Session!Archived')
      BY <1>1, <1>4, <2>1 DEF NothingDropped
    <3>4. QED
      BY <2>1, <2>2, <3>1, <3>2, <3>3
  <2>4. CASE ~Session!Holds(p)
    <3>1. ~Session!At(p, "archive") /\ ~Session!At(p, "write")
      BY <1>0, <2>4, AtFacts DEF Writing
    <3>2. Untouched
      BY <2>1, <3>1 DEF Untouched
    <3>3. QED
      BY <1>6, <2>1, <3>1, <3>2
  <2>5. QED
    BY <2>3, <2>4
<1>15. QED
  BY <1>7, <1>8, <1>9, <1>10, <1>11, <1>12, <1>13, <1>14 DEF Step

\* What is missing has no turns.
LEMMA SessionFound ==
  ASSUME Base, NEW p \in Chats
  PROVE  /\ ~Begun(Session!NoFile) /\ (Begun(dsMem[p]) => dsMem[p] # Session!NoFile)
         /\ Busy(p) \/ dsBack[p] # Session!Rest => Begun(dsMem[p])
         /\ dsFile # Session!NoFile => Begun(dsFile)
         /\ dsBack[p].at # "rest" => dsBack[p] # Session!Rest
<1>1. ~Begun(Session!NoFile)
  BY EmptyTypes DEF Begun
<1>2. Busy(p) \/ dsBack[p] # Session!Rest => Begun(dsMem[p])
  BY RestTypes DEF Busy, Session!At, Base, Control, WorkHasBegun
<1>3. dsFile # Session!NoFile => Begun(dsFile)
  BY DEF Base, Control, FirstWrite
<1>4. QED
  BY <1>1, <1>2, <1>3, RestTypes

\* A chat that asks has read the session.
LEMMA OpenedKept ==
  ASSUME Base, Base', Opened, NEW p \in Chats, Step(p)
  PROVE  Opened'
<1>0. /\ Session!TypeOK /\ Session!IndicesGrow /\ SessionsSound /\ LockFollows /\ Control'
      /\ Session!TypeOK'
  BY DEF Base, Control
<1>1. \A q \in Chats : q # p => dsMem'[q] = dsMem[q] /\ dsMain'[q] = dsMain[q]
  BY Bystanders
<1>2. SUFFICES ASSUME dsMain'[p] = "add" PROVE dsMem'[p] # Session!NoFile
  BY <1>1 DEF Opened
<1>3. ~Begun(Session!NoFile)
  BY EmptyTypes DEF Begun
<1>4. CASE dsBack'[p] # Session!Rest
  <2>1. Begun(dsMem'[p])
    BY <1>4 DEF Base, Control, WorkHasBegun, Begun
  <2>2. QED
    BY <1>3, <2>1
<1>5. CASE dsBack'[p] = Session!Rest
  <2>1. CASE Session!Open(p)
    <3>1. CASE dsMem[p] = Session!NoFile
      <4>1. dsNext < MaxTurns /\ dsNext \in Nat /\ MaxTurns \in Nat
        BY <1>0, <2>1, SessionConstants DEF Session!Open, Session!TypeOK
      <4>2. 1 \in Session!Ids
        BY <4>1 DEF Session!Ids
      <4>3. Session!Empty # Session!NoFile
        BY <4>2, EmptyTypes
      <4>4. Disk # Session!NoFile
        BY <4>3 DEF Disk
      <4>5. dsMem' = [dsMem EXCEPT ![p] = Disk]
        BY <2>1, <3>1 DEF Session!Open, Disk
      <4>6. QED
        BY <1>0, <4>4, <4>5 DEF Session!TypeOK
    <3>2. CASE dsMem[p] # Session!NoFile
      <4>1. dsMem'[p] = dsMem[p] \/ (dsFile # Session!NoFile /\ dsMem'[p] = Session!Adopted(dsMem[p]))
        BY <1>0, <2>1, <3>2, OpenFacts
      <4>2. dsFile # Session!NoFile => Begun(Session!Adopted(dsMem[p]))
        <5>1. /\ dsFile \in Session!Session /\ dsMem[p] \in Session!Session /\ Sound(dsFile)
              /\ Sound(dsMem[p]) /\ dsNext \in Nat
          BY <1>0, SessionConstants DEF Session!TypeOK, SessionsSound
        <5>2. dsFile # Session!NoFile => Begun(dsFile)
          BY SessionFound
        <5>3. QED
          BY <5>1, <5>2, MergeFacts
      <4>3. QED
        BY <1>3, <3>2, <4>1, <4>2
    <3>3. QED
      BY <3>1, <3>2
  <2>2. CASE Session!AddTurn(p) \/ Session!Kill(p)
    BY <1>0, <1>2, <2>2, AddFacts, KillFacts
  <2>3. CASE Session!Choose(p) \/ Session!Summarise(p) \/ Session!SummaryFails(p) \/ Session!Save(p)
    BY <1>0, <1>5, <2>3, ChooseFacts, SummariseFacts, NoSummaryFacts, SaveFacts, RestTypes
  <2>4. CASE Session!ArchiveTurns(p)
    BY <1>0, <1>2, <1>5, <2>4, ArchiveFacts, RestTypes DEF Moves
  <2>5. CASE Session!WriteFile(p) \/ Session!WriteFails(p)
    <3>1. dsMem' = dsMem /\ Moves(p, "write", "rest")
      BY <1>0, <2>5, WriteFileFacts, WriteFailsFacts
    <3>2. dsMain[p] = "add"
      BY <1>2, <3>1 DEF Moves
    <3>3. QED
      BY <3>1, <3>2 DEF Opened
  <2>6. QED
    BY <2>1, <2>2, <2>3, <2>4, <2>5 DEF Step
<1>6. QED
  BY <1>4, <1>5

\* What each step does to the writers and the holder of the lock.
LEMMA OwnLock ==
  ASSUME Base, Control', Session!TypeOK', NEW p \in Chats
  PROVE  /\ Session!Open(p) \/ Session!Choose(p) \/ Session!Summarise(p) \/ Session!SummaryFails(p) =>
              (Busy(p)' <=> Busy(p)) /\ (Session!Holds(p)' <=> Session!Holds(p))
         /\ Session!AddTurn(p) \/ Session!Save(p) => ~Busy(p) /\ Busy(p)' /\ ~Session!Holds(p) /\ Session!Holds(p)'
         /\ Session!ArchiveTurns(p) => Busy(p) /\ Busy(p)' /\ Session!Holds(p) /\ Session!Holds(p)'
         /\ Session!WriteFile(p) \/ Session!WriteFails(p) => Busy(p) /\ ~Busy(p)' /\ Session!Holds(p) /\ ~Session!Holds(p)'
         /\ Session!Kill(p) => ~Busy(p)' /\ ~Session!Holds(p)'
         /\ Busy(p) <=> Session!Holds(p)
<1>0. Session!TypeOK /\ Session!IndicesGrow /\ SessionsSound /\ LockFollows
  BY DEF Base, Control
<1>1. Session!Holds(p) <=> Busy(p)
  BY <1>0, AtFacts
<1>2. Session!Holds(p)' <=> Busy(p)'
  <2>1. dsLock' = <<>> \/ \E q \in Chats : dsLock' = <<q, "main">> \/ dsLock' = <<q, "back">>
    BY DEF Session!TypeOK
  <2>2. Session!Holds(p)' <=> dsLock' = <<p, "main">> \/ dsLock' = <<p, "back">>
    BY <2>1, Tuples DEF Session!Holds
  <2>3. /\ dsMain'[p] \in Writing <=> dsLock' = <<p, "main">>
        /\ dsBack'[p].at \in Writing <=> dsLock' = <<p, "back">>
    BY LockNamesNext DEF Control
  <2>4. QED
    BY <2>2, <2>3 DEF Busy, Session!At, Writing
<1>3. QED
  BY <1>0, <1>1, <1>2, OwnPlace DEF Busy

\* What is in memory was saved, but for what a writer is about to save.
LEMMA AllSavedKept ==
  ASSUME Base, Base', AllSaved, NEW p \in Chats, Step(p)
  PROVE  AllSaved'
<1>0. /\ Session!TypeOK /\ Session!IndicesGrow /\ SessionsSound /\ LockFollows /\ Control'
      /\ Session!TypeOK'
  BY DEF Base, Control
<1>1. \A q \in Chats : q # p => dsMem'[q] = dsMem[q] /\ (Busy(q)' <=> Busy(q))
  BY Bystanders
<1>2. dsFails' = 0 => dsFails = 0
  BY LossStays
<1>3. SUFFICES /\ Session!IdsOf(dsFile'.turns) \subseteq dsSaved' /\ dsSaved \subseteq dsSaved'
               /\ dsFails' = 0 => (~Busy(p)' => Session!IdsOf(dsMem'[p].turns) \subseteq dsSaved')
  <2>1. ASSUME dsSaved \subseteq dsSaved',
               dsFails' = 0 => (~Busy(p)' => Session!IdsOf(dsMem'[p].turns) \subseteq dsSaved')
        PROVE  dsFails' = 0 => \A q \in Chats : ~Busy(q)' => Session!IdsOf(dsMem'[q].turns) \subseteq dsSaved'
    BY <1>1, <1>2, <2>1 DEF AllSaved
  <2>2. QED
    BY <2>1 DEF AllSaved, Session!IdsOf
<1>4. Session!IdsOf(dsFile.turns) \subseteq dsSaved
  BY DEF AllSaved
<1>5. dsFails = 0 => (~Busy(p) => Session!IdsOf(dsMem[p].turns) \subseteq dsSaved)
  BY DEF AllSaved
<1>6. Session!IdsOf(Session!NoFile.turns) = {}
  BY EmptyTypes DEF Session!IdsOf
<1>7. CASE Session!Open(p)
  <2>1. dsFile' = dsFile /\ dsSaved' = dsSaved /\ (Busy(p)' <=> Busy(p))
    BY <1>0, <1>7, OpenFacts, OwnLock
  <2>2. Session!IdsOf(Disk.turns) \subseteq dsSaved
    <3>1. Disk.turns = dsFile.turns \/ Disk.turns = Session!NoFile.turns
      BY EmptyTypes DEF Disk
    <3>2. QED
      BY <1>4, <1>6, <3>1
  <2>3. Session!IdsOf(Session!Adopted(dsMem[p]).turns) = Session!IdsOf(dsFile.turns) \cup Session!IdsOf(dsMem[p].turns)
    BY <1>0, MergeFacts, SessionConstants DEF Session!TypeOK, SessionsSound
  <2>4. dsMem'[p] = dsMem[p] \/ dsMem'[p] = Disk \/ dsMem'[p] = Session!Adopted(dsMem[p])
    BY <1>0, <1>7, OpenFacts
  <2>5. QED
    BY <1>2, <1>4, <1>5, <2>1, <2>2, <2>3, <2>4
<1>8. CASE Session!AddTurn(p) \/ Session!Save(p)
  BY <1>0, <1>4, <1>8, AddFacts, SaveFacts, OwnLock
<1>9. CASE Session!Choose(p) \/ Session!SummaryFails(p)
  BY <1>0, <1>2, <1>4, <1>5, <1>9, ChooseFacts, NoSummaryFacts, OwnLock
<1>10. CASE Session!Summarise(p)
  <2>1. /\ dsFile' = dsFile /\ dsSaved' = dsSaved /\ dsMem'[p].turns = dsMem[p].turns
        /\ (Busy(p)' <=> Busy(p))
    BY <1>0, <1>10, SummariseFacts, OwnLock
  <2>2. QED
    BY <1>2, <1>4, <1>5, <2>1
<1>11. CASE Session!ArchiveTurns(p)
  BY <1>0, <1>4, <1>11, ArchiveFacts, OwnLock
<1>12. CASE Session!WriteFile(p)
  <2>1. /\ dsFile' = dsMem[p] /\ dsMem' = dsMem
        /\ dsSaved' = dsSaved \cup Session!IdsOf(dsMem[p].turns)
    BY <1>0, <1>12, WriteFileFacts
  <2>2. QED
    BY <2>1
<1>13. CASE Session!WriteFails(p)
  <2>1. dsFile' = dsFile /\ dsSaved' = dsSaved /\ dsFails' = dsFails + 1
    BY <1>0, <1>13, WriteFailsFacts
  <2>2. dsFails' # 0
    BY <2>1, LossStays
  <2>3. QED
    BY <1>4, <2>1, <2>2
<1>14. CASE Session!Kill(p)
  <2>1. dsFile' = dsFile /\ dsSaved' = dsSaved /\ dsMem'[p] = Session!NoFile
    BY <1>0, <1>14, KillFacts
  <2>2. QED
    BY <1>4, <1>6, <2>1
<1>15. QED
  BY <1>7, <1>8, <1>9, <1>10, <1>11, <1>12, <1>13, <1>14 DEF Step

\* The requests of a session, of given requests at work and processes killed.
RequestsAt(turns, p, opened, killed) ==
  /\ \A q \in Chats : opened[q] \in Session!IdsOf(turns) /\ q # p =>
       \E k \in DOMAIN turns : turns[k] = [id |-> opened[q], owner |-> q]
  /\ \A k \in DOMAIN turns : turns[k].owner # Nobody =>
       turns[k].owner \in killed \/ opened[turns[k].owner] = turns[k].id \/ turns[k].owner = p

\* Until one compresses nothing is summarised, archived or left out.
LEMMA Uncompressed ==
  ASSUME Base, AllSaved, SummariesFollow, dsFails = 0, dsCompressors = {}
  PROVE  /\ \A q \in Chats : dsBack[q] = Session!Rest /\ Session!LocalCut(dsMem[q]) = 0
         /\ \A q \in Chats : ~Busy(q) => Session!Adopted(dsMem[q]).turns = dsFile.turns
<1>0. /\ Session!TypeOK /\ SessionsSound /\ dsNext \in Nat /\ dsFile \in Session!Session
      /\ \A q \in Chats : dsMem[q] \in Session!Session
  BY SessionConstants DEF Base, Session!TypeOK
<1>1. Session!OneCompresses
  BY DEF Session!OneCompresses
<1>2. Summed(dsFile, Disk, dsSaved, dsCompressors)
  BY <1>1 DEF SummariesFollow
<1>3. /\ Disk.upto = 0 /\ Disk.covers = {} /\ Disk.arch <= 0
      /\ dsSaved \subseteq Session!IdsOf(dsFile.turns)
  BY <1>2 DEF Summed
<1>4. dsFile.arch >= 0
  BY <1>0, SessionTypes
<1>5. ASSUME NEW q \in Chats
      PROVE  dsBack[q] = Session!Rest /\ dsMem[q].upto = 0 /\ dsMem[q].arch = 0
  <2>1. /\ Fit(dsMem[q], dsSaved, Busy(q), Session!At(q, "write"))
        /\ Follower(dsMem[q], dsFile, Disk, dsBack[q], Busy(q), Session!At(q, "write"))
    BY <1>1 DEF SummariesFollow
  <2>2. dsBack[q] = Session!Rest
    BY <2>1 DEF Follower
  <2>3. dsMem[q].upto \in Nat /\ dsMem[q].arch \in Nat
    BY <1>0, SessionTypes
  <2>4. CASE dsMem[q] = Session!NoFile
    BY <2>2, <2>4, EmptyTypes
  <2>5. CASE dsMem[q] # Session!NoFile
    <3>1. dsMem[q].upto <= 0 /\ dsMem[q].arch <= dsMem[q].upto
      BY <1>3, <2>1, <2>5 DEF Follower, Fit, Follows
    <3>2. QED
      BY <2>2, <2>3, <3>1
  <2>6. QED
    BY <2>4, <2>5
<1>6. ASSUME NEW q \in Chats
      PROVE  Session!LocalCut(dsMem[q]) = 0
  BY <1>5 DEF Session!LocalCut
<1>7. ASSUME NEW q \in Chats, ~Busy(q)
      PROVE  Session!Adopted(dsMem[q]).turns = dsFile.turns
  <2>1. Session!IdsOf(dsMem[q].turns) \subseteq Session!IdsOf(dsFile.turns)
    BY <1>3, <1>7 DEF AllSaved
  <2>2. dsFile.arch >= dsMem[q].arch
    BY <1>4, <1>5
  <2>3. Sound(dsFile) /\ Sound(dsMem[q])
    BY <1>0 DEF SessionsSound
  <2>4. QED
    BY <1>0, <2>1, <2>2, <2>3, MergeFacts
<1>8. QED
  BY <1>5, <1>6, <1>7

\* A session that is being written is not replaced by the chat.
LEMMA OpenBusy ==
  ASSUME Base, NEW p \in Chats, Session!Open(p), Busy(p)
  PROVE  dsMem'[p] = dsMem[p]
<1>0. Session!TypeOK /\ SessionsSound /\ Control
  BY DEF Base
<1>1. dsMem'[p] = dsMem[p] \/ dsMem[p] = Session!NoFile \/ dsLock = <<>>
  BY <1>0, OpenFacts
<1>2. dsMem[p] = Session!NoFile => ~Begun(dsMem[p])
  BY EmptyTypes DEF Begun
<1>3. Begun(dsMem[p])
  BY <1>0, RestTypes DEF Busy, Session!At, Control, WorkHasBegun
<1>4. dsLock # <<>>
  BY Tuples DEF Busy, Session!At
<1>5. QED
  BY <1>1, <1>2, <1>3, <1>4

\* A request, or an answer, put after the turns of the file.
LEMMA RequestAdded ==
  ASSUME Base, NEW p \in Chats, Session!AddTurn(p),
         Session!Adopted(dsMem[p]).turns = dsFile.turns,
         RequestsAt(dsFile.turns, Nobody, dsOpen, dsDead)
  PROVE  /\ RequestsAt(dsFile.turns, p, dsOpen', dsDead)
         /\ RequestsAt(dsMem'[p].turns, Nobody, dsOpen', dsDead)
<1> DEFINE f == dsFile.turns
           r == Session!Reaped(f)
           t == Kept(p)
           n == NewTurn(p)
           m == dsMem'[p].turns
<1>0. Session!TypeOK /\ SessionsSound /\ Control /\ Nobody \notin Chats
  BY SessionConstants DEF Base
<1>1. /\ f \in Seq(Session!Turn) /\ Len(f) \in Nat /\ DOMAIN f = 1 .. Len(f)
      /\ \A k \in DOMAIN f : f[k].id \in Nat /\ f[k].id >= 1 /\ f[k].id <= dsNext /\ f[k] \in Session!Turn
  <2>1. f \in Seq(Session!Turn) /\ Len(f) \in Nat /\ DOMAIN f = 1 .. Len(f)
    BY <1>0, SessionTypes DEF Session!TypeOK
  <2>2. \A k \in DOMAIN f : f[k].id <= dsNext
    BY <1>0 DEF SessionsSound, Sound, Old
  <2>3. \A k \in DOMAIN f : f[k].id \in Nat /\ f[k].id \in Session!Ids /\ f[k] \in Session!Turn
    BY <2>1, TurnTypes
  <2>4. \A i \in Session!Ids : i >= 1
    BY DEF Session!Ids
  <2>5. QED
    BY <2>1, <2>2, <2>3, <2>4
<1>2. /\ r \in Seq(Session!Turn) /\ DOMAIN r = DOMAIN f
      /\ \A k \in DOMAIN f : /\ r[k].id = f[k].id
                             /\ r[k].owner = IF f[k].owner \in dsDead THEN Nobody ELSE f[k].owner
  BY <1>1, ReapedFacts, RelabelFacts DEF Relabelled
<1>3. /\ t \in Seq(Session!Turn) /\ DOMAIN t = DOMAIN f /\ Len(t) = Len(f)
      /\ \A k \in DOMAIN f :
           /\ t[k].id = f[k].id /\ t[k] \in Session!Turn
           /\ t[k].owner = IF dsOpen[p] # 0 /\ k \in Session!Newest(r, p) THEN Nobody ELSE r[k].owner
  <2>1. t = IF dsOpen[p] = 0 THEN r ELSE Session!Cleared(r, p)
    BY DEF Kept
  <2>2. t \in Seq(Session!Turn) /\ Relabelled(t, f)
    BY <1>0, AddFacts
  <2>3. DOMAIN t = DOMAIN f /\ Len(t) = Len(f) /\ \A k \in DOMAIN f : t[k].id = f[k].id
    BY <1>1, <2>2, RelabelFacts DEF Relabelled
  <2>4. \A k \in DOMAIN f : t[k] \in Session!Turn
    BY <2>2, <2>3, TurnTypes
  <2>5. \A k \in DOMAIN r : Session!Cleared(r, p)[k].owner = IF k \in Session!Newest(r, p) THEN Nobody ELSE r[k].owner
    BY <1>2, ClearedFacts
  <2>6. QED
    BY <1>2, <2>1, <2>2, <2>3, <2>4, <2>5
<1>4. /\ n \in Session!Turn /\ n.id = dsNext + 1
      /\ n.owner = (IF dsOpen[p] = 0 THEN p ELSE Nobody)
      /\ n = [id |-> dsNext + 1, owner |-> IF dsOpen[p] = 0 THEN p ELSE Nobody]
      /\ m = Append(t, n)
      /\ dsNext \in Nat
  BY <1>0, AddFacts DEF NewTurn
<1>5. /\ DOMAIN m = DOMAIN f \cup {Len(f) + 1}
      /\ \A k \in DOMAIN f : m[k] = t[k]
      /\ m[Len(f) + 1] = n /\ Session!IdsOf(m) = Session!IdsOf(f) \cup {dsNext + 1}
  <2>1. Session!IdsOf(t) = Session!IdsOf(f)
    BY <1>3 DEF Session!IdsOf
  <2>2. QED
    BY <1>3, <1>4, <2>1, AppendFacts
<1>6. /\ \A q \in Chats : q # p => dsOpen'[q] = dsOpen[q]
      /\ dsOpen'[p] = IF dsOpen[p] = 0 THEN dsNext + 1 ELSE 0
  BY <1>0, AddFacts DEF Session!TypeOK
<1>7. /\ \A q \in Chats : dsOpen[q] \in Session!IdsOf(f) =>
           \E k \in DOMAIN f : f[k] = [id |-> dsOpen[q], owner |-> q]
      /\ \A k \in DOMAIN f : f[k].owner # Nobody =>
           f[k].owner \in dsDead \/ dsOpen[f[k].owner] = f[k].id
  BY <1>0 DEF RequestsAt
<1>8. /\ \A q \in Chats : dsOpen[q] <= dsNext /\ dsOpen[q] \in Nat
      /\ \A q \in dsDead : dsOpen[q] = 0
      /\ \A j, k \in DOMAIN f : j # k => f[j].id # f[k].id
  BY <1>0, SessionConstants DEF Session!TypeOK, SessionsSound, Sound, Once, Control, DeadRest
<1>9. \A k \in DOMAIN f : f[k].owner \in Chats \cup {Nobody}
  BY <1>1 DEF Session!Turn
<1> HIDE DEF f, r, t, n, m
<1>10. RequestsAt(f, p, dsOpen', dsDead)
  <2>1. \A q \in Chats : dsOpen'[q] \in Session!IdsOf(f) /\ q # p =>
           \E k \in DOMAIN f : f[k] = [id |-> dsOpen'[q], owner |-> q]
    BY <1>6, <1>7
  <2>2. \A k \in DOMAIN f : f[k].owner # Nobody =>
           f[k].owner \in dsDead \/ dsOpen'[f[k].owner] = f[k].id \/ f[k].owner = p
    BY <1>6, <1>7, <1>9
  <2>3. QED
    BY <2>1, <2>2 DEF RequestsAt
<1>11. ASSUME NEW q \in Chats, dsOpen'[q] \in Session!IdsOf(m)
       PROVE  \E k \in DOMAIN m : m[k] = [id |-> dsOpen'[q], owner |-> q]
  <2>1. \A k \in DOMAIN f : f[k].id # 0
    BY <1>1
  <2>2. 0 \notin Session!IdsOf(f)
    BY <2>1 DEF Session!IdsOf
  <2>3. CASE q = p
    <3>1. dsOpen[p] = 0 /\ dsOpen'[p] = dsNext + 1
      BY <1>4, <1>5, <1>6, <1>11, <2>2, <2>3
    <3>2. m[Len(f) + 1] = [id |-> dsOpen'[q], owner |-> q] /\ Len(f) + 1 \in DOMAIN m
      BY <1>4, <1>5, <2>3, <3>1
    <3>3. QED
      BY <3>2
  <2>4. CASE q # p
    <3>1. dsOpen'[q] = dsOpen[q] /\ dsOpen[q] # dsNext + 1
      BY <1>4, <1>6, <1>8, <2>4
    <3>2. dsOpen[q] \in Session!IdsOf(f)
      BY <1>5, <1>11, <3>1
    <3>3. PICK k \in DOMAIN f : f[k] = [id |-> dsOpen[q], owner |-> q]
      BY <1>7, <3>2
    <3>4. q \notin dsDead
      BY <1>8, <2>2, <3>2
    <3>5. f[k].owner = q /\ f[k].id = dsOpen[q]
      BY <3>3
    <3>6. r[k].owner = q
      BY <1>2, <3>4, <3>5
    <3>7. k \notin Session!Newest(r, p)
      BY <2>4, <3>6 DEF Session!Newest
    <3>8. t[k].owner = q /\ t[k].id = dsOpen[q] /\ t[k] \in Session!Turn
      BY <1>3, <3>5, <3>6, <3>7
    <3>9. t[k] = [id |-> dsOpen[q], owner |-> q]
      BY <3>8 DEF Session!Turn
    <3>10. QED
      BY <1>5, <3>1, <3>9
  <2>5. QED
    BY <2>3, <2>4
<1>12. ASSUME NEW k \in DOMAIN m, m[k].owner # Nobody
       PROVE  m[k].owner \in dsDead \/ dsOpen'[m[k].owner] = m[k].id
  <2>1. CASE k \in DOMAIN f
    <3> DEFINE w == t[k].owner
    <3>1. m[k] = t[k] /\ w # Nobody /\ t[k].id = f[k].id
      BY <1>3, <1>5, <1>12, <2>1
    <3>2. r[k].owner = w /\ f[k].owner = w /\ w \notin dsDead /\ ~(dsOpen[p] # 0 /\ k \in Session!Newest(r, p))
      BY <1>2, <1>3, <2>1, <3>1
    <3>3. dsOpen[w] = f[k].id
      BY <1>7, <2>1, <3>1, <3>2
    <3>4. w \in Chats
      BY <1>9, <2>1, <3>1, <3>2
    <3>5. w # p
      <4>1. SUFFICES ASSUME w = p PROVE FALSE
        OBVIOUS
      <4>2. dsOpen[p] # 0
        BY <1>1, <2>1, <3>3, <4>1
      <4>3. PICK j \in DOMAIN r : r[j].owner = p /\ ~(j <= k)
        BY <1>2, <2>1, <3>2, <4>1, <4>2 DEF Session!Newest
      <4>4. j \in DOMAIN f /\ f[j].owner = p /\ p \notin dsDead /\ j # k
        BY <1>0, <1>1, <1>2, <3>2, <4>1, <4>3
      <4>5. dsOpen[p] = f[j].id
        BY <1>0, <1>7, <4>4
      <4>6. QED
        BY <1>8, <2>1, <3>3, <4>1, <4>4, <4>5
    <3>6. QED
      BY <1>6, <3>1, <3>3, <3>4, <3>5
  <2>2. CASE k = Len(f) + 1
    <3>1. m[k] = n
      BY <1>5, <2>2
    <3>2. dsOpen[p] = 0 /\ n.owner = p
      BY <1>4, <1>12, <3>1
    <3>3. QED
      BY <1>4, <1>6, <3>1, <3>2
  <2>3. QED
    BY <1>5, <2>1, <2>2
<1>13. RequestsAt(m, Nobody, dsOpen', dsDead)
  BY <1>11, <1>12 DEF RequestsAt
<1>14. QED
  BY <1>10, <1>13 DEF f, m

\* Requests at work stay those in progress.
LEMMA RequestsKept ==
  ASSUME Base, Base', AllSaved, SummariesFollow, RequestsFollow, NEW p \in Chats, Step(p)
  PROVE  RequestsFollow'
<1>0. /\ Session!TypeOK /\ Session!IndicesGrow /\ SessionsSound /\ LockFollows /\ Control'
      /\ Session!TypeOK'
  BY DEF Base, Control
<1>1. /\ RequestsFollow' <=>
           (dsCompressors' = {} /\ dsFails' = 0 =>
              /\ RequestsAt(dsFile'.turns, Asker', dsOpen', dsDead')
              /\ \A q \in Chats : Busy(q)' => RequestsAt(dsMem'[q].turns, Nobody, dsOpen', dsDead'))
      /\ RequestsFollow <=>
           (dsCompressors = {} /\ dsFails = 0 =>
              /\ RequestsAt(dsFile.turns, Asker, dsOpen, dsDead)
              /\ \A q \in Chats : Busy(q) => RequestsAt(dsMem[q].turns, Nobody, dsOpen, dsDead))
  BY DEF RequestsFollow, Requests, RequestsAt, Session!IdsOf
<1>2. SUFFICES ASSUME dsCompressors' = {}, dsFails' = 0
               PROVE  /\ RequestsAt(dsFile'.turns, Asker', dsOpen', dsDead')
                      /\ \A q \in Chats : Busy(q)' => RequestsAt(dsMem'[q].turns, Nobody, dsOpen', dsDead')
  BY <1>1
<1>3. dsCompressors = {} /\ dsFails = 0
  <2>1. dsCompressors \subseteq dsCompressors'
    BY <1>0, ArchiveFacts, KillFacts, WriteFailsFacts, WriteFileFacts
       DEF Step, Session!Open, Session!AddTurn, Session!Choose, Session!Summarise, Session!SummaryFails, Session!Save, Session!past
  <2>2. QED
    BY <1>2, <2>1, LossStays
<1>4. /\ RequestsAt(dsFile.turns, Asker, dsOpen, dsDead)
      /\ \A q \in Chats : Busy(q) => RequestsAt(dsMem[q].turns, Nobody, dsOpen, dsDead)
  BY <1>1, <1>3
<1>5. /\ dsBack[p] = Session!Rest /\ Session!LocalCut(dsMem[p]) = 0
      /\ ~Busy(p) => Session!Adopted(dsMem[p]).turns = dsFile.turns
  BY <1>3, Uncompressed
<1>6. \A q \in Chats : q # p => dsMem'[q] = dsMem[q] /\ (Busy(q)' <=> Busy(q)) /\ dsOpen'[q] = dsOpen[q]
  BY Bystanders
<1>7. \A q \in Chats : q # p /\ Session!Holds(p) => ~Busy(q)
  BY <1>0, AtFacts
<1>8. Nobody \notin Chats
  BY SessionConstants
<1>9. \A q \in Chats : (Session!Holds(q) => Asker = q) /\ (dsLock = <<>> => Asker = Nobody /\ ~Busy(q))
  BY Tuples DEF Session!Holds, Asker, Busy, Session!At
<1>10. CASE Session!Open(p)
  <2>1. /\ dsFile' = dsFile /\ dsOpen' = dsOpen /\ dsDead' = dsDead /\ dsLock' = dsLock
        /\ (Busy(p)' <=> Busy(p))
    BY <1>0, <1>10, OpenFacts, OwnLock
  <2>2. Busy(p) => dsMem'[p] = dsMem[p]
    BY <1>10, OpenBusy
  <2>3. Asker' = Asker
    BY <2>1 DEF Asker
  <2>4. QED
    BY <1>4, <1>6, <2>1, <2>2, <2>3
<1>11. CASE Session!AddTurn(p)
  <2>1. dsFile' = dsFile /\ dsDead' = dsDead /\ dsLock = <<>> /\ dsLock' = <<p, "main">>
    BY <1>0, <1>11, AddFacts
  <2>2. Asker = Nobody /\ Asker' = p /\ \A q \in Chats : ~Busy(q)
    BY <1>9, <2>1, Tuples DEF Asker
  <2>3. /\ RequestsAt(dsFile.turns, p, dsOpen', dsDead)
        /\ RequestsAt(dsMem'[p].turns, Nobody, dsOpen', dsDead)
    BY <1>4, <1>5, <1>11, <2>2, RequestAdded
  <2>4. QED
    BY <1>6, <2>1, <2>2, <2>3
<1>12. ~Session!Choose(p)
  BY <1>0, <1>2, ChooseFacts
<1>13. ~Session!Summarise(p) /\ ~Session!SummaryFails(p) /\ ~Session!Save(p)
  BY <1>0, <1>5, SummariseFacts, NoSummaryFacts, SaveFacts, RestTypes
<1>14. CASE Session!ArchiveTurns(p)
  <2>1. dsFile' = dsFile /\ dsOpen' = dsOpen /\ dsDead' = dsDead /\ dsLock' = dsLock /\ Busy(p)
    BY <1>0, <1>14, ArchiveFacts, OwnLock
  <2>2. dsFails' = dsFails + 1 => dsFails' # 0
    BY LossStays
  <2>3. dsMem'[p] = Session!CutOff(dsMem[p], Session!LocalCut(dsMem[p]), TRUE)
    BY <1>0, <1>2, <1>14, <2>2, ArchiveFacts
  <2>4. dsMem'[p].turns = dsMem[p].turns
    <3>1. dsMem[p] \in Session!Session /\ Sound(dsMem[p])
      BY <1>0 DEF Session!TypeOK, SessionsSound
    <3>2. Session!LocalCut(dsMem[p]) = 0 => Session!CutOff(dsMem[p], Session!LocalCut(dsMem[p]), TRUE).turns = dsMem[p].turns
      BY <3>1, CutFacts
    <3>3. QED
      BY <1>5, <2>3, <3>2
  <2>5. Asker' = Asker
    BY <2>1 DEF Asker
  <2>6. QED
    BY <1>4, <1>6, <2>1, <2>4, <2>5
<1>15. CASE Session!WriteFile(p)
  <2>1. dsFile' = dsMem[p] /\ dsOpen' = dsOpen /\ dsDead' = dsDead /\ dsLock' = <<>> /\ Busy(p) /\ ~Busy(p)' /\ Session!Holds(p)
    BY <1>0, <1>15, WriteFileFacts, OwnLock
  <2>2. Asker' = Nobody
    BY <2>1 DEF Asker
  <2>3. QED
    BY <1>4, <1>6, <1>7, <2>1, <2>2
<1>16. ~Session!WriteFails(p)
  BY <1>0, <1>2, WriteFailsFacts, LossStays
<1>17. CASE Session!Kill(p)
  <2>1. /\ dsFile' = dsFile /\ dsDead' = dsDead \cup {p} /\ dsOpen'[p] = 0 /\ ~Busy(p)'
        /\ dsLock' = IF Session!Holds(p) THEN <<>> ELSE dsLock
    BY <1>0, <1>17, KillFacts, OwnLock
  <2>2. IF Session!Holds(p) THEN Asker = p /\ Asker' = Nobody ELSE Asker' = Asker
    BY <1>9, <2>1 DEF Asker
  <2>3. ASSUME NEW turns \in Seq(Session!Turn), NEW a, NEW b, RequestsAt(turns, a, dsOpen, dsDead),
               a = b \/ (a = p /\ b = Nobody)
        PROVE  RequestsAt(turns, b, dsOpen', dsDead')
    <3>1. \A k \in DOMAIN turns : /\ turns[k].owner \in Chats \cup {Nobody}
                                  /\ turns[k].id >= 1
      <4>1. \A k \in DOMAIN turns : turns[k] \in Session!Turn /\ turns[k].id \in Session!Ids
        BY <2>3, TurnTypes
      <4>2. \A i \in Session!Ids : i >= 1
        BY DEF Session!Ids
      <4>3. \A k \in DOMAIN turns : turns[k].owner \in Chats \cup {Nobody}
        BY <4>1 DEF Session!Turn
      <4>4. QED
        BY <4>1, <4>2, <4>3
    <3>2. 0 \notin Session!IdsOf(turns)
      BY <3>1 DEF Session!IdsOf
    <3>3. \A q \in Chats : dsOpen'[q] \in Session!IdsOf(turns) /\ q # b =>
            \E k \in DOMAIN turns : turns[k] = [id |-> dsOpen'[q], owner |-> q]
      BY <1>6, <2>1, <2>3, <3>2 DEF RequestsAt
    <3>4. \A k \in DOMAIN turns : turns[k].owner # Nobody =>
            turns[k].owner \in dsDead' \/ dsOpen'[turns[k].owner] = turns[k].id \/ turns[k].owner = b
      BY <1>6, <2>1, <2>3, <3>1 DEF RequestsAt
    <3>5. QED
      BY <3>3, <3>4 DEF RequestsAt
  <2>4. dsFile.turns \in Seq(Session!Turn) /\ \A q \in Chats : dsMem[q].turns \in Seq(Session!Turn)
    BY <1>0, SessionTypes DEF Session!TypeOK
  <2>5. RequestsAt(dsFile.turns, Asker', dsOpen', dsDead')
    BY <1>4, <2>2, <2>3, <2>4
  <2>6. QED
    BY <1>4, <1>6, <2>1, <2>3, <2>4, <2>5
<1>18. QED
  BY <1>10, <1>11, <1>12, <1>13, <1>14, <1>15, <1>16, <1>17 DEF Step

\* The file, read: its turns, indices and summary.
LEMMA DiskNames ==
  ASSUME dsFile \in Session!Session
  PROVE  /\ Disk \in Session!Session /\ Disk.turns = dsFile.turns
         /\ Disk.arch = dsFile.arch /\ Disk.upto = dsFile.upto
         /\ Disk.covers = IF dsFile = Session!NoFile THEN {} ELSE dsFile.covers
         /\ dsFile = Session!NoFile => dsFile.upto = 0 /\ dsFile.arch = 0
         /\ Disk.arch \in Nat /\ Disk.upto \in Nat
<1>1. /\ Disk \in Session!Session /\ Disk.turns = dsFile.turns
      /\ Disk.arch = dsFile.arch /\ Disk.upto = dsFile.upto
      /\ Disk.covers = IF dsFile = Session!NoFile THEN {} ELSE dsFile.covers
      /\ dsFile = Session!NoFile => dsFile.upto = 0 /\ dsFile.arch = 0
  BY EmptyTypes DEF Disk
<1>2. QED
  BY <1>1, SessionTypes

\* Of two sessions one of which continues the other.
LEMMA ExtendsFacts ==
  ASSUME NEW s \in Session!Session, NEW t \in Session!Session
  PROVE  /\ Extends(s, s)
         /\ Extends(s, t) => /\ Session!IdsOf(t.turns) \subseteq Session!IdsOf(s.turns)
                             /\ \A n \in Int : \A c : n <= Len(t.turns) /\ CoveredTo(t.turns, n, c) => CoveredTo(s.turns, n, c)
         /\ \A r \in Session!Session : Extends(s, t) /\ Extends(t, r) => Extends(s, r)
<1>1. /\ s.turns \in Seq(Session!Turn) /\ t.turns \in Seq(Session!Turn)
      /\ Len(s.turns) \in Nat /\ Len(t.turns) \in Nat
      /\ DOMAIN s.turns = 1 .. Len(s.turns) /\ DOMAIN t.turns = 1 .. Len(t.turns)
  BY SessionTypes
<1>2. Extends(s, s)
  BY <1>1 DEF Extends
<1>3. ASSUME Extends(s, t)
      PROVE  \A k \in DOMAIN t.turns : k \in DOMAIN s.turns /\ s.turns[k].id = t.turns[k].id
  BY <1>1, <1>3 DEF Extends
<1>4. ASSUME Extends(s, t) PROVE Session!IdsOf(t.turns) \subseteq Session!IdsOf(s.turns)
  BY <1>3, <1>4 DEF Session!IdsOf
<1>5. ASSUME Extends(s, t), NEW n \in Int, NEW c, n <= Len(t.turns), CoveredTo(t.turns, n, c),
             NEW k \in DOMAIN s.turns, k <= n
      PROVE  s.turns[k].id \in c
  <2>1. k \in DOMAIN t.turns
    BY <1>1, <1>5
  <2>2. QED
    BY <1>3, <1>5, <2>1 DEF CoveredTo
<1>6. ASSUME NEW r \in Session!Session, Extends(s, t), Extends(t, r) PROVE Extends(s, r)
  <2>1. Len(r.turns) \in Nat /\ DOMAIN r.turns = 1 .. Len(r.turns)
    BY SessionTypes
  <2>2. Len(r.turns) <= Len(t.turns) /\ Len(t.turns) <= Len(s.turns)
    BY <1>6 DEF Extends
  <2>3. \A k \in DOMAIN r.turns : k \in DOMAIN t.turns /\ t.turns[k].id = r.turns[k].id
    BY <1>1, <1>6, <2>1 DEF Extends
  <2>4. QED
    BY <1>1, <1>3, <1>6, <2>1, <2>2, <2>3 DEF Extends
<1>7. QED
  BY <1>2, <1>4, <1>5, <1>6 DEF CoveredTo

\* What a merge of s makes of the pointers and the summary.
MergeOf(m, s) ==
  /\ m.arch = IF dsFile.arch >= s.arch THEN dsFile.arch ELSE s.arch
  /\ m.upto = IF dsFile.upto > s.upto THEN dsFile.upto ELSE s.upto
  /\ m.covers = IF dsFile # Session!NoFile /\ dsFile.upto > s.upto /\ dsFile.covers # {} THEN dsFile.covers ELSE s.covers

\* What a process makes of file and memory has the summary that goes further.
LEMMA MergedSummary ==
  ASSUME dsFile \in Session!Session, NEW s \in Session!Session, NEW m \in Session!Session,
         MergeOf(m, s), s.arch <= dsFile.arch
  PROVE  /\ m.arch = Disk.arch
         /\ Follows(s, Disk) => m.upto = Disk.upto /\ m.covers = Disk.covers
         /\ Follows(Disk, s) => m.upto = s.upto /\ m.covers = s.covers
<1>1. /\ s.arch \in Nat /\ s.upto \in Nat /\ dsFile.arch \in Nat /\ dsFile.upto \in Nat
      /\ m.arch \in Nat /\ m.upto \in Nat
  BY SessionTypes
<1>2. /\ Disk.arch = dsFile.arch /\ Disk.upto = dsFile.upto
      /\ Disk.covers = IF dsFile = Session!NoFile THEN {} ELSE dsFile.covers
      /\ dsFile = Session!NoFile => dsFile.upto = 0
  BY DiskNames
<1>3. m.arch = Disk.arch
  BY <1>1, <1>2 DEF MergeOf
<1>4. ASSUME Follows(s, Disk) PROVE m.upto = Disk.upto /\ m.covers = Disk.covers
  <2>1. /\ s.upto <= dsFile.upto /\ s.covers \subseteq Disk.covers
        /\ (s.upto = dsFile.upto => s.covers = Disk.covers)
    BY <1>2, <1>4 DEF Follows
  <2>2. CASE s.upto = dsFile.upto
    BY <1>1, <1>2, <2>1, <2>2 DEF MergeOf
  <2>3. CASE dsFile.upto > s.upto
    <3>1. dsFile # Session!NoFile /\ Disk.covers = dsFile.covers
      BY <1>1, <1>2, <2>3
    <3>2. m.upto = dsFile.upto /\ m.covers = IF dsFile.covers # {} THEN dsFile.covers ELSE s.covers
      BY <2>3, <3>1 DEF MergeOf
    <3>3. QED
      BY <1>2, <2>1, <3>1, <3>2
  <2>4. QED
    BY <1>1, <2>1, <2>2, <2>3
<1>5. ASSUME Follows(Disk, s) PROVE m.upto = s.upto /\ m.covers = s.covers
  <2>1. dsFile.upto <= s.upto
    BY <1>2, <1>5 DEF Follows
  <2>2. ~(dsFile.upto > s.upto)
    BY <1>1, <2>1
  <2>3. QED
    BY <2>2 DEF MergeOf
<1>6. QED
  BY <1>3, <1>4, <1>5

\* What the turns and the summaries are, when one compresses and no write fails.
Compressing == Session!OneCompresses' /\ dsFails' = 0

\* What is said of summaries, after a step.
LEMMA SummaryNames ==
  /\ SummariesFollow' <=>
       (Compressing =>
          /\ Summed(dsFile', Disk', dsSaved', dsCompressors')
          /\ \A q \in Chats : Fit(dsMem'[q], dsSaved', Busy(q)', Session!At(q, "write")')
          /\ \A q \in Chats : q \notin dsCompressors' =>
               Follower(dsMem'[q], dsFile', Disk', dsBack'[q], Busy(q)', Session!At(q, "write")')
          /\ \A q \in dsCompressors' : dsMem'[q] = Session!NoFile => q \in dsDead'
          /\ \A q \in Chats : dsCompressors' \subseteq {q} /\ dsMem'[q] # Session!NoFile =>
               Leader(dsMem'[q], dsFile', Disk', dsBack'[q], Session!Holds(q)'))
  /\ SummariesFollow <=>
       (Session!OneCompresses /\ dsFails = 0 =>
          /\ Summed(dsFile, Disk, dsSaved, dsCompressors)
          /\ \A q \in Chats : Fit(dsMem[q], dsSaved, Busy(q), Session!At(q, "write"))
          /\ \A q \in Chats : q \notin dsCompressors =>
               Follower(dsMem[q], dsFile, Disk, dsBack[q], Busy(q), Session!At(q, "write"))
          /\ \A q \in dsCompressors : dsMem[q] = Session!NoFile => q \in dsDead
          /\ \A q \in Chats : dsCompressors \subseteq {q} /\ dsMem[q] # Session!NoFile =>
               Leader(dsMem[q], dsFile, Disk, dsBack[q], Session!Holds(q)))
<1>1. SummariesFollow' <=>
       (Compressing =>
          /\ Summed(dsFile', Disk', dsSaved', dsCompressors')
          /\ \A q \in Chats : Fit(dsMem'[q], dsSaved', Busy(q)', Session!At(q, "write")')
          /\ \A q \in Chats : q \notin dsCompressors' =>
               Follower(dsMem'[q], dsFile', Disk', dsBack'[q], Busy(q)', Session!At(q, "write")')
          /\ \A q \in dsCompressors' : dsMem'[q] = Session!NoFile => q \in dsDead'
          /\ \A q \in Chats : dsCompressors' \subseteq {q} /\ dsMem'[q] # Session!NoFile =>
               Leader(dsMem'[q], dsFile', Disk', dsBack'[q], Session!Holds(q)'))
  BY DEF SummariesFollow, Summed, Fit, Follower, Leader, Covered, CoveredTo, Session!IdsOf, Flat,
     Follows,
         Extends, Compressing
<1>2. SummariesFollow <=>
       (Session!OneCompresses /\ dsFails = 0 =>
          /\ Summed(dsFile, Disk, dsSaved, dsCompressors)
          /\ \A q \in Chats : Fit(dsMem[q], dsSaved, Busy(q), Session!At(q, "write"))
          /\ \A q \in Chats : q \notin dsCompressors =>
               Follower(dsMem[q], dsFile, Disk, dsBack[q], Busy(q), Session!At(q, "write"))
          /\ \A q \in dsCompressors : dsMem[q] = Session!NoFile => q \in dsDead
          /\ \A q \in Chats : dsCompressors \subseteq {q} /\ dsMem[q] # Session!NoFile =>
               Leader(dsMem[q], dsFile, Disk, dsBack[q], Session!Holds(q)))
  BY DEF SummariesFollow
<1>3. QED
  BY <1>1, <1>2

\* What holds for the process of a step, from all that is known.
Regime(p) ==
  /\ Session!OneCompresses /\ dsFails = 0 /\ dsFails' = dsFails
  /\ Summed(dsFile, Disk, dsSaved, dsCompressors)
  /\ Fit(dsMem[p], dsSaved, Busy(p), Session!At(p, "write"))
  /\ p \notin dsCompressors => Follower(dsMem[p], dsFile, Disk, dsBack[p], Busy(p), Session!At(p, "write"))
  /\ p \in dsCompressors => dsCompressors \subseteq {p} /\ (dsMem[p] = Session!NoFile => p \in dsDead)
  /\ dsCompressors \subseteq {p} /\ dsMem[p] # Session!NoFile => Leader(dsMem[p], dsFile, Disk, dsBack[p], Session!Holds(p))
  /\ ~Session!At(p, "write") => dsMem[p].arch <= dsFile.arch
  /\ Session!At(p, "write") => dsMem[p].arch >= dsFile.arch
  /\ Session!At(p, "archive") => dsMem[p].arch = dsFile.arch /\ Extends(dsMem[p], dsFile)
  /\ ~Busy(p) => Session!IdsOf(dsMem[p].turns) \subseteq dsSaved
  /\ dsFile \in Session!Session /\ dsMem[p] \in Session!Session /\ dsMem'[p] \in Session!Session

\* It does before each step while summaries are kept.
LEMMA SummaryBefore ==
  ASSUME Base, Base', AllSaved, DiskIsAhead, SummariesFollow, Compressing, NEW p \in Chats,
         Step(p)
  PROVE  /\ Regime(p) /\ dsDead \subseteq dsDead' /\ dsCompressors \subseteq dsCompressors'
<1>0. /\ Session!TypeOK /\ Session!IndicesGrow /\ SessionsSound /\ LockFollows /\ Control'
      /\ Session!TypeOK'
  BY DEF Base, Control
<1>1. dsCompressors \subseteq dsCompressors' /\ dsDead \subseteq dsDead'
  BY <1>0, ArchiveFacts, KillFacts, WriteFailsFacts, WriteFileFacts
     DEF Step, Session!Open, Session!AddTurn, Session!Choose, Session!Summarise, Session!SummaryFails, Session!Save, Session!past, Session!idle
<1>2. dsFails' = 0 /\ dsFails = 0
  BY LossStays DEF Compressing
<1>3. \A q, r \in dsCompressors' : q = r
  BY DEF Compressing, Session!OneCompresses
<1>4. Session!OneCompresses
  BY <1>1, <1>3 DEF Session!OneCompresses
<1>5. NoWriteLost
  BY <1>2 DEF NoWriteLost
<1>6. /\ Summed(dsFile, Disk, dsSaved, dsCompressors)
      /\ Fit(dsMem[p], dsSaved, Busy(p), Session!At(p, "write"))
      /\ p \notin dsCompressors => Follower(dsMem[p], dsFile, Disk, dsBack[p], Busy(p), Session!At(p, "write"))
      /\ p \in dsCompressors => (dsMem[p] = Session!NoFile => p \in dsDead)
      /\ dsCompressors \subseteq {p} /\ dsMem[p] # Session!NoFile => Leader(dsMem[p], dsFile, Disk, dsBack[p], Session!Holds(p))
  BY <1>2, <1>4, SummaryNames
<1>7. p \in dsCompressors => dsCompressors \subseteq {p}
  BY <1>4 DEF Session!OneCompresses
<1>8. /\ ~Session!At(p, "write") => dsMem[p].arch <= dsFile.arch
      /\ Session!At(p, "write") => dsMem[p].arch >= dsFile.arch
      /\ Session!At(p, "archive") => dsMem[p].arch = dsFile.arch /\ Extends(dsMem[p], dsFile)
  BY <1>5 DEF DiskIsAhead
<1>9. ~Busy(p) => Session!IdsOf(dsMem[p].turns) \subseteq dsSaved
  BY <1>2 DEF AllSaved
<1>10. dsFile \in Session!Session /\ dsMem[p] \in Session!Session /\ dsMem'[p] \in Session!Session
  BY <1>0 DEF Session!TypeOK
<1>11. Regime(p)
  BY <1>2, <1>4, <1>6, <1>7, <1>8, <1>9, <1>10 DEF Regime
<1>12. QED
  BY <1>1, <1>11

\* A step that leaves the file and the compressors alone concerns one process.
LEMMA Elsewhere ==
  ASSUME Base, Base', AllSaved, DiskIsAhead, SummariesFollow, Compressing, NEW p \in Chats,
         Step(p),
         dsFile' = dsFile, dsSaved' = dsSaved, dsCompressors' = dsCompressors,
         Fit(dsMem'[p], dsSaved, Busy(p)', Session!At(p, "write")'),
         p \notin dsCompressors => Follower(dsMem'[p], dsFile, Disk, dsBack'[p], Busy(p)', Session!At(p, "write")'),
         p \in dsCompressors => (dsMem'[p] = Session!NoFile => p \in dsDead'),
         dsCompressors \subseteq {p} /\ dsMem'[p] # Session!NoFile => Leader(dsMem'[p], dsFile, Disk, dsBack'[p], Session!Holds(p)')
  PROVE  SummariesFollow'
<1>1. Session!OneCompresses /\ dsFails = 0 /\ dsDead \subseteq dsDead'
  BY SummaryBefore DEF Regime
<1>2. /\ Summed(dsFile, Disk, dsSaved, dsCompressors)
      /\ \A q \in Chats : Fit(dsMem[q], dsSaved, Busy(q), Session!At(q, "write"))
      /\ \A q \in Chats : q \notin dsCompressors =>
           Follower(dsMem[q], dsFile, Disk, dsBack[q], Busy(q), Session!At(q, "write"))
      /\ \A q \in dsCompressors : dsMem[q] = Session!NoFile => q \in dsDead
      /\ \A q \in Chats : dsCompressors \subseteq {q} /\ dsMem[q] # Session!NoFile =>
           Leader(dsMem[q], dsFile, Disk, dsBack[q], Session!Holds(q))
  BY <1>1, SummaryNames
<1>3. Disk' = Disk
  BY DEF Disk
<1>4. dsCompressors \subseteq Chats
  BY DEF Base, Session!TypeOK
<1>5. \A q \in Chats : q # p =>
           /\ dsMem'[q] = dsMem[q] /\ dsBack'[q] = dsBack[q]
           /\ Session!Holds(q)' <=> Session!Holds(q)
           /\ Busy(q)' <=> Busy(q)
           /\ Session!At(q, "write")' <=> Session!At(q, "write")
  BY Bystanders
<1>6. ASSUME NEW q \in Chats, q # p
      PROVE  /\ Fit(dsMem'[q], dsSaved, Busy(q)', Session!At(q, "write")')
             /\ q \notin dsCompressors => Follower(dsMem'[q], dsFile, Disk, dsBack'[q], Busy(q)', Session!At(q, "write")')
             /\ q \in dsCompressors => (dsMem'[q] = Session!NoFile => q \in dsDead')
             /\ dsCompressors \subseteq {q} /\ dsMem'[q] # Session!NoFile => Leader(dsMem'[q], dsFile, Disk, dsBack'[q], Session!Holds(q)')
  <2>1. /\ Fit(dsMem[q], dsSaved, Busy(q), Session!At(q, "write"))
        /\ q \notin dsCompressors => Follower(dsMem[q], dsFile, Disk, dsBack[q], Busy(q), Session!At(q, "write"))
        /\ q \in dsCompressors => (dsMem[q] = Session!NoFile => q \in dsDead)
        /\ dsCompressors \subseteq {q} /\ dsMem[q] # Session!NoFile => Leader(dsMem[q], dsFile, Disk, dsBack[q], Session!Holds(q))
    BY <1>2
  <2>2. /\ dsMem'[q] = dsMem[q] /\ dsBack'[q] = dsBack[q]
        /\ Session!Holds(q)' <=> Session!Holds(q)
        /\ Busy(q)' <=> Busy(q)
        /\ Session!At(q, "write")' <=> Session!At(q, "write")
    BY <1>5, <1>6
  <2>3. Fit(dsMem'[q], dsSaved, Busy(q)', Session!At(q, "write")')
    BY <2>1, <2>2 DEF Fit
  <2>4. q \notin dsCompressors => Follower(dsMem'[q], dsFile, Disk, dsBack'[q], Busy(q)', Session!At(q, "write")')
    BY <2>1, <2>2 DEF Follower
  <2>5. dsCompressors \subseteq {q} /\ dsMem'[q] # Session!NoFile => Leader(dsMem'[q], dsFile, Disk, dsBack'[q], Session!Holds(q)')
    BY <2>1, <2>2 DEF Leader
  <2>6. QED
    BY <1>1, <2>1, <2>2, <2>3, <2>4, <2>5
<1>7. \A q \in Chats :
             /\ Fit(dsMem'[q], dsSaved, Busy(q)', Session!At(q, "write")')
             /\ q \notin dsCompressors => Follower(dsMem'[q], dsFile, Disk, dsBack'[q], Busy(q)', Session!At(q, "write")')
             /\ q \in dsCompressors => (dsMem'[q] = Session!NoFile => q \in dsDead')
             /\ dsCompressors \subseteq {q} /\ dsMem'[q] # Session!NoFile => Leader(dsMem'[q], dsFile, Disk, dsBack'[q], Session!Holds(q)')
  BY <1>6
<1>8. QED
  BY <1>2, <1>3, <1>4, <1>7, SummaryNames

\* What a step that writes no file owes to the summaries.
Owes(p) ==
  /\ Fit(dsMem'[p], dsSaved, Busy(p)', Session!At(p, "write")')
  /\ p \notin dsCompressors => Follower(dsMem'[p], dsFile, Disk, dsBack'[p], Busy(p)', Session!At(p, "write")')
  /\ p \in dsCompressors => (dsMem'[p] = Session!NoFile => p \in dsDead')
  /\ dsCompressors \subseteq {p} /\ dsMem'[p] # Session!NoFile => Leader(dsMem'[p], dsFile, Disk, dsBack'[p], Session!Holds(p)')

\* Where the pointers of a process are within its turns and those of the file.
LEMMA Reach ==
  ASSUME Base, NEW p \in Chats
  PROVE  /\ dsMem[p] \in Session!Session /\ Sound(dsMem[p]) /\ dsFile \in Session!Session
         /\ Sound(dsFile)
         /\ dsMem[p].arch \in Nat /\ dsMem[p].upto \in Nat /\ dsBack[p].cut \in Nat
         /\ dsMem[p].upto - dsMem[p].arch <= Len(dsMem[p].turns)
         /\ dsMem[p].upto - dsMem[p].arch \in Int
         /\ Disk.upto - Disk.arch <= Len(dsFile.turns) /\ Disk.upto - Disk.arch \in Int
         /\ dsBack[p].at = "summarise" =>
              dsBack[p].cut - dsMem[p].arch <= Len(dsMem[p].turns) /\ dsBack[p].cut - dsMem[p].arch \in Int
         /\ Disk.arch \in Nat /\ Disk.upto \in Nat
         /\ dsLock = <<>> => dsBack[p].at \notin Writing /\ ~Busy(p) /\ ~Session!Holds(p) /\ ~Session!At(p, "write") /\ ~Session!At(p, "archive")
<1>0. Session!TypeOK /\ SessionsSound /\ LockFollows
  BY DEF Base, Control
<1>1. /\ dsMem[p] \in Session!Session /\ Sound(dsMem[p]) /\ dsFile \in Session!Session
      /\ Sound(dsFile)
      /\ dsBack[p].at = "summarise" => dsBack[p].cut <= End(dsMem[p])
  BY <1>0 DEF Session!TypeOK, SessionsSound
<1>2. dsBack[p].cut \in Nat
  BY <1>0, SessionConstants DEF Session!TypeOK, Session!Work
<1>3. /\ dsMem[p].arch \in Nat /\ dsMem[p].upto \in Nat /\ Len(dsMem[p].turns) \in Nat
      /\ dsFile.arch \in Nat /\ dsFile.upto \in Nat /\ Len(dsFile.turns) \in Nat
  BY <1>1, SessionTypes
<1>4. /\ dsMem[p].upto <= dsMem[p].arch + Len(dsMem[p].turns)
      /\ dsFile.upto <= dsFile.arch + Len(dsFile.turns)
      /\ dsBack[p].at = "summarise" => dsBack[p].cut <= dsMem[p].arch + Len(dsMem[p].turns)
  BY <1>1 DEF Sound, End
<1>5. Disk.arch = dsFile.arch /\ Disk.upto = dsFile.upto
  BY <1>1, DiskNames
<1>6. dsLock = <<>> => dsBack[p].at \notin Writing /\ ~Busy(p) /\ ~Session!Holds(p) /\ ~Session!At(p, "write") /\ ~Session!At(p, "archive")
  BY <1>0, LockNames, Tuples DEF Busy, Session!At, Session!Holds
<1>7. \A a, b, c \in Nat : a <= b + c => a - b <= c /\ a - b \in Int
  OBVIOUS
<1>8. /\ dsMem[p].upto - dsMem[p].arch <= Len(dsMem[p].turns)
      /\ dsMem[p].upto - dsMem[p].arch \in Int
      /\ Disk.upto - Disk.arch <= Len(dsFile.turns) /\ Disk.upto - Disk.arch \in Int
  BY <1>3, <1>4, <1>5, <1>7
<1>9. dsBack[p].at = "summarise" =>
        dsBack[p].cut - dsMem[p].arch <= Len(dsMem[p].turns) /\ dsBack[p].cut - dsMem[p].arch \in Int
  BY <1>2, <1>3, <1>4, <1>7
<1>10. QED
  BY <1>1, <1>2, <1>3, <1>5, <1>6, <1>8, <1>9

\* What a merge under the lock gives, before it is written.
LEMMA MergedOwes ==
  ASSUME Base, NEW p \in Chats, Regime(p), dsLock = <<>>, dsMem[p] # Session!NoFile,
         NEW m \in Session!Session, MergeOf(m, dsMem[p]), m # Session!NoFile
  PROVE  /\ m.arch <= m.upto
         /\ p \notin dsCompressors => m.upto = Disk.upto /\ m.covers = Disk.covers /\ Follows(m, Disk)
         /\ dsCompressors \subseteq {p} => m.upto = dsMem[p].upto /\ m.covers = dsMem[p].covers /\ Follows(Disk, m)
         /\ Extends(m, dsFile) => Covered(m)
         /\ dsCompressors \subseteq {p} /\ Extends(m, dsFile) /\ dsBack[p].at = "summarise" =>
              /\ m.upto < dsBack[p].cut /\ m.covers \subseteq dsBack[p].covers
              /\ CoveredTo(m.turns, dsBack[p].cut - m.arch, dsBack[p].covers)
         /\ dsCompressors \subseteq {p} /\ dsBack[p].at \in {"rest", "summarise"} =>
              Flat(m, Disk) /\ m.arch = m.upto
         /\ dsCompressors \subseteq {p} /\ dsBack[p].at = "save" /\ (Extends(dsFile, dsMem[p]) => m.turns = dsFile.turns) =>
              \/ Flat(m, Disk)
              \/ /\ m.arch = Disk.arch /\ Extends(dsFile, m) /\ Covered(m)
                 /\ Disk.upto \in {Disk.arch, m.upto}
<1> DEFINE s == dsMem[p]
           w == dsBack[p]
           D == Disk
<1>1. /\ s \in Session!Session /\ dsFile \in Session!Session /\ s.arch \in Nat /\ s.upto \in Nat
      /\ w.cut \in Nat
      /\ s.upto - s.arch <= Len(s.turns) /\ s.upto - s.arch \in Int
      /\ D.upto - D.arch <= Len(dsFile.turns) /\ D.upto - D.arch \in Int
      /\ w.at = "summarise" => w.cut - s.arch <= Len(s.turns) /\ w.cut - s.arch \in Int
      /\ D.arch \in Nat /\ D.upto \in Nat
      /\ ~Busy(p) /\ ~Session!Holds(p) /\ ~Session!At(p, "write") /\ ~Session!At(p, "archive")
  BY Reach
<1>2. /\ Summed(dsFile, D, dsSaved, dsCompressors)
      /\ p \notin dsCompressors => Follower(s, dsFile, D, w, FALSE, FALSE)
      /\ dsCompressors \subseteq {p} => Leader(s, dsFile, D, w, FALSE)
      /\ p \in dsCompressors => dsCompressors \subseteq {p}
      /\ s.arch <= dsFile.arch
  <2>1. /\ Summed(dsFile, D, dsSaved, dsCompressors)
        /\ p \notin dsCompressors => Follower(s, dsFile, D, w, Busy(p), Session!At(p, "write"))
        /\ dsCompressors \subseteq {p} => Leader(s, dsFile, D, w, Session!Holds(p))
        /\ p \in dsCompressors => dsCompressors \subseteq {p}
        /\ s.arch <= dsFile.arch
    BY <1>1 DEF Regime
  <2>2. p \notin dsCompressors => Follower(s, dsFile, D, w, FALSE, FALSE)
    BY <1>1, <2>1 DEF Follower
  <2>3. dsCompressors \subseteq {p} => Leader(s, dsFile, D, w, FALSE)
    BY <1>1, <2>1 DEF Leader
  <2>4. QED
    BY <2>1, <2>2, <2>3
<1>3. /\ m.arch = D.arch
      /\ Follows(s, D) => m.upto = D.upto /\ m.covers = D.covers
      /\ Follows(D, s) => m.upto = s.upto /\ m.covers = s.covers
  BY <1>1, <1>2, MergedSummary
<1>4. m.arch \in Nat /\ m.upto \in Nat /\ Covered(dsFile) /\ D.arch <= D.upto
      /\ (dsFile = Session!NoFile \/ D.covers = dsFile.covers)
      /\ (dsFile = Session!NoFile => D.upto = 0 /\ D.arch = 0)
      /\ D.upto = dsFile.upto /\ D.arch = dsFile.arch
  BY <1>1, <1>2, SessionTypes, DiskNames DEF Summed
<1> HIDE DEF s, w, D
<1>5. ASSUME p \notin dsCompressors
      PROVE  m.upto = D.upto /\ m.covers = D.covers /\ Follows(m, D) /\ m.arch <= m.upto
  <2>1. Follows(s, D)
    BY <1>2, <1>5 DEF Follower, s
  <2>2. QED
    BY <1>3, <1>4, <2>1 DEF Follows
<1>6. ASSUME dsCompressors \subseteq {p}
      PROVE  /\ m.upto = s.upto /\ m.covers = s.covers /\ Follows(D, m) /\ m.arch <= m.upto
             /\ Leader(s, dsFile, D, w, FALSE)
  <2>1. Leader(s, dsFile, D, w, FALSE)
    BY <1>2, <1>6
  <2>2. Follows(D, s)
    BY <2>1 DEF Leader
  <2>3. m.upto = s.upto /\ m.covers = s.covers
    BY <1>3, <2>2
  <2>4. Follows(D, m)
    BY <2>2, <2>3 DEF Follows
  <2>5. D.upto <= s.upto
    BY <2>2 DEF Follows
  <2>6. m.arch <= m.upto
    BY <1>1, <1>3, <1>4, <2>3, <2>5
  <2>7. QED
    BY <2>1, <2>3, <2>4, <2>6
<1>7. ASSUME dsCompressors \subseteq {p}, w.at \in {"rest", "summarise"}
      PROVE  /\ Flat(m, D) /\ m.arch = m.upto /\ s.arch = m.arch /\ Flat(s, D)
             /\ Extends(dsFile, s)
  BY <1>3, <1>6, <1>7 DEF Leader, Flat
<1>8. ASSUME Extends(m, dsFile) PROVE Covered(m)
  <2>1. CASE m.upto = m.arch
    <3>1. \A k \in DOMAIN m.turns : ~(k <= m.upto - m.arch)
      <4>1. \A k \in DOMAIN m.turns : k \in Nat /\ k >= 1
        BY SessionTypes, TurnTypes
      <4>2. m.upto - m.arch = 0
        BY <1>4, <2>1
      <4>3. QED
        BY <4>1, <4>2
    <3>2. QED
      BY <3>1 DEF Covered, CoveredTo
  <2>2. CASE m.upto # m.arch /\ p \notin dsCompressors
    <3>1. m.upto = D.upto /\ m.covers = D.covers /\ m.arch = D.arch
      BY <1>3, <1>5, <2>2
    <3>2. dsFile # Session!NoFile
      BY <1>4, <2>2, <3>1
    <3>3. CoveredTo(dsFile.turns, D.upto - D.arch, D.covers)
      BY <1>4, <3>2 DEF Covered
    <3>4. CoveredTo(m.turns, D.upto - D.arch, D.covers)
      BY <1>1, <1>8, <3>3, ExtendsFacts
    <3>5. QED
      BY <3>1, <3>4 DEF Covered
  <2>3. CASE m.upto # m.arch /\ p \in dsCompressors
    <3>1. dsCompressors \subseteq {p}
      BY <1>2, <2>3
    <3>2. m.upto = s.upto /\ m.covers = s.covers /\ Leader(s, dsFile, D, w, FALSE)
      BY <1>6, <3>1
    <3>3. w.at \notin {"rest", "summarise"}
      BY <1>7, <2>3, <3>1
    <3>4. w.at \notin {"archive", "write"}
      BY Reach DEF Writing, w
    <3>5. w.at = "save"
      BY <3>3, <3>4 DEF Base, Session!TypeOK, Session!Work, w
    <3>6. ~Flat(s, D)
      BY <1>3, <2>3, <3>2 DEF Flat
    <3>7. s.arch = D.arch /\ Extends(dsFile, s) /\ Covered(s)
      BY <3>2, <3>5, <3>6 DEF Leader
    <3>8. CoveredTo(s.turns, s.upto - s.arch, s.covers)
      BY <3>7 DEF Covered
    <3>9. Extends(m, s)
      BY <1>1, <1>8, <3>7, ExtendsFacts
    <3>10. CoveredTo(m.turns, s.upto - s.arch, s.covers)
      BY <1>1, <3>8, <3>9, ExtendsFacts
    <3>11. QED
      BY <1>3, <3>2, <3>7, <3>10 DEF Covered
  <2>4. QED
    BY <2>1, <2>2, <2>3
<1>9. ASSUME dsCompressors \subseteq {p}, Extends(m, dsFile), w.at = "summarise"
      PROVE  /\ m.upto < w.cut /\ m.covers \subseteq w.covers
             /\ CoveredTo(m.turns, w.cut - m.arch, w.covers)
  <2>1. /\ m.upto = s.upto /\ m.covers = s.covers /\ s.arch = m.arch
        /\ Extends(dsFile, s)
    BY <1>6, <1>7, <1>9
  <2>2. /\ s.upto < w.cut /\ s.covers \subseteq w.covers
        /\ CoveredTo(s.turns, w.cut - s.arch, w.covers)
    BY <1>6, <1>9 DEF Leader
  <2>3. Extends(m, s)
    BY <1>1, <1>9, <2>1, ExtendsFacts
  <2>4. w.cut - s.arch <= Len(s.turns) /\ w.cut - s.arch \in Int
    BY <1>1, <1>9
  <2>5. CoveredTo(m.turns, w.cut - s.arch, w.covers)
    BY <1>1, <2>2, <2>3, <2>4, ExtendsFacts
  <2>6. QED
    BY <2>1, <2>2, <2>5
<1>10. ASSUME dsCompressors \subseteq {p}, Extends(dsFile, s) => m.turns = dsFile.turns, w.at = "save"
       PROVE  \/ Flat(m, D)
              \/ /\ m.arch = D.arch /\ Extends(dsFile, m) /\ Covered(m)
                 /\ D.upto \in {D.arch, m.upto}
  <2>1. m.upto = s.upto /\ Leader(s, dsFile, D, w, FALSE)
    BY <1>6, <1>10
  <2>2. Flat(s, D) \/ (Extends(dsFile, s) /\ D.upto \in {D.arch, s.upto})
    BY <1>10, <2>1 DEF Leader
  <2>3. CASE Flat(s, D)
    BY <2>1, <2>3 DEF Flat
  <2>4. CASE Extends(dsFile, s) /\ D.upto \in {D.arch, s.upto}
    <3>1. m.turns = dsFile.turns
      BY <1>10, <2>4
    <3>2. Extends(dsFile, dsFile)
      BY <1>1, ExtendsFacts
    <3>3. Extends(m, dsFile) /\ Extends(dsFile, m)
      BY <3>1, <3>2 DEF Extends
    <3>4. QED
      BY <1>3, <1>8, <2>1, <2>4, <3>3
  <2>5. QED
    BY <2>2, <2>3, <2>4
<1>11. QED
  BY <1>2, <1>5, <1>6, <1>7, <1>8, <1>9, <1>10 DEF s, w, D

\* A session that nothing is kept from is not an empty place.
LEMMA OpenOwes ==
  ASSUME Base, Base', Opened', NEW p \in Chats, Regime(p), Session!Open(p)
  PROVE  Owes(p)
<1>0. /\ Session!TypeOK /\ Session!IndicesGrow /\ SessionsSound /\ LockFollows /\ Control'
      /\ Session!TypeOK'
  BY DEF Base, Control
<1>1. /\ dsBack' = dsBack /\ p \notin dsDead /\ dsLock' = dsLock
      /\ Busy(p)' <=> Busy(p)
      /\ Session!Holds(p)' <=> Session!Holds(p)
      /\ Session!At(p, "write")' <=> Session!At(p, "write")
  BY <1>0, OpenFacts, OwnLock, OwnPlace
<1>2. /\ Summed(dsFile, Disk, dsSaved, dsCompressors)
      /\ Fit(dsMem[p], dsSaved, Busy(p), Session!At(p, "write"))
      /\ p \notin dsCompressors => Follower(dsMem[p], dsFile, Disk, dsBack[p], Busy(p), Session!At(p, "write"))
      /\ p \in dsCompressors => dsCompressors \subseteq {p} /\ (dsMem[p] = Session!NoFile => p \in dsDead)
      /\ dsCompressors \subseteq {p} /\ dsMem[p] # Session!NoFile => Leader(dsMem[p], dsFile, Disk, dsBack[p], Session!Holds(p))
  BY DEF Regime
<1>3. dsMem'[p] # Session!NoFile
  <2>1. dsMain'[p] = "add"
    BY <1>0, OpenFacts
  <2>2. QED
    BY <2>1 DEF Opened
<1>4. CASE dsMem'[p] = dsMem[p]
  <2>1. Fit(dsMem'[p], dsSaved, Busy(p)', Session!At(p, "write")')
    BY <1>1, <1>2, <1>4 DEF Fit
  <2>2. p \notin dsCompressors => Follower(dsMem'[p], dsFile, Disk, dsBack'[p], Busy(p)', Session!At(p, "write")')
    BY <1>1, <1>2, <1>4 DEF Follower
  <2>3. dsCompressors \subseteq {p} /\ dsMem'[p] # Session!NoFile => Leader(dsMem'[p], dsFile, Disk, dsBack'[p], Session!Holds(p)')
    BY <1>1, <1>2, <1>4 DEF Leader
  <2>4. QED
    BY <1>3, <2>1, <2>2, <2>3 DEF Owes
<1>5. CASE dsMem[p] = Session!NoFile /\ dsMem'[p] = Disk
  <2>1. ~Busy(p) /\ ~Session!Holds(p) /\ ~Session!At(p, "write") /\ dsBack[p] = Session!Rest
    <3>1. ~Busy(p) /\ dsBack[p] = Session!Rest
      BY <1>5, SessionFound
    <3>2. QED
      BY <3>1, OwnLock DEF Busy, Base
  <2>2. p \notin dsCompressors /\ (dsCompressors \subseteq {p} => dsCompressors = {})
    BY <1>1, <1>2, <1>5
  <2>3. Disk.arch <= Disk.upto /\ (dsCompressors = {} => Disk.upto = 0)
    BY <1>2 DEF Summed
  <2>4. Fit(Disk, dsSaved, FALSE, FALSE)
    BY <2>3 DEF Fit
  <2>5. Follows(Disk, Disk)
    BY Reach DEF Follows
  <2>6. Follower(Disk, dsFile, Disk, Session!Rest, FALSE, FALSE)
    BY <2>5 DEF Follower
  <2>7. ASSUME dsCompressors = {} PROVE Leader(Disk, dsFile, Disk, Session!Rest, FALSE)
    <3>1. Disk.upto = 0 /\ Disk.arch = 0
      BY <2>3, <2>7, Reach
    <3>2. Extends(dsFile, Disk)
      <4>1. Extends(dsFile, dsFile) /\ Disk.turns = dsFile.turns
        BY Reach, ExtendsFacts, DiskNames
      <4>2. QED
        BY <4>1 DEF Extends
    <3>3. QED
      BY <2>5, <3>1, <3>2, RestTypes DEF Leader, Flat
  <2>8. /\ Busy(p)' = FALSE /\ Session!Holds(p)' = FALSE /\ Session!At(p, "write")' = FALSE
        /\ dsBack'[p] = Session!Rest /\ dsMem'[p] = Disk
    <3>1. ~Busy(p)' /\ ~Session!Holds(p)' /\ ~Session!At(p, "write")'
      BY <1>1, <2>1
    <3>2. QED
      BY <1>1, <1>5, <2>1, <3>1 DEF Busy, Session!At, Session!Holds
  <2>9. Fit(dsMem'[p], dsSaved, Busy(p)', Session!At(p, "write")')
    BY <2>4, <2>8 DEF Fit
  <2>10. Follower(dsMem'[p], dsFile, Disk, dsBack'[p], Busy(p)', Session!At(p, "write")')
    BY <2>6, <2>8 DEF Follower
  <2>11. dsCompressors = {} => Leader(dsMem'[p], dsFile, Disk, dsBack'[p], Session!Holds(p)')
    BY <2>7, <2>8 DEF Leader
  <2>12. QED
    BY <1>3, <2>2, <2>9, <2>10, <2>11 DEF Owes
<1>6. CASE dsLock = <<>> /\ dsMem[p] # Session!NoFile /\ dsFile # Session!NoFile /\ dsMem'[p] = Session!Adopted(dsMem[p]) /\ dsMem'[p] # dsMem[p]
  <2> DEFINE m == dsMem'[p]
             w == dsBack[p]
  <2>1. /\ m \in Session!Session /\ MergeOf(m, dsMem[p])
        /\ (Session!IdsOf(dsMem[p].turns) \subseteq Session!IdsOf(dsFile.turns) => m.turns = dsFile.turns)
        /\ Extends(m, dsFile)
    <3>1. /\ dsMem[p] \in Session!Session /\ Sound(dsMem[p]) /\ dsFile \in Session!Session
          /\ Sound(dsFile) /\ dsNext \in Nat
      BY <1>0, Reach, SessionConstants DEF Session!TypeOK
    <3>2. dsMem[p].arch <= dsFile.arch
      BY <1>6, Reach DEF Regime
    <3>3. dsFile.arch >= dsMem[p].arch
      BY <3>1, <3>2, SessionTypes
    <3>4. QED
      BY <1>6, <3>1, <3>3, MergeFacts DEF MergeOf
  <2>2. /\ ~Busy(p) /\ ~Session!Holds(p) /\ ~Session!At(p, "write") /\ w.at \notin Writing
    BY <1>6, Reach
  <2>3. /\ Busy(p)' = FALSE /\ Session!Holds(p)' = FALSE /\ Session!At(p, "write")' = FALSE
        /\ dsBack'[p] = w
    <3>1. ~Busy(p)' /\ ~Session!Holds(p)' /\ ~Session!At(p, "write")'
      BY <1>1, <2>2
    <3>2. QED
      BY <1>1, <3>1 DEF Busy, Session!At, Session!Holds
  <2> HIDE DEF m
  <2>4. m # Session!NoFile
    BY <1>3 DEF m
  <2>5. /\ m.arch <= m.upto
        /\ p \notin dsCompressors => m.upto = Disk.upto /\ m.covers = Disk.covers /\ Follows(m, Disk)
        /\ dsCompressors \subseteq {p} => m.upto = dsMem[p].upto /\ m.covers = dsMem[p].covers /\ Follows(Disk, m)
        /\ dsCompressors \subseteq {p} /\ Extends(m, dsFile) /\ w.at = "summarise" =>
              /\ m.upto < w.cut /\ m.covers \subseteq w.covers
              /\ CoveredTo(m.turns, w.cut - m.arch, w.covers)
        /\ dsCompressors \subseteq {p} /\ w.at \in {"rest", "summarise"} =>
              Flat(m, Disk) /\ m.arch = m.upto
        /\ dsCompressors \subseteq {p} /\ w.at = "save" /\ (Extends(dsFile, dsMem[p]) => m.turns = dsFile.turns) =>
              \/ Flat(m, Disk)
              \/ /\ m.arch = Disk.arch /\ Extends(dsFile, m) /\ Covered(m)
                 /\ Disk.upto \in {Disk.arch, m.upto}
    BY <1>6, <2>1, <2>4, MergedOwes
  <2>6. Fit(m, dsSaved, FALSE, FALSE)
    BY <2>5 DEF Fit
  <2>7. p \notin dsCompressors => Follower(m, dsFile, Disk, w, FALSE, FALSE)
    BY <1>2, <2>5 DEF Follower
  <2>8. ASSUME dsCompressors \subseteq {p} PROVE Leader(m, dsFile, Disk, w, FALSE)
    <3>1. Extends(dsFile, dsMem[p]) => m.turns = dsFile.turns
      BY <2>1, Reach, ExtendsFacts
    <3>2. w.at \in {"rest", "summarise"} => Extends(dsFile, m)
      <4>1. Extends(dsFile, dsFile)
        BY Reach, ExtendsFacts
      <4>2. Leader(dsMem[p], dsFile, Disk, w, Session!Holds(p))
        BY <1>2, <1>6, <2>8
      <4>3. w.at \in {"rest", "summarise"} => Extends(dsFile, dsMem[p])
        BY <2>2, <4>2 DEF Leader
      <4>4. QED
        BY <3>1, <4>1, <4>3 DEF Extends
    <3>3. w.at # "write"
      BY <2>2 DEF Writing
    <3>4. QED
      BY <2>1, <2>5, <2>8, <3>1, <3>2, <3>3 DEF Leader
  <2>9. QED
    BY <1>3, <2>3, <2>6, <2>7, <2>8 DEF Owes, m
<1>7. QED
  BY <1>0, <1>4, <1>5, <1>6, OpenFacts

\* A turn, or the end of a compression, takes over what the file says.
LEMMA AddOwes ==
  ASSUME Base, Base', Opened, NEW p \in Chats, Regime(p), Session!AddTurn(p) \/ Session!Save(p)
  PROVE  Owes(p)
<1> DEFINE s == dsMem[p]
           m == dsMem'[p]
           w == dsBack[p]
<1>0. /\ Session!TypeOK /\ Session!IndicesGrow /\ SessionsSound /\ LockFollows /\ Control'
      /\ Session!TypeOK'
  BY DEF Base, Control
<1>1. /\ Merged(p) /\ dsLock = <<>> /\ p \notin dsDead /\ m \in Session!Session
      /\ Session!AddTurn(p) => dsBack' = dsBack /\ dsMain[p] = "add"
      /\ Session!Save(p) => w.at = "save" /\ dsBack'[p].at = "archive"
      /\ dsFile # Session!NoFile => Begun(dsFile)
  BY <1>0, AddFacts, SaveFacts, SessionFound
<1>2. /\ Busy(p)' /\ Session!Holds(p)' /\ ~Session!At(p, "write")'
  BY <1>0, OwnLock, OwnPlace
<1>3. s # Session!NoFile
  BY <1>1, SessionFound, RestTypes DEF Opened
<1>4. m # Session!NoFile
  <2>1. Begun(m)
    <3>1. CASE Session!AddTurn(p)
      BY <1>0, <3>1, AddFacts
    <3>2. CASE Session!Save(p)
      <4>1. Begun(s)
        BY <1>1, <3>2, SessionFound, RestTypes
      <4>2. QED
        BY <1>1, <4>1 DEF Merged
    <3>3. QED
      BY <3>1, <3>2
  <2>2. QED
    BY <2>1, SessionFound
<1>5. MergeOf(m, s) /\ Extends(m, dsFile)
  <2>1. dsFile.arch >= s.arch
    <3>1. s.arch <= dsFile.arch /\ s.arch \in Nat /\ dsFile.arch \in Nat
      BY <1>1, Reach, SessionTypes DEF Regime
    <3>2. QED
      BY <3>1
  <2>2. QED
    BY <1>1, <2>1 DEF Merged, MergeOf
<1>6. p \in dsCompressors => dsCompressors \subseteq {p}
  BY DEF Regime
<1>7. w.at \notin Writing
  BY <1>1, Reach
<1>8. p \notin dsCompressors => w = Session!Rest /\ Session!AddTurn(p)
  BY <1>1, RestTypes DEF Regime, Follower
<1>9. dsCompressors \subseteq {p} => Leader(s, dsFile, Disk, w, Session!Holds(p))
  BY <1>3 DEF Regime
<1> HIDE DEF m
<1>10. /\ m.arch <= m.upto /\ Covered(m)
       /\ p \notin dsCompressors => m.upto = Disk.upto /\ m.covers = Disk.covers /\ Follows(m, Disk)
       /\ dsCompressors \subseteq {p} => Follows(Disk, m)
       /\ dsCompressors \subseteq {p} /\ w.at = "summarise" =>
              /\ m.upto < w.cut /\ m.covers \subseteq w.covers
              /\ CoveredTo(m.turns, w.cut - m.arch, w.covers)
       /\ dsCompressors \subseteq {p} /\ w.at \in {"rest", "summarise"} =>
              Flat(m, Disk) /\ m.arch = m.upto
  <2>1. m \in Session!Session
    BY <1>1 DEF m
  <2>2. QED
    BY <1>1, <1>3, <1>4, <1>5, <2>1, MergedOwes
<1>11. Fit(m, dsSaved, TRUE, FALSE)
  BY <1>10 DEF Fit
<1>12. p \notin dsCompressors => Follower(m, dsFile, Disk, w, TRUE, FALSE)
  BY <1>8, <1>10 DEF Follower
<1>13. dsCompressors \subseteq {p} => Leader(m, dsFile, Disk, dsBack'[p], TRUE)
  <2>1. CASE Session!AddTurn(p)
    <3>1. dsBack'[p] = w /\ w.at # "write"
      BY <1>1, <1>7, <2>1 DEF Writing
    <3>2. QED
      BY <1>5, <1>10, <3>1 DEF Leader
  <2>2. CASE Session!Save(p)
    BY <1>1, <1>10, <2>2 DEF Leader
  <2>3. QED
    BY <2>1, <2>2
<1>14. Fit(m, dsSaved, Busy(p)', Session!At(p, "write")')
  BY <1>2, <1>11 DEF Fit
<1>15. p \notin dsCompressors => Follower(m, dsFile, Disk, dsBack'[p], Busy(p)', Session!At(p, "write")')
  BY <1>1, <1>2, <1>8, <1>12 DEF Follower
<1>16. dsCompressors \subseteq {p} => Leader(m, dsFile, Disk, dsBack'[p], Session!Holds(p)')
  BY <1>2, <1>13 DEF Leader
<1>17. QED
  BY <1>4, <1>14, <1>15, <1>16 DEF Owes, m

\* While it compresses: the process that does so is the only one.
LEMMA OwnSummary ==
  ASSUME Base, NEW p \in Chats, Regime(p), dsBack[p].at = "summarise"
  PROVE  /\ p \in dsCompressors /\ dsCompressors \subseteq {p} /\ dsMem[p] # Session!NoFile
         /\ Leader(dsMem[p], dsFile, Disk, dsBack[p], Session!Holds(p))
<1>1. dsBack[p] # Session!Rest
  BY RestTypes
<1>2. dsMem[p] # Session!NoFile
  BY <1>1, SessionFound
<1>3. p \in dsCompressors
  BY <1>1 DEF Regime, Follower
<1>4. QED
  BY <1>2, <1>3 DEF Regime

\* A summary goes on from the one before.
LEMMA SummariseOwes ==
  ASSUME Base, Base', NEW p \in Chats, Regime(p), Session!Summarise(p)
  PROVE  Owes(p)
<1> DEFINE s == dsMem[p]
           m == dsMem'[p]
           w == dsBack[p]
<1>0. /\ Session!TypeOK /\ Session!IndicesGrow /\ SessionsSound /\ LockFollows /\ Control'
      /\ Session!TypeOK'
  BY DEF Base, Control
<1>1. /\ w.at = "summarise" /\ dsBack'[p].at = "save" /\ p \notin dsDead
      /\ m.turns = s.turns /\ m.arch = s.arch /\ m.upto = w.cut /\ m.covers = w.covers
      /\ m \in Session!Session
  BY <1>0, SummariseFacts
<1>2. /\ Busy(p)' <=> Busy(p)
      /\ Session!Holds(p)' <=> Session!Holds(p)
      /\ Session!At(p, "write")' <=> Session!At(p, "write")
  BY <1>0, OwnLock, OwnPlace
<1>3. /\ p \in dsCompressors /\ dsCompressors \subseteq {p}
      /\ Leader(s, dsFile, Disk, w, Session!Holds(p)) /\ s # Session!NoFile
  BY <1>1, OwnSummary
<1>4. /\ s.upto < w.cut /\ s.covers \subseteq w.covers
      /\ CoveredTo(s.turns, w.cut - s.arch, w.covers)
      /\ Flat(s, Disk) /\ s.arch = s.upto /\ Follows(Disk, s)
      /\ ~Session!Holds(p) => Extends(dsFile, s)
  BY <1>1, <1>3 DEF Leader
<1>5. Fit(s, dsSaved, Busy(p), Session!At(p, "write"))
  BY DEF Regime
<1>6. s.arch \in Nat /\ s.upto \in Nat /\ w.cut \in Nat /\ Disk.upto \in Nat /\ Disk.arch \in Nat
  BY Reach
<1>7. m # Session!NoFile
  BY <1>1, <1>4, <1>6, EmptyTypes
<1> HIDE DEF s, m, w
<1>8. Covered(m)
  BY <1>1, <1>4 DEF Covered
<1>9. Fit(m, dsSaved, Busy(p)', Session!At(p, "write")')
  BY <1>1, <1>2, <1>3, <1>4, <1>5, <1>6, <1>8 DEF Fit
<1>10. Follows(Disk, m)
  BY <1>1, <1>4, <1>6 DEF Follows, Flat
<1>11. Leader(m, dsFile, Disk, dsBack'[p], Session!Holds(p)')
  <2>1. ~Session!Holds(p) => m.arch = Disk.arch /\ Extends(dsFile, m) /\ Disk.upto = Disk.arch
    BY <1>1, <1>4 DEF Flat, Extends
  <2>2. QED
    BY <1>1, <1>2, <1>8, <1>10, <2>1 DEF Leader
<1>12. QED
  BY <1>3, <1>7, <1>9, <1>11 DEF Owes, m

\* Nothing is owed where none was made.
LEMMA NoSummaryOwes ==
  ASSUME Base, Base', NEW p \in Chats, Regime(p), Session!SummaryFails(p)
  PROVE  Owes(p)
<1> DEFINE s == dsMem[p]
           w == dsBack[p]
<1>0. /\ Session!TypeOK /\ Session!IndicesGrow /\ SessionsSound /\ LockFollows /\ Control'
      /\ Session!TypeOK'
  BY DEF Base, Control
<1>1. w.at = "summarise" /\ dsBack'[p].at = "save" /\ p \notin dsDead /\ dsMem' = dsMem
  BY <1>0, NoSummaryFacts
<1>2. /\ Busy(p)' <=> Busy(p)
      /\ Session!Holds(p)' <=> Session!Holds(p)
      /\ Session!At(p, "write")' <=> Session!At(p, "write")
  BY <1>0, OwnLock, OwnPlace
<1>3. /\ p \in dsCompressors /\ dsCompressors \subseteq {p}
      /\ Leader(s, dsFile, Disk, w, Session!Holds(p)) /\ s # Session!NoFile
  BY <1>1, OwnSummary
<1>4. Fit(s, dsSaved, Busy(p), Session!At(p, "write"))
  BY DEF Regime
<1> HIDE DEF s
<1>5. Fit(s, dsSaved, Busy(p)', Session!At(p, "write")')
  BY <1>2, <1>4 DEF Fit
<1>6. Leader(s, dsFile, Disk, dsBack'[p], Session!Holds(p)')
  BY <1>1, <1>3 DEF Leader
<1>7. QED
  BY <1>1, <1>3, <1>5, <1>6 DEF Owes, s

\* The dead owe nothing.
LEMMA KillOwes ==
  ASSUME Base, Base', NEW p \in Chats, Regime(p), Session!Kill(p)
  PROVE  Owes(p)
<1>0. /\ Session!TypeOK /\ Session!IndicesGrow /\ SessionsSound /\ LockFollows /\ Control'
      /\ Session!TypeOK'
  BY DEF Base, Control
<1>1. dsMem'[p] = Session!NoFile /\ dsBack'[p] = Session!Rest /\ p \in dsDead'
  BY <1>0, KillFacts
<1>2. ~Busy(p)' /\ ~Session!At(p, "write")'
  BY <1>0, OwnLock, OwnPlace
<1>3. Fit(dsMem'[p], dsSaved, Busy(p)', Session!At(p, "write")')
  BY <1>1, <1>2 DEF Fit
<1>4. Follower(dsMem'[p], dsFile, Disk, dsBack'[p], Busy(p)', Session!At(p, "write")')
  BY <1>1, <1>2 DEF Follower
<1>5. QED
  BY <1>1, <1>3, <1>4 DEF Owes

\* What leaves the session is covered.
LEMMA ArchiveOwes ==
  ASSUME Base, Base', NEW p \in Chats, Regime(p), Session!ArchiveTurns(p)
  PROVE  Owes(p)
<1> DEFINE s == dsMem[p]
           m == dsMem'[p]
           w == dsBack[p]
           n == Session!LocalCut(dsMem[p])
           D == Disk
<1>0. /\ Session!TypeOK /\ Session!IndicesGrow /\ SessionsSound /\ LockFollows /\ Control'
      /\ Session!TypeOK'
  BY DEF Base, Control
<1>1. /\ p \notin dsDead /\ Session!At(p, "archive") /\ Moves(p, "archive", "write")
      /\ m = Session!CutOff(s, n, TRUE)
      /\ m \in Session!Session
  <2>1. dsFails \in Nat /\ dsFails' = dsFails
    BY <1>0, SessionConstants DEF Regime, Session!TypeOK
  <2>2. dsFails' # dsFails + 1
    BY <2>1
  <2>3. QED
    BY <1>0, <2>2, ArchiveFacts
<1>2. Busy(p) /\ Busy(p)' /\ Session!Holds(p) /\ Session!Holds(p)' /\ Session!At(p, "write")' /\ ~Session!At(p, "write")
  BY <1>0, OwnLock, OwnPlace
<1>3. s # Session!NoFile /\ Begun(s)
  BY <1>2, SessionFound
<1>4. /\ Summed(dsFile, D, dsSaved, dsCompressors) /\ s.arch <= s.upto /\ Covered(s)
      /\ p \notin dsCompressors => Follower(s, dsFile, D, w, TRUE, FALSE)
      /\ p \in dsCompressors => dsCompressors \subseteq {p}
      /\ dsCompressors \subseteq {p} => Leader(s, dsFile, D, w, TRUE)
      /\ s.arch = dsFile.arch /\ Extends(s, dsFile)
  <2>1. /\ Summed(dsFile, D, dsSaved, dsCompressors)
        /\ Fit(s, dsSaved, Busy(p), Session!At(p, "write"))
        /\ p \notin dsCompressors => Follower(s, dsFile, D, w, Busy(p), Session!At(p, "write"))
        /\ p \in dsCompressors => dsCompressors \subseteq {p}
        /\ dsCompressors \subseteq {p} => Leader(s, dsFile, D, w, Session!Holds(p))
        /\ s.arch = dsFile.arch /\ Extends(s, dsFile)
    BY <1>1, <1>3 DEF Regime
  <2>2. s.arch <= s.upto /\ Covered(s)
    BY <1>2, <1>3, <2>1 DEF Fit
  <2>3. p \notin dsCompressors => Follower(s, dsFile, D, w, TRUE, FALSE)
    BY <1>2, <2>1 DEF Follower
  <2>4. dsCompressors \subseteq {p} => Leader(s, dsFile, D, w, TRUE)
    BY <1>2, <2>1 DEF Leader
  <2>5. QED
    BY <2>1, <2>2, <2>3, <2>4
<1>5. /\ n \in Nat /\ n <= Len(s.turns) /\ n = s.upto - s.arch
      /\ m.upto = s.upto /\ m.covers = s.covers
      /\ m.arch = s.upto
      /\ \A x \in Session!IdsOf(s.turns) :
           x \in Session!IdsOf(m.turns) \/ \E k \in 1 .. n : k \in DOMAIN s.turns /\ x = s.turns[k].id
      /\ n = 0 => m.turns = s.turns
      /\ Begun(m)
  <2>1. s \in Session!Session /\ Sound(s) /\ s.arch \in Nat /\ s.upto \in Nat
    BY Reach
  <2>2. n = s.upto - s.arch /\ (IF s.upto > s.arch THEN s.upto ELSE s.arch) = s.upto
    BY <1>4, <2>1 DEF Session!LocalCut
  <2>3. LET c == Session!CutOff(s, Session!LocalCut(s), TRUE)
        IN  /\ Session!LocalCut(s) \in Nat /\ Session!LocalCut(s) <= Len(s.turns)
            /\ c.upto = s.upto /\ c.covers = s.covers
            /\ c.arch = IF s.upto > s.arch THEN s.upto ELSE s.arch
            /\ \A x \in Session!IdsOf(s.turns) :
                 x \in Session!IdsOf(c.turns) \/ \E k \in 1 .. Session!LocalCut(s) : k \in DOMAIN s.turns /\ x = s.turns[k].id
            /\ Session!LocalCut(s) = 0 => c.turns = s.turns
            /\ Begun(s) => Begun(c)
    BY <2>1, CutFacts
  <2> HIDE DEF s, m
  <2>4. m = Session!CutOff(s, Session!LocalCut(s), TRUE) /\ n = Session!LocalCut(s)
    BY <1>1 DEF s
  <2>5. QED
    BY <1>3, <2>2, <2>3, <2>4
<1>6. /\ D.arch = dsFile.arch /\ D.upto = dsFile.upto /\ s.arch \in Nat /\ s.upto \in Nat
      /\ s \in Session!Session /\ dsFile \in Session!Session
  BY Reach, DiskNames
<1>7. w.at = "write" => dsLock = <<p, "back">>
  BY <1>0, LockNames DEF Writing
<1> HIDE DEF s, m, w, n, D
<1>8. m # Session!NoFile
  BY <1>5, SessionFound
<1>9. m.arch = m.upto
  BY <1>5
<1>10. Covered(m)
  <2>1. m.upto - m.arch = 0
    BY <1>5, <1>6
  <2>2. \A k \in DOMAIN m.turns : k \in Nat /\ k >= 1
    BY <1>1, SessionTypes, TurnTypes DEF m
  <2>3. \A k \in DOMAIN m.turns : ~(k <= 0)
    BY <2>2
  <2>4. QED
    BY <2>1, <2>3 DEF Covered, CoveredTo
<1>11. D.covers \subseteq s.covers
  <2>1. CASE p \in dsCompressors
    BY <1>4, <2>1 DEF Leader, Follows
  <2>2. CASE p \notin dsCompressors
    BY <1>4, <2>2 DEF Follower
  <2>3. QED
    BY <2>1, <2>2
<1>12. dsSaved \ Session!IdsOf(m.turns) \subseteq m.covers
  <2>1. SUFFICES ASSUME NEW x \in dsSaved, x \notin Session!IdsOf(m.turns) PROVE x \in m.covers
    OBVIOUS
  <2>2. CASE x \in Session!IdsOf(dsFile.turns)
    <3>1. x \in Session!IdsOf(s.turns)
      BY <1>4, <1>6, <2>2, ExtendsFacts
    <3>2. PICK k \in 1 .. n : k \in DOMAIN s.turns /\ x = s.turns[k].id
      BY <1>5, <2>1, <3>1
    <3>3. k <= s.upto - s.arch
      BY <1>5, <3>2
    <3>4. QED
      BY <1>4, <1>5, <3>2, <3>3 DEF Covered, CoveredTo
  <2>3. CASE x \notin Session!IdsOf(dsFile.turns)
    BY <1>4, <1>5, <1>11, <2>1, <2>3 DEF Summed
  <2>4. QED
    BY <2>2, <2>3
<1>13. Fit(m, dsSaved, TRUE, TRUE)
  BY <1>9, <1>10, <1>12, <1>5, <1>6 DEF Fit
<1>14. n = 0 => Extends(m, dsFile)
  BY <1>4, <1>5 DEF Extends
<1>15. ASSUME p \notin dsCompressors PROVE Follower(m, dsFile, D, w, TRUE, TRUE) /\ dsBack'[p] = w
  <2>1. Follower(s, dsFile, D, w, TRUE, FALSE)
    BY <1>4, <1>15
  <2>2. s.upto = D.upto /\ s.covers = D.covers /\ Follows(s, D) /\ w = Session!Rest
    BY <1>3, <2>1 DEF Follower, s
  <2>3. Follows(m, D)
    BY <1>5, <2>2 DEF Follows
  <2>4. Flat(dsFile, D) => n = 0
    BY <1>4, <1>5, <1>6, <2>2 DEF Flat
  <2>5. dsBack'[p] = w
    BY <1>1, <2>2, RestTypes DEF Moves, w
  <2>6. QED
    BY <1>5, <1>9, <1>14, <2>2, <2>3, <2>4, <2>5 DEF Follower
<1>16. ASSUME dsCompressors \subseteq {p} PROVE Leader(m, dsFile, D, dsBack'[p], TRUE)
  <2>1. Leader(s, dsFile, D, w, TRUE)
    BY <1>4, <1>16
  <2>2. Follows(D, m)
    BY <1>5, <2>1 DEF Leader, Follows
  <2>3. CASE dsBack'[p] = w
    <3>1. w.at \in {"rest", "summarise"} => n = 0 /\ s.arch = s.upto /\ Flat(s, D)
      BY <1>5, <1>6, <2>1 DEF Leader
    <3>2. w.at \in {"rest", "summarise"} => Flat(m, D) /\ Extends(m, dsFile) /\ m.turns = s.turns /\ m.arch = s.arch
      BY <1>5, <1>14, <3>1 DEF Flat
    <3>3. w.at = "summarise" => /\ m.upto < w.cut /\ m.covers \subseteq w.covers
                                /\ CoveredTo(m.turns, w.cut - m.arch, w.covers)
      BY <1>5, <2>1, <3>2 DEF Leader
    <3>4. QED
      BY <1>9, <2>2, <2>3, <3>2, <3>3 DEF Leader
  <2>4. CASE dsBack'[p].at = "write"
    BY <1>9, <2>2, <2>4 DEF Leader
  <2>5. QED
    BY <1>1, <2>3, <2>4 DEF Moves, w
<1>17. Fit(m, dsSaved, Busy(p)', Session!At(p, "write")')
  BY <1>2, <1>13 DEF Fit
<1>18. p \notin dsCompressors => Follower(m, dsFile, D, dsBack'[p], Busy(p)', Session!At(p, "write")')
  BY <1>2, <1>15 DEF Follower
<1>19. dsCompressors \subseteq {p} => Leader(m, dsFile, D, dsBack'[p], Session!Holds(p)')
  BY <1>2, <1>16 DEF Leader
<1>20. QED
  BY <1>8, <1>17, <1>18, <1>19 DEF Owes, m, D

\* Summaries follow themselves, and those before.
LEMMA FollowsFacts ==
  ASSUME NEW r \in Session!Session, NEW s \in Session!Session, NEW t \in Session!Session
  PROVE  /\ Follows(s, s)
         /\ Follows(r, s) /\ Follows(s, t) => Follows(r, t)
<1>1. r.upto \in Nat /\ s.upto \in Nat /\ t.upto \in Nat
  BY SessionTypes
<1>2. QED
  BY <1>1 DEF Follows

\* Whoever begins to compress leads from then on.
LEMMA ChooseSummaries ==
  ASSUME Base, Base', AllSaved, DiskIsAhead, SummariesFollow, Compressing, NEW p \in Chats,
         Session!Choose(p)
  PROVE  SummariesFollow'
<1> DEFINE s == dsMem[p]
           v == dsBack'[p]
<1>0. /\ Session!TypeOK /\ Session!IndicesGrow /\ SessionsSound /\ LockFollows /\ Control'
      /\ Session!TypeOK' /\ Step(p)
  BY DEF Base, Control, Step
<1>1. /\ UNCHANGED <<dsFile, dsMem, dsSaved, dsDead, dsLock, dsMain>>
      /\ p \notin dsDead /\ s # Session!NoFile /\ dsBack[p] = Session!Rest
      /\ dsCompressors' = dsCompressors \cup {p}
      /\ v.at = "summarise" /\ v.cut = End(s) - KeepRecent /\ v.cut > s.arch + Session!LocalCut(s)
      /\ v.covers = s.covers \cup Session!IdsOf(SubSeq(s.turns, Session!LocalCut(s) + 1, Len(s.turns) - KeepRecent))
  BY <1>0, ChooseFacts
<1>2. dsCompressors' = {p} /\ dsCompressors \subseteq {p}
  BY <1>1 DEF Compressing, Session!OneCompresses
<1>3. Session!OneCompresses /\ dsFails = 0
  BY <1>0, SummaryBefore DEF Regime
<1>4. /\ Summed(dsFile, Disk, dsSaved, dsCompressors)
      /\ \A q \in Chats : Fit(dsMem[q], dsSaved, Busy(q), Session!At(q, "write"))
      /\ \A q \in Chats : q \notin dsCompressors =>
           Follower(dsMem[q], dsFile, Disk, dsBack[q], Busy(q), Session!At(q, "write"))
      /\ Leader(s, dsFile, Disk, dsBack[p], Session!Holds(p))
  BY <1>1, <1>2, <1>3, SummaryNames
<1>5. Disk' = Disk
  BY <1>1 DEF Disk
<1>6. \A q \in Chats : /\ Session!Holds(q)' <=> Session!Holds(q)
                       /\ Busy(q)' <=> Busy(q)
                       /\ Session!At(q, "write")' <=> Session!At(q, "write")
                       /\ q # p => dsBack'[q] = dsBack[q]
  BY <1>0, Bystanders, OwnLock, OwnPlace
<1>7. Summed(dsFile, Disk, dsSaved, dsCompressors')
  BY <1>2, <1>4 DEF Summed
<1>8. \A q \in Chats : Fit(dsMem[q], dsSaved, Busy(q)', Session!At(q, "write")')
  BY <1>4, <1>6 DEF Fit
<1>9. \A q \in Chats : q \notin dsCompressors' =>
        Follower(dsMem[q], dsFile, Disk, dsBack'[q], Busy(q)', Session!At(q, "write")')
  BY <1>2, <1>4, <1>6 DEF Follower
<1>10. Leader(s, dsFile, Disk, v, Session!Holds(p)')
  <2>1. /\ Follows(Disk, s) /\ Flat(s, Disk) /\ s.arch = s.upto
        /\ IF Session!Holds(p) THEN Extends(s, dsFile) ELSE Extends(dsFile, s)
    BY <1>1, <1>4, RestTypes DEF Leader
  <2>2. /\ s.arch \in Nat /\ s.upto \in Nat /\ s.turns \in Seq(Session!Turn)
        /\ Len(s.turns) \in Nat
        /\ KeepRecent \in Nat /\ v.cut \in Nat /\ DOMAIN s.turns = 1 .. Len(s.turns)
    <3>1. s \in Session!Session /\ v.cut \in Nat
      BY <1>0, Reach, SessionConstants DEF Session!TypeOK, Session!Work, Base
    <3>2. QED
      BY <3>1, SessionTypes, SessionConstants
  <2>3. Session!LocalCut(s) = 0
    BY <2>1, <2>2 DEF Session!LocalCut
  <2>4. s.upto < v.cut
    BY <1>1, <2>1, <2>2, <2>3
  <2>5. s.covers \subseteq v.covers
    BY <1>1
  <2>6. CoveredTo(s.turns, v.cut - s.arch, v.covers)
    <3> DEFINE n == Len(s.turns) - KeepRecent
    <3>1. \A a, b, c \in Nat : (a + b - c) - a = b - c
      OBVIOUS
    <3>2. v.cut - s.arch = n
      BY <1>1, <2>2, <3>1 DEF End
    <3>3. n \in Int /\ n <= Len(s.turns)
      BY <2>2
    <3>4. SUFFICES ASSUME NEW k \in DOMAIN s.turns, k <= n PROVE s.turns[k].id \in v.covers
      BY <3>2 DEF CoveredTo
    <3>5. Session!LocalCut(s) + 1 = 1
      BY <2>3
    <3>6. v.covers = s.covers \cup Session!IdsOf(SubSeq(s.turns, 1, n))
      BY <1>1, <3>5
    <3> HIDE DEF n
    <3>7. k \in 1 .. n /\ n \in Nat
      BY <2>2, <3>3, <3>4
    <3>8. DOMAIN SubSeq(s.turns, 1, n) = 1 .. n /\ SubSeq(s.turns, 1, n)[k] = s.turns[k]
      BY <2>2, <3>3, <3>7
    <3>9. s.turns[k].id \in Session!IdsOf(SubSeq(s.turns, 1, n))
      BY <3>7, <3>8 DEF Session!IdsOf
    <3>10. QED
      BY <3>6, <3>9
  <2>7. Session!Holds(p)' <=> Session!Holds(p)
    BY <1>6
  <2>8. QED
    BY <1>1, <2>1, <2>4, <2>5, <2>6, <2>7 DEF Leader
<1>11. \A q \in Chats : dsCompressors' \subseteq {q} /\ dsMem[q] # Session!NoFile =>
         Leader(dsMem[q], dsFile, Disk, dsBack'[q], Session!Holds(q)')
  BY <1>2, <1>10
<1>12. \A q \in dsCompressors' : dsMem[q] = Session!NoFile => q \in dsDead
  BY <1>1, <1>2
<1>13. QED
  BY <1>1, <1>5, <1>7, <1>8, <1>9, <1>11, <1>12, SummaryNames

\* What is written follows what was on disk.
LEMMA WriteSummaries ==
  ASSUME Base, Base', AllSaved, DiskIsAhead, SummariesFollow, Compressing, NEW p \in Chats,
         Session!WriteFile(p)
  PROVE  SummariesFollow'
<1> DEFINE s == dsMem[p]
           D == Disk
           sv == dsSaved \cup Session!IdsOf(s.turns)
<1>0. /\ Session!TypeOK /\ Session!IndicesGrow /\ SessionsSound /\ LockFollows /\ Control'
      /\ Session!TypeOK' /\ Step(p)
  BY DEF Base, Control, Step
<1>1. /\ dsFile' = s /\ dsSaved' = sv /\ dsLock' = <<>>
      /\ UNCHANGED <<dsMem, dsDead, dsCompressors>>
      /\ Session!At(p, "write") /\ Moves(p, "write", "rest")
  BY <1>0, WriteFileFacts
<1>2. Busy(p) /\ Session!Holds(p) /\ dsLock # <<>>
  BY <1>0, <1>1, OwnLock, Tuples DEF Session!At
<1>3. \A q \in Chats : /\ Busy(q)' = FALSE /\ Session!Holds(q)' = FALSE /\ Session!At(q, "write")' = FALSE
                       /\ q # p => ~Session!Holds(q) /\ ~Busy(q) /\ ~Session!At(q, "write")
  <2>1. SUFFICES ASSUME NEW q \in Chats
                 PROVE  /\ ~Busy(q)' /\ ~Session!Holds(q)' /\ ~Session!At(q, "write")'
                        /\ q # p => ~Session!Holds(q) /\ ~Busy(q) /\ ~Session!At(q, "write")
    BY DEF Busy, Session!Holds, Session!At
  <2>2. ~Busy(q)' /\ ~Session!Holds(q)' /\ ~Session!At(q, "write")'
    BY <1>1, Tuples DEF Busy, Session!Holds, Session!At
  <2>3. q # p => ~Session!Holds(q) /\ ~Busy(q) /\ ~Session!At(q, "write")
    BY <1>0, <1>1, AtFacts DEF Busy, Writing
  <2>4. QED
    BY <2>2, <2>3
<1>4. /\ s # Session!NoFile /\ s \in Session!Session /\ dsFile \in Session!Session
      /\ D \in Session!Session
  BY <1>0, <1>2, SessionFound, DiskNames DEF Session!TypeOK
<1>5. Disk' = s
  BY <1>1, <1>4 DEF Disk
<1>6. Session!OneCompresses /\ dsFails = 0
  BY <1>0, SummaryBefore DEF Regime
<1>7. /\ Summed(dsFile, D, dsSaved, dsCompressors)
      /\ \A q \in Chats : Fit(dsMem[q], dsSaved, Busy(q), Session!At(q, "write"))
      /\ \A q \in Chats : q \notin dsCompressors =>
           Follower(dsMem[q], dsFile, D, dsBack[q], Busy(q), Session!At(q, "write"))
      /\ \A q \in dsCompressors : dsMem[q] = Session!NoFile => q \in dsDead
      /\ \A q \in Chats : dsCompressors \subseteq {q} /\ dsMem[q] # Session!NoFile =>
           Leader(dsMem[q], dsFile, D, dsBack[q], Session!Holds(q))
  BY <1>6, SummaryNames
<1>8. s.arch <= s.upto /\ Covered(s) /\ dsSaved \ Session!IdsOf(s.turns) \subseteq s.covers
  BY <1>1, <1>2, <1>4, <1>7 DEF Fit
<1>9. p \notin dsCompressors =>
        /\ Follows(s, D) /\ s.upto = D.upto /\ s.covers = D.covers /\ s.arch = s.upto
        /\ Flat(dsFile, D) => Extends(s, dsFile)
        /\ dsBack[p] = Session!Rest
  BY <1>1, <1>2, <1>4, <1>7 DEF Follower
<1>10. p \in dsCompressors => dsCompressors \subseteq {p} /\ Leader(s, dsFile, D, dsBack[p], Session!Holds(p))
  BY <1>4, <1>6, <1>7 DEF Session!OneCompresses
<1>11. \A q \in Chats : q # p => dsBack'[q] = dsBack[q]
  BY <1>0, Bystanders
<1>12. Summed(s, s, sv, dsCompressors)
  <2>1. dsCompressors = {} => s.upto = 0 /\ s.covers = {}
    BY <1>7, <1>9 DEF Summed
  <2>2. QED
    BY <1>8, <2>1 DEF Summed
<1>13. \A q \in Chats : Fit(dsMem[q], sv, FALSE, FALSE)
  BY <1>7 DEF Fit
<1>14. Follows(D, s)
  <2>1. CASE p \in dsCompressors
    BY <1>10, <2>1 DEF Leader
  <2>2. CASE p \notin dsCompressors
    <3>1. s.upto \in Nat
      BY <1>4, SessionTypes
    <3>2. QED
      BY <1>9, <2>2, <3>1 DEF Follows
  <2>3. QED
    BY <2>1, <2>2
<1>15. ASSUME NEW q \in Chats, q \notin dsCompressors
       PROVE  Follower(dsMem[q], s, s, dsBack'[q], FALSE, FALSE)
  <2>1. Follower(dsMem[q], dsFile, D, dsBack[q], Busy(q), Session!At(q, "write"))
    BY <1>7, <1>15
  <2>2. dsBack[q] = Session!Rest /\ (dsMem[q] # Session!NoFile => Follows(dsMem[q], D))
    BY <2>1 DEF Follower
  <2>3. dsMem[q] \in Session!Session
    BY <1>0 DEF Session!TypeOK
  <2>4. dsMem[q] # Session!NoFile => Follows(dsMem[q], s)
    BY <1>4, <1>14, <2>2, <2>3, FollowsFacts
  <2>5. dsBack'[q] = Session!Rest
    <3>1. CASE q = p
      BY <1>1, <2>2, <3>1, RestTypes DEF Moves
    <3>2. CASE q # p
      BY <1>11, <2>2, <3>2
    <3>3. QED
      BY <3>1, <3>2
  <2>6. QED
    BY <2>4, <2>5 DEF Follower
<1>16. ASSUME dsCompressors \subseteq {p}
       PROVE  Leader(s, s, s, dsBack'[p], FALSE)
  <2>1. Leader(s, dsFile, D, dsBack[p], Session!Holds(p))
    BY <1>4, <1>7, <1>16
  <2>2. Follows(s, s) /\ Extends(s, s)
    BY <1>4, FollowsFacts, ExtendsFacts
  <2>3. dsBack'[p].at # "write"
    BY <1>0, <1>1, LockNamesNext, Tuples DEF Writing, Control
  <2>4. CASE dsBack'[p] = dsBack[p]
    <3>1. dsBack[p].at \in {"rest", "summarise"} => s.arch = s.upto
      BY <2>1 DEF Leader
    <3>2. dsBack[p].at = "summarise" =>
            /\ s.upto < dsBack[p].cut /\ s.covers \subseteq dsBack[p].covers
            /\ CoveredTo(s.turns, dsBack[p].cut - s.arch, dsBack[p].covers)
      BY <2>1 DEF Leader
    <3>3. QED
      BY <1>8, <2>2, <2>3, <2>4, <3>1, <3>2 DEF Leader, Flat
  <2>5. CASE dsBack[p].at = "write" /\ dsBack'[p].at = "rest"
    <3>1. s.arch = s.upto
      BY <2>1, <2>5 DEF Leader
    <3>2. QED
      BY <2>2, <2>5, <3>1 DEF Leader, Flat
  <2>6. QED
    BY <1>1, <2>4, <2>5 DEF Moves
<1>17. ASSUME NEW q \in Chats, q # p, dsCompressors \subseteq {q}, dsMem[q] # Session!NoFile
       PROVE  Leader(dsMem[q], s, s, dsBack'[q], FALSE)
  <2> DEFINE t == dsMem[q]
             w == dsBack[q]
  <2>1. Leader(t, dsFile, D, w, FALSE) /\ dsBack'[q] = w
    <3>1. Leader(t, dsFile, D, w, Session!Holds(q))
      BY <1>7, <1>17
    <3>2. ~Session!Holds(q)
      BY <1>3, <1>17
    <3>3. QED
      BY <1>11, <1>17, <3>1, <3>2 DEF Leader
  <2>2. /\ s.upto = D.upto /\ s.covers = D.covers /\ s.arch = s.upto
        /\ Flat(dsFile, D) => Extends(s, dsFile)
    BY <1>9, <1>17
  <2>3. t \in Session!Session /\ dsFile.upto = D.upto
    BY <1>0, <1>4, DiskNames DEF Session!TypeOK
  <2> HIDE DEF t, w, s, D
  <2>4. D.upto = D.arch /\ Extends(dsFile, t) => Extends(s, t)
    BY <1>4, <2>2, <2>3, ExtendsFacts DEF Flat
  <2>5. Follows(s, t)
    BY <2>1, <2>2 DEF Leader, Follows
  <2>6. Flat(t, D) => Flat(t, s)
    BY <2>2 DEF Flat
  <2>7. w.at \in {"rest", "summarise"} => Flat(t, s) /\ t.arch = t.upto /\ Extends(s, t)
    BY <2>1, <2>4, <2>6 DEF Leader, Flat
  <2>8. w.at = "save" =>
          \/ Flat(t, s)
          \/ t.arch = s.arch /\ Extends(s, t) /\ Covered(t) /\ s.upto \in {s.arch, t.upto}
    <3>1. SUFFICES ASSUME w.at = "save", ~Flat(t, s)
                   PROVE  t.arch = s.arch /\ Extends(s, t) /\ Covered(t) /\ s.upto \in {s.arch, t.upto}
      OBVIOUS
    <3>2. t.arch = D.arch /\ Extends(dsFile, t) /\ Covered(t) /\ D.upto \in {D.arch, t.upto}
      BY <2>1, <2>6, <3>1 DEF Leader
    <3>3. D.upto # t.upto
      BY <2>2, <3>1 DEF Flat
    <3>4. D.upto = D.arch
      BY <3>2, <3>3
    <3>5. QED
      BY <2>2, <2>4, <3>2, <3>4
  <2>9. w.at = "summarise" => /\ t.upto < w.cut /\ t.covers \subseteq w.covers
                              /\ CoveredTo(t.turns, w.cut - t.arch, w.covers)
    BY <2>1 DEF Leader
  <2>10. w.at = "write" => t.arch = t.upto
    BY <2>1 DEF Leader
  <2>11. Leader(t, s, s, w, FALSE)
    BY <2>5, <2>7, <2>8, <2>9, <2>10 DEF Leader
  <2>12. QED
    BY <2>1, <2>11 DEF t
<1> HIDE DEF s, D, sv
<1>18. \A q \in Chats : Fit(dsMem'[q], dsSaved', Busy(q)', Session!At(q, "write")')
  BY <1>1, <1>3, <1>13
<1>19. \A q \in Chats : q \notin dsCompressors' =>
         Follower(dsMem'[q], dsFile', Disk', dsBack'[q], Busy(q)', Session!At(q, "write")')
  BY <1>1, <1>3, <1>5, <1>15
<1>20. \A q \in Chats : dsCompressors' \subseteq {q} /\ dsMem'[q] # Session!NoFile =>
         Leader(dsMem'[q], dsFile', Disk', dsBack'[q], Session!Holds(q)')
  BY <1>1, <1>3, <1>5, <1>16, <1>17 DEF s
<1>21. QED
  BY <1>1, <1>5, <1>7, <1>12, <1>18, <1>19, <1>20, SummaryNames

\* Summaries stay in step.
LEMMA SummariesKept ==
  ASSUME Base, Base', Opened, Opened', AllSaved, DiskIsAhead, SummariesFollow, NEW p \in Chats,
         Step(p)
  PROVE  SummariesFollow'
<1>0. /\ Session!TypeOK /\ Session!IndicesGrow /\ SessionsSound /\ LockFollows /\ Control'
      /\ Session!TypeOK'
  BY DEF Base, Control
<1>1. SUFFICES ASSUME Compressing PROVE SummariesFollow'
  BY SummaryNames
<1>2. Regime(p) /\ dsFails' = 0
  BY <1>1, SummaryBefore DEF Compressing
<1>3. CASE Session!Choose(p)
  BY <1>1, <1>3, ChooseSummaries
<1>4. CASE Session!WriteFile(p)
  BY <1>1, <1>4, WriteSummaries
<1>5. ~Session!WriteFails(p)
  BY <1>0, <1>2, WriteFailsFacts, LossStays DEF Regime
<1>6. ASSUME Owes(p), dsFile' = dsFile, dsSaved' = dsSaved, dsCompressors' = dsCompressors PROVE SummariesFollow'
  BY <1>1, <1>6, Elsewhere DEF Owes
<1>7. CASE Session!Open(p)
  BY <1>0, <1>2, <1>6, <1>7, OpenOwes, OpenFacts
<1>8. CASE Session!AddTurn(p) \/ Session!Save(p)
  BY <1>0, <1>2, <1>6, <1>8, AddOwes, AddFacts, SaveFacts
<1>9. CASE Session!Summarise(p)
  BY <1>0, <1>2, <1>6, <1>9, SummariseOwes, SummariseFacts
<1>10. CASE Session!SummaryFails(p)
  BY <1>0, <1>2, <1>6, <1>10, NoSummaryOwes, NoSummaryFacts
<1>11. CASE Session!ArchiveTurns(p)
  BY <1>0, <1>2, <1>6, <1>11, ArchiveOwes, ArchiveFacts
<1>12. CASE Session!Kill(p)
  BY <1>0, <1>2, <1>6, <1>12, KillOwes, KillFacts
<1>13. QED
  BY <1>3, <1>4, <1>5, <1>7, <1>8, <1>9, <1>10, <1>11, <1>12 DEF Step

\* At the start there is nothing.
LEMMA DesignBegins ==
  ASSUME Session!Init
  PROVE  DesignInvariant
<1>0. Session!TypeOK /\ Session!IndicesGrow /\ SessionsSound /\ Control
  BY InitTypes
<1>1. /\ dsFile = Session!NoFile /\ dsArchive = <<>> /\ dsTorn = FALSE /\ dsLock = <<>>
      /\ dsSaved = {}
      /\ dsCompressors = {} /\ dsFails = 0
      /\ \A p \in Chats : /\ dsMem[p] = Session!NoFile /\ dsMain[p] = "rest" /\ dsBack[p] = Session!Rest /\ dsOpen[p] = 0
  BY DEF Session!Init
<1>2. \A p \in Chats : ~Busy(p) /\ ~Session!At(p, "write") /\ ~Session!At(p, "archive")
  BY <1>1, Tuples DEF Busy, Session!At
<1>3. /\ dsFile.turns = <<>> /\ dsFile.arch = 0 /\ dsFile.upto = 0
      /\ Session!IdsOf(dsFile.turns) = {} /\ Session!IdsOf(Session!NoFile.turns) = {}
  BY <1>1, EmptyTypes DEF Session!IdsOf
<1>4. Session!LastIndex = 0
  BY <1>1 DEF Session!LastIndex
<1>5. Opened
  BY <1>1 DEF Opened
<1>6. AllSaved
  BY <1>1, <1>3 DEF AllSaved
<1>7. DiskIsAhead
  <2>1. \A p \in Chats : dsMem[p].arch <= dsFile.arch
    BY <1>1, EmptyTypes
  <2>2. QED
    BY <1>2, <2>1 DEF DiskIsAhead
<1>8. ArchiveInPlace
  <2>1. Session!InPlace(dsFile)
    BY <1>3, <1>4 DEF Session!InPlace
  <2>2. Session!NoTurnLost
    BY <1>1 DEF Session!NoTurnLost
  <2>3. QED
    BY <1>1, <1>2, <1>3, <1>4, <2>1, <2>2 DEF ArchiveInPlace
<1>9. SummariesFollow
  <2>1. Disk = Session!Empty /\ Disk.upto = 0 /\ Disk.covers = {} /\ Disk.arch = 0
    BY <1>1, EmptyTypes DEF Disk
  <2>2. Summed(dsFile, Disk, dsSaved, dsCompressors)
    BY <1>1, <1>3, <2>1 DEF Summed, Covered, CoveredTo
  <2>3. \A p \in Chats : Fit(dsMem[p], dsSaved, Busy(p), Session!At(p, "write"))
    BY <1>1, <1>2 DEF Fit
  <2>4. \A p \in Chats : Follower(dsMem[p], dsFile, Disk, dsBack[p], Busy(p), Session!At(p, "write"))
    BY <1>1, <1>2 DEF Follower
  <2>5. QED
    BY <1>1, <2>2, <2>3, <2>4 DEF SummariesFollow
<1>10. RequestsFollow
  <2>1. Requests(dsFile.turns, Asker)
    BY <1>3 DEF Requests
  <2>2. QED
    BY <1>2, <2>1 DEF RequestsFollow
<1>11. QED
  BY <1>0, <1>5, <1>6, <1>7, <1>8, <1>9, <1>10 DEF DesignInvariant

\* The invariant is kept by every step, one part at a time.
LEMMA DesignKept ==
  ASSUME DesignInvariant, Session!Next
  PROVE  DesignInvariant'
<1>0. /\ Base /\ Opened /\ AllSaved /\ DiskIsAhead /\ ArchiveInPlace /\ SummariesFollow
      /\ RequestsFollow
  BY DEF DesignInvariant, Base
<1>1. PICK p \in Chats : Step(p)
  BY DEF Session!Next, Step
<1>2. Session!TypeOK' /\ Session!IndicesGrow' /\ SessionsSound'
  BY <1>0, TypesKept, SessionsKept DEF Base
<1>3. Control'
  BY <1>0, <1>2, ControlKept DEF Base
<1>4. Base'
  BY <1>2, <1>3 DEF Base
<1>5. Opened'
  BY <1>0, <1>1, <1>4, OpenedKept
<1>6. AllSaved'
  BY <1>0, <1>1, <1>4, AllSavedKept
<1>7. DiskIsAhead'
  BY <1>0, <1>1, <1>4, DiskKept
<1>8. ArchiveInPlace'
  BY <1>0, <1>1, <1>4, ArchiveKept
<1>9. SummariesFollow'
  BY <1>0, <1>1, <1>4, <1>5, SummariesKept
<1>10. RequestsFollow'
  BY <1>0, <1>1, <1>4, RequestsKept
<1>11. QED
  BY <1>2, <1>3, <1>5, <1>6, <1>7, <1>8, <1>9, <1>10 DEF DesignInvariant

\* It speaks of the variables of the session alone.
LEMMA DesignStays ==
  ASSUME DesignInvariant, Session!vars' = Session!vars
  PROVE  DesignInvariant'
<1>1. Session!TypeOK'
  BY DEF DesignInvariant, Session!TypeOK, Session!vars, Session!disk, Session!idle, Session!past
<1>2. Control'
  BY DEF DesignInvariant, Control, LockFollows, DeadRest, WorkHasBegun, FirstWrite, Busy,
     Session!At, Begun,
         Session!vars, Session!disk, Session!idle, Session!past
<1>3. SessionsSound' /\ Session!IndicesGrow'
  BY DEF DesignInvariant, SessionsSound, Sound, Once, Old, End, Session!IndicesGrow,
     Session!vars, Session!disk, Session!idle, Session!past
<1>4. Opened' /\ AllSaved'
  BY DEF DesignInvariant, Opened, AllSaved, Busy, Session!At, Session!IdsOf, Session!vars,
     Session!disk, Session!idle, Session!past
<1>5. DiskIsAhead'
  BY DEF DesignInvariant, DiskIsAhead, NoWriteLost, Extends, Session!At, Session!vars,
     Session!disk, Session!idle, Session!past
<1>6. ArchiveInPlace'
  <2>1. /\ dsFile' = dsFile /\ dsSaved' = dsSaved /\ dsSpoilt' = dsSpoilt /\ dsTorn' = dsTorn
        /\ dsMem' = dsMem
        /\ dsArchive' = dsArchive /\ dsLock' = dsLock /\ dsMain' = dsMain /\ dsBack' = dsBack
    BY DEF Session!vars, Session!disk, Session!idle, Session!past
  <2>2. Session!Archived' = Session!Archived /\ Session!LastIndex' = Session!LastIndex
    BY <2>1 DEF Session!Archived, Session!LastIndex
  <2>3. /\ (Session!NoTurnLost' <=> Session!NoTurnLost)
        /\ (Session!InPlace(dsFile)' <=> Session!InPlace(dsFile))
    BY <2>1, <2>2 DEF Session!NoTurnLost, Session!IdsOf, Session!InPlace
  <2>4. \A p \in Chats : /\ Session!At(p, "write")' <=> Session!At(p, "write")
                         /\ Session!InPlace(dsMem[p])' <=> Session!InPlace(dsMem[p])
    BY <2>1, <2>2 DEF Session!At, Session!InPlace
  <2>5. ArchiveInPlace
    BY DEF DesignInvariant
  <2>6. QED
    BY <2>1, <2>2, <2>3, <2>4, <2>5 DEF ArchiveInPlace, Session!IdsOf
<1>7. SummariesFollow'
  BY DEF DesignInvariant, SummariesFollow, Session!OneCompresses, Summed, Fit, Follower, Leader,
     Covered, CoveredTo,
         Session!IdsOf, Flat, Follows, Extends, Disk, Busy, Session!At, Session!Holds, Session!vars, Session!disk, Session!idle, Session!past
<1>8. RequestsFollow'
  BY DEF DesignInvariant, RequestsFollow, Requests, Asker, Session!IdsOf, Busy, Session!At,
     Session!vars, Session!disk, Session!idle, Session!past
<1>9. QED
  BY <1>1, <1>2, <1>3, <1>4, <1>5, <1>6, <1>7, <1>8 DEF DesignInvariant

\* It says what is claimed: every turn once written is kept.
LEMMA DesignKeepsTurns ==
  ASSUME DesignInvariant
  PROVE  Session!TurnsAreKept
<1>0. /\ Base /\ Opened /\ AllSaved /\ DiskIsAhead /\ ArchiveInPlace /\ SummariesFollow
      /\ RequestsFollow
      /\ Session!TypeOK /\ LockFollows
  BY DEF DesignInvariant, Base, Control
<1>1. ~dsSpoilt => Session!NoTurnLost /\ Session!ArchiveReachesFile
  BY <1>0 DEF ArchiveInPlace, Session!ArchiveReachesFile
<1>2. Session!OneCompresses /\ dsFails = 0 => Session!ArchivedIsSummarised
  <2>1. Session!OneCompresses /\ dsFails = 0 => dsSaved \ Session!IdsOf(dsFile.turns) \subseteq Disk.covers
    BY <1>0 DEF SummariesFollow, Summed
  <2>2. QED
    BY <2>1 DEF Session!ArchivedIsSummarised, Disk
<1>3. ASSUME dsCompressors = {}, dsFails = 0 PROVE Session!OpenIsInProgress /\ Session!InProgressIsOpen
  <2>1. Requests(dsFile.turns, Asker)
    BY <1>0, <1>3 DEF RequestsFollow
  <2>2. \A q \in Chats : dsBack[q] = Session!Rest
    BY <1>0, <1>3, Uncompressed
  <2>3. \A q \in Chats : dsLock # <<q, "back">>
    <3>1. \A q \in Chats : dsBack[q].at \notin Writing
      BY <2>2, RestTypes DEF Writing
    <3>2. QED
      BY <1>0, <3>1, LockNames
  <2>4. dsLock = <<>> \/ \E q \in Chats : dsLock = <<q, "main">>
    BY <1>0, <2>3 DEF Session!TypeOK
  <2>5. \A q \in Chats : q = Asker <=> dsLock = <<q, "main">>
    BY <2>4, SessionConstants, Tuples DEF Asker
  <2>6. Session!OpenIsInProgress
    BY <2>1, <2>5 DEF Session!OpenIsInProgress, Requests
  <2>7. \A k \in DOMAIN dsFile.turns : dsFile.turns[k].owner \in Chats \cup {Nobody}
    <3>1. dsFile.turns \in Seq(Session!Turn)
      BY <1>0, SessionTypes DEF Session!TypeOK
    <3>2. QED
      BY <3>1, TurnTypes DEF Session!Turn
  <2>8. Session!InProgressIsOpen
    BY <2>1, <2>5, <2>7 DEF Session!InProgressIsOpen, Requests
  <2>9. QED
    BY <2>6, <2>8
<1>4. QED
  BY <1>1, <1>2, <1>3 DEF Session!TurnsAreKept, DesignInvariant


==============================================================================
