--------------------------- MODULE ServicesProofs ---------------------------
(***************************************************************************)
(* Proofs about Services, for any kinds, tasks, sessions, threads, calls   *)
(* and bounds: its caps, the tasks it keeps and the answers it hands over. *)
(* Each part has an invariant of its own: Tables (of the triggers),        *)
(* TasksInv, StdioInv and HttpInv, kept by each step of that part.         *)
(***************************************************************************)
EXTENDS Services, FiniteSetTheorems, SequenceTheorems, TLAPS

(* ---- The policy of the triggers, for any kinds, files, windows and cap. *)
(* ---- What the pruned tables still know of the history: a decision is in *)
(* ---- them, or so old that no gate asks for it.                          *)

(* A stamp is the time of a decision, and no later one is missing.         *)
KindTable ==
    /\ \A k \in DOMAIN kindLast : \E e \in hist : e.kind = k /\ e.at = kindLast[k]
    /\ \A e \in hist : \/ now - e.at > MaxWindow
                       \/ e.kind \in DOMAIN kindLast /\ kindLast[e.kind] >= e.at

FileTable ==
    /\ \A x \in DOMAIN fileLast :
           \E e \in hist : x = <<e.file, e.kind>> /\ e.at = fileLast[x]
    /\ \A e \in hist : e.file # NoFile =>
           \/ now - e.at > MaxWindow
           \/ /\ <<e.file, e.kind>> \in DOMAIN fileLast
              /\ fileLast[<<e.file, e.kind>>] >= e.at

FixTable ==
    /\ IsFiniteSet(hist)
    /\ \A e \in autoFix : e.action = "auto_fix"
    /\ \A e \in hist : e.action = "auto_fix" /\ now - e.at < Hour => e \in autoFix

Tables == TypeOK /\ KindTable /\ FileTable /\ FixTable

-----------------------------------------------------------------------------
(* Decisions of the rules are among the actions.                           *)
LEMMA RoutedType ==
  ASSUME NEW k \in Kinds, NEW t \in Tiers
  PROVE  Downgraded(Routed(k), t) \in Actions
BY DEF Downgraded, Routed, Actions, Tiers

(* What a stamp does to a table: the key has the present time, what is     *)
(* within the longest window stays, the rest goes.                         *)
LEMMA StampedTable ==
  ASSUME now \in Nat, NEW table, NEW key,
         \A x \in DOMAIN table : table[x] \in 0 .. now
  PROVE  LET T == Pruned(Stamped(table, key))
         IN  /\ key \in DOMAIN T /\ T[key] = now
             /\ DOMAIN T \subseteq DOMAIN table \cup {key}
             /\ \A x \in DOMAIN T : x # key => T[x] = table[x]
             /\ \A x \in DOMAIN table : table[x] >= now - MaxWindow => x \in DOMAIN T
BY RulesAssumption DEF Pruned, Stamped

LEMMA PrunedTable ==
  ASSUME now \in Nat, NEW table,
         \A x \in DOMAIN table : table[x] \in 0 .. now
  PROVE  LET T == Pruned(table)
         IN  /\ DOMAIN T \subseteq DOMAIN table
             /\ \A x \in DOMAIN T : T[x] = table[x]
             /\ \A x \in DOMAIN table : table[x] >= now - MaxWindow => x \in DOMAIN T
BY RulesAssumption DEF Pruned

-----------------------------------------------------------------------------
LEMMA InitTables == Init => Tables
<1> SUFFICES ASSUME Init PROVE Tables
  OBVIOUS
<1>1. DOMAIN kindLast = {} /\ DOMAIN fileLast = {} /\ hist = {} /\ autoFix = {}
  BY DEF Init
<1>2. TypeOK
  BY <1>1, RulesAssumption DEF Init, TypeOK
<1>3. KindTable /\ FileTable
  BY <1>1 DEF KindTable, FileTable
<1>4. FixTable
  BY <1>1, FS_EmptySet DEF FixTable
<1> QED
  BY <1>2, <1>3, <1>4 DEF Tables

(* A decision other than IGNORE, whatever it is.                           *)
LEMMA EmitTables ==
  ASSUME Tables, NEW k \in Kinds, NEW f \in Sources, NEW action \in Actions,
         Emit(k, f, action), autoFix' \subseteq hist'
  PROVE  TypeOK' /\ KindTable' /\ FileTable'
<1> DEFINE r == Record(k, f, action)
<1> USE RulesAssumption
<1>1. /\ now \in Nat /\ made \in Nat /\ now \in 0 .. MaxTime
      /\ hist \subseteq Event /\ \A e \in hist : e.n \in 1 .. made /\ e.at <= now
      /\ \A x \in DOMAIN kindLast : kindLast[x] \in 0 .. now
      /\ \A x \in DOMAIN fileLast : fileLast[x] \in 0 .. now
  BY DEF Tables, TypeOK
<1>2. /\ r \in Event /\ r.n = made + 1 /\ r.kind = k /\ r.file = f /\ r.at = now
      /\ hist' = hist \cup {r} /\ made' = made + 1 /\ now' = now
  BY <1>1 DEF Emit, Record, Event
<1>3. /\ k \in DOMAIN kindLast' /\ kindLast'[k] = now
      /\ DOMAIN kindLast' \subseteq DOMAIN kindLast \cup {k}
      /\ \A x \in DOMAIN kindLast' : x # k => kindLast'[x] = kindLast[x]
      /\ \A x \in DOMAIN kindLast : kindLast[x] >= now - MaxWindow => x \in DOMAIN kindLast'
  BY <1>1, StampedTable DEF Emit, StampCooldowns
<1>4. CASE f = NoFile
  <2>1. /\ DOMAIN fileLast' \subseteq DOMAIN fileLast
        /\ \A x \in DOMAIN fileLast' : fileLast'[x] = fileLast[x]
        /\ \A x \in DOMAIN fileLast : fileLast[x] >= now - MaxWindow => x \in DOMAIN fileLast'
    BY <1>1, <1>4, PrunedTable DEF Emit, StampCooldowns
  <2>2. TypeOK'
    BY <1>1, <1>2, <1>3, <2>1 DEF Tables, TypeOK, Emit, Sources
  <2>3. KindTable'
    BY <1>1, <1>2, <1>3 DEF Tables, KindTable, Event
  <2>4. FileTable'
    BY <1>1, <1>2, <1>4, <2>1 DEF Tables, FileTable, Event
  <2> QED
    BY <2>2, <2>3, <2>4
<1>5. CASE f # NoFile
  <2>1. /\ <<f, k>> \in DOMAIN fileLast' /\ fileLast'[<<f, k>>] = now
        /\ DOMAIN fileLast' \subseteq DOMAIN fileLast \cup {<<f, k>>}
        /\ \A x \in DOMAIN fileLast' : x # <<f, k>> => fileLast'[x] = fileLast[x]
        /\ \A x \in DOMAIN fileLast : fileLast[x] >= now - MaxWindow => x \in DOMAIN fileLast'
    BY <1>1, <1>5, StampedTable DEF Emit, StampCooldowns
  <2>2. TypeOK'
    <3>1. f \in Files
      BY <1>5 DEF Sources
    <3> QED
      BY <1>1, <1>2, <1>3, <2>1, <3>1 DEF Tables, TypeOK, Emit
  <2>3. KindTable'
    BY <1>1, <1>2, <1>3 DEF Tables, KindTable, Event
  <2>4. FileTable'
    BY <1>1, <1>2, <1>5, <2>1 DEF Tables, FileTable, Event
  <2> QED
    BY <2>2, <2>3, <2>4
<1> QED
  BY <1>4, <1>5

LEMMA NoFixTables ==
  ASSUME Tables, NEW k \in Kinds, NEW f \in Sources, NEW action \in Actions \ {"auto_fix"},
         Emit(k, f, action), autoFix' \in {autoFix, Recent}
  PROVE  Tables'
<1>1. /\ now \in Nat /\ hist \subseteq Event /\ autoFix \subseteq hist
  BY DEF Tables, TypeOK
<1>2. /\ hist' = hist \cup {Record(k, f, action)} /\ now' = now
      /\ Record(k, f, action).action = action
  BY DEF Emit, Record
<1>3. autoFix' \subseteq hist'
  BY <1>1, <1>2 DEF Recent
<1>4. FixTable'
  BY <1>1, <1>2, FS_AddElement DEF Tables, FixTable, Recent
<1> QED
  BY <1>3, <1>4, EmitTables DEF Tables

LEMMA FixTables ==
  ASSUME Tables, NEW k \in Kinds, NEW f \in Sources, Fix(k, f)
  PROVE  Tables'
<1>1. /\ now \in Nat /\ hist \subseteq Event /\ autoFix \subseteq hist
  BY DEF Tables, TypeOK
<1>2. /\ hist' = hist \cup {Record(k, f, "auto_fix")} /\ now' = now
      /\ autoFix' = Recent \cup {Record(k, f, "auto_fix")}
      /\ Record(k, f, "auto_fix").action = "auto_fix"
  BY DEF Fix, Emit, Record
<1>3. autoFix' \subseteq hist'
  BY <1>1, <1>2 DEF Recent
<1>4. FixTable'
  BY <1>1, <1>2, FS_AddElement DEF Tables, FixTable, Recent
<1>5. "auto_fix" \in Actions
  BY DEF Actions
<1> QED
  BY <1>3, <1>4, <1>5, EmitTables DEF Tables, Fix

LEMMA StepTables == Tables /\ [Next]_vars => Tables'
<1> SUFFICES ASSUME Tables, [Next]_vars PROVE Tables'
  OBVIOUS
<1> USE DEF Tables
<1>1. ASSUME NEW k \in Kinds, NEW f \in Sources, Ignore(k, f) PROVE Tables'
  BY <1>1 DEF Ignore, tables, TypeOK, KindTable, FileTable, FixTable
<1>2. ASSUME NEW k \in Kinds, NEW f \in Sources, Decide(k, f) PROVE Tables'
  <2>1. Downgraded(Routed(k), tier) \in Actions \ {"auto_fix"}
    BY <1>2, RoutedType DEF Decide, TypeOK
  <2> QED
    BY <1>2, <2>1, NoFixTables DEF Decide
<1>3. ASSUME NEW k \in Kinds, NEW f \in Sources, Fix(k, f) PROVE Tables'
  BY <1>3, FixTables
<1>4. ASSUME NEW k \in Kinds, NEW f \in Sources, RateLimited(k, f) PROVE Tables'
  <2>1. "notify" \in Actions \ {"auto_fix"}
    BY DEF Actions
  <2> QED
    BY <1>4, <2>1, NoFixTables DEF RateLimited
<1>5. CASE Tick
  <2>1. /\ now \in Nat /\ now' = now + 1 /\ now' \in 0 .. MaxTime
        /\ 0 .. now \subseteq 0 .. now' /\ hist \subseteq Event
    BY <1>5, RulesAssumption DEF Tick, TypeOK
  <2>2. UNCHANGED <<tier, enabled, tables, hist, made>> /\ answer' = NoAnswer
    BY <1>5 DEF Tick
  <2>3. TypeOK'
    BY <2>1, <2>2 DEF TypeOK, Event, tables
  <2>4. KindTable' /\ FileTable'
    BY <2>1, <2>2, RulesAssumption DEF KindTable, FileTable, Event, tables
  <2>5. FixTable'
    BY <2>1, <2>2, RulesAssumption DEF FixTable, Event, tables
  <2> QED
    BY <2>3, <2>4, <2>5
<1>6. CASE SetTier
  BY <1>6 DEF SetTier, tables, TypeOK, KindTable, FileTable, FixTable
<1>7. CASE SetFeatures
  BY <1>7 DEF SetFeatures, tables, TypeOK, KindTable, FileTable, FixTable
<1>8. CASE UNCHANGED vars
  BY <1>8 DEF vars, tables, TypeOK, KindTable, FileTable, FixTable
<1> QED
  BY <1>1, <1>2, <1>3, <1>4, <1>5, <1>6, <1>7, <1>8 DEF Next

(* Every reachable state is well typed, and its tables know of the history *)
(* all that can gate a decision.                                           *)
THEOREM TablesHold == Spec => []Tables
<1>1. Init => Tables
  BY InitTables
<1>2. Tables /\ [Next]_vars => Tables'
  BY StepTables
<1> QED
  BY <1>1, <1>2, PTL DEF Spec

(* The types are part of it.                                               *)
THEOREM TypeCorrect == Spec => []TypeOK
<1>1. Tables => TypeOK
  BY DEF Tables
<1> QED
  BY <1>1, TablesHold, PTL

-----------------------------------------------------------------------------
(* The gates of the tables and of the history are the same.                *)
LEMMA SilencedByHistory ==
  ASSUME Tables, NEW k \in Kinds, NEW f \in Sources
  PROVE  Silenced(k, f) <=> History!Silenced(k, f)
<1> USE RulesAssumption
<1>1. /\ now \in Nat /\ hist \subseteq Event
      /\ KindWindow[k] \in Nat /\ KindWindow[k] <= MaxWindow
      /\ \A x \in DOMAIN kindLast : kindLast[x] \in 0 .. now
      /\ \A x \in DOMAIN fileLast : fileLast[x] \in 0 .. now
  BY DEF Tables, TypeOK
<1>2. Gated(kindLast, k, KindWindow[k]) <=>
        \E e \in hist : e.kind = k /\ now - e.at < KindWindow[k]
  BY <1>1 DEF Tables, KindTable, Gated, Event
<1>3. ASSUME f # NoFile
      PROVE  Gated(fileLast, <<f, k>>, FileWindow) <=>
               \E e \in hist : e.kind = k /\ e.file = f /\ now - e.at < FileWindow
  BY <1>1, <1>3 DEF Tables, FileTable, Gated, Event
<1>4. Feature(k) = History!Feature(k)
  BY DEF Feature, History!Feature
<1> QED
  BY <1>2, <1>3, <1>4 DEF Silenced, History!Silenced, History!Within

(* Both specifications route and downgrade alike.                          *)
LEMMA SameRules ==
  ASSUME NEW k \in Kinds
  PROVE  History!Downgraded(History!Routed(k), tier) = Downgraded(Routed(k), tier)
<1>1. History!Routed(k) = Routed(k)
  BY DEF History!Routed, Routed
<1>2. ASSUME NEW a PROVE History!Downgraded(a, tier) = Downgraded(a, tier)
  BY DEF History!Downgraded, Downgraded
<1> QED
  BY <1>1, <1>2

(* Both specifications count alike.                                        *)
LEMMA SameCount == Capped <=> History!Cardinality(Recent) >= AutoFixPerHour
<1>1. ASSUME NEW S PROVE History!Cardinality(S) = Cardinality(S)
  BY DEF History!Cardinality, Cardinality
<1> QED
  BY <1>1 DEF Capped

(* What the history makes of a fix.                                        *)
LEMMA DecidedFix ==
  ASSUME NEW k \in Kinds, Downgraded(Routed(k), tier) = "auto_fix"
  PROVE  /\ History!HourIsFull => History!Decided(k) = "notify"
         /\ ~History!HourIsFull => History!Decided(k) = "auto_fix"
BY SameRules DEF History!Decided

(* The fixes still listed are those of the last hour.                      *)
LEMMA RecentByHistory == ASSUME Tables PROVE Recent = History!FixesOfHour
BY DEF Tables, TypeOK, FixTable, Recent, History!FixesOfHour

(* Every decision made with the pruned tables is the one the whole history *)
(* asks for: nothing that still gates is dropped and nothing else silences *)
(* an event (trigger_policy.py:135-221).                                   *)
THEOREM HistoryRefined == Spec => DecidesByHistory
<1> USE DEF History!Feature, Feature, History!Features, Features, History!Sources, Sources,
            History!Tiers, Tiers, History!NoAnswer, NoAnswer
<1>1. Init => History!Init
  BY DEF Init, History!Init
<1>2. ASSUME Tables, [Next]_vars PROVE [History!Next]_(History!vars)
  <2>1. ASSUME NEW k \in Kinds, NEW f \in Sources, Ignore(k, f) PROVE History!Ignore(k, f)
    BY <1>2, <2>1, SilencedByHistory DEF Ignore, History!Ignore
  <2>2. ASSUME NEW k \in Kinds, NEW f \in Sources, Decide(k, f) PROVE History!Decide(k, f)
    <3>1. /\ ~History!Silenced(k, f)
          /\ Downgraded(Routed(k), tier) # "auto_fix"
          /\ Emit(k, f, Downgraded(Routed(k), tier))
      BY <1>2, <2>2, SilencedByHistory DEF Decide
    <3>2. History!Decided(k) = Downgraded(Routed(k), tier)
      BY <3>1, SameRules DEF History!Decided
    <3> QED
      BY <3>1, <3>2 DEF Emit, Record, History!Decide
  <2>3. ASSUME NEW k \in Kinds, NEW f \in Sources, Fix(k, f) PROVE History!Decide(k, f)
    <3>1. /\ ~History!Silenced(k, f)
          /\ Downgraded(Routed(k), tier) = "auto_fix" /\ Emit(k, f, "auto_fix")
          /\ ~History!HourIsFull
      BY <1>2, <2>3, SilencedByHistory, RecentByHistory, SameCount DEF Fix, History!HourIsFull
    <3>2. History!Decided(k) = "auto_fix"
      BY <3>1, DecidedFix
    <3> QED
      BY <3>1, <3>2 DEF Emit, Record, History!Decide
  <2>4. ASSUME NEW k \in Kinds, NEW f \in Sources, RateLimited(k, f) PROVE History!Decide(k, f)
    <3>1. /\ ~History!Silenced(k, f)
          /\ Downgraded(Routed(k), tier) = "auto_fix" /\ Emit(k, f, "notify")
          /\ History!HourIsFull
      BY <1>2, <2>4, SilencedByHistory, RecentByHistory, SameCount DEF RateLimited, History!HourIsFull
    <3>2. History!Decided(k) = "notify"
      BY <3>1, DecidedFix
    <3> QED
      BY <3>1, <3>2 DEF Emit, Record, History!Decide
  <2>5. CASE Tick
    BY <2>5 DEF Tick, History!Tick, History!Next
  <2>6. CASE SetTier
    BY <2>6 DEF SetTier, History!SetTier, History!Next
  <2>7. CASE SetFeatures
    BY <2>7 DEF SetFeatures, History!SetFeatures, History!Next
  <2>8. CASE UNCHANGED vars
    BY <2>8 DEF vars, History!vars
  <2> QED
    BY <1>2, <2>1, <2>2, <2>3, <2>4, <2>5, <2>6, <2>7, <2>8 DEF Next, History!Next
<1> QED
  BY <1>1, <1>2, TablesHold, PTL DEF Spec, DecidesByHistory, History!Spec

-----------------------------------------------------------------------------
(* The cooldowns.                                                          *)
LEMMA SpacedEmit ==
  ASSUME Tables, EmissionsSpaced, NEW k \in Kinds, NEW f \in Sources, NEW action \in Actions,
         ~Silenced(k, f), Emit(k, f, action)
  PROVE  EmissionsSpaced'
<1> DEFINE r == Record(k, f, action)
<1> USE RulesAssumption
<1>1. /\ now \in Nat /\ made \in Nat /\ hist \subseteq Event
      /\ \A e \in hist : e.n \in 1 .. made /\ e.at <= now
  BY DEF Tables, TypeOK
<1>2. /\ r.n = made + 1 /\ r.kind = k /\ r.file = f /\ r.at = now
      /\ hist' = hist \cup {r}
  BY DEF Emit, Record
<1>3. \A e \in hist : e.kind = k =>
        /\ ~(now - e.at < KindWindow[k])
        /\ f # NoFile /\ e.file = f => ~(now - e.at < FileWindow)
  BY SilencedByHistory DEF History!Silenced, History!Within
<1>4. ASSUME NEW d \in hist', NEW e \in hist', d.kind = e.kind, d.n < e.n
      PROVE  /\ e.at - d.at >= KindWindow[e.kind]
             /\ d.file = e.file /\ e.file # NoFile => e.at - d.at >= FileWindow
  <2>1. CASE e \in hist /\ d \in hist
    BY <1>4, <2>1 DEF EmissionsSpaced
  <2>2. CASE e = r /\ d \in hist
    BY <1>1, <1>2, <1>3, <1>4, <2>2 DEF Event
  <2>3. d = r => FALSE
    BY <1>1, <1>2, <1>4
  <2> QED
    BY <1>2, <2>1, <2>2, <2>3
<1> QED
  BY <1>4 DEF EmissionsSpaced

(* Two decisions about one kind, or about one file and kind, are never     *)
(* closer than their window, pruning or not (147-161, 208-221).            *)
THEOREM CooldownsHold == Spec => []EmissionsSpaced
<1>1. Init => EmissionsSpaced
  BY DEF Init, EmissionsSpaced
<1>2. ASSUME Tables, EmissionsSpaced, [Next]_vars PROVE EmissionsSpaced'
  <2>1. ASSUME NEW k \in Kinds, NEW f \in Sources, Ignore(k, f) PROVE EmissionsSpaced'
    BY <1>2, <2>1 DEF Ignore, EmissionsSpaced
  <2>2. ASSUME NEW k \in Kinds, NEW f \in Sources, Decide(k, f) PROVE EmissionsSpaced'
    <3>1. Downgraded(Routed(k), tier) \in Actions
      BY <1>2, RoutedType DEF Tables, TypeOK
    <3> QED
      BY <1>2, <2>2, <3>1, SpacedEmit DEF Decide
  <2>3. ASSUME NEW k \in Kinds, NEW f \in Sources, Fix(k, f) \/ RateLimited(k, f)
        PROVE  EmissionsSpaced'
    <3>1. {"auto_fix", "notify"} \subseteq Actions
      BY DEF Actions
    <3> QED
      BY <1>2, <2>3, <3>1, SpacedEmit DEF Fix, RateLimited
  <2>4. CASE Tick \/ SetTier \/ SetFeatures \/ UNCHANGED vars
    BY <1>2, <2>4 DEF Tick, SetTier, SetFeatures, vars, EmissionsSpaced
  <2> QED
    BY <1>2, <2>1, <2>2, <2>3, <2>4 DEF Next
<1> QED
  BY <1>1, <1>2, TablesHold, PTL DEF Spec

-----------------------------------------------------------------------------
(* The cap of fixes.                                                       *)
FixesIn(h, t) == {e \in h : e.action = "auto_fix" /\ t - Hour < e.at /\ e.at <= t}

LEMMA FixBounded ==
  ASSUME Tables, AutoFixBounded, NEW k \in Kinds, NEW f \in Sources, Fix(k, f),
         NEW t \in 0 .. MaxTime
  PROVE  Cardinality(FixesIn(hist', t)) <= AutoFixPerHour
<1> DEFINE r == Record(k, f, "auto_fix")
<1> USE RulesAssumption
<1>1. /\ now \in Nat /\ hist \subseteq Event /\ \A e \in hist : e.at <= now
      /\ autoFix \subseteq hist /\ IsFiniteSet(hist)
  BY DEF Tables, TypeOK, FixTable
<1>2. r.at = now /\ hist' = hist \cup {r}
  BY DEF Fix, Emit, Record
<1>3. CASE t < now
  <2>1. FixesIn(hist', t) = FixesIn(hist, t)
    BY <1>1, <1>2, <1>3 DEF FixesIn
  <2> QED
    BY <2>1 DEF AutoFixBounded, FixesIn
<1>4. CASE t >= now
  <2>1. FixesIn(hist', t) \subseteq Recent \cup {r}
    BY <1>1, <1>2, <1>4 DEF Tables, FixTable, FixesIn, Recent, Event
  <2>2. IsFiniteSet(Recent)
    BY <1>1, FS_Subset DEF Recent
  <2>3. Cardinality(Recent) \in Nat /\ Cardinality(Recent) < AutoFixPerHour
    BY <2>2, FS_CardinalityType DEF Fix, Capped
  <2>4. /\ IsFiniteSet(Recent \cup {r})
        /\ Cardinality(Recent \cup {r}) \in Nat
        /\ Cardinality(Recent \cup {r}) <= AutoFixPerHour
    <3>1. /\ IsFiniteSet(Recent \cup {r})
          /\ Cardinality(Recent \cup {r}) =
               IF r \in Recent THEN Cardinality(Recent) ELSE Cardinality(Recent) + 1
      BY <2>2, FS_AddElement
    <3>2. AutoFixPerHour \in Nat
      OBVIOUS
    <3> HIDE DEF r
    <3> QED
      BY <2>3, <3>1, <3>2
  <2>5. /\ Cardinality(FixesIn(hist', t)) <= Cardinality(Recent \cup {r})
        /\ IsFiniteSet(FixesIn(hist', t))
    BY <2>1, <2>4, FS_Subset
  <2>6. Cardinality(FixesIn(hist', t)) \in Nat
    BY <2>5, FS_CardinalityType
  <2> QED
    BY <2>4, <2>5, <2>6
<1> QED
  BY <1>1, <1>3, <1>4

(* No hour, whenever it begins, sees more fixes than the cap (187-200).    *)
THEOREM CapHolds == Spec => []AutoFixBounded
<1>1. Init => AutoFixBounded
  <2>1. ASSUME Init PROVE \A t : FixesIn(hist, t) = {}
    BY <2>1 DEF Init, FixesIn
  <2> QED
    BY <2>1, FS_EmptySet, RulesAssumption DEF AutoFixBounded, FixesIn
<1>2. ASSUME Tables, AutoFixBounded, [Next]_vars PROVE AutoFixBounded'
  <2>1. ASSUME NEW k \in Kinds, NEW f \in Sources, Fix(k, f) PROVE AutoFixBounded'
    BY <1>2, <2>1, FixBounded DEF AutoFixBounded, FixesIn
  <2>2. ASSUME NEW k \in Kinds, NEW f \in Sources, NEW action \in Actions \ {"auto_fix"},
               Emit(k, f, action)
        PROVE  AutoFixBounded'
    <3>1. ASSUME NEW t PROVE FixesIn(hist', t) = FixesIn(hist, t)
      <4>1. hist' = hist \cup {Record(k, f, action)} /\ Record(k, f, action).action # "auto_fix"
        BY <2>2 DEF Emit, Record
      <4> QED
        BY <4>1 DEF FixesIn
    <3> QED
      BY <1>2, <3>1 DEF AutoFixBounded, FixesIn
  <2>3. ASSUME NEW k \in Kinds, NEW f \in Sources, Decide(k, f) PROVE AutoFixBounded'
    <3>1. Downgraded(Routed(k), tier) \in Actions \ {"auto_fix"}
      BY <1>2, <2>3, RoutedType DEF Decide, Tables, TypeOK
    <3> QED
      BY <2>2, <2>3, <3>1 DEF Decide
  <2>4. ASSUME NEW k \in Kinds, NEW f \in Sources, RateLimited(k, f) PROVE AutoFixBounded'
    <3>1. "notify" \in Actions \ {"auto_fix"}
      BY DEF Actions
    <3> QED
      BY <2>2, <2>4, <3>1 DEF RateLimited
  <2>5. ASSUME UNCHANGED hist PROVE AutoFixBounded'
    BY <1>2, <2>5 DEF AutoFixBounded
  <2> QED
    BY <1>2, <2>1, <2>3, <2>4, <2>5 DEF Next, Ignore, Tick, SetTier, SetFeatures, vars
<1> QED
  BY <1>1, <1>2, TablesHold, PTL DEF Spec

-----------------------------------------------------------------------------
(* ---- The tasks of the autonomous runner. ---- *)

(* An instance has its own copies of the operators on sets.                *)
LEMMA Counting ==
  /\ \A S : Tasks!Cardinality(S) = Cardinality(S)
  /\ \A S : Http!Cardinality(S) = Cardinality(S)
  /\ \A S : Stdio!Cardinality(S) = Cardinality(S)
BY DEF Cardinality, Tasks!Cardinality, Http!Cardinality, Stdio!Cardinality

(* A set that has at most one element more than another.                   *)
LEMMA OneMore ==
  ASSUME NEW S, IsFiniteSet(S), NEW x, NEW T, T \subseteq S \cup {x}
  PROVE  /\ IsFiniteSet(T) /\ Cardinality(T) \in Nat
         /\ Cardinality(T) <= Cardinality(S) + 1
<1>1. /\ IsFiniteSet(S \cup {x})
      /\ Cardinality(S \cup {x}) \in {Cardinality(S), Cardinality(S) + 1}
  BY FS_AddElement
<1>2. /\ IsFiniteSet(T) /\ Cardinality(T) <= Cardinality(S \cup {x})
      /\ Cardinality(T) \in Nat /\ Cardinality(S) \in Nat
  BY <1>1, FS_Subset, FS_CardinalityType
<1> QED
  BY <1>1, <1>2

(* The bounds of the queue.                                                *)
LEMMA TasksBounds ==
  /\ NoTaskFile \notin TaskFiles /\ Priorities \subseteq Nat
  /\ TaskSlots \in Nat \ {0} /\ MaxPending \in Nat \ {0}
  /\ MaxTasks \in Nat /\ MaxStops \in Nat
BY ServicesAssumption DEF Tasks!NamesAssumption, Tasks!BoundsAssumption

(* The two halves of TypeOK: the tasks, and the flags and the loops.       *)
TasksTyped ==
    /\ aqCounter \in 0 .. MaxTasks
    /\ aqQueue \subseteq Tasks!Task /\ aqExec \subseteq Tasks!Task /\ aqFreeing \subseteq Tasks!Task
    /\ \A t, u \in aqQueue \cup aqExec \cup aqFreeing :
          t.id <= aqCounter /\ (t.id = u.id => t = u)
    /\ aqNewest \in [TaskFiles -> 0 .. aqCounter]
    /\ aqRunning \in Nat

FlagsTyped ==
    /\ aqWake \in BOOLEAN /\ aqUp \in BOOLEAN /\ aqStopping \in BOOLEAN
    /\ aqStops \in 0 .. MaxStops
    /\ aqLoop \in [DrainLoops -> {"unborn", "test", "clear", "get", "wait", "ended"}]

(* They are TypeOK; the flags are apart because Booleans need Zenon.       *)
LEMMA TasksTypeOK == Tasks!TypeOK <=> TasksTyped /\ FlagsTyped
BY Zenon DEF Tasks!TypeOK, TasksTyped, FlagsTyped

(* A task waits or is at work, not both, and one at work is older than the *)
(* one that waits for its file.                                            *)
TasksApart ==
    /\ IsFiniteSet(aqQueue) /\ IsFiniteSet(aqExec)
    /\ aqQueue \cap aqExec = {}
    /\ \A u \in aqExec : u.file \in TaskFiles =>
           aqNewest[u.file] = 0 \/ u.id < aqNewest[u.file]

TasksInv ==
    /\ TasksTyped /\ FlagsTyped /\ TasksApart
    /\ Tasks!SlotsCounted /\ Tasks!MapTracksPending /\ Tasks!PendingBounded

(* The empty queue.                                                        *)
LEMMA InitTasks == Tasks!Init => TasksInv
<1> SUFFICES ASSUME Tasks!Init PROVE TasksInv
  OBVIOUS
<1> USE TasksBounds, Counting DEF Tasks!Init
<1>1. TasksTyped
  BY DEF TasksTyped
<1>2. FlagsTyped
  <2>1. aqWake \in BOOLEAN /\ aqUp \in BOOLEAN /\ aqStopping \in BOOLEAN
    BY Zenon
  <2> QED
    BY <2>1 DEF FlagsTyped
<1>3. TasksApart
  BY FS_EmptySet DEF TasksApart
<1>4. Tasks!SlotsCounted
  BY FS_EmptySet DEF Tasks!SlotsCounted
<1>5. Tasks!MapTracksPending
  BY DEF Tasks!MapTracksPending
<1>6. Tasks!Pending = {}
  BY DEF Tasks!Pending
<1>7. Tasks!PendingBounded
  BY <1>6, FS_EmptySet DEF Tasks!PendingBounded
<1> QED
  BY <1>1, <1>2, <1>3, <1>4, <1>5, <1>7 DEF TasksInv

(* What a purge or a scan drops is dead, and the cap holds: a successor is *)
(* let in for the task it supersedes.                                      *)
LEMMA EnqueueKeeps ==
  ASSUME TasksInv, NEW f \in TaskFiles \cup {NoTaskFile}, NEW p \in Priorities,
         Tasks!Enqueue(f, p)
  PROVE  /\ TasksInv'
         /\ \A t \in Tasks!Pending :
                \/ t \in Tasks!Pending'
                \/ t.file # NoTaskFile /\ aqNewest'[t.file] > t.id
<1> DEFINE purged == IF Tasks!Admitted(f, aqQueue) THEN aqQueue ELSE Tasks!Pending
           new == [id |-> aqCounter + 1, file |-> f, priority |-> p]
<1> USE TasksBounds
<1>1. /\ purged \subseteq aqQueue /\ Tasks!Pending \subseteq purged
      /\ IsFiniteSet(purged) /\ IsFiniteSet(Tasks!Pending)
      /\ UNCHANGED <<aqRunning, aqExec, aqFreeing, aqUp, aqStops, aqStopping, aqLoop>>
  <2>1. Tasks!Pending \subseteq aqQueue
    BY DEF Tasks!Pending
  <2>2. IsFiniteSet(Tasks!Pending) /\ IsFiniteSet(aqQueue)
    BY <2>1, FS_Subset DEF TasksInv, TasksApart
  <2>3. UNCHANGED <<aqRunning, aqExec, aqFreeing, aqUp, aqStops, aqStopping, aqLoop>>
    BY DEF Tasks!Enqueue, Tasks!slots, Tasks!life
  <2> QED
    BY <2>1, <2>2, <2>3
<1>2. CASE ~Tasks!Admitted(f, purged)
  <2>1. purged = Tasks!Pending /\ aqQueue' = Tasks!Pending /\ UNCHANGED <<aqCounter, aqNewest, aqWake>>
    BY <1>2 DEF Tasks!Enqueue
  <2>2. Tasks!Pending' = Tasks!Pending
    BY <2>1 DEF Tasks!Pending, Tasks!Live
  <2>3. TasksTyped' /\ TasksApart'
    BY <1>1, <2>1 DEF TasksInv, TasksTyped, TasksApart
  <2>4. FlagsTyped'
    BY <1>1, <2>1, Zenon DEF TasksInv, FlagsTyped
  <2>5. Tasks!MapTracksPending'
    BY <1>1, <2>1 DEF TasksInv, Tasks!MapTracksPending, Tasks!Pending, Tasks!Live
  <2>6. Tasks!SlotsCounted'
    BY <1>1 DEF TasksInv, Tasks!SlotsCounted
  <2>7. Tasks!PendingBounded'
    BY <2>2 DEF TasksInv, Tasks!PendingBounded
  <2> QED
    BY <2>2, <2>3, <2>4, <2>5, <2>6, <2>7 DEF TasksInv
<1>3. CASE Tasks!Admitted(f, purged)
  <2>1. /\ aqCounter \in 0 .. MaxTasks /\ aqCounter < MaxTasks /\ aqCounter' = aqCounter + 1
        /\ aqQueue' = purged \cup {new}
        /\ aqNewest' = [g \in TaskFiles |-> IF g = f THEN aqCounter + 1 ELSE aqNewest[g]]
        /\ aqWake' = TRUE
    BY <1>3 DEF TasksInv, TasksTyped, Tasks!Enqueue, Tasks!NextId
  <2>2. /\ new \in Tasks!Task
        /\ \A t \in aqQueue \cup aqExec \cup aqFreeing :
               /\ t \in Tasks!Task /\ t.id \in Nat /\ t.id # 0 /\ t.id <= aqCounter
               /\ t.file \in TaskFiles \cup {NoTaskFile}
        /\ aqNewest \in [TaskFiles -> 0 .. aqCounter]
    BY <2>1 DEF TasksInv, TasksTyped, Tasks!Task, Tasks!Ids
  <2>3. TasksTyped'
    <3>1. /\ aqCounter' \in 0 .. MaxTasks
          /\ aqNewest' \in [TaskFiles -> 0 .. aqCounter']
      BY <2>1, <2>2
    <3>2. aqQueue' \cup aqExec' \cup aqFreeing' \subseteq (aqQueue \cup aqExec \cup aqFreeing) \cup {new}
      BY <1>1, <2>1
    <3>3. \A t, u \in aqQueue' \cup aqExec' \cup aqFreeing' :
             t.id <= aqCounter' /\ (t.id = u.id => t = u)
      BY <2>1, <2>2, <3>2 DEF TasksInv, TasksTyped
    <3> QED
      BY <1>1, <2>1, <2>2, <3>1, <3>3 DEF TasksInv, TasksTyped
  <2>4. FlagsTyped'
    <3>1. aqWake' \in BOOLEAN /\ aqUp' \in BOOLEAN /\ aqStopping' \in BOOLEAN
      BY <1>1, <2>1, Zenon DEF TasksInv, FlagsTyped
    <3> QED
      BY <1>1, <3>1 DEF TasksInv, FlagsTyped
  <2>5. TasksApart'
    <3>1. IsFiniteSet(aqQueue')
      BY <1>1, <2>1, FS_AddElement
    <3>2. aqQueue' \cap aqExec' = {}
      BY <1>1, <2>1, <2>2 DEF TasksInv, TasksApart
    <3>3. ASSUME NEW u \in aqExec', u.file \in TaskFiles
          PROVE  aqNewest'[u.file] = 0 \/ u.id < aqNewest'[u.file]
      BY <1>1, <2>1, <2>2, <3>3 DEF TasksInv, TasksApart
    <3> QED
      BY <1>1, <3>1, <3>2, <3>3 DEF TasksInv, TasksApart
  <2>6. Tasks!MapTracksPending'
    <3> SUFFICES ASSUME NEW g \in TaskFiles
                 PROVE  /\ aqNewest'[g] # 0 => \E t \in aqQueue' : t.id = aqNewest'[g] /\ t.file = g
                        /\ \A t \in aqQueue' : t.file = g => t.id <= aqNewest'[g] \/ aqNewest'[g] = 0
      BY DEF Tasks!MapTracksPending
    <3>1. CASE g = f
      <4>1. aqNewest'[g] = aqCounter + 1 /\ new \in aqQueue' /\ new.id = aqCounter + 1 /\ new.file = g
        BY <2>1, <3>1
      <4>2. \A t \in aqQueue' : t.id <= aqCounter + 1
        BY <1>1, <2>1, <2>2
      <4> QED
        BY <4>1, <4>2
    <3>2. CASE g # f
      <4>1. aqNewest'[g] = aqNewest[g] /\ new.file # g
        BY <2>1, <3>2
      <4>2. \A t \in aqQueue : t.id = aqNewest[g] /\ t.file = g => t \in aqQueue'
        BY <1>1, <2>1 DEF Tasks!Pending, Tasks!Live
      <4> QED
        BY <1>1, <2>1, <4>1, <4>2 DEF TasksInv, Tasks!MapTracksPending
    <3> QED
      BY <3>1, <3>2
  <2>7. \A t \in aqQueue : t.file # f \/ f = NoTaskFile =>
            (t \in Tasks!Pending <=> t \in purged /\ t \in Tasks!Pending')
    BY <1>1, <2>1, <2>2 DEF Tasks!Pending, Tasks!Live
  <2>8. \A t \in aqQueue : t.file = f /\ f # NoTaskFile =>
            t \notin Tasks!Pending' /\ aqNewest'[f] > t.id
    BY <2>1, <2>2 DEF Tasks!Pending, Tasks!Live
  <2>9. \A t \in Tasks!Pending :
            \/ t \in Tasks!Pending'
            \/ t.file # NoTaskFile /\ aqNewest'[t.file] > t.id
    <3> TAKE t \in Tasks!Pending
    <3>1. t \in aqQueue
      BY DEF Tasks!Pending
    <3>2. CASE t.file # f \/ f = NoTaskFile
      BY <2>7, <3>1, <3>2
    <3>3. CASE t.file = f /\ f # NoTaskFile
      BY <2>8, <3>1, <3>3
    <3> QED
      BY <3>2, <3>3
  <2>10. Tasks!Pending' \subseteq purged \cup {new}
    BY <2>1 DEF Tasks!Pending
  <2>11. Tasks!PendingBounded'
    <3>1. CASE f \in TaskFiles /\ aqNewest[f] # 0
      <4>1. PICK old \in aqQueue : old.id = aqNewest[f] /\ old.file = f
        BY <3>1 DEF TasksInv, Tasks!MapTracksPending
      <4>2. old \in Tasks!Pending
        BY <4>1 DEF Tasks!Pending, Tasks!Live
      <4> DEFINE left == Tasks!Pending \ {old}
      <4>3. Tasks!Pending' \subseteq left \cup {new}
        BY <1>1, <2>7, <2>8, <2>10, <3>1, <4>1
      <4>4. IsFiniteSet(left) /\ Cardinality(left) = Cardinality(Tasks!Pending) - 1
        BY <1>1, <4>2, FS_RemoveElement
      <4>5. Cardinality(Tasks!Pending') <= Cardinality(left) + 1
        BY <4>3, <4>4, OneMore
      <4>6. Cardinality(Tasks!Pending) \in Nat /\ Cardinality(Tasks!Pending') \in Nat
        <5>1. Cardinality(Tasks!Pending) \in Nat
          BY <1>1, FS_CardinalityType
        <5>2. Cardinality(Tasks!Pending') \in Nat
          BY <4>3, <4>4, OneMore
        <5> QED
          BY <5>1, <5>2
      <4> QED
        BY <4>4, <4>5, <4>6, Counting DEF TasksInv, Tasks!PendingBounded
    <3>2. CASE Cardinality(purged) < MaxPending
      <4>1. Cardinality(purged) \in Nat
        BY <1>1, FS_CardinalityType
      <4>2. Cardinality(Tasks!Pending') \in Nat /\ Cardinality(Tasks!Pending') <= Cardinality(purged) + 1
        BY <1>1, <2>10, OneMore
      <4> QED
        BY <3>2, <4>1, <4>2, Counting DEF Tasks!PendingBounded
    <3> QED
      BY <1>3, <3>1, <3>2, Counting DEF Tasks!Admitted
  <2>12. Tasks!SlotsCounted'
    BY <1>1 DEF TasksInv, Tasks!SlotsCounted
  <2> QED
    BY <2>3, <2>4, <2>5, <2>6, <2>9, <2>11, <2>12 DEF TasksInv
<1> QED
  BY <1>2, <1>3

(* What the scan of get_nowait keeps: the newest task of every file.       *)
LEMMA ScanKeeps ==
  ASSUME TasksInv
  PROVE  /\ Tasks!Pending \subseteq aqQueue /\ IsFiniteSet(Tasks!Pending)
         /\ \A f \in TaskFiles : aqNewest[f] # 0 =>
                \E t \in Tasks!Pending : t.id = aqNewest[f] /\ t.file = f
<1>1. Tasks!Pending \subseteq aqQueue
  BY DEF Tasks!Pending
<1>2. IsFiniteSet(Tasks!Pending)
  BY <1>1, FS_Subset DEF TasksInv, TasksApart
<1>3. \A f \in TaskFiles : aqNewest[f] # 0 =>
         \E t \in Tasks!Pending : t.id = aqNewest[f] /\ t.file = f
  BY DEF TasksInv, Tasks!MapTracksPending, Tasks!Pending, Tasks!Live
<1> QED
  BY <1>1, <1>2, <1>3

(* get_nowait with a task: nothing pending is dropped, what starts is the  *)
(* newest of its file, and a slot is free for it.                          *)
LEMMA GetTaskKeeps ==
  ASSUME TasksInv, NEW l \in DrainLoops, Tasks!GetTask(l)
  PROVE  /\ TasksInv'
         /\ \A t \in Tasks!Pending : t \in Tasks!Pending' \/ t \in aqExec'
         /\ \A t \in aqExec' \ aqExec : t.file # NoTaskFile =>
                \A u \in aqQueue \cup aqExec : u # t /\ u.file = t.file => u.id < t.id
<1>1. PICK t \in Tasks!Claimable :
         /\ aqQueue' = Tasks!Pending \ {t}
         /\ aqNewest' = [f \in TaskFiles |-> IF f = t.file THEN 0 ELSE aqNewest[f]]
         /\ aqRunning' = aqRunning + 1
         /\ aqExec' = aqExec \cup {t}
  BY DEF Tasks!GetTask, Tasks!Requeued, Tasks!Untracked
<1>2. /\ t \in Tasks!Pending /\ t \in aqQueue /\ aqRunning < TaskSlots
      /\ t.file = NoTaskFile \/ aqNewest[t.file] = t.id
  BY DEF Tasks!Claimable, Tasks!SlotFree, Tasks!Pending, Tasks!Live
<1>3. UNCHANGED <<aqCounter, aqFreeing, aqWake, aqUp, aqStops, aqStopping>>
  BY DEF Tasks!GetTask, Tasks!life
<1>4. /\ \A v \in aqQueue \cup aqExec \cup aqFreeing :
            /\ v \in Tasks!Task /\ v.id \in Nat /\ v.id # 0 /\ v.id <= aqCounter
            /\ v.file \in TaskFiles \cup {NoTaskFile}
      /\ \A v, w \in aqQueue \cup aqExec \cup aqFreeing : v.id = w.id => v = w
      /\ aqCounter \in 0 .. MaxTasks /\ aqNewest \in [TaskFiles -> 0 .. aqCounter]
      /\ aqRunning \in Nat
  BY TasksBounds DEF TasksInv, TasksTyped, Tasks!Task, Tasks!Ids
<1>5. Tasks!Pending \subseteq aqQueue /\ IsFiniteSet(Tasks!Pending)
  BY ScanKeeps
<1>6. TasksTyped'
  <2>1. aqQueue' \cup aqExec' \cup aqFreeing' \subseteq aqQueue \cup aqExec \cup aqFreeing
    BY <1>1, <1>2, <1>3, <1>5
  <2>2. aqNewest' \in [TaskFiles -> 0 .. aqCounter']
    BY <1>1, <1>3, <1>4
  <2> QED
    BY <1>1, <1>3, <1>4, <2>1, <2>2 DEF TasksTyped
<1>7. FlagsTyped'
  <2>1. aqWake' \in BOOLEAN /\ aqUp' \in BOOLEAN /\ aqStopping' \in BOOLEAN
    BY <1>3, Zenon DEF TasksInv, FlagsTyped
  <2> QED
    BY <1>3, <2>1 DEF TasksInv, FlagsTyped, Tasks!GetTask, Tasks!Goes
<1>8. TasksApart'
  <2>1. IsFiniteSet(aqQueue') /\ IsFiniteSet(aqExec')
    BY <1>1, <1>5, FS_Subset, FS_AddElement DEF TasksInv, TasksApart
  <2>2. aqQueue' \cap aqExec' = {}
    BY <1>1, <1>5 DEF TasksInv, TasksApart
  <2>3. ASSUME NEW u \in aqExec', u.file \in TaskFiles
        PROVE  aqNewest'[u.file] = 0 \/ u.id < aqNewest'[u.file]
    BY <1>1, <2>3 DEF TasksInv, TasksApart
  <2> QED
    BY <2>1, <2>2, <2>3 DEF TasksApart
<1>9. Tasks!SlotsCounted'
  <2>1. t \notin aqExec /\ IsFiniteSet(aqExec)
    BY <1>2 DEF TasksInv, TasksApart
  <2>2. Cardinality(aqExec') = Cardinality(aqExec) + 1
    BY <1>1, <2>1, FS_AddElement
  <2> QED
    BY <1>1, <1>2, <1>4, <2>2, TasksBounds, Counting DEF TasksInv, Tasks!SlotsCounted
<1>10. Tasks!MapTracksPending'
  <2> SUFFICES ASSUME NEW g \in TaskFiles
               PROVE  /\ aqNewest'[g] # 0 => \E v \in aqQueue' : v.id = aqNewest'[g] /\ v.file = g
                      /\ \A v \in aqQueue' : v.file = g => v.id <= aqNewest'[g] \/ aqNewest'[g] = 0
    BY DEF Tasks!MapTracksPending
  <2>1. CASE g = t.file
    BY <1>1, <2>1
  <2>2. CASE g # t.file
    BY <1>1, <1>5, <2>2, ScanKeeps DEF TasksInv, Tasks!MapTracksPending
  <2> QED
    BY <2>1, <2>2
<1>11. \A v \in Tasks!Pending : v \in Tasks!Pending' \/ v \in aqExec'
  <2> SUFFICES ASSUME NEW v \in Tasks!Pending, v # t PROVE v \in Tasks!Pending'
    BY <1>1
  <2>1. v \in aqQueue' /\ v \in aqQueue /\ Tasks!Live(v)
    BY <1>1 DEF Tasks!Pending
  <2>2. v.file = NoTaskFile \/ v.file # t.file
    BY <1>2, <1>4, <2>1 DEF Tasks!Live
  <2>3. v.file = NoTaskFile \/ aqNewest'[v.file] = v.id
    BY <1>1, <1>4, <2>1, <2>2 DEF Tasks!Live
  <2> QED
    BY <2>1, <2>3 DEF Tasks!Pending, Tasks!Live
<1>12. Tasks!PendingBounded'
  <2>1. Tasks!Pending' \subseteq Tasks!Pending
    BY <1>1 DEF Tasks!Pending
  <2>2. /\ Cardinality(Tasks!Pending') <= Cardinality(Tasks!Pending)
        /\ Cardinality(Tasks!Pending) \in Nat /\ Cardinality(Tasks!Pending') \in Nat
    BY <1>5, <2>1, FS_Subset, FS_CardinalityType
  <2> QED
    BY <2>2, TasksBounds, Counting DEF TasksInv, Tasks!PendingBounded
<1>13. ASSUME NEW v \in aqExec' \ aqExec, v.file # NoTaskFile,
              NEW u \in aqQueue \cup aqExec, u # v, u.file = v.file
       PROVE  u.id < v.id
  <2>1. v = t /\ aqNewest[v.file] = v.id /\ v.file \in TaskFiles
    BY <1>1, <1>2, <1>4, <1>13
  <2>2. CASE u \in aqQueue
    <3>1. u.id <= v.id
      BY <1>4, <2>1, <2>2, <1>2, <1>13 DEF TasksInv, Tasks!MapTracksPending
    <3>2. u.id # v.id
      BY <1>2, <1>4, <2>1, <2>2, <1>13
    <3> QED
      BY <1>2, <1>4, <2>1, <2>2, <3>1, <3>2
  <2>3. CASE u \in aqExec
    BY <1>2, <1>4, <2>1, <2>3, <1>13 DEF TasksInv, TasksApart
  <2> QED
    BY <2>2, <2>3
<1> QED
  BY <1>6, <1>7, <1>8, <1>9, <1>10, <1>11, <1>12, <1>13 DEF TasksInv

(* get_nowait without a task drops tombstones, if anything.                *)
LEMMA GetNothingKeeps ==
  ASSUME TasksInv, NEW l \in DrainLoops, Tasks!GetNothing(l)
  PROVE  TasksInv' /\ Tasks!Pending' = Tasks!Pending /\ aqExec' = aqExec
<1>1. /\ aqQueue' = Tasks!Pending
      /\ UNCHANGED <<aqCounter, aqNewest, aqRunning, aqExec, aqFreeing, aqWake, aqUp, aqStops, aqStopping>>
  BY DEF Tasks!GetNothing, Tasks!Requeued, Tasks!slots, Tasks!life
<1>2. Tasks!Pending \subseteq aqQueue /\ IsFiniteSet(Tasks!Pending)
  BY ScanKeeps
<1>3. Tasks!Pending' = Tasks!Pending
  BY <1>1 DEF Tasks!Pending, Tasks!Live
<1>4. TasksTyped' /\ TasksApart'
  BY <1>1, <1>2 DEF TasksInv, TasksTyped, TasksApart
<1>5. FlagsTyped'
  <2>1. aqWake' \in BOOLEAN /\ aqUp' \in BOOLEAN /\ aqStopping' \in BOOLEAN
    BY <1>1, Zenon DEF TasksInv, FlagsTyped
  <2> QED
    BY <1>1, <2>1 DEF TasksInv, FlagsTyped, Tasks!GetNothing, Tasks!Goes
<1>6. Tasks!MapTracksPending'
  BY <1>1, <1>2, ScanKeeps DEF TasksInv, Tasks!MapTracksPending
<1>7. Tasks!SlotsCounted' /\ Tasks!PendingBounded'
  BY <1>1, <1>3 DEF TasksInv, Tasks!SlotsCounted, Tasks!PendingBounded
<1> QED
  BY <1>1, <1>3, <1>4, <1>5, <1>6, <1>7 DEF TasksInv

(* A thread gives its slot back once, and there is one to give.            *)
LEMMA TaskDoneKeeps ==
  ASSUME TasksInv, NEW t \in aqExec, Tasks!TaskDone(t)
  PROVE  TasksInv' /\ Tasks!Pending' = Tasks!Pending /\ aqExec' \subseteq aqExec
<1>1. /\ aqExec' = aqExec \ {t} /\ aqFreeing' = aqFreeing \cup {t}
      /\ aqRunning' = IF aqRunning = 0 THEN 0 ELSE aqRunning - 1
      /\ UNCHANGED <<aqCounter, aqQueue, aqNewest, aqWake, aqUp, aqStops, aqStopping, aqLoop>>
  BY DEF Tasks!TaskDone, Tasks!tasks, Tasks!life
<1>2. Tasks!Pending' = Tasks!Pending
  BY <1>1 DEF Tasks!Pending, Tasks!Live
<1>3. TasksTyped'
  BY <1>1 DEF TasksInv, TasksTyped
<1>4. FlagsTyped'
  BY <1>1, Zenon DEF TasksInv, FlagsTyped
<1>5. TasksApart'
  BY <1>1, FS_RemoveElement DEF TasksInv, TasksApart
<1>6. Tasks!SlotsCounted'
  <2>1. /\ Cardinality(aqExec') = Cardinality(aqExec) - 1
        /\ Cardinality(aqExec) \in Nat /\ Cardinality(aqExec') \in Nat
    BY <1>1, <1>5, FS_RemoveElement, FS_CardinalityType DEF TasksInv, TasksApart
  <2> QED
    BY <1>1, <2>1, TasksBounds, Counting DEF TasksInv, Tasks!SlotsCounted
<1>7. Tasks!MapTracksPending' /\ Tasks!PendingBounded'
  BY <1>1, <1>2 DEF TasksInv, Tasks!MapTracksPending, Tasks!PendingBounded
<1> QED
  BY <1>1, <1>2, <1>3, <1>4, <1>5, <1>6, <1>7 DEF TasksInv

(* Everything else moves flags and drain threads.                          *)
LEMMA FlagsKeep ==
  ASSUME TasksInv, FlagsTyped', aqFreeing' \subseteq aqFreeing,
         UNCHANGED <<aqCounter, aqQueue, aqNewest, aqRunning, aqExec>>
  PROVE  TasksInv' /\ Tasks!Pending' = Tasks!Pending
<1>1. TasksTyped' /\ TasksApart'
  BY DEF TasksInv, TasksTyped, TasksApart
<1>2. Tasks!Pending' = Tasks!Pending
  BY DEF Tasks!Pending, Tasks!Live
<1>3. Tasks!SlotsCounted' /\ Tasks!MapTracksPending' /\ Tasks!PendingBounded'
  BY <1>2 DEF TasksInv, Tasks!SlotsCounted, Tasks!MapTracksPending, Tasks!PendingBounded
<1> QED
  BY <1>1, <1>2, <1>3 DEF TasksInv

(* The other steps of a drain loop touch its flags.                        *)
LEMMA LoopStepKeeps ==
  ASSUME TasksInv, NEW l \in DrainLoops,
         \/ Tasks!TestRunning(l) \/ Tasks!ClearWake(l) \/ Tasks!Woken(l)
         \/ Tasks!IntervalOver(l) \/ Tasks!Start(l)
  PROVE  TasksInv' /\ Tasks!Pending' = Tasks!Pending /\ aqExec' = aqExec
<1> USE DEF Tasks!TestRunning, Tasks!ClearWake, Tasks!Woken, Tasks!IntervalOver, Tasks!Start,
            Tasks!tasks, Tasks!slots, Tasks!life
<1>1. UNCHANGED <<aqCounter, aqQueue, aqNewest, aqRunning, aqExec, aqFreeing, aqStopping, aqStops>>
  OBVIOUS
<1>2. aqWake' \in {aqWake, FALSE} /\ aqUp' \in {aqUp, TRUE}
  BY Zenon
<1>3. aqWake' \in BOOLEAN /\ aqUp' \in BOOLEAN /\ aqStopping' \in BOOLEAN
  BY <1>1, <1>2, Zenon DEF TasksInv, FlagsTyped
<1>4. \E at \in {"test", "clear", "get", "ended"} : aqLoop' = [aqLoop EXCEPT ![l] = at]
  BY DEF Tasks!Goes
<1>5. aqLoop' \in [DrainLoops -> {"unborn", "test", "clear", "get", "wait", "ended"}]
  BY <1>4 DEF TasksInv, FlagsTyped
<1>6. FlagsTyped'
  BY <1>1, <1>3, <1>5 DEF TasksInv, FlagsTyped
<1> QED
  BY <1>1, <1>6, FlagsKeep

(* Stopping and waking touch the flags; a thread that is done only wakes.  *)
LEMMA StopKeeps ==
  ASSUME TasksInv,
         \/ Tasks!Stop \/ Tasks!StopWakes
         \/ \E t \in aqFreeing : Tasks!WakeLoop(t)
  PROVE  TasksInv' /\ Tasks!Pending' = Tasks!Pending /\ aqExec' = aqExec
<1> USE DEF Tasks!Stop, Tasks!StopWakes, Tasks!WakeLoop, Tasks!SetWake,
            Tasks!tasks, Tasks!slots, Tasks!life
<1>1. /\ UNCHANGED <<aqCounter, aqQueue, aqNewest, aqRunning, aqExec, aqLoop>>
      /\ aqFreeing' \subseteq aqFreeing
  OBVIOUS
<1>2. /\ aqWake' \in {aqWake, TRUE} /\ aqUp' \in {aqUp, FALSE}
      /\ aqStopping' \in {aqStopping, TRUE, FALSE}
  BY Zenon
<1>3. aqWake' \in BOOLEAN /\ aqUp' \in BOOLEAN /\ aqStopping' \in BOOLEAN
  BY <1>2, Zenon DEF TasksInv, FlagsTyped
<1>4. aqStops' \in 0 .. MaxStops
  BY TasksBounds DEF TasksInv, FlagsTyped
<1>5. FlagsTyped'
  BY <1>1, <1>3, <1>4 DEF TasksInv, FlagsTyped
<1> QED
  BY <1>1, <1>5, FlagsKeep

(* What AcceptedIsKept and NewestWins say of one step.                     *)
TaskKept(t) ==
    \/ t \in Tasks!Pending' \/ t \in aqExec'
    \/ t.file # NoTaskFile /\ aqNewest'[t.file] > t.id

StartsNewest(t) ==
    t.file # NoTaskFile =>
        \A u \in aqQueue \cup aqExec : u # t /\ u.file = t.file => u.id < t.id

(* Every step keeps the invariant and the promises about tasks.            *)
LEMMA NextTasks ==
  ASSUME TasksInv, [Tasks!Next]_(Tasks!vars)
  PROVE  /\ TasksInv'
         /\ \A t \in Tasks!Pending : TaskKept(t)
         /\ \A t \in aqExec' \ aqExec : StartsNewest(t)
<1>1. ASSUME NEW f \in TaskFiles \cup {NoTaskFile}, NEW p \in Priorities, Tasks!Enqueue(f, p)
      PROVE  /\ TasksInv'
             /\ \A t \in Tasks!Pending : TaskKept(t)
             /\ aqExec' = aqExec
  BY <1>1, EnqueueKeeps DEF TaskKept, Tasks!Enqueue, Tasks!slots
<1>2. ASSUME NEW l \in DrainLoops, Tasks!GetTask(l)
      PROVE  /\ TasksInv'
             /\ \A t \in Tasks!Pending : TaskKept(t)
             /\ \A t \in aqExec' \ aqExec : StartsNewest(t)
  BY <1>2, GetTaskKeeps DEF TaskKept, StartsNewest
<1>3. ASSUME NEW l \in DrainLoops, Tasks!Drain(l) \/ Tasks!IntervalOver(l) \/ Tasks!Start(l),
             ~Tasks!GetTask(l)
      PROVE  TasksInv' /\ Tasks!Pending' = Tasks!Pending /\ aqExec' = aqExec
  BY <1>3, GetNothingKeeps, LoopStepKeeps DEF Tasks!Drain
<1>4. ASSUME NEW t \in aqExec \cup aqFreeing, Tasks!TaskEnds(t)
      PROVE  TasksInv' /\ Tasks!Pending' = Tasks!Pending /\ aqExec' \subseteq aqExec
  <2>1. CASE Tasks!TaskDone(t)
    BY <2>1, TaskDoneKeeps DEF Tasks!TaskDone
  <2>2. CASE Tasks!WakeLoop(t)
    <3>1. t \in aqFreeing
      BY <2>2 DEF Tasks!WakeLoop
    <3> QED
      BY <2>2, <3>1, StopKeeps
  <2> QED
    BY <1>4, <2>1, <2>2 DEF Tasks!TaskEnds
<1>5. CASE Tasks!Stop \/ Tasks!StopWakes
  BY <1>5, StopKeeps DEF TaskKept
<1>6. CASE UNCHANGED Tasks!vars
  <2>1. UNCHANGED <<aqCounter, aqQueue, aqNewest, aqRunning, aqExec, aqFreeing>>
        /\ UNCHANGED <<aqWake, aqUp, aqStops, aqStopping, aqLoop>>
    BY <1>6 DEF Tasks!vars, Tasks!tasks, Tasks!slots, Tasks!life
  <2>2. FlagsTyped'
    BY <2>1, Zenon DEF TasksInv, FlagsTyped
  <2> QED
    BY <2>1, <2>2, FlagsKeep DEF TaskKept
<1> QED
  BY <1>1, <1>2, <1>3, <1>4, <1>5, <1>6 DEF Tasks!Next, TaskKept

-----------------------------------------------------------------------------
(* ---- The stdio server. ---- *)

(* The bounds of the stdio server.                                         *)
LEMMA StdioBounds == ToolSlots \in Nat \ {0} /\ Stdio!Reader \notin ToolCalls
BY ServicesAssumption DEF Stdio!SlotsAssumption, Stdio!ReaderAssumption

(* Who holds the lock of stdout is writing, and is alone.                  *)
Writers ==
    /\ \A x, y \in moOut : x = y
    /\ moOut = {c \in ToolCalls : moCall[c] = "writing"}
                  \cup (IF moReader = "writing" THEN {Stdio!Reader} ELSE {})

(* A call that was read is in flight until it has ended, and a drain that  *)
(* ended by itself found none.                                             *)
InFlight ==
    /\ \A c \in moStarting : moCall[c] = "read"
    /\ \A c \in ToolCalls \ moInflight : moCall[c] \in {"unsent", "ended", "ended_mute"}
    /\ moWhy = "drained" => moReader = "left" /\ moInflight = {}

HoldingCounted == IsFiniteSet(Stdio!Holding) /\ Stdio!SlotsCounted

StdioInv == Stdio!TypeOK /\ Writers /\ InFlight /\ HoldingCounted

(* The server before its first line.                                       *)
LEMMA InitStdio == Stdio!Init => StdioInv
<1> SUFFICES ASSUME Stdio!Init PROVE StdioInv
  OBVIOUS
<1> USE StdioBounds DEF Stdio!Init
<1>1. Stdio!TypeOK
  BY DEF Stdio!TypeOK
<1>2. Stdio!Holding = {}
  BY DEF Stdio!Holding
<1>3. HoldingCounted
  BY <1>2, FS_EmptySet, Counting DEF HoldingCounted, Stdio!SlotsCounted
<1>4. Writers /\ InFlight
  BY DEF Writers, InFlight
<1> QED
  BY <1>1, <1>3, <1>4 DEF StdioInv

(* The read loop, wherever it is, takes and frees no slot.                 *)
LEMMA ReaderKeeps ==
  ASSUME StdioInv,
         \/ Stdio!StartFails \/ Stdio!ReadRequest \/ Stdio!ReaderLocks \/ Stdio!ReaderWrites
         \/ Stdio!EndOfInput \/ Stdio!Interrupt
         \/ Stdio!Drained \/ Stdio!DrainBreaks \/ Stdio!DrainTimesOut
         \/ UNCHANGED Stdio!vars
  PROVE  StdioInv'
<1> USE StdioBounds DEF Stdio!StartFails, Stdio!ReadRequest, Stdio!ReaderLocks, Stdio!ReaderWrites,
        Stdio!EndOfInput, Stdio!Interrupt, Stdio!Drained, Stdio!DrainBreaks, Stdio!DrainTimesOut,
        Stdio!vars
<1>1. UNCHANGED <<moStarting, moInflight, moCall, moSlots>>
  OBVIOUS
<1>2. HoldingCounted'
  BY <1>1 DEF StdioInv, HoldingCounted, Stdio!Holding, Stdio!SlotsCounted
<1>3. Stdio!TypeOK'
  BY DEF StdioInv, Stdio!TypeOK
<1>4. Writers'
  BY <1>1 DEF StdioInv, Stdio!TypeOK, Writers, Stdio!StdoutFree
<1>5. InFlight'
  BY DEF StdioInv, InFlight
<1> QED
  BY <1>2, <1>3, <1>4, <1>5 DEF StdioInv

(* A call that is read is in flight before its thread starts.              *)
LEMMA ReadToolCallKeeps == StdioInv /\ Stdio!ReadToolCall => StdioInv'
<1> SUFFICES ASSUME StdioInv, Stdio!ReadToolCall PROVE StdioInv'
  OBVIOUS
<1>1. PICK c \in ToolCalls :
         /\ moCall[c] = "unsent" /\ moCall' = [moCall EXCEPT ![c] = "read"]
         /\ moInflight' = moInflight \cup {c} /\ moStarting' = {c}
  BY DEF Stdio!ReadToolCall, Stdio!Entered
<1>2. /\ moReader = "reading" /\ moReader' = "starting"
      /\ UNCHANGED <<moSlots, moOut, moWhy>>
  BY DEF Stdio!ReadToolCall
<1>3. Stdio!TypeOK'
  BY <1>1, <1>2 DEF StdioInv, Stdio!TypeOK
<1>4. Stdio!Holding' = Stdio!Holding
  BY <1>1 DEF StdioInv, Stdio!TypeOK, Stdio!Holding
<1>5. HoldingCounted'
  BY <1>2, <1>4 DEF StdioInv, HoldingCounted, Stdio!SlotsCounted
<1>6. Writers'
  BY <1>1, <1>2 DEF StdioInv, Stdio!TypeOK, Writers
<1>7. InFlight'
  BY <1>1, <1>2 DEF StdioInv, Stdio!TypeOK, InFlight
<1> QED
  BY <1>3, <1>5, <1>6, <1>7 DEF StdioInv

(* The thread of a call that was read starts.                              *)
LEMMA StartThreadKeeps == StdioInv /\ Stdio!StartThread => StdioInv'
<1> SUFFICES ASSUME StdioInv, Stdio!StartThread PROVE StdioInv'
  OBVIOUS
<1> USE DEF Stdio!StartThread
<1>1. Stdio!TypeOK'
  BY DEF StdioInv, Stdio!TypeOK
<1>2. Stdio!Holding' = Stdio!Holding
  BY DEF StdioInv, Stdio!TypeOK, InFlight, Stdio!Holding
<1>3. HoldingCounted'
  BY <1>2 DEF StdioInv, HoldingCounted, Stdio!SlotsCounted
<1>4. Writers'
  BY DEF StdioInv, Stdio!TypeOK, InFlight, Writers
<1>5. InFlight'
  BY DEF StdioInv, Stdio!TypeOK, InFlight
<1> QED
  BY <1>1, <1>3, <1>4, <1>5 DEF StdioInv

(* The thread of a call.                                                   *)
LEMMA WorkKeeps ==
  ASSUME StdioInv, NEW c \in ToolCalls, Stdio!Work(c)
  PROVE  StdioInv'
<1> USE StdioBounds DEF Stdio!Move
<1>1. CASE Stdio!ToolReturns(c) \/ Stdio!WorkerLocks(c) \/ Stdio!WorkerWrites(c)
  <2> USE DEF Stdio!ToolReturns, Stdio!WorkerLocks, Stdio!WorkerWrites
  <2>1. Stdio!TypeOK'
    BY <1>1 DEF StdioInv, Stdio!TypeOK
  <2>2. Stdio!Holding' = Stdio!Holding /\ moSlots' = moSlots
    BY <1>1 DEF StdioInv, Stdio!TypeOK, Stdio!Holding
  <2>3. HoldingCounted'
    BY <2>2 DEF StdioInv, HoldingCounted, Stdio!SlotsCounted
  <2>4. Writers'
    BY <1>1 DEF StdioInv, Stdio!TypeOK, Writers, Stdio!StdoutFree
  <2>5. InFlight'
    BY <1>1 DEF StdioInv, Stdio!TypeOK, InFlight
  <2> QED
    BY <2>1, <2>3, <2>4, <2>5 DEF StdioInv
<1>2. CASE Stdio!TakeSlot(c)
  <2> USE DEF Stdio!TakeSlot, Stdio!SlotFree
  <2>1. Stdio!TypeOK'
    BY <1>2 DEF StdioInv, Stdio!TypeOK
  <2>2. Stdio!Holding' = Stdio!Holding \cup {c} /\ c \notin Stdio!Holding
    BY <1>2 DEF StdioInv, Stdio!TypeOK, Stdio!Holding
  <2>3. HoldingCounted'
    <3>1. /\ IsFiniteSet(Stdio!Holding') /\ Cardinality(Stdio!Holding') = Cardinality(Stdio!Holding) + 1
          /\ Cardinality(Stdio!Holding) \in Nat
      BY <2>2, FS_AddElement, FS_CardinalityType DEF StdioInv, HoldingCounted
    <3> QED
      BY <1>2, <3>1, Counting DEF StdioInv, Stdio!TypeOK, HoldingCounted, Stdio!SlotsCounted
  <2>4. Writers' /\ InFlight'
    BY <1>2 DEF StdioInv, Stdio!TypeOK, Writers, InFlight
  <2> QED
    BY <2>1, <2>3, <2>4 DEF StdioInv
<1>3. CASE Stdio!FreeSlot(c)
  <2> USE DEF Stdio!FreeSlot, Stdio!Released
  <2>1. Stdio!Holding' = Stdio!Holding \ {c} /\ c \in Stdio!Holding
    BY <1>3 DEF StdioInv, Stdio!TypeOK, Stdio!Holding
  <2>2. HoldingCounted' /\ moSlots' \in 0 .. ToolSlots
    <3>1. /\ IsFiniteSet(Stdio!Holding') /\ Cardinality(Stdio!Holding') = Cardinality(Stdio!Holding) - 1
          /\ Cardinality(Stdio!Holding) \in Nat /\ Cardinality(Stdio!Holding') \in Nat
      BY <2>1, FS_RemoveElement, FS_CardinalityType DEF StdioInv, HoldingCounted
    <3> QED
      BY <1>3, <3>1, Counting DEF StdioInv, Stdio!TypeOK, HoldingCounted, Stdio!SlotsCounted
  <2>3. Stdio!TypeOK'
    BY <1>3, <2>2 DEF StdioInv, Stdio!TypeOK
  <2>4. Writers' /\ InFlight'
    BY <1>3 DEF StdioInv, Stdio!TypeOK, Writers, InFlight
  <2> QED
    BY <2>2, <2>3, <2>4 DEF StdioInv
<1>4. CASE Stdio!Discard(c)
  <2> USE DEF Stdio!Discard
  <2>1. Stdio!TypeOK' /\ Writers' /\ InFlight'
    BY <1>4 DEF StdioInv, Stdio!TypeOK, Writers, InFlight
  <2>2. HoldingCounted'
    BY <1>4 DEF StdioInv, HoldingCounted, Stdio!Holding, Stdio!SlotsCounted
  <2> QED
    BY <2>1, <2>2 DEF StdioInv
<1> QED
  BY <1>1, <1>2, <1>3, <1>4 DEF Stdio!Work

(* Every step of the stdio server keeps its invariant.                     *)
LEMMA NextStdio == StdioInv /\ [Stdio!Next]_(Stdio!vars) => StdioInv'
BY ReaderKeeps, ReadToolCallKeeps, StartThreadKeeps, WorkKeeps DEF Stdio!Next

(* One writer, and a drain that ended by itself has seen every call end.   *)
LEMMA StdioMeaning ==
  ASSUME StdioInv
  PROVE  Stdio!SlotsCounted /\ Stdio!DrainedMeansAnswered /\ Stdio!OneWriter
<1>1. Cardinality(moOut) <= 1
  <2>1. CASE moOut = {}
    BY <2>1, FS_EmptySet
  <2>2. CASE moOut # {}
    <3>1. PICK x : x \in moOut
      BY <2>2
    <3>2. moOut = {x}
      BY <3>1 DEF StdioInv, Writers
    <3>3. Cardinality({x}) = 1
      BY FS_Singleton
    <3> QED
      BY <3>2, <3>3
  <2> QED
    BY <2>1, <2>2
<1>2. Stdio!OneWriter
  BY <1>1, Counting DEF StdioInv, Writers, Stdio!OneWriter
<1>3. Stdio!DrainedMeansAnswered
  BY DEF StdioInv, InFlight, Stdio!DrainedMeansAnswered
<1> QED
  BY <1>2, <1>3 DEF StdioInv, HoldingCounted

-----------------------------------------------------------------------------
(* ---- The HTTP server. ---- *)

(* The bounds of the HTTP server.                                          *)
LEMMA HttpBounds ==
  /\ NoSession \notin Sessions /\ Backlog \in Nat \ {0}
  /\ RequestSlots \in Nat \ {0} /\ MaxCalls \in Nat
BY ServicesAssumption DEF Http!McpAssumption

(* Where a thread runs its handler.                                        *)
LEMMA RunningValues ==
  /\ DOMAIN Http!Running = {"new", "post", "json"}
  /\ Http!Running["new"] = "run_new" /\ Http!Running["post"] = "run"
  /\ Http!Running["json"] = "run_json"
  /\ Http!Range(Http!Running) = {"run_new", "run", "run_json"}
<1>1. /\ DOMAIN Http!Running = {"new", "post", "json"}
      /\ Http!Running["new"] = "run_new" /\ Http!Running["post"] = "run"
      /\ Http!Running["json"] = "run_json"
  BY DEF Http!Running
<1>2. Http!Range(Http!Running) = {Http!Running[x] : x \in DOMAIN Http!Running}
  BY DEF Http!Range
<1> QED
  BY <1>1, <1>2

(* A value put at the end of a queue, and the first one taken.             *)
LEMMA Appended ==
  ASSUME NEW S, NEW q \in Seq(S), NEW e \in S
  PROVE  /\ Append(q, e) \in Seq(S) /\ Len(q) \in Nat /\ Len(Append(q, e)) = Len(q) + 1
         /\ \A i \in 1 .. Len(q) : Append(q, e)[i] = q[i]
         /\ Append(q, e)[Len(q) + 1] = e
OBVIOUS

(* The first of a queue taken.                                             *)
LEMMA Shifted ==
  ASSUME NEW S, NEW q \in Seq(S), q # << >>
  PROVE  /\ Tail(q) \in Seq(S) /\ Len(q) \in Nat \ {0} /\ Len(Tail(q)) = Len(q) - 1
         /\ Head(q) = q[1] /\ Head(q) \in S
         /\ \A i \in 1 .. Len(q) - 1 : Tail(q)[i] = q[i + 1]
OBVIOUS

Sentinel == Http!Sentinel

(* Threads: where the session is one that was drawn, one whose client has  *)
(* its id, and what they carry.  A stream that ends has seen its client    *)
(* leave or its session closed.                                            *)
ThreadShaped(t) ==
    LET at == msThread[t].at
        sid == msThread[t].sid
        item == msThread[t].item
    IN  /\ at \notin {"rest", "json", "run_json"} => sid \in msBorn
        /\ at \in {"post", "run", "answer", "stream", "write", "end"} => sid \in msKnown
        /\ at \in {"new", "run_new", "post", "run", "answer", "write"} => item \in Http!Calls
        /\ at = "open" => item \in Http!Calls \cup {Http!None}
        /\ at = "stream" => item = Http!None
        /\ at = "end" => sid \in msCut \/ sid \notin msSessions

ThreadsShaped == \A t \in Requests : ThreadShaped(t)

Handlers == {t \in Requests : msThread[t].at \in {"run_new", "run", "run_json"}}

SlotsTaken == IsFiniteSet(Handlers) /\ msFree + Cardinality(Handlers) = RequestSlots

Lies(x, s) == \E i \in 1 .. Len(msQueue[s]) : msQueue[s][i] = x

(* A sentinel is put once, when the session is registered no more, and     *)
(* nothing comes behind it.                                                *)
QueuesShaped ==
    \A s \in Sessions :
        /\ s \notin msBorn => msQueue[s] = <<>>
        /\ s \in msSessions => ~Lies(Sentinel, s)
        /\ \A i \in 1 .. Len(msQueue[s]) : msQueue[s][i] = Sentinel => i = Len(msQueue[s])

Closer(t, s) == msThread[t].at = "close" /\ msThread[t].sid = s

Closers ==
    \A s \in Sessions :
        /\ s = msSwept \/ (\E t \in Requests : Closer(t, s)) =>
               s \in msBorn /\ s \notin msSessions /\ ~Lies(Sentinel, s)
        /\ \A t \in Requests : Closer(t, s) =>
               s # msSwept /\ \A u \in Requests : Closer(u, s) => u = t

(* A session whose client has its id is read, and so is what lies in a     *)
(* queue, unless a client left.                                            *)
Reads(s) == \E t \in Requests : msThread[t].sid = s /\ msThread[t].at \in {"stream", "write"}

Readers ==
    \A s \in Sessions :
        /\ s \in msSessions \cap msKnown => s \in msCut \/ Reads(s)
        /\ \A i \in 1 .. Len(msQueue[s]) : msQueue[s][i] # Sentinel => s \in msCut \/ Reads(s)

Held ==
    \A a \in msAcked :
        \/ a[1] \in msWritten \/ a[2] \in msCut
        \/ \E t \in Requests : msThread[t] = [at |-> "write", sid |-> a[2], item |-> a[1]]
        \/ Lies(a[1], a[2])

HttpInv ==
    /\ Http!TypeOK /\ ThreadsShaped /\ SlotsTaken /\ QueuesShaped /\ Closers /\ Readers /\ Held
    /\ Http!StampsHaveOwners

(* The server without sessions.                                            *)
LEMMA InitHttp == Http!Init => HttpInv
<1> SUFFICES ASSUME Http!Init PROVE HttpInv
  OBVIOUS
<1> USE HttpBounds DEF Http!Init, Http!Rest, Http!None
<1>1. Http!TypeOK
  BY DEF Http!TypeOK, Http!Calls, Http!Sentinel
<1>2. \A t \in Requests : msThread[t].at = "rest"
  OBVIOUS
<1>3. ThreadsShaped
  BY <1>2 DEF ThreadsShaped, ThreadShaped
<1>4. Handlers = {}
  BY <1>2 DEF Handlers
<1>5. SlotsTaken
  BY <1>4, FS_EmptySet DEF SlotsTaken
<1>6. \A s \in Sessions : msQueue[s] = <<>> /\ Len(msQueue[s]) = 0
  OBVIOUS
<1>7. QueuesShaped /\ Closers /\ Readers
  BY <1>2, <1>6 DEF QueuesShaped, Closers, Closer, Readers, Lies
<1>8. Held /\ Http!StampsHaveOwners
  BY DEF Held, Http!StampsHaveOwners
<1> QED
  BY <1>1, <1>3, <1>5, <1>7, <1>8 DEF HttpInv

(* What most steps leave alone: no session comes back, and a thread that   *)
(* reads goes on, with the answer it holds written, or its client has left.*)
Onward(u) ==
    \/ msThread'[u] = msThread[u]
    \/ /\ ThreadShaped(u)'
       /\ msThread[u].at \in {"stream", "write"} =>
              \/ msThread[u].sid \in msCut'
              \/ /\ msThread'[u].at \in {"stream", "write"} /\ msThread'[u].sid = msThread[u].sid
                 /\ msThread[u].at = "write" => msThread[u].item \in msWritten'

Forward ==
    /\ msKnown \subseteq msKnown'
    /\ \A s \in msKnown' \ msKnown : Reads(s)'
    /\ msBorn \subseteq msBorn' /\ msSessions' \cap msBorn \subseteq msSessions
    /\ msCut \subseteq msCut' /\ msWritten \subseteq msWritten'
    /\ \A u \in Requests : Onward(u)

(* A step forward keeps the threads in shape, and what is read is read on. *)
LEMMA ForwardThreads ==
  ASSUME HttpInv, Forward
  PROVE  ThreadsShaped' /\ \A s \in Sessions : Reads(s) => Reads(s)' \/ s \in msCut'
<1>1. ThreadsShaped'
  <2> SUFFICES ASSUME NEW u \in Requests, msThread'[u] = msThread[u]
               PROVE  ThreadShaped(u)'
    BY DEF Forward, Onward, ThreadsShaped
  <2>1. ThreadShaped(u)
    BY DEF HttpInv, ThreadsShaped
  <2>2. msThread[u].at = "end" => msThread[u].sid \in msBorn
    BY <2>1 DEF ThreadShaped
  <2> QED
    BY <2>1, <2>2 DEF ThreadShaped, Forward
<1>2. \A s \in Sessions : Reads(s) => Reads(s)' \/ s \in msCut'
  BY DEF Forward, Onward, Reads
<1> QED
  BY <1>1, <1>2

(* An answer that is held stays held, or is written, or its client left.   *)
LEMMA ForwardHolder ==
  ASSUME HttpInv, Forward, NEW a, NEW t \in Requests,
         msThread[t] = [at |-> "write", sid |-> a[2], item |-> a[1]]
  PROVE  \/ a[1] \in msWritten' \/ a[2] \in msCut'
         \/ msThread'[t] = [at |-> "write", sid |-> a[2], item |-> a[1]]
BY DEF Forward, Onward

(* A step forward that leaves the queues alone keeps them in shape.        *)
LEMMA QuietKeeps ==
  ASSUME HttpInv, Http!TypeOK', Forward, UNCHANGED <<msQueue, msAcked>>
  PROVE  ThreadsShaped' /\ QueuesShaped' /\ Readers' /\ Held'
<1>1. ThreadsShaped'
  BY ForwardThreads
<1>2. QueuesShaped'
  <2> SUFFICES ASSUME NEW s \in Sessions
               PROVE  /\ s \notin msBorn' => msQueue'[s] = <<>>
                      /\ s \in msSessions' => ~Lies(Sentinel, s)'
                      /\ \A i \in 1 .. Len(msQueue'[s]) :
                             msQueue'[s][i] = Sentinel' => i = Len(msQueue'[s])
    BY DEF QueuesShaped
  <2>1. s \in msSessions' => s \in msSessions \/ msQueue[s] = <<>>
    BY DEF Forward, HttpInv, QueuesShaped
  <2>2. msQueue[s] = <<>> => ~Lies(Sentinel, s)
    BY DEF Lies
  <2> QED
    BY <2>1, <2>2 DEF Forward, HttpInv, QueuesShaped, Lies, Sentinel, Http!Sentinel
<1>3. Readers'
  <2> SUFFICES ASSUME NEW s \in Sessions
               PROVE  /\ s \in msSessions' \cap msKnown' => s \in msCut' \/ Reads(s)'
                      /\ \A i \in 1 .. Len(msQueue'[s]) :
                             msQueue'[s][i] # Sentinel' => s \in msCut' \/ Reads(s)'
    BY DEF Readers
  <2>1. Reads(s) => Reads(s)' \/ s \in msCut'
    BY ForwardThreads
  <2>2. msKnown \subseteq msBorn
    BY DEF HttpInv, Http!TypeOK
  <2> QED
    BY <2>1, <2>2 DEF Forward, HttpInv, Readers, Sentinel, Http!Sentinel
<1>4. Held'
  <2> SUFFICES ASSUME NEW a \in msAcked, a[1] \notin msWritten', a[2] \notin msCut'
               PROVE  \/ \E t \in Requests : msThread'[t] = [at |-> "write", sid |-> a[2], item |-> a[1]]
                      \/ Lies(a[1], a[2])'
    BY DEF Held
  <2>1. CASE Lies(a[1], a[2])
    BY <2>1 DEF Lies
  <2>2. ASSUME NEW t \in Requests, msThread[t] = [at |-> "write", sid |-> a[2], item |-> a[1]]
        PROVE  msThread'[t] = [at |-> "write", sid |-> a[2], item |-> a[1]]
    BY <2>2, ForwardHolder
  <2> QED
    BY <2>1, <2>2 DEF HttpInv, Held, Forward
<1> QED
  BY <1>1, <1>2, <1>3, <1>4

(* A step that signals nothing and takes no session keeps the closers.     *)
LEMMA QuietClosers ==
  ASSUME HttpInv, msQueue' = msQueue, msBorn \subseteq msBorn',
         msSessions' \cap msBorn \subseteq msSessions, msSwept' \in {msSwept, NoSession},
         \A u \in Requests : msThread'[u].at = "close" => msThread'[u] = msThread[u]
  PROVE  Closers'
<1>1. \A s \in Sessions, u \in Requests : Closer(u, s)' => Closer(u, s)
  BY DEF Closer
<1>2. \A s \in Sessions : s = msSwept' => s = msSwept
  BY HttpBounds
<1>3. \A s \in Sessions : Lies(Sentinel, s)' <=> Lies(Sentinel, s)
  BY DEF Lies, Sentinel, Http!Sentinel
<1> QED
  BY <1>1, <1>2, <1>3 DEF HttpInv, Closers

(* Handlers neither begin nor end.                                         *)
LEMMA QuietSlots ==
  ASSUME HttpInv, msFree' = msFree, Handlers' = Handlers
  PROVE  SlotsTaken'
BY DEF HttpInv, SlotsTaken

-----------------------------------------------------------------------------
Records ==
    [at : {"rest", "new", "post", "json", "run_new", "run", "run_json", "open", "answer",
           "stream", "write", "end", "close"},
     sid : Sessions \cup {NoSession},
     item : Http!Calls \cup {Http!None, Sentinel}]

(* What TypeOK says of one thread.                                         *)
LEMMA ThreadType ==
  ASSUME HttpInv, NEW t \in Requests
  PROVE  /\ msThread \in [Requests -> Records]
         /\ msThread[t] = [at |-> msThread[t].at, sid |-> msThread[t].sid, item |-> msThread[t].item]
         /\ ThreadShaped(t)
BY DEF HttpInv, Http!TypeOK, ThreadsShaped, Sentinel, Records

(* Where a thread is after each of the ways it moves.                      *)
LEMMA Moves ==
  ASSUME HttpInv, NEW t \in Requests, NEW at, NEW s
  PROVE  /\ Http!Go(t, at) => msThread' = [msThread EXCEPT ![t] =
               [at |-> at, sid |-> msThread[t].sid, item |-> msThread[t].item]]
         /\ Http!Take(t, at, s) => msThread' = [msThread EXCEPT ![t] =
               [at |-> at, sid |-> s, item |-> Http!None]]
         /\ Http!Leave(t) => msThread' = [msThread EXCEPT ![t] =
               [at |-> "rest", sid |-> NoSession, item |-> Http!None]]
BY ThreadType DEF Http!Go, Http!Take, Http!Leave, Http!Rest

(* A thread that rests and gets a request.                                 *)
LEMMA PostNewKeeps ==
  ASSUME HttpInv, NEW t \in Requests, Http!PostNew(t)
  PROVE  HttpInv'
<1>1. PICK s \in Sessions \ msBorn, c \in Http!Calls \cup {Http!None} :
        /\ Http!NextCall(t, c)
        /\ msSessions' = msSessions \cup {s} /\ msActive' = msActive \cup {s} /\ msIdle' = msIdle \ {s}
        /\ msBorn' = msBorn \cup {s}
        /\ msThread' = [msThread EXCEPT ![t] =
               [at |-> IF c = Http!None THEN "open" ELSE "new", sid |-> s, item |-> c]]
  BY DEF Http!PostNew, Http!Register, Http!Stamp
<1>2. /\ msThread[t].at = "rest"
      /\ UNCHANGED <<msKnown, msQueue, msFree, msAcked, msWritten, msCut, msSweep, msSwept, msUp>>
  BY ThreadType DEF Http!PostNew, Http!sweeper, Http!Rest
<1>3. Http!TypeOK'
  <2>1. msCalls' \in 0 .. MaxCalls
    BY <1>1, HttpBounds DEF HttpInv, Http!TypeOK, Http!NextCall, Http!Calls, Http!None
  <2>2. msThread' \in [Requests -> Records]
    BY <1>1, ThreadType DEF Records
  <2> QED
    BY <1>1, <1>2, <2>1, <2>2 DEF HttpInv, Http!TypeOK, Sentinel, Records
<1>4. Forward
  <2>1. ThreadShaped(t)'
    BY <1>1, ThreadType DEF ThreadShaped, Http!None
  <2> QED
    BY <1>1, <1>2, <2>1, ThreadType DEF Forward, Onward
<1>5. Closers'
  BY <1>1, <1>2, ThreadType, QuietClosers
<1>6. SlotsTaken'
  BY <1>1, <1>2, ThreadType, QuietSlots DEF Handlers
<1>7. Http!StampsHaveOwners'
  BY <1>1, <1>2, ThreadType DEF HttpInv, Http!StampsHaveOwners, Http!Streaming
<1> QED
  BY <1>1, <1>2, <1>3, <1>4, <1>5, <1>6, <1>7, QuietKeeps DEF HttpInv

(* A POST of a client that has its id.                                     *)
LEMMA PostKnownKeeps ==
  ASSUME HttpInv, NEW t \in Requests, Http!PostKnown(t)
  PROVE  HttpInv'
<1>1. PICK s \in msSessions \cap msKnown, c \in Http!Calls \cup {Http!None} :
        /\ Http!NextCall(t, c)
        /\ msActive' = msActive \cup {s} /\ msIdle' = msIdle \ {s}
        /\ msThread' = IF c = Http!None THEN msThread ELSE
               [msThread EXCEPT ![t] = [at |-> "post", sid |-> s, item |-> c]]
  BY DEF Http!PostKnown, Http!Stamp
<1>2. /\ msThread[t].at = "rest"
      /\ UNCHANGED <<msSessions, msKnown, msBorn, msQueue, msFree, msAcked, msWritten, msCut,
                     msSweep, msSwept, msUp>>
  BY ThreadType DEF Http!PostKnown, Http!sweeper, Http!ids, Http!Rest
<1>3. s \in Sessions /\ s \in msBorn
  BY DEF HttpInv, Http!TypeOK
<1>4. Http!TypeOK'
  <2>1. msCalls' \in 0 .. MaxCalls
    BY <1>1, HttpBounds DEF HttpInv, Http!TypeOK, Http!NextCall, Http!Calls, Http!None
  <2>2. msThread' \in [Requests -> Records]
    BY <1>1, <1>3, ThreadType DEF Records
  <2> QED
    BY <1>1, <1>2, <1>3, <2>1, <2>2 DEF HttpInv, Http!TypeOK, Sentinel, Records
<1>5. Forward
  <2>1. msThread'[t] # msThread[t] => ThreadShaped(t)'
    BY <1>1, <1>2, <1>3, ThreadType DEF ThreadShaped, Http!None
  <2> QED
    BY <1>1, <1>2, <2>1, ThreadType DEF Forward, Onward
<1>6. Closers'
  BY <1>1, <1>2, ThreadType, QuietClosers
<1>7. SlotsTaken'
  BY <1>1, <1>2, ThreadType, QuietSlots DEF Handlers
<1>8. Http!StampsHaveOwners'
  BY <1>1, <1>2, ThreadType DEF HttpInv, Http!StampsHaveOwners, Http!Streaming
<1> QED
  BY <1>1, <1>2, <1>4, <1>5, <1>6, <1>7, <1>8, QuietKeeps DEF HttpInv

(* A POST that asks for JSON opens no session.                             *)
LEMMA PostJsonKeeps ==
  ASSUME HttpInv, NEW t \in Requests, Http!PostJson(t)
  PROVE  HttpInv'
<1>1. /\ msThread[t].at = "rest"
      /\ msThread' = [msThread EXCEPT ![t] = [at |-> "json", sid |-> NoSession, item |-> Http!None]]
      /\ UNCHANGED <<msSessions, msKnown, msBorn, msQueue, msFree, msCalls, msAcked, msWritten, msCut,
                     msSweep, msSwept, msUp>>
  BY ThreadType, Moves DEF Http!PostJson, Http!sweeper, Http!ids, Http!answers, Http!Rest
<1>2. \/ msActive' = msActive /\ msIdle' = msIdle
      \/ \E s \in msSessions : msActive' = msActive \cup {s} /\ msIdle' = msIdle \ {s}
  BY DEF Http!PostJson, Http!Stamp
<1>3. msSessions \subseteq msBorn /\ msActive \subseteq msBorn /\ msIdle \subseteq msActive
  BY DEF HttpInv, Http!TypeOK
<1>4. Http!TypeOK'
  <2>1. msThread' \in [Requests -> Records]
    BY <1>1, ThreadType DEF Records
  <2> QED
    BY <1>1, <1>2, <1>3, <2>1 DEF HttpInv, Http!TypeOK, Sentinel, Records
<1>5. Forward
  BY <1>1, ThreadType DEF Forward, Onward, ThreadShaped
<1>6. Closers'
  BY <1>1, ThreadType, QuietClosers
<1>7. SlotsTaken'
  BY <1>1, ThreadType, QuietSlots DEF Handlers
<1>8. Http!StampsHaveOwners'
  BY <1>1, <1>2, ThreadType DEF HttpInv, Http!StampsHaveOwners, Http!Streaming
<1> QED
  BY <1>1, <1>2, <1>4, <1>5, <1>6, <1>7, <1>8, QuietKeeps DEF HttpInv

(* A GET that resumes a session.                                           *)
LEMMA ResumeKeeps ==
  ASSUME HttpInv, NEW t \in Requests, Http!Resume(t)
  PROVE  HttpInv'
<1>1. PICK s \in msSessions \cap msKnown :
        /\ msActive' = msActive \cup {s} /\ msIdle' = msIdle \ {s}
        /\ msThread' = [msThread EXCEPT ![t] = [at |-> "stream", sid |-> s, item |-> Http!None]]
  BY Moves DEF Http!Resume, Http!Stamp
<1>2. /\ msThread[t].at = "rest"
      /\ UNCHANGED <<msSessions, msKnown, msBorn, msQueue, msFree, msCalls, msAcked, msWritten, msCut,
                     msSweep, msSwept, msUp>>
  BY ThreadType DEF Http!Resume, Http!sweeper, Http!ids, Http!answers, Http!Rest
<1>3. s \in Sessions /\ s \in msBorn
  BY DEF HttpInv, Http!TypeOK
<1>4. Http!TypeOK'
  <2>1. msThread' \in [Requests -> Records]
    BY <1>1, <1>3, ThreadType DEF Records
  <2> QED
    BY <1>1, <1>2, <1>3, <2>1 DEF HttpInv, Http!TypeOK, Sentinel, Records
<1>5. Forward
  BY <1>1, <1>2, <1>3, ThreadType DEF Forward, Onward, ThreadShaped
<1>6. Closers'
  BY <1>1, <1>2, ThreadType, QuietClosers
<1>7. SlotsTaken'
  BY <1>1, <1>2, ThreadType, QuietSlots DEF Handlers
<1>8. Http!StampsHaveOwners'
  BY <1>1, <1>2, ThreadType DEF HttpInv, Http!StampsHaveOwners, Http!Streaming
<1> QED
  BY <1>1, <1>2, <1>4, <1>5, <1>6, <1>7, <1>8, QuietKeeps DEF HttpInv

(* DELETE: the one thread that took the session out will signal it.        *)
LEMMA DeleteKeeps ==
  ASSUME HttpInv, NEW t \in Requests, Http!Delete(t)
  PROVE  HttpInv'
<1>1. PICK s \in msSessions \cap msKnown :
        /\ msSessions' = msSessions \ {s} /\ msActive' = msActive \ {s} /\ msIdle' = msIdle \ {s}
        /\ msThread' = [msThread EXCEPT ![t] = [at |-> "close", sid |-> s, item |-> Http!None]]
  BY Moves DEF Http!Delete, Http!Drop
<1>2. /\ msThread[t].at = "rest"
      /\ UNCHANGED <<msKnown, msBorn, msQueue, msFree, msCalls, msAcked, msWritten, msCut,
                     msSweep, msSwept, msUp>>
  BY ThreadType DEF Http!Delete, Http!sweeper, Http!ids, Http!answers, Http!Rest
<1>3. s \in Sessions /\ s \in msBorn
  BY DEF HttpInv, Http!TypeOK
<1>4. Http!TypeOK'
  <2>1. msThread' \in [Requests -> Records]
    BY <1>1, <1>3, ThreadType DEF Records
  <2> QED
    BY <1>1, <1>2, <1>3, <2>1 DEF HttpInv, Http!TypeOK, Sentinel, Records
<1>5. Forward
  BY <1>1, <1>2, <1>3, ThreadType DEF Forward, Onward, ThreadShaped
<1>6. Closers'
  <2>1. ~Lies(Sentinel, s) /\ s # msSwept /\ \A u \in Requests : ~Closer(u, s)
    BY <1>3 DEF HttpInv, QueuesShaped, Closers
  <2>2. \A x \in Sessions : Lies(Sentinel, x)' <=> Lies(Sentinel, x)
    BY <1>2 DEF Lies, Sentinel, Http!Sentinel
  <2>3. \A x \in Sessions, u \in Requests :
            Closer(u, x)' <=> (u = t /\ x = s) \/ (u # t /\ Closer(u, x))
    BY <1>1, <1>2, ThreadType DEF Closer
  <2> QED
    BY <1>1, <1>2, <1>3, <2>1, <2>2, <2>3 DEF HttpInv, Closers
<1>7. SlotsTaken'
  BY <1>1, <1>2, ThreadType, QuietSlots DEF Handlers
<1>8. Http!StampsHaveOwners'
  BY <1>1, <1>2, ThreadType DEF HttpInv, Http!StampsHaveOwners, Http!Streaming
<1> QED
  BY <1>1, <1>2, <1>4, <1>5, <1>6, <1>7, <1>8, QuietKeeps DEF HttpInv

-----------------------------------------------------------------------------
(* The steps of a call: a slot is taken and comes back.                    *)
LEMMA AcquireKeeps ==
  ASSUME HttpInv, NEW t \in Requests, Http!Acquire(t)
  PROVE  HttpInv'
<1>1. /\ msThread[t].at \in {"new", "post", "json"} /\ msFree > 0 /\ msFree' = msFree - 1
      /\ msThread' = [msThread EXCEPT ![t] = [at |-> Http!Running[msThread[t].at],
                                             sid |-> msThread[t].sid, item |-> msThread[t].item]]
      /\ UNCHANGED <<msSessions, msActive, msIdle, msKnown, msBorn, msQueue, msCalls, msAcked,
                     msWritten, msCut, msSweep, msSwept, msUp>>
  BY RunningValues, Moves DEF Http!Acquire, Http!Slot, Http!registry, Http!ids, Http!answers,
     Http!sweeper, HttpInv, Http!TypeOK
<1>2. Http!Running[msThread[t].at] \in {"run_new", "run", "run_json"}
  BY <1>1, RunningValues
<1>3. Http!TypeOK'
  <2>1. msThread' \in [Requests -> Records]
    BY <1>1, <1>2, ThreadType DEF Records
  <2>2. msFree' \in 0 .. RequestSlots
    BY <1>1, HttpBounds DEF HttpInv, Http!TypeOK
  <2> QED
    BY <1>1, <2>1, <2>2 DEF HttpInv, Http!TypeOK, Sentinel, Records
<1>4. Forward
  <2>1. ThreadShaped(t)'
    BY <1>1, RunningValues, ThreadType DEF ThreadShaped
  <2> QED
    BY <1>1, <2>1, ThreadType DEF Forward, Onward
<1>5. Closers'
  BY <1>1, <1>2, ThreadType, QuietClosers
<1>6. SlotsTaken'
  <2>1. Handlers' = Handlers \cup {t} /\ t \notin Handlers
    BY <1>1, <1>2, ThreadType DEF Handlers
  <2>2. /\ IsFiniteSet(Handlers') /\ Cardinality(Handlers') = Cardinality(Handlers) + 1
        /\ Cardinality(Handlers) \in Nat
    BY <2>1, FS_AddElement, FS_CardinalityType DEF HttpInv, SlotsTaken
  <2> QED
    BY <1>1, <2>2, HttpBounds DEF HttpInv, SlotsTaken, Http!TypeOK
<1>7. Http!StampsHaveOwners'
  BY <1>1, <1>2, ThreadType DEF HttpInv, Http!StampsHaveOwners, Http!Streaming
<1> QED
  BY <1>1, <1>2, <1>3, <1>4, <1>5, <1>6, <1>7, QuietKeeps DEF HttpInv

(* A handler that ends gives its slot back.                                *)
LEMMA HandledKeeps ==
  ASSUME HttpInv, NEW t \in Requests, Http!Handled(t)
  PROVE  HttpInv'
<1>1. /\ msThread[t].at \in {"run_new", "run", "run_json"} /\ msFree' = msFree + 1
      /\ UNCHANGED <<msSessions, msActive, msIdle, msKnown, msBorn, msQueue, msCalls, msAcked,
                     msWritten, msCut, msSweep, msSwept, msUp>>
  BY RunningValues DEF Http!Handled, Http!registry, Http!ids, Http!answers, Http!sweeper
<1>2. PICK r : /\ msThread' = [msThread EXCEPT ![t] = r] /\ r \in Records
               /\ \/ msThread[t].at = "run_new" /\ r.at = "open"
                  \/ msThread[t].at = "run" /\ r.at = "answer"
                  \/ msThread[t].at = "run_json" /\ r.at = "rest"
               /\ r.at # "rest" => r.sid = msThread[t].sid /\ r.item = msThread[t].item
  <2> DEFINE gone(at) == [at |-> at, sid |-> msThread[t].sid, item |-> msThread[t].item]
  <2>1. CASE msThread[t].at = "run_new"
    <3>1. Http!Go(t, "open") /\ gone("open") \in Records
      BY <2>1, ThreadType DEF Http!Handled, Records
    <3>2. msThread' = [msThread EXCEPT ![t] = gone("open")]
      BY <3>1, Moves
    <3>3. gone("open").at = "open" /\ gone("open").sid = msThread[t].sid /\ gone("open").item = msThread[t].item
      OBVIOUS
    <3> HIDE DEF gone
    <3> QED
      BY <2>1, <3>1, <3>2, <3>3
  <2>2. CASE msThread[t].at = "run"
    <3>1. Http!Go(t, "answer") /\ gone("answer") \in Records
      BY <2>2, ThreadType DEF Http!Handled, Records
    <3>2. msThread' = [msThread EXCEPT ![t] = gone("answer")]
      BY <3>1, Moves
    <3>3. gone("answer").at = "answer" /\ gone("answer").sid = msThread[t].sid /\ gone("answer").item = msThread[t].item
      OBVIOUS
    <3> HIDE DEF gone
    <3> QED
      BY <2>2, <3>1, <3>2, <3>3
  <2>3. CASE msThread[t].at = "run_json"
    <3>1. Http!Leave(t)
      BY <2>3 DEF Http!Handled
    <3> QED
      BY <2>3, <3>1, Moves DEF Records
  <2> QED
    BY <1>1, <2>1, <2>2, <2>3
<1>3. SlotsTaken' /\ msFree' \in 0 .. RequestSlots
  <2>1. Handlers' = Handlers \ {t} /\ t \in Handlers
    BY <1>1, <1>2, ThreadType DEF Handlers
  <2>2. /\ IsFiniteSet(Handlers') /\ Cardinality(Handlers') = Cardinality(Handlers) - 1
        /\ Cardinality(Handlers) \in Nat /\ Cardinality(Handlers') \in Nat
    BY <2>1, FS_RemoveElement, FS_CardinalityType DEF HttpInv, SlotsTaken
  <2> QED
    BY <1>1, <2>2, HttpBounds DEF HttpInv, SlotsTaken, Http!TypeOK
<1>4. Http!TypeOK'
  <2>1. msThread' \in [Requests -> Records]
    BY <1>2, ThreadType
  <2> QED
    BY <1>1, <1>3, <2>1 DEF HttpInv, Http!TypeOK, Sentinel, Records
<1>5. Forward
  <2>1. ThreadShaped(t)'
    BY <1>1, <1>2, ThreadType DEF ThreadShaped
  <2> QED
    BY <1>1, <1>2, <2>1, ThreadType DEF Forward, Onward
<1>6. Closers'
  BY <1>1, <1>2, ThreadType, QuietClosers
<1>7. Http!StampsHaveOwners'
  BY <1>1, <1>2, ThreadType DEF HttpInv, Http!StampsHaveOwners, Http!Streaming
<1> QED
  BY <1>1, <1>2, <1>3, <1>4, <1>5, <1>6, <1>7, QuietKeeps DEF HttpInv

(* The session of a thread that gives up, or of a stream that ended, is    *)
(* dropped with its stamp.                                                 *)
LEMMA LeaverKeeps ==
  ASSUME HttpInv, NEW t \in Requests,
         Http!Busy(t) \/ Http!OpenFails(t) \/ Http!EndStream(t)
  PROVE  HttpInv'
<1> DEFINE s == msThread[t].sid
<1>1. /\ msThread[t].at \in {"new", "post", "json", "open", "end"}
      /\ msThread' = [msThread EXCEPT ![t] = [at |-> "rest", sid |-> NoSession, item |-> Http!None]]
      /\ UNCHANGED <<msKnown, msBorn, msQueue, msFree, msCalls, msAcked, msWritten, msCut,
                     msSweep, msSwept, msUp>>
  BY RunningValues, Moves DEF Http!Busy, Http!OpenFails, Http!EndStream, Http!registry, Http!ids,
     Http!answers, Http!sweeper
<1>2. \/ /\ msSessions' = msSessions \ {s} /\ msActive' = msActive \ {s} /\ msIdle' = msIdle \ {s}
      \/ msThread[t].at # "end" /\ UNCHANGED <<msSessions, msActive, msIdle>>
  BY RunningValues DEF Http!Busy, Http!OpenFails, Http!EndStream, Http!registry, Http!Drop
<1>3. Http!TypeOK'
  <2>1. msThread' \in [Requests -> Records]
    BY <1>1, ThreadType DEF Records
  <2> QED
    BY <1>1, <1>2, <2>1 DEF HttpInv, Http!TypeOK, Sentinel, Records
<1>4. Forward
  BY <1>1, <1>2, ThreadType DEF Forward, Onward, ThreadShaped
<1>5. Closers'
  BY <1>1, <1>2, ThreadType, QuietClosers
<1>6. SlotsTaken'
  BY <1>1, ThreadType, QuietSlots DEF Handlers
<1>7. Http!StampsHaveOwners'
  BY <1>1, <1>2, ThreadType DEF HttpInv, Http!StampsHaveOwners, Http!Streaming
<1> QED
  BY <1>1, <1>2, <1>3, <1>4, <1>5, <1>6, <1>7, QuietKeeps DEF HttpInv

-----------------------------------------------------------------------------
(* The streams.                                                            *)
LEMMA OpenStreamKeeps ==
  ASSUME HttpInv, NEW t \in Requests, Http!OpenStream(t)
  PROVE  HttpInv'
<1> DEFINE s == msThread[t].sid
<1>1. /\ msThread[t].at = "open" /\ s \in msBorn /\ msThread[t].item \in Http!Calls \cup {Http!None}
      /\ msThread' = [msThread EXCEPT ![t] = [at |-> "stream", sid |-> s, item |-> Http!None]]
      /\ msKnown' = msKnown \cup {s} /\ msWritten' = msWritten \cup ({msThread[t].item} \ {Http!None})
      /\ UNCHANGED <<msSessions, msActive, msIdle, msBorn, msQueue, msFree, msCalls, msAcked,
                     msCut, msSweep, msSwept, msUp>>
  BY Moves, ThreadType DEF Http!OpenStream, Http!registry, Http!sweeper, ThreadShaped
<1>2. s \in Sessions
  BY <1>1 DEF HttpInv, Http!TypeOK
<1>3. Http!TypeOK'
  <2>1. msThread' \in [Requests -> Records]
    BY <1>1, <1>2, ThreadType DEF Records
  <2> QED
    BY <1>1, <2>1 DEF HttpInv, Http!TypeOK, Sentinel, Records
<1>4. Forward
  <2>1. Reads(s)'
    BY <1>1, ThreadType DEF Reads
  <2> QED
    BY <1>1, <2>1, ThreadType DEF Forward, Onward, ThreadShaped
<1>5. Closers'
  BY <1>1, ThreadType, QuietClosers
<1>6. SlotsTaken'
  BY <1>1, ThreadType, QuietSlots DEF Handlers
<1>7. Http!StampsHaveOwners'
  BY <1>1, ThreadType DEF HttpInv, Http!StampsHaveOwners, Http!Streaming
<1> QED
  BY <1>1, <1>3, <1>4, <1>5, <1>6, <1>7, QuietKeeps DEF HttpInv

(* The answer a stream holds is written.                                   *)
LEMMA WriteKeeps ==
  ASSUME HttpInv, NEW t \in Requests, Http!Write(t)
  PROVE  HttpInv'
<1> DEFINE s == msThread[t].sid
<1>1. /\ msThread[t].at \in {"stream", "write"} /\ s \in msKnown
      /\ msThread[t].item \in Http!Calls \cup {Http!None}
      /\ msThread[t].at = "write" => msThread[t].item \in Http!Calls
      /\ msThread' = [msThread EXCEPT ![t] = [at |-> "stream", sid |-> s, item |-> Http!None]]
      /\ msActive' = msActive \cup {s} /\ msIdle' = msIdle \ {s}
      /\ msWritten' = msWritten \cup ({msThread[t].item} \ {Http!None})
      /\ UNCHANGED <<msSessions, msKnown, msBorn, msQueue, msFree, msCalls, msAcked,
                     msCut, msSweep, msSwept, msUp>>
  BY Moves, ThreadType DEF Http!Write, Http!Stamp, Http!ids, Http!sweeper, ThreadShaped
<1>2. s \in Sessions /\ s \in msBorn
  BY <1>1 DEF HttpInv, Http!TypeOK
<1>3. Http!TypeOK'
  <2>1. msThread' \in [Requests -> Records]
    BY <1>1, <1>2, ThreadType DEF Records
  <2> QED
    BY <1>1, <1>2, <2>1 DEF HttpInv, Http!TypeOK, Sentinel, Records
<1>4. Forward
  <2>1. \A c \in Http!Calls : c # Http!None
    BY DEF Http!Calls, Http!None
  <2> QED
    BY <1>1, <1>2, <2>1, ThreadType DEF Forward, Onward, ThreadShaped
<1>5. Closers'
  BY <1>1, ThreadType, QuietClosers
<1>6. SlotsTaken'
  BY <1>1, ThreadType, QuietSlots DEF Handlers
<1>7. Http!StampsHaveOwners'
  BY <1>1, ThreadType DEF HttpInv, Http!StampsHaveOwners, Http!Streaming
<1> QED
  BY <1>1, <1>3, <1>4, <1>5, <1>6, <1>7, QuietKeeps DEF HttpInv

(* The client of a stream leaves.                                          *)
LEMMA DisconnectKeeps ==
  ASSUME HttpInv, NEW t \in Requests, Http!Disconnect(t)
  PROVE  HttpInv'
<1> DEFINE s == msThread[t].sid
<1>1. /\ msThread[t].at \in {"stream", "write"} /\ s \in msKnown
      /\ msThread' = [msThread EXCEPT ![t] = [at |-> "end", sid |-> s, item |-> msThread[t].item]]
      /\ msCut' = msCut \cup {s}
      /\ UNCHANGED <<msSessions, msActive, msIdle, msKnown, msBorn, msQueue, msFree, msCalls, msAcked,
                     msWritten, msSweep, msSwept, msUp>>
  BY Moves, ThreadType DEF Http!Disconnect, Http!registry, Http!ids, Http!sweeper, ThreadShaped
<1>2. s \in Sessions /\ s \in msBorn
  BY <1>1 DEF HttpInv, Http!TypeOK
<1>3. Http!TypeOK'
  <2>1. msThread' \in [Requests -> Records]
    BY <1>1, <1>2, ThreadType DEF Records
  <2> QED
    BY <1>1, <1>2, <2>1 DEF HttpInv, Http!TypeOK, Sentinel, Records
<1>4. Forward
  BY <1>1, <1>2, ThreadType DEF Forward, Onward, ThreadShaped
<1>5. Closers'
  BY <1>1, ThreadType, QuietClosers
<1>6. SlotsTaken'
  BY <1>1, ThreadType, QuietSlots DEF Handlers
<1>7. Http!StampsHaveOwners'
  BY <1>1, ThreadType DEF HttpInv, Http!StampsHaveOwners, Http!Streaming
<1> QED
  BY <1>1, <1>3, <1>4, <1>5, <1>6, <1>7, QuietKeeps DEF HttpInv

(* What TypeOK says of one queue.                                          *)
LEMMA QueueType ==
  ASSUME HttpInv, NEW s \in Sessions
  PROVE  /\ msQueue \in [Sessions -> Seq(Http!Calls \cup {Sentinel})]
         /\ msQueue[s] \in Seq(Http!Calls \cup {Sentinel})
         /\ Len(msQueue[s]) \in Nat /\ Len(msQueue[s]) <= Backlog
         /\ Sentinel \notin Http!Calls
BY HttpBounds DEF HttpInv, Http!TypeOK, Sentinel, Http!Sentinel, Http!Calls

(* An answer is put where its client will read it, or left it.             *)
LEMMA EnqueueAnswerKeeps ==
  ASSUME HttpInv, NEW t \in Requests, Http!Enqueue(t)
  PROVE  HttpInv'
<1> DEFINE s == msThread[t].sid
           c == msThread[t].item
           ok == s \in msSessions /\ Len(msQueue[s]) < Backlog
<1>1. /\ msThread[t].at = "answer" /\ s \in msKnown /\ c \in Http!Calls
      /\ msThread' = [msThread EXCEPT ![t] = [at |-> "rest", sid |-> NoSession, item |-> Http!None]]
      /\ UNCHANGED <<msSessions, msActive, msIdle, msKnown, msBorn, msFree, msCalls,
                     msWritten, msCut, msSweep, msSwept, msUp>>
  BY Moves, ThreadType DEF Http!Enqueue, Http!registry, Http!ids, Http!sweeper, ThreadShaped
<1>2. s \in Sessions /\ s \in msBorn
  BY <1>1 DEF HttpInv, Http!TypeOK
<1>3. Forward
  BY <1>1, ThreadType DEF Forward, Onward, ThreadShaped
<1>4. msThread' \in [Requests -> Records]
  BY <1>1, ThreadType DEF Records
<1>5. SlotsTaken'
  BY <1>1, ThreadType, QuietSlots DEF Handlers
<1>6. Http!StampsHaveOwners'
  BY <1>1, ThreadType DEF HttpInv, Http!StampsHaveOwners, Http!Streaming
<1>7. CASE ~ok
  <2>1. UNCHANGED <<msQueue, msAcked>>
    BY <1>7 DEF Http!Enqueue, Http!Current
  <2>2. Http!TypeOK'
    BY <1>1, <1>4, <2>1 DEF HttpInv, Http!TypeOK, Sentinel, Records
  <2>3. Closers'
    BY <1>1, <2>1, ThreadType, QuietClosers
  <2> QED
    BY <1>3, <1>5, <1>6, <2>1, <2>2, <2>3, QuietKeeps DEF HttpInv
<1>8. CASE ok
  <2>1. msQueue' = [msQueue EXCEPT ![s] = Append(msQueue[s], c)] /\ msAcked' = msAcked \cup {<<c, s>>}
    BY <1>8, <1>2, QueueType DEF Http!Enqueue, Http!Current
  <2> HIDE DEF s, c
  <2>2. /\ msQueue'[s] \in Seq(Http!Calls \cup {Sentinel})
        /\ Len(msQueue[s]) \in Nat /\ Len(msQueue'[s]) = Len(msQueue[s]) + 1
        /\ \A i \in 1 .. Len(msQueue[s]) : msQueue'[s][i] = msQueue[s][i]
        /\ msQueue'[s][Len(msQueue[s]) + 1] = c
    BY <1>1, <1>2, <2>1, QueueType, Appended
  <2>3. \A x \in Sessions : x # s => msQueue'[x] = msQueue[x]
    BY <1>2, <2>1, QueueType
  <2>4. Http!TypeOK'
    <3>1. /\ msQueue' \in [Sessions -> Seq(Http!Calls \cup {Sentinel})]
          /\ \A x \in Sessions : Len(msQueue'[x]) <= Backlog
      BY <1>2, <1>8, <2>1, <2>2, <2>3, QueueType, HttpBounds
    <3>2. msAcked' \subseteq Http!Calls \X Sessions
      BY <1>1, <1>2, <2>1 DEF HttpInv, Http!TypeOK
    <3> QED
      BY <1>1, <1>4, <3>1, <3>2 DEF HttpInv, Http!TypeOK, Sentinel, Records
  <2>5. c # Sentinel /\ ~Lies(Sentinel, s)
    BY <1>1, <1>2, <1>8, QueueType DEF HttpInv, QueuesShaped
  <2>6. \A x \in Sessions : ~Lies(Sentinel, x) => ~Lies(Sentinel, x)'
    BY <2>2, <2>3, <2>5 DEF Lies, Sentinel, Http!Sentinel
  <2>7. QueuesShaped'
    <3> SUFFICES ASSUME NEW x \in Sessions
                 PROVE  /\ x \notin msBorn' => msQueue'[x] = <<>>
                        /\ x \in msSessions' => ~Lies(Sentinel, x)'
                        /\ \A i \in 1 .. Len(msQueue'[x]) :
                               msQueue'[x][i] = Sentinel' => i = Len(msQueue'[x])
      BY DEF QueuesShaped
    <3>1. CASE x = s
      BY <1>1, <1>2, <2>2, <2>5, <2>6, <3>1 DEF Lies, Sentinel, Http!Sentinel
    <3>2. CASE x # s
      BY <1>1, <2>3, <2>6, <3>2 DEF HttpInv, QueuesShaped, Sentinel, Http!Sentinel
    <3> QED
      BY <3>1, <3>2
  <2>8. Closers'
    <3>1. \A x \in Sessions, u \in Requests : Closer(u, x)' => Closer(u, x)
      BY <1>1, ThreadType DEF Closer
    <3> QED
      BY <1>1, <2>6, <3>1 DEF HttpInv, Closers
  <2>9. Readers'
    <3> SUFFICES ASSUME NEW x \in Sessions
                 PROVE  /\ x \in msSessions' \cap msKnown' => x \in msCut' \/ Reads(x)'
                        /\ \A i \in 1 .. Len(msQueue'[x]) :
                               msQueue'[x][i] # Sentinel' => x \in msCut' \/ Reads(x)'
      BY DEF Readers
    <3>1. Reads(x) => Reads(x)' \/ x \in msCut'
      BY <1>3, ForwardThreads
    <3>2. CASE x = s
      BY <1>1, <1>8, <3>1, <3>2 DEF HttpInv, Readers
    <3>3. CASE x # s
      BY <1>1, <2>3, <3>1, <3>3 DEF HttpInv, Readers, Sentinel, Http!Sentinel
    <3> QED
      BY <3>2, <3>3
  <2>10. Held'
    <3> SUFFICES ASSUME NEW a \in msAcked', a[1] \notin msWritten', a[2] \notin msCut'
                 PROVE  \/ \E u \in Requests : msThread'[u] = [at |-> "write", sid |-> a[2], item |-> a[1]]
                        \/ Lies(a[1], a[2])'
      BY DEF Held
    <3>1. CASE a = <<c, s>>
      BY <2>2, <3>1 DEF Lies
    <3>2. CASE a \in msAcked
      <4>1. a[2] \in Sessions
        BY <3>2 DEF HttpInv, Http!TypeOK
      <4>2. Lies(a[1], a[2]) => Lies(a[1], a[2])'
        BY <2>2, <2>3, <4>1, SMTT(20) DEF Lies
      <4>3. ASSUME NEW u \in Requests, msThread[u] = [at |-> "write", sid |-> a[2], item |-> a[1]]
            PROVE  msThread'[u] = [at |-> "write", sid |-> a[2], item |-> a[1]]
        BY <1>3, <4>3, ForwardHolder
      <4> QED
        BY <1>1, <3>2, <4>2, <4>3 DEF HttpInv, Held
    <3> QED
      BY <2>1, <3>1, <3>2
  <2> QED
    BY <1>3, <1>5, <1>6, <2>4, <2>7, <2>8, <2>9, <2>10, ForwardThreads DEF HttpInv
<1> QED
  BY <1>7, <1>8

(* The head of a queue goes to the thread that takes it; a sentinel was    *)
(* the last one.                                                           *)
LEMMA GetKeeps ==
  ASSUME HttpInv, NEW t \in Requests, Http!Get(t)
  PROVE  HttpInv'
<1> DEFINE s == msThread[t].sid
           c == Head(msQueue[s])
           to == IF c = Sentinel THEN "end" ELSE "write"
<1>1. /\ msThread[t].at = "stream" /\ s \in msKnown /\ msQueue[s] # <<>>
      /\ msThread' = [msThread EXCEPT ![t] = [at |-> to, sid |-> s, item |-> c]]
      /\ msQueue' = [msQueue EXCEPT ![s] = Tail(msQueue[s])]
      /\ UNCHANGED <<msSessions, msActive, msIdle, msKnown, msBorn, msFree, msCalls, msAcked,
                     msWritten, msCut, msSweep, msSwept, msUp>>
  <2>1. /\ msThread[t].at = "stream" /\ s \in msKnown /\ msQueue[s] # <<>>
        /\ UNCHANGED <<msSessions, msActive, msIdle, msKnown, msBorn, msFree, msCalls, msAcked,
                       msWritten, msCut, msSweep, msSwept, msUp>>
    BY ThreadType DEF Http!Get, Http!registry, Http!ids, Http!answers, Http!sweeper, ThreadShaped
  <2>2. s \in Sessions
    BY <2>1 DEF HttpInv, Http!TypeOK
  <2>3. msQueue' = [msQueue EXCEPT ![s] = Tail(msQueue[s])]
    BY <2>2, QueueType DEF Http!Get
  <2>4. msThread' = [msThread EXCEPT ![t] = [at |-> to, sid |-> s, item |-> c]]
    BY DEF Http!Get, Sentinel
  <2> QED
    BY <2>1, <2>3, <2>4
<1>2. s \in Sessions /\ s \in msBorn
  BY <1>1 DEF HttpInv, Http!TypeOK
<1>3. /\ c = msQueue[s][1] /\ c \in Http!Calls \cup {Sentinel}
      /\ Len(msQueue[s]) \in Nat \ {0}
      /\ msQueue'[s] \in Seq(Http!Calls \cup {Sentinel}) /\ Len(msQueue'[s]) = Len(msQueue[s]) - 1
      /\ \A i \in 1 .. Len(msQueue[s]) - 1 : msQueue'[s][i] = msQueue[s][i + 1]
  BY <1>1, <1>2, QueueType, Shifted
<1>4. \A x \in Sessions : x # s => msQueue'[x] = msQueue[x]
  BY <1>1, <1>2, QueueType
<1> HIDE DEF s, c
<1>5. \A x \in Sessions : \A y : Lies(y, x)' => Lies(y, x)
  <2> SUFFICES ASSUME NEW x \in Sessions, NEW y, NEW i \in 1 .. Len(msQueue'[x]), msQueue'[x][i] = y
               PROVE  Lies(y, x)
    BY DEF Lies
  <2>1. CASE x = s
    <3>1. i + 1 \in 1 .. Len(msQueue[s]) /\ msQueue[s][i + 1] = y
      BY <1>3, <2>1
    <3> QED
      BY <2>1, <3>1 DEF Lies
  <2>2. CASE x # s
    BY <1>4, <2>2 DEF Lies
  <2> QED
    BY <2>1, <2>2
<1>6. c = Sentinel => Len(msQueue[s]) = 1 /\ s \notin msSessions
  <2> SUFFICES ASSUME c = Sentinel PROVE Len(msQueue[s]) = 1 /\ s \notin msSessions
    OBVIOUS
  <2>1. 1 \in 1 .. Len(msQueue[s]) /\ msQueue[s][1] = Sentinel
    BY <1>3
  <2>2. Lies(Sentinel, s)
    BY <2>1 DEF Lies
  <2> QED
    BY <1>2, <2>1, <2>2 DEF HttpInv, QueuesShaped
<1>7. Http!TypeOK'
  <2>1. /\ msQueue' \in [Sessions -> Seq(Http!Calls \cup {Sentinel})]
        /\ \A x \in Sessions : Len(msQueue'[x]) <= Backlog
    BY <1>1, <1>2, <1>3, <1>4, QueueType, HttpBounds
  <2>2. msThread' \in [Requests -> Records]
    BY <1>1, <1>2, <1>3, ThreadType DEF Records
  <2> QED
    BY <1>1, <2>1, <2>2 DEF HttpInv, Http!TypeOK, Sentinel, Records
<1>8. ThreadsShaped'
  <2>1. ThreadShaped(t)'
    BY <1>1, <1>2, <1>3, <1>6, ThreadType DEF ThreadShaped
  <2>2. ASSUME NEW u \in Requests, u # t
        PROVE  ThreadShaped(u)'
    BY <1>1, <2>2, ThreadType DEF HttpInv, ThreadsShaped, ThreadShaped
  <2> QED
    BY <2>1, <2>2 DEF ThreadsShaped
<1>9. SlotsTaken'
  BY <1>1, ThreadType, QuietSlots DEF Handlers
<1>10. QueuesShaped'
  <2> SUFFICES ASSUME NEW x \in Sessions
               PROVE  /\ x \notin msBorn' => msQueue'[x] = <<>>
                      /\ x \in msSessions' => ~Lies(Sentinel, x)'
                      /\ \A i \in 1 .. Len(msQueue'[x]) :
                             msQueue'[x][i] = Sentinel' => i = Len(msQueue'[x])
    BY DEF QueuesShaped
  <2>1. x \in msSessions' => ~Lies(Sentinel, x)'
    BY <1>1, <1>5 DEF HttpInv, QueuesShaped, Lies, Sentinel, Http!Sentinel
  <2>2. CASE x = s
    <3>1. ASSUME NEW i \in 1 .. Len(msQueue'[s]), msQueue'[s][i] = Sentinel
          PROVE  i = Len(msQueue'[s])
      <4>1. i + 1 \in 1 .. Len(msQueue[s]) /\ msQueue[s][i + 1] = Sentinel
        BY <1>3, <3>1
      <4>2. i + 1 = Len(msQueue[s])
        BY <1>2, <4>1 DEF HttpInv, QueuesShaped
      <4> QED
        BY <1>3, <4>2
    <3> QED
      BY <1>1, <1>2, <2>1, <2>2, <3>1 DEF Sentinel, Http!Sentinel
  <2>3. CASE x # s
    BY <1>1, <1>4, <2>1, <2>3 DEF HttpInv, QueuesShaped, Sentinel, Http!Sentinel
  <2> QED
    BY <2>2, <2>3
<1>11. Closers'
  <2>1. \A x \in Sessions, u \in Requests : Closer(u, x)' => Closer(u, x)
    BY <1>1, ThreadType DEF Closer
  <2>2. \A x \in Sessions : Lies(Sentinel, x)' => Lies(Sentinel, x)
    BY <1>5 DEF Lies, Sentinel, Http!Sentinel
  <2> QED
    BY <1>1, <2>1, <2>2 DEF HttpInv, Closers
<1>12. Readers'
  <2> SUFFICES ASSUME NEW x \in Sessions
               PROVE  /\ x \in msSessions' \cap msKnown' => x \in msCut' \/ Reads(x)'
                      /\ \A i \in 1 .. Len(msQueue'[x]) :
                             msQueue'[x][i] # Sentinel' => x \in msCut' \/ Reads(x)'
    BY DEF Readers
  <2>1. CASE x # s
    <3>1. Reads(x) => Reads(x)'
      BY <1>1, <2>1, ThreadType DEF Reads, s
    <3> QED
      BY <1>1, <1>4, <2>1, <3>1 DEF HttpInv, Readers, Sentinel, Http!Sentinel
  <2>2. CASE x = s /\ c # Sentinel
    <3>1. Reads(x)'
      BY <1>1, <2>2, ThreadType DEF Reads
    <3> QED
      BY <2>2, <3>1
  <2>3. CASE x = s /\ c = Sentinel
    BY <1>1, <1>3, <1>6, <2>3
  <2> QED
    BY <2>1, <2>2, <2>3
<1>13. Held'
  <2> SUFFICES ASSUME NEW a \in msAcked, a[1] \notin msWritten, a[2] \notin msCut
               PROVE  \/ \E u \in Requests : msThread'[u] = [at |-> "write", sid |-> a[2], item |-> a[1]]
                      \/ Lies(a[1], a[2])'
    BY <1>1 DEF Held
  <2>1. a[2] \in Sessions /\ a[1] \in Http!Calls
    BY DEF HttpInv, Http!TypeOK
  <2>2. ASSUME NEW u \in Requests, msThread[u] = [at |-> "write", sid |-> a[2], item |-> a[1]]
        PROVE  msThread'[u] = [at |-> "write", sid |-> a[2], item |-> a[1]]
    BY <1>1, <2>2, ThreadType
  <2>3. CASE Lies(a[1], a[2])
    <3>1. CASE a[2] # s
      BY <1>4, <2>1, <2>3, <3>1 DEF Lies
    <3>2. CASE a[2] = s
      <4>1. PICK i \in 1 .. Len(msQueue[s]) : msQueue[s][i] = a[1]
        BY <2>3, <3>2 DEF Lies
      <4>2. CASE i = 1
        <5>1. c = a[1] /\ c # Sentinel
          BY <1>2, <1>3, <2>1, <4>1, <4>2, QueueType
        <5> QED
          BY <1>1, <3>2, <5>1, ThreadType
      <4>3. CASE i # 1
        <5>1. i - 1 \in 1 .. Len(msQueue[s]) - 1 /\ (i - 1) + 1 = i
          BY <1>3, <4>3
        <5>2. msQueue'[s][i - 1] = a[1] /\ i - 1 \in 1 .. Len(msQueue'[s])
          BY <1>3, <4>1, <5>1
        <5> QED
          BY <3>2, <5>2 DEF Lies
      <4> QED
        BY <4>2, <4>3
    <3> QED
      BY <3>1, <3>2
  <2> QED
    BY <2>2, <2>3 DEF HttpInv, Held
<1>14. Http!StampsHaveOwners'
  BY <1>1, ThreadType DEF HttpInv, Http!StampsHaveOwners, Http!Streaming, s
<1> QED
  BY <1>7, <1>8, <1>9, <1>10, <1>11, <1>12, <1>13, <1>14 DEF HttpInv

-----------------------------------------------------------------------------
(* Closing.                                                                *)

(* A sentinel goes behind what lies in a queue, or a full one swallows it. *)
LEMMA Signalled ==
  ASSUME HttpInv, NEW s \in Sessions
  PROVE  LET q == Http!Signal(msQueue[s])
         IN  /\ q \in Seq(Http!Calls \cup {Sentinel}) /\ Len(q) \in Nat /\ Len(q) <= Backlog
             /\ Len(q) \in {Len(msQueue[s]), Len(msQueue[s]) + 1}
             /\ \A i \in 1 .. Len(msQueue[s]) : q[i] = msQueue[s][i]
             /\ Len(q) = Len(msQueue[s]) + 1 => q[Len(q)] = Sentinel
<1> DEFINE p == msQueue[s]
<1>1. /\ p \in Seq(Http!Calls \cup {Sentinel}) /\ Len(p) \in Nat /\ Len(p) <= Backlog
  BY QueueType
<1>2. CASE Len(p) < Backlog
  <2>1. Http!Signal(p) = Append(p, Sentinel)
    BY <1>2 DEF Http!Signal, Sentinel
  <2> QED
    BY <1>1, <1>2, <2>1, Appended, HttpBounds
<1>3. CASE ~(Len(p) < Backlog)
  <2>1. Http!Signal(p) = p
    BY <1>3 DEF Http!Signal
  <2> QED
    BY <1>1, <2>1
<1> QED
  BY <1>2, <1>3

(* Sessions that are registered no more and have had no sentinel get one.  *)
LEMMA SignalKeeps ==
  ASSUME HttpInv, NEW X, X \subseteq Sessions, X \subseteq msBorn, X \cap msSessions' = {},
         \A s \in X : ~Lies(Sentinel, s),
         msQueue' = [s \in Sessions |-> IF s \in X THEN Http!Signal(msQueue[s]) ELSE msQueue[s]],
         Forward, msAcked' = msAcked, msKnown' = msKnown, msBorn' = msBorn
  PROVE  /\ msQueue' \in [Sessions -> Seq(Http!Calls \cup {Sentinel})]
         /\ \A s \in Sessions : Len(msQueue'[s]) <= Backlog
         /\ \A s \in Sessions \ X : Lies(Sentinel, s)' => Lies(Sentinel, s)
         /\ ThreadsShaped' /\ QueuesShaped' /\ Readers' /\ Held'
<1>1. /\ \A s \in Sessions \ X : msQueue'[s] = msQueue[s]
      /\ \A s \in X : msQueue'[s] = Http!Signal(msQueue[s])
  OBVIOUS
<1>2. \A s \in X :
        /\ Len(msQueue[s]) \in Nat /\ Len(msQueue'[s]) \in {Len(msQueue[s]), Len(msQueue[s]) + 1}
        /\ \A i \in 1 .. Len(msQueue[s]) : msQueue'[s][i] = msQueue[s][i]
        /\ Len(msQueue'[s]) = Len(msQueue[s]) + 1 => msQueue'[s][Len(msQueue'[s])] = Sentinel
  BY <1>1, Signalled, QueueType
<1>3. /\ msQueue' \in [Sessions -> Seq(Http!Calls \cup {Sentinel})]
      /\ \A s \in Sessions : Len(msQueue'[s]) <= Backlog
  <2>1. \A s \in Sessions : /\ msQueue'[s] \in Seq(Http!Calls \cup {Sentinel})
                            /\ Len(msQueue'[s]) <= Backlog
    BY <1>1, Signalled, QueueType
  <2> QED
    BY <2>1
<1>4. \A s \in Sessions \ X : Lies(Sentinel, s)' => Lies(Sentinel, s)
  BY <1>1 DEF Lies, Sentinel, Http!Sentinel
<1>5. QueuesShaped'
  <2> SUFFICES ASSUME NEW s \in Sessions
               PROVE  /\ s \notin msBorn' => msQueue'[s] = <<>>
                      /\ s \in msSessions' => ~Lies(Sentinel, s)'
                      /\ \A i \in 1 .. Len(msQueue'[s]) :
                             msQueue'[s][i] = Sentinel' => i = Len(msQueue'[s])
    BY DEF QueuesShaped
  <2>1. msSessions' \subseteq msSessions \/ s \notin msSessions' \/ s \in msSessions \/ s \notin msBorn
    BY DEF Forward
  <2>2. CASE s \in X
    <3>1. ASSUME NEW i \in 1 .. Len(msQueue'[s]), msQueue'[s][i] = Sentinel
          PROVE  i = Len(msQueue'[s])
      <4>1. \A j \in 1 .. Len(msQueue[s]) : msQueue[s][j] # Sentinel
        BY <2>2 DEF Lies
      <4>2. /\ Len(msQueue[s]) \in Nat /\ Len(msQueue'[s]) \in {Len(msQueue[s]), Len(msQueue[s]) + 1}
            /\ \A j \in 1 .. Len(msQueue[s]) : msQueue'[s][j] = msQueue[s][j]
        BY <1>2, <2>2
      <4>3. ~(i \in 1 .. Len(msQueue[s]))
        BY <3>1, <4>1, <4>2
      <4> QED
        BY <3>1, <4>2, <4>3
    <3> QED
      BY <2>2, <3>1 DEF Sentinel, Http!Sentinel
  <2>3. CASE s \notin X
    <3>1. msQueue'[s] = msQueue[s]
      BY <1>1, <2>3
    <3>2. s \in msSessions' => ~Lies(Sentinel, s)
      <4>1. s \notin msBorn => ~Lies(Sentinel, s)
        BY DEF HttpInv, QueuesShaped, Lies
      <4> QED
        BY <4>1 DEF HttpInv, QueuesShaped, Forward
    <3> QED
      BY <1>4, <2>3, <3>1, <3>2 DEF HttpInv, QueuesShaped, Sentinel, Http!Sentinel
  <2> QED
    BY <2>2, <2>3
<1>6. Readers'
  <2> SUFFICES ASSUME NEW s \in Sessions
               PROVE  /\ s \in msSessions' \cap msKnown' => s \in msCut' \/ Reads(s)'
                      /\ \A i \in 1 .. Len(msQueue'[s]) :
                             msQueue'[s][i] # Sentinel' => s \in msCut' \/ Reads(s)'
    BY DEF Readers
  <2>1. Reads(s) \/ s \in msCut => Reads(s)' \/ s \in msCut'
    BY ForwardThreads DEF Forward
  <2>2. s \in msSessions' \cap msKnown' => s \in msCut \/ Reads(s)
    <3>1. msKnown \subseteq msBorn
      BY DEF HttpInv, Http!TypeOK
    <3> QED
      BY <3>1 DEF HttpInv, Readers, Forward
  <2>3. ASSUME NEW i \in 1 .. Len(msQueue'[s]), msQueue'[s][i] # Sentinel
        PROVE  s \in msCut \/ Reads(s)
    <3>1. i \in 1 .. Len(msQueue[s]) /\ msQueue[s][i] # Sentinel
      <4>1. CASE s \notin X
        <5>1. msQueue'[s] = msQueue[s]
          BY <1>1, <4>1
        <5> QED
          BY <2>3, <5>1
      <4>2. CASE s \in X
        <5>1. /\ Len(msQueue[s]) \in Nat
              /\ Len(msQueue'[s]) \in {Len(msQueue[s]), Len(msQueue[s]) + 1}
              /\ \A j \in 1 .. Len(msQueue[s]) : msQueue'[s][j] = msQueue[s][j]
              /\ Len(msQueue'[s]) = Len(msQueue[s]) + 1
                    => msQueue'[s][Len(msQueue'[s])] = Sentinel
          BY <1>2, <4>2
        <5>2. CASE i \in 1 .. Len(msQueue[s])
          BY <2>3, <5>1, <5>2
        <5>3. CASE ~(i \in 1 .. Len(msQueue[s]))
          <6>1. i = Len(msQueue'[s]) /\ Len(msQueue'[s]) = Len(msQueue[s]) + 1
            BY <2>3, <5>1, <5>3
          <6> QED
            BY <2>3, <5>1, <6>1
        <5> QED
          BY <5>2, <5>3
      <4> QED
        BY <4>1, <4>2
    <3> QED
      BY <3>1 DEF HttpInv, Readers
  <2> QED
    BY <2>1, <2>2, <2>3 DEF Sentinel, Http!Sentinel
<1>7. Held'
  <2> SUFFICES ASSUME NEW a \in msAcked, a[1] \notin msWritten', a[2] \notin msCut'
               PROVE  \/ \E t \in Requests : msThread'[t] = [at |-> "write", sid |-> a[2], item |-> a[1]]
                      \/ Lies(a[1], a[2])'
    BY DEF Held
  <2>1. a[2] \in Sessions
    BY DEF HttpInv, Http!TypeOK
  <2>2. Lies(a[1], a[2]) => Lies(a[1], a[2])'
    <3>1. ASSUME NEW i \in 1 .. Len(msQueue[a[2]]), msQueue[a[2]][i] = a[1]
          PROVE  \E j \in 1 .. Len(msQueue'[a[2]]) : msQueue'[a[2]][j] = a[1]
      <4>1. CASE a[2] \notin X
        <5>1. msQueue'[a[2]] = msQueue[a[2]]
          BY <1>1, <2>1, <4>1
        <5> QED
          BY <3>1, <5>1
      <4>2. CASE a[2] \in X
        <5>1. /\ Len(msQueue[a[2]]) \in Nat
              /\ Len(msQueue'[a[2]]) \in {Len(msQueue[a[2]]), Len(msQueue[a[2]]) + 1}
              /\ \A j \in 1 .. Len(msQueue[a[2]]) : msQueue'[a[2]][j] = msQueue[a[2]][j]
          BY <1>2, <4>2
        <5>2. i \in 1 .. Len(msQueue'[a[2]])
          BY <5>1
        <5>3. msQueue'[a[2]][i] = msQueue[a[2]][i]
          BY <5>1
        <5> QED
          BY <3>1, <5>2, <5>3
      <4> QED
        BY <4>1, <4>2
    <3> QED
      BY <3>1 DEF Lies
  <2>3. ASSUME NEW t \in Requests, msThread[t] = [at |-> "write", sid |-> a[2], item |-> a[1]]
        PROVE  msThread'[t] = [at |-> "write", sid |-> a[2], item |-> a[1]]
    BY <2>3, ForwardHolder
  <2> QED
    BY <2>2, <2>3 DEF HttpInv, Held, Forward
<1> QED
  BY <1>3, <1>4, <1>5, <1>6, <1>7, ForwardThreads

(* Whoever took the session of the registry signals it.                    *)
LEMMA SignalCloseKeeps ==
  ASSUME HttpInv, NEW t \in Requests, Http!SignalClose(t)
  PROVE  HttpInv'
<1> DEFINE s == msThread[t].sid
<1>1. /\ msThread[t].at = "close" /\ s \in msBorn
      /\ msThread' = [msThread EXCEPT ![t] = [at |-> "rest", sid |-> NoSession, item |-> Http!None]]
      /\ UNCHANGED <<msSessions, msActive, msIdle, msKnown, msBorn, msFree, msCalls, msAcked,
                     msWritten, msCut, msSweep, msSwept, msUp>>
  BY Moves, ThreadType DEF Http!SignalClose, Http!registry, Http!ids, Http!answers, Http!sweeper, ThreadShaped
<1>2. s \in Sessions
  BY <1>1 DEF HttpInv, Http!TypeOK
<1>3. msQueue' = [x \in Sessions |-> IF x \in {s} THEN Http!Signal(msQueue[x]) ELSE msQueue[x]]
  BY <1>2, QueueType DEF Http!SignalClose
<1>4. Closer(t, s)
  BY <1>1 DEF Closer
<1>5. s \notin msSessions /\ ~Lies(Sentinel, s)
  BY <1>2, <1>4 DEF HttpInv, Closers
<1>6. Forward
  BY <1>1, ThreadType DEF Forward, Onward, ThreadShaped
<1> DEFINE X == {s}
<1>7. /\ X \subseteq Sessions /\ X \subseteq msBorn /\ X \cap msSessions' = {}
      /\ \A x \in X : ~Lies(Sentinel, x)
      /\ msQueue' = [x \in Sessions |-> IF x \in X THEN Http!Signal(msQueue[x]) ELSE msQueue[x]]
  BY <1>1, <1>2, <1>3, <1>5
<1> HIDE DEF X
<1>8. /\ msQueue' \in [Sessions -> Seq(Http!Calls \cup {Sentinel})]
      /\ \A x \in Sessions : Len(msQueue'[x]) <= Backlog
      /\ \A x \in Sessions \ X : Lies(Sentinel, x)' => Lies(Sentinel, x)
      /\ ThreadsShaped' /\ QueuesShaped' /\ Readers' /\ Held'
  BY <1>1, <1>6, <1>7, SignalKeeps
<1>9. Http!TypeOK'
  <2>1. msThread' \in [Requests -> Records]
    BY <1>1, ThreadType DEF Records
  <2> QED
    BY <1>1, <1>8, <2>1 DEF HttpInv, Http!TypeOK, Sentinel, Records
<1>10. Closers'
  <2>1. \A x \in Sessions, u \in Requests : Closer(u, x)' => Closer(u, x) /\ u # t
    BY <1>1, ThreadType DEF Closer
  <2>2. \A x \in Sessions : x = msSwept \/ (\E u \in Requests : Closer(u, x)') => x # s
    BY <1>2, <1>4, <2>1 DEF HttpInv, Closers
  <2>3. \A x \in Sessions : x # s => x \notin X
    BY DEF X
  <2> QED
    BY <1>1, <1>8, <2>1, <2>2, <2>3 DEF HttpInv, Closers
<1>11. SlotsTaken'
  BY <1>1, ThreadType, QuietSlots DEF Handlers
<1>12. Http!StampsHaveOwners'
  BY <1>1, ThreadType DEF HttpInv, Http!StampsHaveOwners, Http!Streaming
<1> QED
  BY <1>8, <1>9, <1>10, <1>11, <1>12 DEF HttpInv

(* The sweeper signals the session it popped.                              *)
LEMMA SweepSignalsKeeps ==
  ASSUME HttpInv, Http!SweepSignals
  PROVE  HttpInv'
<1> DEFINE X == {msSwept}
<1>1. /\ msSwept # NoSession /\ msSwept' = NoSession /\ msSwept \in Sessions
      /\ UNCHANGED <<msThread, msSessions, msActive, msIdle, msKnown, msBorn, msFree, msCalls, msAcked,
                     msWritten, msCut, msSweep, msUp>>
  BY DEF Http!SweepSignals, Http!registry, Http!ids, Http!answers, HttpInv, Http!TypeOK
<1>2. msQueue' = [x \in Sessions |-> IF x \in X THEN Http!Signal(msQueue[x]) ELSE msQueue[x]]
  BY <1>1, QueueType DEF Http!SweepSignals
<1>3. /\ X \subseteq Sessions /\ X \subseteq msBorn /\ X \cap msSessions' = {}
      /\ \A x \in X : ~Lies(Sentinel, x)
  BY <1>1 DEF HttpInv, Closers
<1>4. Forward
  BY <1>1 DEF Forward, Onward
<1> HIDE DEF X
<1>5. /\ msQueue' \in [Sessions -> Seq(Http!Calls \cup {Sentinel})]
      /\ \A x \in Sessions : Len(msQueue'[x]) <= Backlog
      /\ \A x \in Sessions \ X : Lies(Sentinel, x)' => Lies(Sentinel, x)
      /\ ThreadsShaped' /\ QueuesShaped' /\ Readers' /\ Held'
  BY <1>1, <1>2, <1>3, <1>4, SignalKeeps
<1>6. Http!TypeOK'
  BY <1>1, <1>5 DEF HttpInv, Http!TypeOK, Sentinel
<1>7. Closers'
  <2>1. \A x \in Sessions, u \in Requests : Closer(u, x)' => Closer(u, x) /\ x \notin X
    BY <1>1 DEF Closer, X, HttpInv, Closers
  <2>2. \A x \in Sessions : x # msSwept'
    BY <1>1, HttpBounds
  <2> QED
    BY <1>1, <1>5, <2>1, <2>2 DEF HttpInv, Closers
<1>8. SlotsTaken'
  BY <1>1, QuietSlots DEF Handlers
<1>9. Http!StampsHaveOwners'
  BY <1>1 DEF HttpInv, Http!StampsHaveOwners, Http!Streaming
<1> QED
  BY <1>5, <1>6, <1>7, <1>8, <1>9 DEF HttpInv

(* A shutdown takes and signals every session.                             *)
LEMMA ShutdownKeeps ==
  ASSUME HttpInv, Http!Shutdown
  PROVE  HttpInv'
<1>1. /\ msSessions' = {} /\ msActive' = {} /\ msIdle' = {} /\ msUp' = "closing"
      /\ msQueue' = [s \in Sessions |-> IF s \in msSessions THEN Http!Signal(msQueue[s]) ELSE msQueue[s]]
      /\ UNCHANGED <<msThread, msKnown, msBorn, msFree, msCalls, msAcked, msWritten, msCut,
                     msSweep, msSwept>>
  BY DEF Http!Shutdown, Http!ids, Http!answers, Http!sweeper
<1>2. /\ msSessions \subseteq Sessions /\ msSessions \subseteq msBorn /\ msSessions \cap msSessions' = {}
      /\ \A x \in msSessions : ~Lies(Sentinel, x)
  BY <1>1 DEF HttpInv, Http!TypeOK, QueuesShaped
<1>3. Forward
  BY <1>1 DEF Forward, Onward
<1>4. /\ msQueue' \in [Sessions -> Seq(Http!Calls \cup {Sentinel})]
      /\ \A x \in Sessions : Len(msQueue'[x]) <= Backlog
      /\ \A x \in Sessions \ msSessions : Lies(Sentinel, x)' => Lies(Sentinel, x)
      /\ ThreadsShaped' /\ QueuesShaped' /\ Readers' /\ Held'
  BY <1>1, <1>2, <1>3, SignalKeeps
<1>5. Http!TypeOK'
  BY <1>1, <1>4 DEF HttpInv, Http!TypeOK, Sentinel
<1>6. Closers'
  <2>1. \A x \in Sessions, u \in Requests : Closer(u, x)' => Closer(u, x)
    BY <1>1 DEF Closer
  <2> QED
    BY <1>1, <1>4, <2>1 DEF HttpInv, Closers
<1>7. SlotsTaken'
  BY <1>1, QuietSlots DEF Handlers
<1>8. Http!StampsHaveOwners'
  BY <1>1 DEF Http!StampsHaveOwners
<1> QED
  BY <1>4, <1>5, <1>6, <1>7, <1>8 DEF HttpInv

(* The sweep: only a session it takes out itself will it signal.           *)
LEMMA SweepPopsKeeps ==
  ASSUME HttpInv, Http!SweepPops
  PROVE  HttpInv'
<1>1. PICK s \in msSweep :
        /\ msSessions' = msSessions \ {s} /\ msActive' = msActive \ {s} /\ msIdle' = msIdle \ {s}
        /\ msSweep' = msSweep \ {s}
        /\ msSwept' = IF s \in msSessions THEN s ELSE NoSession
  BY DEF Http!SweepPops, Http!Drop
<1>2. /\ msSwept = NoSession
      /\ UNCHANGED <<msThread, msKnown, msBorn, msQueue, msFree, msCalls, msAcked, msWritten, msCut, msUp>>
  BY DEF Http!SweepPops, Http!ids, Http!answers
<1>3. Http!TypeOK'
  BY <1>1, <1>2 DEF HttpInv, Http!TypeOK
<1>4. Forward
  BY <1>1, <1>2 DEF Forward, Onward
<1>5. Closers'
  <2>1. /\ \A x \in Sessions, u \in Requests : Closer(u, x)' => Closer(u, x)
        /\ \A x \in Sessions : Lies(Sentinel, x)' => Lies(Sentinel, x)
    BY <1>2 DEF Closer, Lies, Sentinel, Http!Sentinel
  <2>2. \A x \in Sessions : x = msSwept' =>
           /\ x \in msBorn /\ x \notin msSessions' /\ ~Lies(Sentinel, x)
           /\ \A u \in Requests : ~Closer(u, x)
    BY <1>1, HttpBounds DEF HttpInv, Http!TypeOK, QueuesShaped, Closers
  <2> QED
    BY <1>1, <1>2, <2>1, <2>2 DEF HttpInv, Closers
<1>6. SlotsTaken'
  BY <1>2, QuietSlots DEF Handlers
<1>7. Http!StampsHaveOwners'
  BY <1>1, <1>2 DEF HttpInv, Http!StampsHaveOwners, Http!Streaming
<1> QED
  BY <1>2, <1>3, <1>4, <1>5, <1>6, <1>7, QuietKeeps DEF HttpInv

(* What is left: ageing, the sweeper's look, the listener's stop, and rest.*)
LEMMA RestKeeps ==
  ASSUME HttpInv,
         \/ \E s \in Sessions : Http!Age(s)
         \/ Http!SweepLooks \/ Http!ListenerStops \/ UNCHANGED Http!vars
  PROVE  HttpInv'
<1>1. /\ UNCHANGED <<msThread, msSessions, msActive, msKnown, msBorn, msQueue, msFree, msCalls, msAcked,
                     msWritten, msCut, msSwept>>
      /\ msIdle' \subseteq msActive \/ msIdle' = msIdle
      /\ msSweep' \in {msSweep, msIdle} /\ msUp' \in {msUp, "down"}
  <2>1. ASSUME NEW s \in Sessions, Http!Age(s)
        PROVE  /\ UNCHANGED <<msThread, msSessions, msActive, msKnown, msBorn, msQueue, msFree, msCalls,
                              msAcked, msWritten, msCut, msSwept, msSweep, msUp>>
               /\ msIdle' \subseteq msActive
    BY <2>1 DEF Http!Age, Http!ids, Http!answers, Http!sweeper, HttpInv, Http!TypeOK
  <2> QED
    BY <2>1 DEF Http!SweepLooks, Http!ListenerStops, Http!vars, Http!registry, Http!ids, Http!answers,
                Http!sweeper
<1>2. Http!TypeOK'
  <2>1. msIdle \subseteq msActive /\ msActive \subseteq msBorn /\ msBorn \subseteq Sessions
    BY DEF HttpInv, Http!TypeOK
  <2> QED
    BY <1>1, <2>1 DEF HttpInv, Http!TypeOK
<1>3. Forward
  BY <1>1 DEF Forward, Onward
<1>4. Closers'
  BY <1>1, QuietClosers
<1>5. SlotsTaken'
  BY <1>1, QuietSlots DEF Handlers
<1>6. Http!StampsHaveOwners'
  BY <1>1 DEF HttpInv, Http!StampsHaveOwners, Http!Streaming
<1> QED
  BY <1>1, <1>2, <1>3, <1>4, <1>5, <1>6, QuietKeeps DEF HttpInv

(* Every step of the HTTP server keeps its invariant.                      *)
LEMMA NextHttp == HttpInv /\ [Http!Next]_(Http!vars) => HttpInv'
<1> SUFFICES ASSUME HttpInv, [Http!Next]_(Http!vars) PROVE HttpInv'
  OBVIOUS
<1>1. ASSUME NEW t \in Requests,
             \/ Http!PostNew(t) \/ Http!PostKnown(t) \/ Http!PostJson(t)
             \/ Http!Resume(t) \/ Http!Delete(t) \/ Http!Step(t)
      PROVE  HttpInv'
  BY <1>1, PostNewKeeps, PostKnownKeeps, PostJsonKeeps, ResumeKeeps, DeleteKeeps, AcquireKeeps,
     HandledKeeps, LeaverKeeps, OpenStreamKeeps, EnqueueAnswerKeeps, GetKeeps, WriteKeeps,
     DisconnectKeeps, SignalCloseKeeps
     DEF Http!Step
<1> QED
  BY <1>1, SweepPopsKeeps, SweepSignalsKeeps, ShutdownKeeps, RestKeeps DEF Http!Next

(* The invariant says what AckedHasReader promises of the HTTP server.     *)
LEMMA HttpMeaning ==
  ASSUME HttpInv
  PROVE  /\ Http!TypeOK /\ Http!CapCounted
         /\ Http!AckedHasReader /\ Http!SentinelIsLast /\ Http!StampsHaveOwners
<1>1. Http!CapCounted
  <2>1. {t \in Requests : msThread[t].at \in Http!Range(Http!Running)} = Handlers
    BY RunningValues DEF Handlers
  <2> QED
    BY <2>1, Counting DEF HttpInv, SlotsTaken, Http!CapCounted
<1>2. Http!SentinelIsLast
  BY DEF HttpInv, QueuesShaped, Http!SentinelIsLast, Sentinel
<1>3. Http!AckedHasReader
  <2> SUFFICES ASSUME NEW a \in msAcked, a[1] \notin msWritten, a[2] \notin msCut, Lies(a[1], a[2])
               PROVE  a[1] \in Http!ToSet(msQueue[a[2]]) /\ Http!Streaming(a[2])
    BY DEF HttpInv, Held, Http!AckedHasReader
  <2>1. a[2] \in Sessions /\ a[1] \in Http!Calls
    BY DEF HttpInv, Http!TypeOK
  <2>2. PICK i \in 1 .. Len(msQueue[a[2]]) : msQueue[a[2]][i] = a[1]
    BY DEF Lies
  <2>3. Reads(a[2])
    BY <2>1, <2>2, QueueType DEF HttpInv, Readers
  <2>4. a[1] \in Http!ToSet(msQueue[a[2]])
    BY <2>1, <2>2, QueueType DEF Http!ToSet
  <2> QED
    BY <2>3, <2>4 DEF Reads, Http!Streaming
<1> QED
  BY <1>1, <1>2, <1>3 DEF HttpInv

-----------------------------------------------------------------------------
(* ---- The four together. ---- *)

(* A step of the whole is a step or a stutter of each part.                *)
LEMMA EachTakesItsSteps ==
  ASSUME [ServicesNext]_servicesVars
  PROVE  /\ [Next]_vars /\ [Tasks!Next]_(Tasks!vars)
         /\ [Http!Next]_(Http!vars) /\ [Stdio!Next]_(Stdio!vars)
<1>1. UNCHANGED queueVars => UNCHANGED Tasks!vars
  BY DEF queueVars, Tasks!vars, Tasks!tasks, Tasks!slots, Tasks!life
<1>2. UNCHANGED httpVars => UNCHANGED Http!vars
  BY DEF httpVars, Http!vars, Http!registry, Http!ids, Http!answers, Http!sweeper
<1>3. UNCHANGED stdioVars => UNCHANGED Stdio!vars
  BY DEF stdioVars, Stdio!vars
<1> QED
  BY <1>1, <1>2, <1>3 DEF ServicesNext, TriggersStep, TasksStep, HttpStep, StdioStep, servicesVars

(* A task leaves the backlog only by running or by a successor, and what   *)
(* starts for a file is newer than everything that waits or runs for it    *)
(* (enqueue, get_nowait).                                                  *)
THEOREM TasksKept == ServicesSpec => TasksAreKept
<1>1. ServicesInit => TasksInv
  BY InitTasks DEF ServicesInit
<1>2. TasksInv /\ [ServicesNext]_servicesVars => TasksInv'
  BY EachTakesItsSteps, NextTasks
<1>3. TasksInv /\ [ServicesNext]_servicesVars =>
        [\A t \in Tasks!Pending :
           \/ t \in Tasks!Pending' \/ t \in aqExec'
           \/ t.file # NoTaskFile /\ aqNewest'[t.file] > t.id]_(Tasks!vars)
  BY EachTakesItsSteps, NextTasks DEF TaskKept
<1>4. TasksInv /\ [ServicesNext]_servicesVars =>
        [\A t \in aqExec' \ aqExec : t.file # NoTaskFile =>
           \A u \in aqQueue \cup aqExec : u # t /\ u.file = t.file => u.id < t.id]_(Tasks!vars)
  BY EachTakesItsSteps, NextTasks DEF StartsNewest
<1> QED
  BY <1>1, <1>2, <1>3, <1>4, PTL DEF ServicesSpec, TasksAreKept, Tasks!AcceptedIsKept, Tasks!NewestWins

(* Every part keeps its invariant whatever the others do.                  *)
ServicesInv == Tables /\ TasksInv /\ HttpInv /\ StdioInv

(* The invariant of the whole.                                             *)
THEOREM ServicesInvHolds == ServicesSpec => []ServicesInv
<1>1. ServicesInit => ServicesInv
  BY InitTables, InitTasks, InitHttp, InitStdio DEF ServicesInit, ServicesInv
<1>2. ServicesInv /\ [ServicesNext]_servicesVars => ServicesInv'
  BY EachTakesItsSteps, StepTables, NextTasks, NextHttp, NextStdio DEF ServicesInv
<1> QED
  BY <1>1, <1>2, PTL DEF ServicesSpec

(* Beside the services the trigger policy takes the steps it takes alone.  *)
THEOREM PolicyInServices == ServicesSpec => Spec
<1>1. ServicesInit => Init
  BY DEF ServicesInit
<1>2. [ServicesNext]_servicesVars => [Next]_vars
  BY EachTakesItsSteps
<1> QED
  BY <1>1, <1>2, PTL DEF ServicesSpec, Spec

(* The caps and the types: decisions are spaced and fixes capped, slots are *)
(* those of the tasks, handlers and calls at work, and the backlog of tasks *)
(* stays within its cap (trigger_policy.py, task_queue.py, http_server.py,  *)
(* server.py).                                                              *)
THEOREM CapsHeld == ServicesSpec => []CapsHold
<1>1. TasksInv => Tasks!TypeOK /\ Tasks!SlotsCounted /\ Tasks!PendingBounded /\ Tasks!MapTracksPending
  BY TasksTypeOK DEF TasksInv
<1>2. StdioInv => Stdio!TypeOK
  BY DEF StdioInv
<1>3. ServicesInv /\ TypeOK /\ EmissionsSpaced /\ AutoFixBounded => CapsHold
  BY <1>1, <1>2, HttpMeaning, StdioMeaning DEF ServicesInv, CapsHold
<1> QED
  BY <1>3, ServicesInvHolds, PolicyInServices, TypeCorrect, CooldownsHold, CapHolds, PTL

(* An answer acknowledged with 202 keeps a reader unless a client of its   *)
(* session left, a sentinel is last, a stamp has an owner; a drained stdio *)
(* server has answered every call it read, one line at a time.             *)
THEOREM AckedIsRead == ServicesSpec => []AckedHasReader
<1>1. ServicesInv => AckedHasReader
  BY HttpMeaning, StdioMeaning DEF ServicesInv, AckedHasReader
<1> QED
  BY <1>1, ServicesInvHolds, PTL
=============================================================================
