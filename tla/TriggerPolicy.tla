---------------------------- MODULE TriggerPolicy ----------------------------
(***************************************************************************)
(* The trigger policy of the autonomous runner (trigger_policy.py): it     *)
(* keeps the last decision per kind and per file and kind, and the times   *)
(* of recent fixes, and drops what can gate no decision any more.          *)
(* evaluate() holds the lock throughout, and so do the writes of the tier. *)
(***************************************************************************)
EXTENDS TriggerRules

VARIABLES
    now,        \* the monotonic clock
    tier,       \* model_tier
    enabled,    \* enabled_features
    fileLast,   \* _file_last
    kindLast,   \* _kind_last
    autoFix,    \* _auto_fix_ts, each entry with the decision it is of
    answer,     \* the event just evaluated and what evaluate() returned
    hist, made  \* history: the decisions other than IGNORE, and their number

tables == <<fileLast, kindLast, autoFix>>
vars == <<now, tier, enabled, tables, answer, hist, made>>

Init ==
    /\ now = 0 /\ tier \in Tiers /\ enabled = Features
    /\ fileLast = <<>> /\ kindLast = <<>> /\ autoFix = {}
    /\ answer = NoAnswer /\ hist = {} /\ made = 0

-----------------------------------------------------------------------------
Gated(table, key, window) == key \in DOMAIN table /\ now - table[key] < window

\* Slip: the stamp of a file silences every kind of event about it.
SilencedByFile(k, f) ==
    \/ Feature(k) \notin enabled \cup {"always"}
    \/ f # NoFile /\ \E k2 \in Kinds : Gated(fileLast, <<f, k2>>, FileWindow)
    \/ Gated(kindLast, k, KindWindow[k])

(* The three gates: feature, file and kind.                                *)
Silenced(k, f) ==
    \/ Feature(k) \notin enabled \cup {"always"}
    \/ f # NoFile /\ Gated(fileLast, <<f, k>>, FileWindow)
    \/ Gated(kindLast, k, KindWindow[k])

(* Entries older than the longest window are dropped.                      *)
Pruned(table) == [x \in {y \in DOMAIN table : table[y] >= now - MaxWindow} |-> table[x]]

Stamped(table, key) == [x \in DOMAIN table \cup {key} |-> IF x = key THEN now ELSE table[x]]

(* _stamp_cooldowns.                                                       *)
StampCooldowns(k, f) ==
    /\ fileLast' = Pruned(IF f # NoFile THEN Stamped(fileLast, <<f, k>>) ELSE fileLast)
    /\ kindLast' = Pruned(Stamped(kindLast, k))

Recent == {e \in autoFix : now - e.at < Hour}

Capped == Cardinality(Recent) >= AutoFixPerHour

-----------------------------------------------------------------------------
Ignore(k, f) ==
    /\ Silenced(k, f)
    /\ answer' = <<k, f, "ignore">>
    /\ UNCHANGED <<now, tier, enabled, tables, hist, made>>

Record(k, f, action) ==
    [n |-> made + 1, kind |-> k, file |-> f, at |-> now, action |-> action]

Emit(k, f, action) ==
    /\ made < MaxEvents /\ made' = made + 1
    /\ hist' = hist \cup {Record(k, f, action)}
    /\ answer' = <<k, f, action>>
    /\ StampCooldowns(k, f)
    /\ UNCHANGED <<now, tier, enabled>>

(* No fix: the decision stands.                                            *)
Decide(k, f) ==
    /\ ~Silenced(k, f) /\ Downgraded(Routed(k), tier) # "auto_fix"
    /\ Emit(k, f, Downgraded(Routed(k), tier))
    /\ UNCHANGED autoFix

Fix(k, f) ==
    /\ ~Silenced(k, f) /\ Downgraded(Routed(k), tier) = "auto_fix" /\ ~Capped
    /\ Emit(k, f, "auto_fix")
    /\ autoFix' = Recent \cup {Record(k, f, "auto_fix")}

(* Over the cap the user is told, which uses up the windows as well.       *)
RateLimited(k, f) ==
    /\ ~Silenced(k, f) /\ Downgraded(Routed(k), tier) = "auto_fix" /\ Capped
    /\ Emit(k, f, "notify")
    /\ autoFix' = Recent

-----------------------------------------------------------------------------
Tick ==
    /\ now < MaxTime /\ now' = now + 1 /\ answer' = NoAnswer
    /\ UNCHANGED <<tier, enabled, tables, hist, made>>

SetTier ==
    /\ tier' \in Tiers /\ answer' = NoAnswer
    /\ UNCHANGED <<now, enabled, tables, hist, made>>

SetFeatures ==
    /\ enabled' \in SUBSET Features /\ answer' = NoAnswer
    /\ UNCHANGED <<now, tier, tables, hist, made>>

Next ==
    \/ \E k \in Kinds, f \in Sources :
           Ignore(k, f) \/ Decide(k, f) \/ Fix(k, f) \/ RateLimited(k, f)
    \/ Tick \/ SetTier \/ SetFeatures

Spec == Init /\ [][Next]_vars

-----------------------------------------------------------------------------
TypeOK ==
    /\ now \in 0 .. MaxTime /\ tier \in Tiers /\ enabled \in SUBSET Features
    /\ DOMAIN fileLast \subseteq Files \X Kinds /\ DOMAIN kindLast \subseteq Kinds
    /\ \A x \in DOMAIN fileLast : fileLast[x] \in 0 .. now
    /\ \A x \in DOMAIN kindLast : kindLast[x] \in 0 .. now
    /\ autoFix \subseteq hist /\ hist \subseteq Event
    /\ \A e \in hist : e.n \in 1 .. made /\ e.at <= now
    /\ answer \in {NoAnswer} \cup (Kinds \X Sources \X (Actions \cup {"ignore"})) /\ made \in Nat

(* Two decisions about one kind are never closer than its window, nor two  *)
(* about one file and kind closer than the window of files, although only  *)
(* the last stamps are kept and old ones are dropped (147-161, 208-221).   *)
EmissionsSpaced ==
    \A d, e \in hist : d.kind = e.kind /\ d.n < e.n =>
        /\ e.at - d.at >= KindWindow[e.kind]
        /\ d.file = e.file /\ e.file # NoFile => e.at - d.at >= FileWindow

(* No hour, whenever it begins, sees more fixes than the cap (187-200).    *)
AutoFixBounded ==
    \A t \in 0 .. MaxTime :
        Cardinality({e \in hist : e.action = "auto_fix" /\ t - Hour < e.at /\ e.at <= t}) <= AutoFixPerHour

(* The tables decide as the whole history would: nothing that still gates  *)
(* is dropped, nothing else silences an event (P0-2, P0-3, P0-5 in the     *)
(* comments 143-147, 202-204).                                             *)
History == INSTANCE TriggerHistory
DecidesByHistory == History!Spec
=============================================================================
