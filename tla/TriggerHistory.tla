--------------------------- MODULE TriggerHistory ---------------------------
(***************************************************************************)
(* What the trigger policy promises (trigger_policy.py:89-93, 135-206),    *)
(* told over everything it ever decided: an event is ignored exactly when  *)
(* its feature is off or an earlier decision lies within a window of it,   *)
(* and becomes a fix only while fewer than the cap were made in the hour.  *)
(***************************************************************************)
EXTENDS TriggerRules

VARIABLES
    now,        \* the monotonic clock
    tier, enabled,
    hist,       \* the decisions other than IGNORE
    made,       \* how many there are
    answer      \* the event just evaluated and the decision

vars == <<now, tier, enabled, hist, made, answer>>

Init ==
    /\ now = 0 /\ tier \in Tiers /\ enabled = Features
    /\ hist = {} /\ made = 0 /\ answer = NoAnswer

(* An earlier decision stands in the way of an event.                      *)
Within(e, k, f) ==
    /\ e.kind = k
    /\ \/ now - e.at < KindWindow[k]
       \/ f # NoFile /\ e.file = f /\ now - e.at < FileWindow

Silenced(k, f) ==
    \/ Feature(k) \notin enabled \cup {"always"}
    \/ \E e \in hist : Within(e, k, f)

FixesOfHour == {e \in hist : e.action = "auto_fix" /\ now - e.at < Hour}

HourIsFull == Cardinality(FixesOfHour) >= AutoFixPerHour

Decided(k) ==
    IF Downgraded(Routed(k), tier) = "auto_fix" /\ HourIsFull
    THEN "notify" ELSE Downgraded(Routed(k), tier)

Ignore(k, f) ==
    /\ Silenced(k, f)
    /\ answer' = <<k, f, "ignore">>
    /\ UNCHANGED <<now, tier, enabled, hist, made>>

Decide(k, f) ==
    /\ ~Silenced(k, f) /\ made < MaxEvents
    /\ made' = made + 1
    /\ answer' = <<k, f, Decided(k)>>
    /\ hist' = hist \cup {[n |-> made + 1, kind |-> k, file |-> f, at |-> now, action |-> Decided(k)]}
    /\ UNCHANGED <<now, tier, enabled>>

Tick ==
    /\ now < MaxTime /\ now' = now + 1 /\ answer' = NoAnswer
    /\ UNCHANGED <<tier, enabled, hist, made>>

SetTier ==
    /\ tier' \in Tiers /\ answer' = NoAnswer
    /\ UNCHANGED <<now, enabled, hist, made>>

SetFeatures ==
    /\ enabled' \in SUBSET Features /\ answer' = NoAnswer
    /\ UNCHANGED <<now, tier, hist, made>>

Next ==
    \/ \E k \in Kinds, f \in Sources : Ignore(k, f) \/ Decide(k, f)
    \/ Tick \/ SetTier \/ SetFeatures

Spec == Init /\ [][Next]_vars
=============================================================================
