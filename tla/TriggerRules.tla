---------------------------- MODULE TriggerRules ----------------------------
(***************************************************************************)
(* The fixed rules of the trigger policy (trigger_policy.py): the feature  *)
(* of an event's kind, the action it is routed to, what a model tier makes *)
(* of that action, and the windows of the gates, in units of the clock.    *)
(***************************************************************************)
EXTENDS Integers, FiniteSets

CONSTANTS
    Kinds,           \* bound: the kinds of events that occur
    Files,
    NoFile,          \* source_file of an event about no file
    KindWindow,      \* _KIND_COOLDOWN
    FileWindow,      \* _FILE_COOLDOWN
    MaxWindow,       \* _MAX_COOLDOWN
    Hour,            \* 3600
    AutoFixPerHour,  \* _AUTO_FIX_PER_HOUR
    MaxTime,         \* bound: the clock
    MaxEvents        \* bound: decisions other than IGNORE

ASSUME RulesAssumption ==
    /\ NoFile \notin Files
    /\ KindWindow \in [Kinds -> Nat] /\ FileWindow \in Nat /\ MaxWindow \in Nat
    /\ FileWindow <= MaxWindow /\ \A k \in Kinds : KindWindow[k] <= MaxWindow
    /\ Hour \in Nat /\ AutoFixPerHour \in Nat
    /\ MaxTime \in Nat /\ MaxEvents \in Nat

Sources == Files \cup {NoFile}

Tiers == {"none", "small", "strong"}

(* The feature that switches a kind off; schedules have none.              *)
Feature(k) ==
    CASE k = "file_modified"       -> "file_review"
      [] k = "test_failed"         -> "test_analysis"
      [] k = "test_recovered"      -> "test_recovery"
      [] k = "agent_stall"         -> "agent_stall"
      [] k = "import_error"        -> "import_repair"
      [] k = "integration_missing" -> "integration_repair"
      [] k = "schedule"            -> "always"
      [] OTHER                     -> "agent_status"

Features == {Feature(k) : k \in Kinds} \ {"always"}

Routed(k) ==
    CASE k \in {"integration_missing", "schedule"}            -> "auto_fix"
      [] k \in {"file_modified", "test_failed", "import_error"} -> "suggest"
      [] k = "agent_stall"                                     -> "escalate"
      [] OTHER                                                 -> "notify"

(* Every fix asks for the strong tier, every suggestion for some model.    *)
Downgraded(action, tier) ==
    CASE action \in {"auto_fix", "suggest"} /\ tier = "none" -> "notify"
      [] action = "auto_fix" /\ tier = "small"               -> "suggest"
      [] OTHER                                               -> action

Actions == {"notify", "suggest", "auto_fix", "escalate"}
NoAnswer == <<>>

Event   == [n : Nat, kind : Kinds, file : Sources, at : Nat, action : Actions]
=============================================================================
