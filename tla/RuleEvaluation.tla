--------------------------- MODULE RuleEvaluation ---------------------------
(***************************************************************************)
(* What a rule means: how it is accepted (src/domain/rule_schema.py and     *)
(* _normalize_rule_payload of src/handlers/api.py), how the processor       *)
(* evaluates its conditions on an event (src/domain/detection_engine.py,    *)
(* src/domain/detection_lists.py), and how the alerter evaluates them on    *)
(* signals (src/domain/correlation_engine.py).                             *)
(*                                                                         *)
(* An operator is a base and whether it is the negated one ("not_in").      *)
(* What a condition compares with is its extent: the values for which the   *)
(* base holds.  A regular expression may be undecidable on some values      *)
(* (too long, out of time, invalid); a list may be missing.                 *)
(*                                                                         *)
(* Thresholds over time, and the alert's identity, are those of Alerting.   *)
(***************************************************************************)
EXTENDS Naturals, FiniteSets

CONSTANTS
  EventFields,  \* fields of events that conditions name
  FieldValues,
  Documents,    \* rules that are submitted
  Subjects,     \* events, and the signals made of them
  Snapshots     \* what the evaluators may hold of the list

Bases == {"equals", "in", "in_list", "contains", "prefix", "suffix", "matches", "exists",
          "wildcard"}

Missing == "absent"

Condition ==
  [field : EventFields, base : Bases, negated : BOOLEAN, extent : SUBSET FieldValues,
   hard : SUBSET FieldValues]

RuleDocument ==
  [kind : {"signal", "correlation"}, enabled : BOOLEAN, conditions : SUBSET Condition,
   byEntity : BOOLEAN,           \* group_by is runtime_entity
   threshold : Nat,
   module : BOOLEAN,             \* a response_module
   actions : BOOLEAN]            \* response_actions

(* An AWS event has no integration_id.                                     *)
Subject ==
  [fields : [EventFields -> FieldValues \cup {Missing}], analysis : BOOLEAN]

ForeignSources == {"falco", "custom"}

ASSUME EvaluationAssumption ==
  /\ Missing \notin FieldValues
  /\ {"integration_id", "source"} \subseteq EventFields
  /\ Documents \subseteq RuleDocument
  /\ \A r \in Documents : \A c \in r.conditions : c.base = "wildcard" => ~c.negated
  /\ Subjects \subseteq Subject
  /\ Snapshots \subseteq [there : BOOLEAN, version : Nat, values : SUBSET FieldValues]

-----------------------------------------------------------------------------
(* Acceptance                                                              *)

HasResponse(r) == r.module \/ r.actions

(* A condition that names an integration, or a foreign source by its value. *)
NamesForeign(c) ==
  \/ c.field = "integration_id"
  \/ c.field = "source" /\ c.base # "in" /\ \E s \in ForeignSources : c.extent = {s}

(* _normalize_rule_payload.                                                *)
AcceptedByApi(r) ==
  /\ ~(r.module /\ r.actions)
  /\ HasResponse(r) => \A c \in r.conditions : ~NamesForeign(c)

(* validate_rule_document, of files and releases.                           *)
AcceptedFromFile(r) ==
  /\ AcceptedByApi(r)
  /\ r.kind = "signal" => r.conditions # {}

AcceptedRules == {r \in Documents : AcceptedByApi(r) \/ AcceptedFromFile(r)}

-----------------------------------------------------------------------------
(* Conditions                                                              *)

(* list_matches: a list that is missing decides nothing.                   *)
InList(v, list) ==
  IF ~list.there THEN "undecided" ELSE IF v \in list.values THEN "holds" ELSE "fails"

(* Whether the base holds of a value that is there.                         *)
Decided(c, v, list) ==
  CASE c.base = "in_list" -> InList(v, list)
    [] c.base = "matches" /\ v \in c.hard -> "undecided"
    [] OTHER -> IF v \in c.extent THEN "holds" ELSE "fails"

SatisfiedUnlessHolds(c, outcome) ==
  IF c.negated THEN outcome # "holds" ELSE outcome = "holds"

(* What could not be evaluated satisfies neither operator.                  *)
Satisfied(c, outcome) == IF c.negated THEN outcome = "fails" ELSE outcome = "holds"

(* evaluate_condition of the processor.                                    *)
HoldsForEvent(c, e, list) ==
  LET v == e.fields[c.field] IN
  CASE c.base = "wildcard" -> TRUE
    [] c.base = "exists" -> (v = Missing) = c.negated
    [] OTHER -> v # Missing /\ Satisfied(c, Decided(c, v, list))

(* The alerter knows no "wildcard", and of the negated operators only those  *)
(* of equality, membership and existence; its regular expressions are those *)
(* of another library, and have no limit of time or length.                 *)
Known(c) ==
  /\ c.base # "wildcard"
  /\ c.negated => c.base \in {"equals", "in", "in_list", "exists"}

HoldsForSignal(c, s, list) ==
  LET v == s.fields[c.field] IN
  IF c.base = "exists" THEN (v = Missing) = c.negated
  ELSE v # Missing /\ Known(c) /\ Satisfied(c, Decided(c, v, list))

(* rule_matches: without conditions a rule never matches.                   *)
Matches(r, e, list) ==
  r.conditions # {} /\ \A c \in r.conditions : HoldsForEvent(c, e, list)

(* _all_conditions_match: without conditions it always does.                *)
MatchesSignal(r, s, list) == \A c \in r.conditions : HoldsForSignal(c, s, list)

-----------------------------------------------------------------------------
VARIABLES
  submitted,  \* the rule
  snapshot,   \* what the evaluator holds of the list
  signals,    \* stored signals
  detected,   \* evaluations of the rule: of what, with which list (list_versions), and
              \* whether it fired
  raised      \* alerts: about whom, and whether they ask for a response

evaluationVars == <<submitted, snapshot, signals, detected, raised>>

Foreign(e) == e.fields["integration_id"] # Missing

EvaluationTypeOK ==
  /\ submitted \in AcceptedRules
  /\ snapshot \in Snapshots
  /\ signals \subseteq Subjects
  /\ \A d \in detected : d.subject \in Subjects /\ d.list \in Snapshots
  /\ \A a \in raised : a.about \subseteq Subjects

EvaluationInit ==
  /\ submitted \in AcceptedRules
  /\ snapshot \in Snapshots
  /\ signals = {}
  /\ detected = {}
  /\ raised = {}

(* The evaluator loads the list again, or fails to.                         *)
Reload(list) ==
  /\ list # snapshot
  /\ snapshot' = list
  /\ UNCHANGED <<submitted, signals, detected, raised>>

ResponseOfRule(r, e) == HasResponse(r)

(* build_detection_event: an event of an integration keeps no response.     *)
ResponseOf(r, e) == HasResponse(r) /\ ~Foreign(e)

(* run_detection, of an event and a signal rule.  The signal is stored, and  *)
(* the alert announced unless it only analyses.  An event meets a rule once. *)
DetectEvent(e) ==
  LET r == submitted
      fires == r.enabled /\ Matches(r, e, snapshot)
  IN /\ r.kind = "signal"
     /\ \A d \in detected : d.subject # e
     /\ detected' = detected \cup {[subject |-> e, list |-> snapshot, fired |-> fires]}
     /\ signals' = IF fires THEN signals \cup {e} ELSE signals
     /\ raised' = IF fires /\ ~e.analysis
                  THEN raised \cup {[about |-> {e}, response |-> ResponseOf(r, e)]}
                  ELSE raised
     /\ UNCHANGED <<submitted, snapshot>>

(* A rule that correlates signals of an integration names it and groups by   *)
(* its entity.                                                             *)
Binds(r, s) ==
  Foreign(s) =>
    /\ r.byEntity
    /\ \E c \in r.conditions :
         c.field = "integration_id" /\ c.base = "equals" /\ ~c.negated
           /\ c.extent = {s.fields["integration_id"]}

(* correlate, of a new signal of the group.                                *)
CorrelateSignal(s) ==
  LET r == submitted
      recent == {x \in signals \cup {s} :
                   /\ x.fields["integration_id"] = s.fields["integration_id"]
                   /\ ~x.analysis
                   /\ MatchesSignal(r, x, snapshot)}
      fires == /\ r.enabled
               /\ ~s.analysis
               /\ Binds(r, s)
               /\ MatchesSignal(r, s, snapshot)
               /\ Cardinality(recent) >= r.threshold
  IN /\ r.kind = "correlation"
     /\ \A d \in detected : d.subject # s
     /\ detected' = detected \cup {[subject |-> s, list |-> snapshot, fired |-> fires]}
     /\ signals' = signals \cup {s}
     /\ raised' = IF fires
                  THEN raised \cup {[about |-> recent, response |-> HasResponse(r)]}
                  ELSE raised
     /\ UNCHANGED <<submitted, snapshot>>

EvaluationNext ==
  \/ \E list \in Snapshots : Reload(list)
  \/ \E e \in Subjects : DetectEvent(e) \/ CorrelateSignal(e)

EvaluationSpec == EvaluationInit /\ [][EvaluationNext]_evaluationVars

-----------------------------------------------------------------------------
(* What conditions mean: an operator and its negation are true of opposite   *)
(* values, and neither is of a value that is missing or cannot be decided.   *)
Opposite(t) == CASE t = "true" -> "false" [] t = "false" -> "true" [] OTHER -> "unknown"

Truth(c, e, list) ==
  LET v == e.fields[c.field]
      among == IF c.base = "in_list" THEN list.values ELSE c.extent
      base == CASE c.base = "wildcard" -> "true"
                [] c.base = "exists" -> IF v # Missing THEN "true" ELSE "false"
                [] OTHER ->
                     IF \/ v = Missing
                        \/ c.base = "in_list" /\ ~list.there
                        \/ c.base = "matches" /\ v \in c.hard
                     THEN "unknown" ELSE IF v \in among THEN "true" ELSE "false"
  IN IF c.negated THEN Opposite(base) ELSE base

(* A detection rests on evidence: a rule fires when, and only when, it is    *)
(* enabled, it says something, and all it says is true of the event.  A      *)
(* condition that could not be evaluated (no list, no field, an expression   *)
(* out of time) never helps to fire, negated or not.  A correlation fires    *)
(* on no other grounds, and counts no other signals.                        *)
FiresOnEvidence ==
  /\ \A d \in detected :
       LET true == \A c \in submitted.conditions : Truth(c, d.subject, d.list) = "true" IN
         /\ d.fired => submitted.enabled /\ true
         /\ submitted.kind = "signal" =>
              (d.fired <=> submitted.enabled /\ submitted.conditions # {} /\ true)
  /\ \A a \in raised : \A s \in a.about :
       /\ ~s.analysis
       /\ \E d \in detected : \A c \in submitted.conditions : Truth(c, s, d.list) = "true"

(* No alert about an event of an integration asks for a response in AWS,     *)
(* whichever rule raised it and whoever wrote that rule.                    *)
ForeignNeverResponds ==
  \A a \in raised : (\E s \in a.about : Foreign(s)) => ~a.response
=============================================================================
