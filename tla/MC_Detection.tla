---------------------------- MODULE MC_Detection ----------------------------
(* An instance, for TLC, of detection from rule to listing: how alerts are    *)
(* stored (Alerting), what rules mean (RuleEvaluation), what responses act on *)
(* (ResponseTargets), and what operators then read (Paging).  They share no   *)
(* state; a behaviour runs one of them and leaves the others at rest, so that *)
(* their states add up instead of multiplying.                              *)
EXTENDS MC_Alerting, RuleEvaluation, ResponseTargets, Paging

CONSTANTS f1, f2, f3

VARIABLE part

-----------------------------------------------------------------------------
(* Each operator alone, and two rules with two conditions; with and without  *)
(* a response.                                                             *)
On(field, base, negated, extent, hard) ==
  [field |-> field, base |-> base, negated |-> negated, extent |-> extent, hard |-> hard]

FromIntegration == On("integration_id", "equals", FALSE, {"i"}, {})

Single ==
  {On("actor", b, n, {"v"}, {}) : b \in Bases \ {"matches", "wildcard"}, n \in BOOLEAN}
    \cup {On("actor", "matches", n, {"v"}, {"w"}) : n \in BOOLEAN}
    \cup {On("actor", "wildcard", FALSE, {}, {}), FromIntegration,
          On("source", "equals", FALSE, {"falco"}, {})}

ConditionSets ==
  {{}} \cup {{c} : c \in Single}
    \cup {{FromIntegration, On("actor", "in_list", TRUE, {}, {})},
          {On("source", "in", FALSE, {"falco"}, {}), On("actor", "exists", FALSE, {}, {})}}

Doc(kind, enabled, conditions, byEntity, threshold, module, actions) ==
  [kind |-> kind, enabled |-> enabled, conditions |-> conditions, byEntity |-> byEntity,
   threshold |-> threshold, module |-> module, actions |-> actions]

SomeDocuments ==
  {Doc("signal", en, cs, FALSE, 1, m, FALSE) :
     en \in BOOLEAN, cs \in ConditionSets, m \in BOOLEAN}
    \cup {Doc("correlation", TRUE, cs, g, 2, FALSE, a) :
            cs \in ConditionSets, g \in BOOLEAN, a \in BOOLEAN}
    \cup {Doc("correlation", FALSE, {}, TRUE, 1, TRUE, a) : a \in BOOLEAN}

Actor(v, integration, analysis) ==
  [fields |-> [f \in EventFields |->
     CASE f = "actor" -> v
       [] f = "integration_id" -> integration
       [] f = "source" -> IF integration = Missing THEN "aws" ELSE "falco"],
   analysis |-> analysis]

SomeSubjects ==
  {Actor(v, i, FALSE) : v \in {"v", "w"}, i \in {"i", Missing}}
    \cup {Actor(Missing, Missing, FALSE), Actor("v", "i", TRUE)}

SomeSnapshots ==
  {[there |-> FALSE, version |-> 0, values |-> {}],
   [there |-> TRUE, version |-> 1, values |-> {"v"}]}

-----------------------------------------------------------------------------
(* Every module, by name and with its targets mapped, with and without each  *)
(* optional target; and one rule with two actions.                         *)
Mapping(m, extra) ==
  [module |-> m,
   target |-> [k \in Required(m) \cup extra |->
     IF k \in extra THEN f3
     ELSE IF k \in {"access_key_id", "key", "policy_name"} THEN f2 ELSE f1]]

OptionalTargets == Principals \cup RuleKeys \cup {"snapshot_type", "account_id"}

Mappings ==
  {a \in {Mapping(m, x) : m \in Modules, x \in {{}} \cup {{k} : k \in OptionalTargets}} :
     ValidAction(a)}

Replies ==
  {[kind |-> "legacy", module |-> m] : m \in Modules}
    \cup {[kind |-> "mapped", actions |-> <<a>>] : a \in Mappings}
    \cup {[kind |-> "mapped",
           actions |-> <<Mapping("disable_user", {}),
                         [module |-> "disable_user", target |-> [user_name |-> f2]]>>]}

Occurrences ==
  [filled : {{"identity", "request", "cloud"}, {"resources", "cloud"},
             {"minimal", "primary", "group"}, {"response", "value", "resources", "legacy"}},
   resolves : {{f1, f2, f3}, {f1, f2}, {f2}},
   activity : {"PutUserPolicy", "PutRolePolicy", "AuthorizeSecurityGroupIngress", "other"},
   cluster : BOOLEAN, failed : {FALSE}, foreign : {FALSE}]
    \cup [filled : {{"top", "identity"}}, resolves : {{f1, f2, f3}},
          activity : {"AuthorizeSecurityGroupEgress"}, cluster : {FALSE},
          failed : BOOLEAN, foreign : BOOLEAN]

-----------------------------------------------------------------------------
(* A part that does not run begins in one of its initial states.            *)
MCInit ==
  /\ part \in {"alerts", "evaluation", "targets", "paging"}
  /\ Init
  /\ part # "alerts" => \A e \in Events : event[e].pc = "waiting"
  /\ IF part = "evaluation" THEN TRUE
     ELSE submitted = (CHOOSE r \in AcceptedRules : TRUE)
            /\ snapshot = (CHOOSE s \in Snapshots : TRUE)
  /\ EvaluationInit
  /\ IF part = "targets" THEN TRUE
     ELSE matched = (CHOOSE r \in Responses : TRUE) /\ incident = (CHOOSE e \in Incidents : TRUE)
  /\ TargetInit
  /\ IF part = "paging" THEN TRUE ELSE held = [d \in Days |-> {}]
  /\ PagingInit

MCNext ==
  \/ part = "alerts" /\ Next /\ UNCHANGED <<part, evaluationVars, targetVars, pagingVars>>
  \/ part = "evaluation" /\ EvaluationNext /\ UNCHANGED <<part, vars, targetVars, pagingVars>>
  \/ part = "targets" /\ TargetNext /\ UNCHANGED <<part, vars, evaluationVars, pagingVars>>
  \/ part = "paging" /\ PagingNext /\ UNCHANGED <<part, vars, evaluationVars, targetVars>>

MCSpec == MCInit /\ [][MCNext]_<<part, vars, evaluationVars, targetVars, pagingVars>>
=============================================================================
