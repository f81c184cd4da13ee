--------------------------- MODULE RuleGeneration ---------------------------
(***************************************************************************)
(* How a change of the rules reaches those who evaluate them.  Every       *)
(* endpoint of src/handlers/api.py that writes rules ends by giving the    *)
(* catalog a new generation (_bump_rule_catalog); get_rules of             *)
(* src/handlers/processor.py and get_correlation_rules of                  *)
(* src/handlers/alerter.py keep their rules between invocations, and load  *)
(* and mark them with src/infra/detection_rules_repository.py.             *)
(*                                                                         *)
(* A write and the bump are two calls, and so are the load of the rules    *)
(* and the mark.  Each invocation reads the generation consistently, and   *)
(* reloads when it is a new one or when its rules are a minute old; the    *)
(* query that loads them is not consistent.  "verified" tells operators    *)
(* that evaluators of both kinds have the rules.                           *)
(*                                                                         *)
(* What a query returned is told by the number of the last write, unless a *)
(* replica that lagged answered it, and anything may be missing.  A         *)
(* generation, a uuid, is the number of its bump.                           *)
(***************************************************************************)
EXTENDS Naturals

CONSTANTS
  Publishers,      \* requests that write rules
  Containers,      \* containers of the evaluators
  KindOf,          \* "signal" (processor) or "correlation" (alerter)
  MaxPublications  \* bound: writes, and bumps, of the table

Kinds == {"signal", "correlation"}

ASSUME GenerationAssumption ==
  /\ KindOf \in [Containers -> Kinds]
  /\ MaxPublications \in Nat

VARIABLES
  ruleStamp,   \* number of writes of the rules table
  generation,  \* of the catalog row; 0 is a row that does not exist
  announced,   \* the last write whose request bumped the generation (history)
  observed,    \* generation that each kind of evaluator has marked
  marked,      \* what the evaluator that marked it had loaded (history)
  publisher,   \* requests
  container    \* evaluators

genVars == <<ruleStamp, generation, announced, observed, marked, publisher, container>>

-----------------------------------------------------------------------------
Writes == 0..MaxPublications

Lagged == MaxPublications + 1

Loads == Writes \cup {Lagged}

GenTypeOK ==
  /\ ruleStamp \in Writes
  /\ generation \in Writes
  /\ announced \in Writes
  /\ observed \in [Kinds -> Writes]
  /\ marked \in [Kinds -> Loads]
  /\ publisher \in [Publishers -> [pc : {"idle", "bump"}, wrote : Writes]]
  /\ container \in [Containers ->
       [pc      : {"idle", "load", "mark", "evaluate"},
        loaded  : BOOLEAN,     \* there is a cache
        expired : BOOLEAN,     \* it is older than its TTL
        held    : Writes,      \* the generation it was loaded under
        cache   : Loads,
        seen    : Writes,      \* the generation this invocation read
        must    : Writes]]     \* what was announced at that time (history)

GenInit ==
  /\ ruleStamp = 0
  /\ generation = 0
  /\ announced = 0
  /\ observed = [k \in Kinds |-> 0]
  /\ marked = [k \in Kinds |-> 0]
  /\ publisher = [p \in Publishers |-> [pc |-> "idle", wrote |-> 0]]
  /\ container = [e \in Containers |->
       [pc |-> "idle", loaded |-> FALSE, expired |-> FALSE, held |-> 0, cache |-> 0,
        seen |-> 0, must |-> 0]]

-----------------------------------------------------------------------------
(* A rule is created, replaced or deleted, or a release makes one of its    *)
(* writes.                                                                 *)
Write(p) ==
  /\ ruleStamp < MaxPublications
  /\ ruleStamp' = ruleStamp + 1
  /\ publisher' = [publisher EXCEPT ![p] = [pc |-> "bump", wrote |-> ruleStamp + 1]]
  /\ UNCHANGED <<generation, announced, observed, marked, container>>

Larger(m, n) == IF m > n THEN m ELSE n

Bump(p) ==
  /\ publisher[p].pc = "bump"
  /\ generation < MaxPublications
  /\ generation' = generation + 1
  /\ announced' = Larger(publisher[p].wrote, announced)
  /\ publisher' = [publisher EXCEPT ![p] = [pc |-> "idle", wrote |-> 0]]
  /\ UNCHANGED <<ruleStamp, observed, marked, container>>

(* The request dies or raises in between, or its release meets a conflict:  *)
(* what it wrote stays, and no generation tells of it.                     *)
Unannounced(p) ==
  /\ publisher[p].pc = "bump"
  /\ publisher' = [publisher EXCEPT ![p] = [pc |-> "idle", wrote |-> 0]]
  /\ UNCHANGED <<ruleStamp, generation, announced, observed, marked, container>>

-----------------------------------------------------------------------------
ReloadOnChange(e) == ~container[e].loaded \/ container[e].held # generation

ReloadOnAge(e) == ~container[e].loaded \/ container[e].expired

ReloadDue(e) == ReloadOnChange(e) \/ ReloadOnAge(e)

Invoke(e) ==
  /\ container[e].pc = "idle"
  /\ container' = [container EXCEPT ![e].seen = generation,
                                    ![e].must = announced,
                                    ![e].pc = IF ReloadDue(e) THEN "load" ELSE "evaluate"]
  /\ UNCHANGED <<ruleStamp, generation, announced, observed, marked, publisher>>

(* load_detection_rules: the query may miss the latest writes.  The rules   *)
(* are kept under the generation read before.                              *)
LoadRules(e) ==
  /\ container[e].pc = "load"
  /\ \E load \in {ruleStamp, Lagged} :
       container' = [container EXCEPT ![e].cache = load, ![e].held = container[e].seen,
                                      ![e].loaded = TRUE, ![e].expired = FALSE,
                                      ![e].pc = "mark"]
  /\ UNCHANGED <<ruleStamp, generation, announced, observed, marked, publisher>>

Observe(e, g) ==
  /\ container[e].pc = "mark"
  /\ container' = [container EXCEPT ![e].pc = "evaluate"]
  /\ IF g = 0
     THEN UNCHANGED <<observed, marked>>
     ELSE /\ observed' = [observed EXCEPT ![KindOf[e]] = g]
          /\ marked' = [marked EXCEPT ![KindOf[e]] = container[e].cache]
  /\ UNCHANGED <<ruleStamp, generation, announced, publisher>>

MarkLatest(e) == Observe(e, generation)

(* The update has no condition: an older generation may replace a newer.    *)
Mark(e) == Observe(e, container[e].seen)

EndInvocation(e) ==
  container' = [container EXCEPT ![e].pc = "idle", ![e].seen = 0, ![e].must = 0]

(* The events of the invocation are evaluated.                             *)
Evaluate(e) ==
  /\ container[e].pc = "evaluate"
  /\ EndInvocation(e)
  /\ UNCHANGED <<ruleStamp, generation, announced, observed, marked, publisher>>

(* The query or the update raises, and the invocation with it.  Rules that  *)
(* were loaded are kept, whether marked or not.                            *)
Fail(e) ==
  /\ container[e].pc \in {"load", "mark"}
  /\ EndInvocation(e)
  /\ UNCHANGED <<ruleStamp, generation, announced, observed, marked, publisher>>

(* A minute has passed since the load.                                     *)
Expire(e) ==
  /\ container[e].loaded
  /\ ~container[e].expired
  /\ container' = [container EXCEPT ![e].expired = TRUE]
  /\ UNCHANGED <<ruleStamp, generation, announced, observed, marked, publisher>>

-----------------------------------------------------------------------------
GenNext ==
  \/ \E p \in Publishers : Write(p) \/ Bump(p) \/ Unannounced(p)
  \/ \E e \in Containers :
       Invoke(e) \/ LoadRules(e) \/ Mark(e) \/ Evaluate(e) \/ Fail(e) \/ Expire(e)

(* Events keep coming, a minute passes, and calls do not fail for ever.     *)
GenFairness ==
  \A e \in Containers :
    /\ WF_genVars(Invoke(e))
    /\ WF_genVars(Evaluate(e))
    /\ WF_genVars(Expire(e))
    /\ SF_genVars(LoadRules(e))
    /\ SF_genVars(Mark(e))

GenSpec == GenInit /\ [][GenNext]_genVars /\ GenFairness

-----------------------------------------------------------------------------
(* An invocation that begins after a change was announced evaluates with    *)
(* that change, in every container, unless the very query that loaded its   *)
(* rules was answered by a replica that lagged.                             *)
EvaluatesAnnounced ==
  \A e \in Containers :
    container[e].pc = "evaluate" => container[e].cache >= container[e].must

(* /rules/runtime-status: whether the evaluator of a kind is current; the   *)
(* status is "verified" when both are.                                     *)
Current(k) == generation # 0 /\ observed[k] = generation

(* "current", and so "verified", is true: an evaluator of that kind has      *)
(* loaded every change announced so far, lagging replicas excepted.         *)
CurrentMeansLoaded ==
  \A k \in Kinds : Current(k) => marked[k] >= announced

(* Once changes stop, each kind of evaluator that runs becomes current and   *)
(* stays so: a mark that failed, or that put an older generation back over   *)
(* that of another container, is repaired.                                  *)
EventuallyCurrent ==
  <>[](generation # 0 /\ \A p \in Publishers : publisher[p].pc = "idle")
    => \A e \in Containers : <>[]Current(KindOf[e])
=============================================================================
