---------------------------- MODULE RuleCatalog ----------------------------
(***************************************************************************)
(* The rules table and its authors: the /rules and /rule-releases          *)
(* endpoints of src/handlers/api.py and src/domain/rule_release.py, and    *)
(* the clients that read a rule, change it and write it back.              *)
(*                                                                         *)
(* Rows that a plan or a client's GET reads late are rows read earlier, so *)
(* those reads are plain.  What a request does after its last write of the *)
(* table is the subject of RuleGeneration.                                 *)
(***************************************************************************)
EXTENDS Naturals, FiniteSets

CONSTANTS
  RuleIds,
  Bodies,          \* what an author can write into a rule
  ReleaseBodies,   \* those that carry a release_id
  Manifests,       \* release manifests
  Authors,         \* clients of the API, each with one request at a time
  MaxRuleWrites    \* bound: writes of rules

Policies == {"ignore", "disable", "delete"}

(* Every rule that a release switched off; it keeps its release_id.         *)
Off == "off"

Absent == "absent"

ASSUME CatalogAssumption ==
  /\ ReleaseBodies \subseteq Bodies
  /\ {Off, Absent} \cap Bodies = {}
  /\ Manifests \subseteq
       [desired : [RuleIds -> ReleaseBodies \cup {Absent}], removal : Policies]
  /\ MaxRuleWrites \in Nat

VARIABLES
  rule,     \* the rules table
  loose,    \* rules once deleted, or written without a guard (history)
  writes,   \* number of writes of the table
  author    \* requests

ruleVars == <<rule, loose, writes, author>>

-----------------------------------------------------------------------------
StoredRow ==
  [stamp : 0..MaxRuleWrites,    \* number of the write that stored it
   rev   : 0..MaxRuleWrites,    \* 0: the attribute is missing
   body  : Bodies \cup {Off, Absent}]

NoRow == [stamp |-> 0, rev |-> 0, body |-> Absent]

Stored(x) == x.body # Absent

Free == [pc |-> "idle"]

Writing ==
  [pc   : {"put"},
   op   : {"create", "guarded", "unguarded", "delete"},
   rule : RuleIds,
   body : Bodies,
   base : StoredRow]

Releasing ==
  [pc       : {"apply"},
   manifest : Manifests,
   plan     : [RuleIds -> StoredRow], \* the rows the plan was made from
   todo     : SUBSET RuleIds]

RuleTypeOK ==
  /\ rule \in [RuleIds -> StoredRow]
  /\ loose \in SUBSET RuleIds
  /\ writes \in 0..MaxRuleWrites
  /\ author \in [Authors -> {Free} \cup Writing \cup Releasing]

RuleInit ==
  /\ rule = [r \in RuleIds |-> NoRow]
  /\ loose = {}
  /\ writes = 0
  /\ author = [a \in Authors |-> Free]

-----------------------------------------------------------------------------
(* Single rules                                                            *)

Store(r, rev, body) ==
  /\ writes < MaxRuleWrites
  /\ writes' = writes + 1
  /\ rule' = [rule EXCEPT ![r] = [stamp |-> writes + 1, rev |-> rev, body |-> body]]

Remove(r) ==
  /\ writes < MaxRuleWrites
  /\ writes' = writes + 1
  /\ rule' = [rule EXCEPT ![r] = NoRow]
  /\ loose' = loose \cup {r}

Finish(a) == author' = [author EXCEPT ![a] = Free]

(* A client reads the rule, or the DELETE handler does; 404 if it is gone.  *)
StartWrite(a, op, r, b) ==
  /\ author[a] = Free
  /\ op = "delete" => Stored(rule[r])
  /\ author' = [author EXCEPT ![a] =
       [pc |-> "put", op |-> op, rule |-> r, body |-> b, base |-> rule[r]]]
  /\ UNCHANGED <<rule, loose, writes>>

(* Revision 0 stands for a row without the attribute, or for no row.       *)
HoldsIfStored(x, rev) == Stored(x) \/ rev = 0

Holds(x, rev) == x.rev = rev

(* _put_with_rev with expected_rev.                                        *)
Guarded(r, base, b) ==
  /\ Holds(rule[r], base.rev)
  /\ Store(r, base.rev + 1, b)
  /\ UNCHANGED loose

(* POST of a new rule.                                                     *)
PutNew(a) ==
  /\ author[a].pc = "put"
  /\ author[a].op = "create"
  /\ ~Stored(rule[author[a].rule])
  /\ Store(author[a].rule, 0, author[a].body)
  /\ Finish(a)
  /\ UNCHANGED loose

PutGuarded(a) ==
  /\ author[a].pc = "put"
  /\ author[a].op = "guarded"
  /\ Guarded(author[a].rule, author[a].base, author[a].body)
  /\ Finish(a)

(* PUT without expected_rev stores the body as it is: with the revision it  *)
(* was read with, if it was read, and without any if it comes from a file.  *)
PutUnguarded(a) ==
  /\ author[a].pc = "put"
  /\ author[a].op = "unguarded"
  /\ \E rev \in {0, author[a].base.rev} : Store(author[a].rule, rev, author[a].body)
  /\ loose' = loose \cup {author[a].rule}
  /\ Finish(a)

Delete(a) ==
  /\ author[a].pc = "put"
  /\ author[a].op = "delete"
  /\ Remove(author[a].rule)
  /\ Finish(a)

(* A refused request (400, 409), and one that dies or raises anywhere; a    *)
(* release that stops has written what it has written.                     *)
GiveUp(a) ==
  /\ author[a] # Free
  /\ Finish(a)
  /\ UNCHANGED <<rule, loose, writes>>

-----------------------------------------------------------------------------
(* Releases                                                                *)

(* plan_release: rows that the policy removes; those switched off keep their *)
(* release_id and are switched off once more.                              *)
Dropped(m, r, x) ==
  m.desired[r] = Absent /\ m.removal # "ignore" /\ x.body \in ReleaseBodies \cup {Off}

(* What is to become of a rule, given its row.                             *)
Wanted(m, r, x) ==
  IF m.desired[r] # Absent THEN m.desired[r]
  ELSE IF ~Dropped(m, r, x) THEN x.body
  ELSE IF m.removal = "disable" THEN Off
  ELSE Absent

Removed(m, r) == m.desired[r] = Absent

(* Rows that the plan leaves alone.                                        *)
Left(m, r, x) == ~Dropped(m, r, x) /\ Wanted(m, r, x) = x.body

Plan(a, m) ==
  /\ author[a] = Free
  /\ writes < MaxRuleWrites
  /\ author' = [author EXCEPT ![a] =
       [pc |-> "apply", manifest |-> m, plan |-> rule,
        todo |-> {r \in RuleIds : ~Left(m, r, rule[r])}]]
  /\ UNCHANGED <<rule, loose, writes>>

(* One operation of the plan: removals first.  A row planned without a      *)
(* revision is deleted without a condition.                                *)
Apply(a, r) ==
  /\ author[a].pc = "apply"
  /\ r \in author[a].todo
  /\ LET m == author[a].manifest
         base == author[a].plan[r]
         wanted == Wanted(m, r, base)
     IN /\ Removed(m, r) \/ \A q \in author[a].todo : ~Removed(m, q)
        /\ IF wanted = Absent
           THEN (base.rev = 0 \/ Holds(rule[r], base.rev)) /\ Remove(r)
           ELSE Guarded(r, base, wanted)
  /\ author' = [author EXCEPT ![a].todo = @ \ {r}]

(* All operations are done and the release reports success.                *)
Applied(a) ==
  /\ author[a].pc = "apply"
  /\ author[a].todo = {}
  /\ Finish(a)
  /\ UNCHANGED <<rule, loose, writes>>

-----------------------------------------------------------------------------
RuleNext ==
  \E a \in Authors :
    \/ \E op \in {"create", "guarded", "unguarded", "delete"}, r \in RuleIds, b \in Bodies :
         StartWrite(a, op, r, b)
    \/ PutNew(a)
    \/ PutGuarded(a)
    \/ PutUnguarded(a)
    \/ Delete(a)
    \/ \E m \in Manifests : Plan(a, m)
    \/ \E r \in RuleIds : Apply(a, r)
    \/ Applied(a)
    \/ GiveUp(a)

RuleSpec == RuleInit /\ [][RuleNext]_ruleVars

-----------------------------------------------------------------------------
(* Writers that name the revision they read, releases among them, lose no   *)
(* change of each other: what such a write replaces is the row its author    *)
(* had read.  Deletions and unguarded writes void revisions; and a row that  *)
(* POST has just created has none, so that whoever saw no row replaces it.   *)
RuleEditsBuildOnEachOther ==
  [][\A a \in Authors, r \in RuleIds :
       (author'[a] # author[a] /\ rule'[r] # rule[r] /\ rule[r].rev # 0 /\ r \notin loose')
         => \/ author[a].pc = "put" /\ author[a].base = rule[r]
            \/ author[a].pc = "apply" /\ author[a].plan[r] = rule[r]]_ruleVars
=============================================================================
