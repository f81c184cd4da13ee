-------------------------- MODULE ResponseTargets --------------------------
(***************************************************************************)
(* What a response acts on, and what its rollback undoes.                  *)
(* src/domain/response_actions.py resolves the targets that a rule maps to *)
(* fields of the event; src/handlers/responder.py derives the arguments of *)
(* each response module from those targets, or from the event when a rule  *)
(* only names a module, and derives the arguments of the undo once more,   *)
(* from the event and what the action captured, when it records the action *)
(* (_build_rollback_kwargs); the rollback endpoint of src/handlers/api.py  *)
(* and src/handlers/ir_rollback.py take them from that record.             *)
(*                                                                         *)
(* A name (of a user, a bucket, an account...) is told by where it comes    *)
(* from: a field that a rule maps, or a place of the event that an         *)
(* extractor falls back to.  So what an extractor finds first is what an   *)
(* action is about.  Arguments are sets of names; an empty one is missing.  *)
(* Claims are those of Responder: an action is executed once.              *)
(***************************************************************************)
EXTENDS Naturals, Sequences, FiniteSets

CONSTANTS
  Responses,     \* response parts of rules
  MappedFields,  \* event fields that rules map targets to
  Incidents      \* events that the rules match

-----------------------------------------------------------------------------
(* RESPONSE_TARGET_CONTRACTS.                                              *)

UserModules == {"disable_user", "delete_user", "revoke_active_sessions"}

BucketModules == {"block_s3_bucket_public_access", "quarantine_s3_bucket"}

(* Modules of one argument that only requestParameters can supply.         *)
RequestKey ==
  [disable_lambda_function        |-> "function_name",
   disable_secrets_manager_secret |-> "secret_id",
   enable_cloudtrail_logging      |-> "trail_name",
   enable_guardduty_detector      |-> "detector_id",
   start_config_recorder          |-> "recorder_name"]

RequestModules == DOMAIN RequestKey

Modules ==
  UserModules \cup BucketModules \cup RequestModules \cup
    {"disable_access_key", "disable_role", "delete_inline_policy", "block_s3_public_access",
     "block_s3_object_public_access", "isolate_ec2_instances",
     "deauthorize_security_group_rules", "revoke_rds_snapshot_public_access",
     "enable_security_hub"}

Required(m) ==
  CASE m \in UserModules -> {"user_name"}
    [] m \in BucketModules -> {"bucket_name"}
    [] m \in RequestModules -> {RequestKey[m]}
    [] m = "disable_access_key" -> {"user_name", "access_key_id"}
    [] m = "disable_role" -> {"role_name"}
    [] m = "delete_inline_policy" -> {"policy_name"}
    [] m = "block_s3_public_access" -> {"account_id"}
    [] m = "block_s3_object_public_access" -> {"bucket_name", "key"}
    [] m = "isolate_ec2_instances" -> {"instance_ids"}
    [] m = "deauthorize_security_group_rules" -> {"group_id"}
    [] m = "revoke_rds_snapshot_public_access" -> {"snapshot_id"}
    [] m = "enable_security_hub" -> {}

Principals == {"user_name", "role_name", "principal_name"}

RuleKeys == {"rules", "ingress_rules", "egress_rules"}

Optional(m) ==
  CASE m = "delete_inline_policy" -> Principals
    [] m = "deauthorize_security_group_rules" -> RuleKeys
    [] m = "revoke_rds_snapshot_public_access" -> {"snapshot_type"}
    [] m = "quarantine_s3_bucket" -> {"account_id"}
    [] OTHER -> {}

(* validate_response_actions, of one action.                               *)
ValidAction(a) ==
  LET given == DOMAIN a.target IN
  /\ a.module \in Modules
  /\ Required(a.module) \subseteq given
  /\ given \subseteq Required(a.module) \cup Optional(a.module)
  /\ a.module = "deauthorize_security_group_rules" => given \cap RuleKeys # {}
  /\ a.module = "delete_inline_policy" => Cardinality(given \cap Principals) = 1
  /\ \A k \in given : a.target[k] \in MappedFields

Places == {"response", "identity", "request", "minimal", "resources", "value", "top", "group",
           "primary", "cloud", "legacy"}

(* What an event has: the places that hold something, the mapped fields that *)
(* hold a value of the right type, and the API call, by kind.              *)
Event == [filled   : SUBSET Places,
          resolves : SUBSET MappedFields,
          activity : {"PutUserPolicy", "PutRolePolicy", "AuthorizeSecurityGroupIngress",
                      "AuthorizeSecurityGroupEgress", "other"},
          cluster  : BOOLEAN,    \* the request is about a cluster snapshot
          failed   : BOOLEAN,    \* the call was denied
          foreign  : BOOLEAN]    \* the source is a runtime or custom one

ASSUME TargetsAssumption ==
  /\ MappedFields \cap Places = {}
  /\ Incidents \subseteq Event
  /\ \A r \in Responses :
       \/ r.kind = "legacy" /\ r.module \in Modules
       \/ /\ r.kind = "mapped"
          /\ \E n \in 1..10 : DOMAIN r.actions = 1..n
          /\ \A i \in DOMAIN r.actions : ValidAction(r.actions[i])

-----------------------------------------------------------------------------
(* resolve_response_actions                                                *)

ResolvedKeys(a, e) == {k \in DOMAIN a.target : a.target[k] \in e.resolves}

(* Optional keys that do not resolve are left to the fallbacks.             *)
FailedIfRequired(a, e) == ~(Required(a.module) \subseteq ResolvedKeys(a, e))

(* Any key that does not resolve is an error of the action.                *)
FailedResolution(a, e) == ResolvedKeys(a, e) # DOMAIN a.target

ResolvedAction(a, e) ==
  [module |-> a.module,
   target |-> [k \in ResolvedKeys(a, e) |-> {a.target[k]}],
   error  |-> FailedResolution(a, e)]

Unmapped == << >>

Untargeted(m) == [module |-> m, target |-> Unmapped, error |-> FALSE]

(* The actions of an alert.                                                *)
ResolvedActions(r, e) ==
  IF r.kind = "legacy" THEN <<Untargeted(r.module)>>
  ELSE [i \in DOMAIN r.actions |-> ResolvedAction(r.actions[i], e)]

(* "<detection>--r<index>".                                                *)
ActionId(i) == i

-----------------------------------------------------------------------------
(* The extractors of the responder                                         *)

Found(order, e) ==
  LET Holds(p) == p \in e.filled
      hits == SelectSeq(order, Holds)
  IN IF hits = <<>> THEN {} ELSE {Head(hits)}

Told(t, k) == IF k \in DOMAIN t THEN t[k] ELSE {}

(* The explicit target comes first, then the places in their order.        *)
First(t, k, order, e) == IF Told(t, k) # {} THEN t[k] ELSE Found(order, e)

(* _request_parameters: of the event, else of the primary signal.           *)
InRequest == <<"request", "minimal">>

(* _extract_user_name.                                                     *)
UserName(t, e) ==
  First(t, "user_name", <<"top", "identity", "request", "resources", "group", "primary">>, e)

(* _extract_account_id.                                                    *)
AccountId(t, e) == First(t, "account_id", <<"cloud", "primary", "minimal", "legacy">>, e)

(* _extract_bucket_name.                                                   *)
BucketName(t, e) == First(t, "bucket_name", <<"value">> \o InRequest \o <<"resources">>, e)

(* _extract_instance_ids: all that the event names, unless they are given.  *)
InstanceIds(t, e) ==
  IF Told(t, "instance_ids") # {} THEN t.instance_ids
  ELSE Found(<<"value">>, e) \cup Found(InRequest, e) \cup Found(<<"resources">>, e)

(* The type of a snapshot says which API is called.                         *)
SnapshotType(t, e) ==
  IF Told(t, "snapshot_type") # {} /\ Told(t, "snapshot_id") # {} THEN t.snapshot_type
  ELSE IF e.cluster THEN {"cluster"} ELSE {"instance"}

(* _extract_inline_policy_principal: no fallback once anything is given.    *)
InlinePolicy(t, e) ==
  LET Either(k) == IF t = Unmapped THEN Found(InRequest, e) ELSE Told(t, k)
      Named(k, activity) ==
        IF Told(t, "principal_name") # {} /\ e.activity = activity THEN t.principal_name
        ELSE IF t = Unmapped /\ e.activity # activity THEN {}
        ELSE Either(k)
  IN [user_name   |-> Named("user_name", "PutUserPolicy"),
      role_name   |-> Named("role_name", "PutRolePolicy"),
      policy_name |-> Either("policy_name")]

(* _extract_security_group_rule_change.                                    *)
GroupRules(t, e) ==
  LET Side(k, activity) ==
        IF e.activity = activity
        THEN IF t = Unmapped THEN Found(InRequest, e)
             ELSE IF Told(t, "rules") # {} THEN t.rules ELSE Told(t, k)
        ELSE Told(t, k)
  IN [group_id      |-> IF t = Unmapped THEN Found(InRequest, e) ELSE Told(t, "group_id"),
      ingress_rules |-> Side("ingress_rules", "AuthorizeSecurityGroupIngress"),
      egress_rules  |-> Side("egress_rules", "AuthorizeSecurityGroupEgress")]

(* _extract_user_and_access_key.                                           *)
AccessKey(t, e) ==
  [user_name     |-> First(t, "user_name", <<"response", "identity", "resources">>, e),
   access_key_id |-> First(t, "access_key_id", <<"response", "resources">>, e)]

(* _extract_role_name.                                                     *)
RoleName(t, e) == First(t, "role_name", <<"value">> \o InRequest, e)

(* _extract_bucket_and_key.                                                *)
BucketAndKey(t, e) == [bucket_name |-> BucketName(t, e), key |-> First(t, "key", InRequest, e)]

(* _extract_rds_snapshot.                                                  *)
Snapshot(t, e) ==
  [snapshot_id   |-> First(t, "snapshot_id", InRequest, e),
   snapshot_type |-> SnapshotType(t, e)]

(* What the handler of module m passes on.                                 *)
Arguments(m, t, e) ==
  CASE m \in UserModules -> [user_name |-> UserName(t, e)]
    [] m = "disable_access_key" -> AccessKey(t, e)
    [] m = "disable_role" -> [role_name |-> RoleName(t, e)]
    [] m = "block_s3_public_access" -> [account_id |-> AccountId(t, e)]
    [] m \in BucketModules -> [bucket_name |-> BucketName(t, e)]
    [] m = "block_s3_object_public_access" -> BucketAndKey(t, e)
    [] m = "isolate_ec2_instances" -> [instance_ids |-> InstanceIds(t, e)]
    [] m = "revoke_rds_snapshot_public_access" -> Snapshot(t, e)
    [] m = "delete_inline_policy" -> InlinePolicy(t, e)
    [] m = "deauthorize_security_group_rules" -> GroupRules(t, e)
    [] m \in RequestModules ->
         [k \in {RequestKey[m]} |-> First(t, k, InRequest, e)]
    [] m = "enable_security_hub" -> Unmapped

(* The handler finds all it needs; otherwise it reports a failure and does  *)
(* nothing.                                                                *)
Complete(m, args) ==
  CASE m = "delete_inline_policy" ->
         args.policy_name # {} /\ (args.user_name # {} \/ args.role_name # {})
    [] m = "deauthorize_security_group_rules" ->
         args.group_id # {} /\ (args.ingress_rules # {} \/ args.egress_rules # {})
    [] OTHER -> \A k \in DOMAIN args : args[k] # {}

-----------------------------------------------------------------------------
(* ROLLBACK_UNDO_MODULE: modules with an undo.                             *)
Undoable ==
  (Modules \ {"delete_user", "enable_cloudtrail_logging", "enable_guardduty_detector",
              "start_config_recorder", "enable_security_hub"})

(* Undos that need nothing of the state before, or make do with a part.     *)
NeedsNoState == {"disable_access_key", "revoke_active_sessions",
                 "deauthorize_security_group_rules", "disable_secrets_manager_secret",
                 "disable_user", "disable_role"}

(* What an action may have captured of the state before: the security groups *)
(* of an instance, instance by instance, or one state.                     *)
Restorable(m, args) == IF m = "isolate_ec2_instances" THEN args.instance_ids ELSE {"state"}

Supported(m, captured) == m \in NeedsNoState \/ captured # {}

UndoFromEvent(m, t, e, captured) == Arguments(m, Unmapped, e)

(* _build_rollback_kwargs, but for the state to be restored.                *)
UndoArguments(m, t, e, captured) ==
  CASE m = "disable_access_key" -> AccessKey(t, e)
    [] m \in {"revoke_active_sessions", "disable_user"} -> [user_name |-> UserName(t, e)]
    [] m = "deauthorize_security_group_rules" -> GroupRules(t, e)
    [] m = "disable_secrets_manager_secret" ->
         [secret_id |-> First(t, "secret_id", InRequest, e)]
    [] m = "disable_role" -> [role_name |-> RoleName(t, e)]
    [] m \in {"quarantine_s3_bucket", "block_s3_bucket_public_access"} ->
         [bucket_name |-> BucketName(t, e)]
    [] m = "isolate_ec2_instances" -> [instance_ids |-> captured]
    [] m = "block_s3_public_access" -> [account_id |-> AccountId(t, e)]
    [] m = "block_s3_object_public_access" -> BucketAndKey(t, e)
    [] m = "disable_lambda_function" ->
         [function_name |-> First(t, "function_name", InRequest, e)]
    [] m = "revoke_rds_snapshot_public_access" -> Snapshot(t, e)
    [] m = "delete_inline_policy" -> InlinePolicy(t, e)

-----------------------------------------------------------------------------
VARIABLES
  matched,    \* the rule that matched
  incident,
  resolved,   \* the alert's actions, as the responder reads them
  next,       \* the action that the invocation has come to
  acted,      \* executed actions
  records,    \* the IR actions table
  undone      \* executed undos

targetVars == <<matched, incident, resolved, next, acted, records, undone>>

alert == <<matched, incident, resolved>>

Indices == DOMAIN resolved

TargetTypeOK ==
  /\ matched \in Responses
  /\ incident \in Incidents
  /\ resolved = ResolvedActions(matched, incident)
  /\ next \in 1..(Len(resolved) + 1)
  /\ \A x \in acted : x.index \in Indices /\ x.module = resolved[x.index].module
  /\ \A x \in records : x.supported \in BOOLEAN /\ x.module \in Undoable
  /\ \A x \in undone : \E y \in records : y.id = x.id

TargetInit ==
  /\ matched \in Responses
  /\ incident \in Incidents
  /\ resolved = ResolvedActions(matched, incident)
  /\ next = 1
  /\ acted = {}
  /\ records = {}
  /\ undone = {}

Executed(i) == \E x \in acted : x.index = i

(* Checks of _process_record that skip the action, and claims.             *)
Skipped(i) ==
  \/ incident.foreign
  \/ resolved[i].error
  \/ incident.failed
  \/ Executed(i)
  \/ ~Complete(resolved[i].module, Arguments(resolved[i].module, resolved[i].target, incident))

Skip ==
  /\ next \in Indices
  /\ Skipped(next)
  /\ next' = next + 1
  /\ UNCHANGED <<alert, acted, records, undone>>

(* The handler acts, capturing all, some or nothing of the state before; its *)
(* success is recorded, unless the put fails or the invocation dies.        *)
Respond ==
  LET a == resolved[next]
      account == AccountId(a.target, incident)
      args == Arguments(a.module, a.target, incident)
  IN
  /\ next \in Indices
  /\ ~Skipped(next)
  /\ next' = next + 1
  /\ \E captured \in SUBSET Restorable(a.module, args), recorded \in BOOLEAN :
       LET record == [id        |-> ActionId(next),
                      module    |-> a.module,
                      account   |-> account,
                      args      |-> UndoArguments(a.module, a.target, incident, captured),
                      supported |-> Supported(a.module, captured)]
           kept == {x \in records : x.id # record.id}
       IN /\ acted' = acted \cup {[index    |-> next,
                                   module   |-> a.module,
                                   account  |-> account,
                                   args     |-> args,
                                   captured |-> captured]}
          /\ records' = IF recorded /\ a.module \in Undoable THEN kept \cup {record} ELSE records
  /\ UNCHANGED <<alert, undone>>

(* The message is delivered once more.                                     *)
Again ==
  /\ next > 1
  /\ next' = 1
  /\ UNCHANGED <<alert, acted, records, undone>>

(* A rollback is asked for and executed, with what is recorded.             *)
RollBack ==
  /\ \E x \in records :
       /\ x.supported
       /\ \A y \in undone : y.id # x.id
       /\ undone' = undone \cup
            {[id |-> x.id, module |-> x.module, account |-> x.account, args |-> x.args]}
  /\ UNCHANGED <<alert, next, acted, records>>

TargetNext ==
  \/ Skip
  \/ Respond
  \/ Again
  \/ RollBack

TargetSpec == TargetInit /\ [][TargetNext]_targetVars

-----------------------------------------------------------------------------
(* "OpenCDR does not guess or fall back to a different asset"               *)
(* (docs/incident-response.md:29): an action whose rule maps its target      *)
(* uses names of that mapping only, and only when all of it resolved; and    *)
(* nothing is done about a call that was denied or an event of a foreign     *)
(* source.                                                                 *)
ActsOnMappedTargets ==
  \A x \in acted :
    /\ ~incident.failed /\ ~incident.foreign
    /\ matched.kind = "mapped" =>
         LET target == matched.actions[x.index].target
             mapped == {target[k] : k \in DOMAIN target}
         IN /\ mapped \subseteq incident.resolves
            /\ \A k \in DOMAIN x.args \ {"snapshot_type"} : x.args[k] \subseteq mapped
            /\ \A k \in {"account_id", "snapshot_type"} \cap DOMAIN target :
                 x.account = {target[k]} \/ Told(x.args, k) = {target[k]}

(* An undo with arguments args restores what the action x acted on: all of   *)
(* it, in the same roles; but of instances, those whose state x captured.   *)
Restores(args, x) ==
  IF x.module = "isolate_ec2_instances"
  THEN args = [instance_ids |-> x.captured] /\ x.captured \subseteq x.args.instance_ids
  ELSE args = x.args

(* A rollback addresses the very asset, in the very account, that the action *)
(* with that id acted on, although the arguments of the undo are built by    *)
(* other code than those of the action; it addresses no instance that was   *)
(* not isolated, and never restores a state that was not captured.         *)
UndoAddressesItsAction ==
  \A u \in undone :
    LET its == {x \in acted : ActionId(x.index) = u.id} IN
      /\ its # {}
      /\ \A x \in its :
           /\ x.module = u.module
           /\ x.account = u.account
           /\ Restores(u.args, x)
           /\ x.module \in NeedsNoState \/ x.captured # {}
=============================================================================
