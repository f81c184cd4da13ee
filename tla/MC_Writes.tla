----------------------------- MODULE MC_Writes -----------------------------
(* One instance, for TLC, of the parts that rest on conditional writes of    *)
(* DynamoDB rows: rows of the outbox, whose claims are slower here than their *)
(* age allows; detection lists; rules; and the notifications settings, each  *)
(* of the three with the clients that edit it.  They share no state: a       *)
(* behaviour runs one of the parts and leaves the others at rest, so that    *)
(* their states add up instead of multiplying.                             *)
(*                                                                         *)
(* Workers, who are also the Editors, Authors and Clients, are               *)
(* interchangeable.                                                        *)
EXTENDS MC_Outbox, DetectionLists, RuleCatalog, MC_Settings

CONSTANTS v1, v2, r1, r2, b1, b2, e1

VARIABLE part

-----------------------------------------------------------------------------
OneContent == {{v1}}

(* A manifest that has one rule and drops the other, under each policy.     *)
OneRelease ==
  {[desired |-> [r \in RuleIds |-> IF r = r1 THEN b2 ELSE Absent], removal |-> p] :
     p \in Policies}

(* Files without webhook targets, and files with two.                      *)
NoneOrTwo == {<<>>} \cup TwoTargets

WritesSymmetry == Permutations(Workers)

(* The settings in two ways: requests at the same time, for documents with   *)
(* one target at most; and documents with two, one request at a time.       *)
OneTarget ==
  \A c \in Clients : client'[c] # Ready =>
    LET targets == client'[c].payload.targets
    IN Len(targets) <= 1 /\ \A i \in DOMAIN targets : targets[i].name = ta

InTurn == \A c, d \in Clients : client'[c] # Ready /\ client'[d] # Ready => c = d

-----------------------------------------------------------------------------
MCInit ==
  /\ part \in {"outbox", "lists", "catalog", "settings", "targets"}
  /\ Init
  /\ part # "outbox" => \A o \in Rows : row[o].status = "PENDING"
  /\ ListInit
  /\ RuleInit
  /\ SettingsInit

MCNext ==
  \/ part = "outbox" /\ Next /\ UNCHANGED <<part, listVars, ruleVars, settingsVars>>
  \/ part = "lists" /\ ListNext /\ UNCHANGED <<part, vars, ruleVars, settingsVars>>
  \/ part = "catalog" /\ RuleNext /\ UNCHANGED <<part, vars, listVars, settingsVars>>
  \/ /\ part = "settings" /\ SettingsNext /\ OneTarget
     /\ UNCHANGED <<part, vars, listVars, ruleVars>>
  \/ /\ part = "targets" /\ SettingsNext /\ InTurn
     /\ UNCHANGED <<part, vars, listVars, ruleVars>>

MCSpec == MCInit /\ [][MCNext]_<<part, vars, listVars, ruleVars, settingsVars>>
=============================================================================
