----------------------------- MODULE MC_Ageing -----------------------------
(* One instance, for TLC, of the parts in which the age of something that    *)
(* outlives an invocation decides: claims on rows of the outbox, which here  *)
(* outlive the invocations that took them, as deployed; and what containers *)
(* keep, which are rules (RuleGeneration), scopes of API keys (ApiAccess)    *)
(* and roles of accounts (AccountRoles).  They share no state; a behaviour    *)
(* runs one of them and leaves the others at rest, so that their states add  *)
(* up instead of multiplying.                                              *)
EXTENDS MC_Outbox, RuleGeneration, ApiAccess, AccountRoles

CONSTANTS p1, p2, e1, e2, ra, rd

VARIABLE part

Processors == [e \in Containers |-> "signal"]

SomeKeys ==
  {[kind |-> "bare", tokens |-> {}],
   [kind |-> "suffixed", tokens |-> {"rules"}],
   [kind |-> "suffixed", tokens |-> {"ir"}],
   [kind |-> "suffixed", tokens |-> {"settings", "read", "ir_actions"}]}

-----------------------------------------------------------------------------
(* The outbox at rest: a release without durable receipts has sent its rows. *)
SentBefore ==
  /\ legacy = Rows
  /\ row = [o \in Rows |-> [LegacyRow(1) EXCEPT !.status = "SENT"]]
  /\ stream = [o \in Rows |-> FALSE]
  /\ worker = [w \in Workers |-> Idle]
  /\ recovery = Asleep
  /\ copies = [o \in Rows |-> [d \in Destinations |-> 1]]

MCInit ==
  /\ part \in {"outbox", "rules", "keys", "roles"}
  /\ IF part = "outbox" THEN Init ELSE SentBefore
  /\ GenInit
  /\ AccessInit
  /\ RolesInit

MCNext ==
  /\ UNCHANGED part
  /\ \/ part = "outbox" /\ Next /\ UNCHANGED <<genVars, accessVars, rolesVars>>
     \/ part = "rules" /\ GenNext /\ UNCHANGED <<vars, accessVars, rolesVars>>
     \/ part = "keys" /\ AccessNext /\ UNCHANGED <<vars, genVars, rolesVars>>
     \/ part = "roles" /\ RolesNext /\ UNCHANGED <<vars, genVars, accessVars>>

(* Each part has its own fairness; keys and roles need none.                *)
MCSpec ==
  /\ MCInit
  /\ [][MCNext]_<<part, vars, genVars, accessVars, rolesVars>>
  /\ \/ part = "outbox" /\ Fairness
     \/ part = "rules" /\ GenFairness
     \/ part \in {"keys", "roles"}
=============================================================================
