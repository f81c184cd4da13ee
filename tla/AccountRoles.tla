---------------------------- MODULE AccountRoles ----------------------------
(***************************************************************************)
(* The role that a response acts with in one AWS account: the /ir-roles    *)
(* endpoints of src/handlers/api.py, and _resolve_role_arn and _get_dredge *)
(* of src/handlers/responder.py with the two caches of each container.     *)
(*                                                                         *)
(* An account's row names a role, or is disabled (the kill switch), or is  *)
(* missing, and then the default role is used.  The clock counts in units  *)
(* that a replica of the table never lags by, and that an action never     *)
(* takes longer than.                                                      *)
(***************************************************************************)
EXTENDS Naturals, FiniteSets

CONSTANTS
  AccountRoleArns,  \* roles that a row can name
  DefaultArn,       \* OPENCDR_IR_ROLE_ARN, or "none"
  Responders,       \* containers
  RoleTTL,          \* ROLE_ARN_CACHE_TTL_SECONDS
  ClientTTL,        \* DREDGE_CACHE_TTL_SECONDS
  SessionTime,      \* the life of an assumed session
  RoleHorizon       \* bound of the clock

NoRole == "none"

(* _ROLE_SESSION_DURATION_SECONDS less 300.                                *)
ASSUME RolesAssumption ==
  /\ NoRole \notin AccountRoleArns
  /\ RoleTTL \in Nat \ {0}
  /\ SessionTime \in Nat
  /\ ClientTTL \in Nat
  /\ ClientTTL < SessionTime
  /\ RoleHorizon \in Nat

Arns == AccountRoleArns \cup ({DefaultArn} \ {NoRole})

VARIABLES
  roleClock,
  accountRow, \* the row of the account
  rowBefore,  \* the row that a slow replica may still show
  namedLast,  \* the last time at which each role was the one to use (history)
  roleCache,  \* of each container
  clients,    \* when each container built its client for a role
  acting      \* the action that each container is executing

rolesVars == <<roleClock, accountRow, rowBefore, namedLast, roleCache, clients, acting>>

-----------------------------------------------------------------------------
AccountRows == [kind : {"missing"}] \cup [kind : {"enabled", "disabled"}, arn : AccountRoleArns]

RoleFor(r) ==
  CASE r.kind = "missing" -> DefaultArn
    [] r.kind = "disabled" -> NoRole
    [] OTHER -> r.arn

Times == 0..RoleHorizon

Unbuilt == [there |-> FALSE, at |-> 0]

NoAction == [arn |-> NoRole, built |-> 0, idleFor |-> 0]

RolesTypeOK ==
  /\ roleClock \in Times
  /\ accountRow \in AccountRows
  /\ rowBefore \in AccountRows
  /\ namedLast \in [Arns -> Times]
  /\ roleCache \in
       [Responders -> [there : BOOLEAN, arn : Arns \cup {NoRole}, at : Times]]
  /\ clients \in [Responders -> [Arns -> [there : BOOLEAN, at : Times]]]
  /\ acting \in
       [Responders -> [arn : Arns \cup {NoRole}, built : Times, idleFor : Times]]

(* The account has no row, and its other roles were never the ones to use.  *)
RolesInit ==
  /\ roleClock = 0
  /\ accountRow = [kind |-> "missing"]
  /\ rowBefore = accountRow
  /\ namedLast = [a \in Arns |-> 0]
  /\ roleCache = [c \in Responders |-> [there |-> FALSE, arn |-> NoRole, at |-> 0]]
  /\ clients = [c \in Responders |-> [a \in Arns |-> Unbuilt]]
  /\ acting = [c \in Responders |-> NoAction]

-----------------------------------------------------------------------------
Named(a, r) == RoleFor(r) = a

(* POST, PUT and DELETE /ir-roles: none of them is guarded by a revision.   *)
(* One of them at most happens within the lag of a replica.                *)
SetRow(r) ==
  /\ rowBefore = accountRow
  /\ r # accountRow
  /\ accountRow' = r
  /\ namedLast' = [a \in Arns |-> IF Named(a, r) THEN roleClock ELSE namedLast[a]]
  /\ UNCHANGED <<roleClock, rowBefore, roleCache, clients, acting>>

(* An action ends before it has taken a unit of time (the Lambda's timeout),*)
(* and replicas have caught up.                                            *)
RoleTick ==
  /\ roleClock < RoleHorizon
  /\ \A c \in Responders : acting[c] = NoAction
  /\ roleClock' = roleClock + 1
  /\ rowBefore' = accountRow
  /\ namedLast' = [a \in Arns |-> IF Named(a, accountRow) THEN roleClock + 1 ELSE namedLast[a]]
  /\ UNCHANGED <<accountRow, roleCache, clients, acting>>

-----------------------------------------------------------------------------
RoleKnown(c) == roleCache[c].there

RoleFresh(c) == roleCache[c].there /\ roleClock - roleCache[c].at < RoleTTL

(* A miss: the read is not consistent.  When it raises, the action is       *)
(* skipped and nothing is cached.                                          *)
ReadRole(c) ==
  /\ acting[c] = NoAction
  /\ ~RoleFresh(c)
  /\ \E r \in {accountRow, rowBefore} :
       roleCache' = [roleCache EXCEPT ![c] =
         [there |-> TRUE, arn |-> RoleFor(r), at |-> roleClock]]
  /\ UNCHANGED <<roleClock, accountRow, rowBefore, namedLast, clients, acting>>

ClientFresh(c, a) == clients[c][a].there /\ roleClock - clients[c][a].at < ClientTTL

(* _get_dredge, and the session that the client has assumed.                *)
Act(c) ==
  LET a == roleCache[c].arn IN
  /\ acting[c] = NoAction
  /\ RoleFresh(c)
  /\ a # NoRole
  /\ clients' = IF ClientFresh(c, a) THEN clients
                ELSE [clients EXCEPT ![c][a] = [there |-> TRUE, at |-> roleClock]]
  /\ acting' = [acting EXCEPT ![c] =
       [arn |-> a, built |-> clients'[c][a].at, idleFor |-> roleClock - namedLast[a]]]
  /\ UNCHANGED <<roleClock, accountRow, rowBefore, namedLast, roleCache>>

Acted(c) ==
  /\ acting[c] # NoAction
  /\ acting' = [acting EXCEPT ![c] = NoAction]
  /\ UNCHANGED <<roleClock, accountRow, rowBefore, namedLast, roleCache, clients>>

-----------------------------------------------------------------------------
RolesNext ==
  \/ \E r \in AccountRows : SetRow(r)
  \/ RoleTick
  \/ \E c \in Responders : ReadRole(c) \/ Act(c) \/ Acted(c)

RolesSpec == RolesInit /\ [][RolesNext]_rolesVars

-----------------------------------------------------------------------------
(* The kill switch and the roles take effect in time: an action runs with a  *)
(* role that was the one to use not longer ago than the cache's age and a    *)
(* replica's lag, and in a session that lasts until it ends.                *)
ActsWithCurrentRole ==
  \A c \in Responders :
    acting[c] # NoAction =>
      /\ acting[c].idleFor <= RoleTTL
      /\ roleClock + 1 - acting[c].built <= SessionTime
=============================================================================
