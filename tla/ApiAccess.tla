----------------------------- MODULE ApiAccess -----------------------------
(***************************************************************************)
(* What a key of the API may do: lambda_handler of src/handlers/api.py,    *)
(* the scope each route requires, and the cache of keys' scopes that every *)
(* container keeps for KeyTTL.                                             *)
(*                                                                         *)
(* A key's scopes are in its name at the API gateway.  An operator renames *)
(* the key to narrow it; containers go on with what they have cached.      *)
(* Routes are reduced to a family of paths and a method, and handlers to   *)
(* the scope over whose resources they act.                                *)
(***************************************************************************)
EXTENDS Naturals, FiniteSets

CONSTANTS
  KeyNames,       \* names the key can be given
  ApiContainers,
  KeyTTL,         \* _KEY_SCOPE_CACHE_TTL_SECONDS, in units of the clock
  KeyHorizon      \* bound of the clock

Scopes == {"read", "rules", "settings", "ir_roles", "ir_actions"}

(* The bare name, one with the prefix and a suffix of tokens, any other.    *)
ASSUME AccessAssumption ==
  /\ KeyNames \subseteq [kind : {"bare", "suffixed", "foreign"}, tokens : SUBSET STRING]
  /\ KeyTTL \in Nat \ {0}
  /\ KeyHorizon \in Nat

Families == {"status", "help", "signals", "logs", "rules", "lists", "rule-releases",
             "settings", "integrations", "ir-roles", "ir-actions", "rollback", "other"}

Methods == {"GET", "POST", "PUT", "DELETE"}

VARIABLES
  clock,
  keyName,     \* at the API gateway
  heldLast,    \* the last time at which the key had each scope (history)
  scopeCache,  \* of each container
  served       \* the last request served: over what it acted, and for how long
               \* the key had not had that scope (history)

accessVars == <<clock, keyName, heldLast, scopeCache, served>>

-----------------------------------------------------------------------------
(* _scopes_from_key_name: unknown names and unknown tokens give nothing.    *)
ScopesOf(name) ==
  CASE name.kind = "bare" -> Scopes
    [] name.kind = "suffixed" -> name.tokens \cap Scopes
    [] OTHER -> {}

(* _required_scope_for; "none" where any key may call, or the route is      *)
(* unknown.                                                                *)
RequiredScope(family, method) ==
  CASE family \in {"status", "help", "other"} -> "none"
    [] family = "rule-releases" -> "rules"
    [] family \in {"rules", "lists"} -> IF method = "GET" THEN "read" ELSE "rules"
    [] family \in {"settings", "integrations"} -> IF method = "GET" THEN "read" ELSE "settings"
    [] family = "ir-roles" -> IF method = "GET" THEN "read" ELSE "ir_roles"
    [] family \in {"ir-actions", "rollback"} -> IF method = "GET" THEN "read" ELSE "ir_actions"
    [] family \in {"signals", "logs"} -> "read"

(* The handlers that lambda_handler dispatches to, by what they touch;      *)
(* "nothing" is the 404, or a resource open to any key.                    *)
Touches(family, method) ==
  CASE family \in {"signals", "logs"} /\ method = "GET" -> "read"
    [] family \in {"rules", "lists", "settings", "integrations", "ir-roles", "ir-actions"}
         /\ method = "GET" -> "read"
    [] family \in {"rules", "lists"} /\ method # "GET" -> "rules"
    [] family = "rule-releases" /\ method = "POST" -> "rules"
    [] family \in {"settings", "integrations"} /\ method # "GET" -> "settings"
    [] family = "ir-roles" /\ method # "GET" -> "ir_roles"
    [] family = "rollback" /\ method = "POST" -> "ir_actions"
    [] OTHER -> "nothing"

-----------------------------------------------------------------------------
NoScopes == [cached |-> FALSE, scopes |-> {}, at |-> 0]

AccessTypeOK ==
  /\ clock \in 0..KeyHorizon
  /\ keyName \in KeyNames
  /\ heldLast \in [Scopes -> 0..KeyHorizon]
  /\ scopeCache \in
       [ApiContainers -> [cached : BOOLEAN, scopes : SUBSET Scopes, at : 0..KeyHorizon]]
  /\ served \in [touched : Scopes \cup {"nothing"}, since : 0..KeyHorizon]

AccessInit ==
  /\ clock = 0
  /\ keyName \in {n \in KeyNames : ScopesOf(n) = Scopes}
  /\ heldLast = [s \in Scopes |-> 0]
  /\ scopeCache = [c \in ApiContainers |-> NoScopes]
  /\ served = [touched |-> "nothing", since |-> 0]

Rename(name) ==
  /\ name # keyName
  /\ keyName' = name
  /\ heldLast' = [s \in Scopes |-> IF s \in ScopesOf(name) THEN clock ELSE heldLast[s]]
  /\ UNCHANGED <<clock, scopeCache, served>>

KeyTick ==
  /\ clock < KeyHorizon
  /\ clock' = clock + 1
  /\ heldLast' = [s \in Scopes |-> IF s \in ScopesOf(keyName) THEN clock + 1 ELSE heldLast[s]]
  /\ UNCHANGED <<keyName, scopeCache, served>>

-----------------------------------------------------------------------------
FreshAt(entry) == entry.cached /\ clock - entry.at < KeyTTL

(* lambda_handler: a request that the scopes allow.                         *)
Dispatch(scopes) ==
  \E family \in Families, method \in Methods :
    LET required == RequiredScope(family, method)
        touched == Touches(family, method)
    IN /\ required = "none" \/ required \in scopes
       /\ served' = [touched |-> touched,
                     since |-> IF touched = "nothing" THEN 0 ELSE clock - heldLast[touched]]

ServeSliding(c) ==
  /\ FreshAt(scopeCache[c])
  /\ Dispatch(scopeCache[c].scopes)
  /\ scopeCache' = [scopeCache EXCEPT ![c].at = clock]
  /\ UNCHANGED <<clock, keyName, heldLast>>

(* _get_key_scopes, from the cache: its entry keeps its age.                *)
ServeCached(c) ==
  /\ FreshAt(scopeCache[c])
  /\ Dispatch(scopeCache[c].scopes)
  /\ UNCHANGED <<clock, keyName, heldLast, scopeCache>>

(* The name is looked up and its scopes are cached; also when the request   *)
(* is then refused with 403.                                               *)
LookUp(c) ==
  /\ ~FreshAt(scopeCache[c])
  /\ scopeCache' = [scopeCache EXCEPT ![c] =
       [cached |-> TRUE, scopes |-> ScopesOf(keyName), at |-> clock]]
  /\ UNCHANGED <<clock, keyName, heldLast, served>>

(* The lookup fails: no scopes, and nothing is cached.  Only what any key   *)
(* may call is served.                                                     *)
ServeWithoutScopes(c) ==
  /\ ~FreshAt(scopeCache[c])
  /\ Dispatch({})
  /\ UNCHANGED <<clock, keyName, heldLast, scopeCache>>

-----------------------------------------------------------------------------
AccessNext ==
  \/ \E n \in KeyNames : Rename(n)
  \/ KeyTick
  \/ \E c \in ApiContainers : ServeCached(c) \/ LookUp(c) \/ ServeWithoutScopes(c)

AccessSpec == AccessInit /\ [][AccessNext]_accessVars

-----------------------------------------------------------------------------
(* A key that lost a scope, by whatever sequence of renames, stops acting    *)
(* with it within KeyTTL in every container, however often it is used and    *)
(* whether or not lookups fail; and no route acts over a resource whose      *)
(* scope the key does not have.                                            *)
AccessEndsInTime ==
  served.touched # "nothing" => served.since < KeyTTL
=============================================================================
