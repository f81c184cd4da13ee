-------------------------- MODULE Freshness_proofs --------------------------
(***************************************************************************)
(* Theorems about what containers keep between invocations: rules          *)
(* (RuleGeneration), scopes of keys (ApiAccess) and roles (AccountRoles).  *)
(*                                                                         *)
(* In each of the three, what is cached is told apart by when it was read, *)
(* and the invariant relates that time to the time of the changes since.   *)
(***************************************************************************)
EXTENDS RuleGeneration, ApiAccess, AccountRoles, TLAPS

-----------------------------------------------------------------------------
(* Rules                                                                   *)

USE GenerationAssumption DEF GenerationAssumption

(* No request announces what was not written, and before the first bump     *)
(* nothing is announced.                                                   *)
StampInv ==
  /\ announced <= ruleStamp
  /\ generation = 0 => announced = 0
  /\ \A p \in Publishers : publisher[p].wrote <= ruleStamp

(* Generations tell how much was loaded: rules kept under the generation    *)
(* that is still there are not older than what was announced.  Within an    *)
(* invocation, what it must evaluate with was announced before its load.    *)
CacheInv ==
  \A e \in Containers :
    /\ container[e].held <= generation
    /\ container[e].seen <= generation
    /\ container[e].held = generation => container[e].cache >= announced
    /\ container[e].pc = "load" => container[e].must <= announced
    /\ container[e].pc = "mark" =>
         container[e].held = container[e].seen /\ container[e].cache >= container[e].must
    /\ container[e].pc = "evaluate" => container[e].cache >= container[e].must

MarkInv ==
  \A k \in Kinds :
    /\ observed[k] <= generation
    /\ observed[k] = generation => marked[k] >= announced

GenInv == GenTypeOK /\ StampInv /\ CacheInv /\ MarkInv

LEMMA GenInitInv == GenInit => GenInv
BY DEF GenInit, GenInv, GenTypeOK, StampInv, CacheInv, MarkInv, Writes, Loads, Lagged, Kinds

(* A step of a publisher.                                                  *)
LEMMA PublisherStep ==
  ASSUME GenInv, NEW p \in Publishers, Write(p) \/ Bump(p) \/ Unannounced(p)
  PROVE  GenInv'
<1> USE DEF GenInv
<1>1. CASE Write(p)
  <2>1. GenTypeOK'
    BY <1>1 DEF Write, GenTypeOK, Writes, Loads, Lagged
  <2>2. StampInv'
    BY <1>1 DEF Write, GenTypeOK, StampInv, Writes
  <2>3. CacheInv' /\ MarkInv'
    BY <1>1 DEF Write, CacheInv, MarkInv
  <2>4. QED BY <2>1, <2>2, <2>3
<1>2. CASE Bump(p)
  <2>1. GenTypeOK'
    BY <1>2 DEF Bump, GenTypeOK, Writes, Larger
  <2>2. StampInv'
    BY <1>2 DEF Bump, GenTypeOK, StampInv, Writes, Larger
  <2>3. CacheInv'
    <3> SUFFICES ASSUME NEW e \in Containers
                 PROVE  /\ container[e].held < generation'
                        /\ container[e].seen < generation'
                        /\ container[e].pc = "load" => container[e].must <= announced'
      BY <1>2 DEF Bump, CacheInv, GenTypeOK, Writes
    <3> QED
      BY <1>2 DEF Bump, CacheInv, GenTypeOK, Writes, Larger
  <2>4. MarkInv'
    BY <1>2 DEF Bump, MarkInv, GenTypeOK, Writes
  <2>5. QED BY <2>1, <2>2, <2>3, <2>4
<1>3. CASE Unannounced(p)
  <2>1. GenTypeOK'
    BY <1>3 DEF Unannounced, GenTypeOK, Writes
  <2>2. StampInv'
    BY <1>3 DEF Unannounced, GenTypeOK, StampInv, Writes
  <2>3. CacheInv' /\ MarkInv'
    BY <1>3 DEF Unannounced, CacheInv, MarkInv
  <2>4. QED BY <2>1, <2>2, <2>3
<1>4. QED BY <1>1, <1>2, <1>3

(* A step of an evaluator.                                                 *)
LEMMA ContainerStep ==
  ASSUME GenInv, NEW e \in Containers,
         Invoke(e) \/ LoadRules(e) \/ Mark(e) \/ Evaluate(e) \/ Fail(e) \/ Expire(e)
  PROVE  GenInv'
<1> USE DEF GenInv
<1>1. CASE Invoke(e)
  <2>1. GenTypeOK'
    BY <1>1 DEF Invoke, GenTypeOK
  <2>2. CacheInv'
    <3>1. ASSUME NEW f \in Containers PROVE (f # e => container'[f] = container[f])
      BY <1>1 DEF Invoke, GenTypeOK
    <3>2. ~ReloadDue(e) => container[e].held = generation
      BY DEF ReloadDue, ReloadOnChange
    <3>3. /\ container'[e].held = container[e].held
          /\ container'[e].cache = container[e].cache
          /\ container'[e].seen = generation
          /\ container'[e].must = announced
          /\ container'[e].pc = IF ReloadDue(e) THEN "load" ELSE "evaluate"
      BY <1>1 DEF Invoke, GenTypeOK
    <3>4. QED
      BY <1>1, <3>1, <3>2, <3>3 DEF Invoke, GenTypeOK, CacheInv, Writes
  <2>3. StampInv' /\ MarkInv'
    BY <1>1 DEF Invoke, StampInv, MarkInv
  <2>4. QED BY <2>1, <2>2, <2>3
<1>2. CASE LoadRules(e)
  <2>1. PICK load \in {ruleStamp, Lagged} :
          container' = [container EXCEPT ![e].cache = load, ![e].held = container[e].seen,
                                         ![e].loaded = TRUE, ![e].expired = FALSE,
                                         ![e].pc = "mark"]
    BY <1>2 DEF LoadRules
  <2>2. load \in Loads /\ load >= announced
    BY <2>1 DEF GenTypeOK, StampInv, Loads, Lagged, Writes
  <2>3. GenTypeOK'
    BY <1>2, <2>1, <2>2 DEF LoadRules, GenTypeOK
  <2>4. CacheInv'
    <3>1. ASSUME NEW f \in Containers PROVE (f # e => container'[f] = container[f])
      BY <2>1 DEF GenTypeOK
    <3>2. /\ container'[e].held = container[e].seen
          /\ container'[e].cache = load
          /\ container'[e].seen = container[e].seen
          /\ container'[e].must = container[e].must
          /\ container'[e].pc = "mark"
      BY <2>1 DEF GenTypeOK
    <3>3. QED
      BY <1>2, <2>2, <3>1, <3>2 DEF LoadRules, GenTypeOK, CacheInv, Writes, Loads, Lagged
  <2>5. StampInv' /\ MarkInv'
    BY <1>2 DEF LoadRules, StampInv, MarkInv
  <2>6. QED BY <2>3, <2>4, <2>5
<1>3. CASE Mark(e)
  <2>1. /\ container' = [container EXCEPT ![e].pc = "evaluate"]
        /\ container[e].pc = "mark"
        /\ UNCHANGED <<ruleStamp, generation, announced, publisher>>
    BY <1>3 DEF Mark, Observe
  <2>2. GenTypeOK'
    BY <1>3 DEF Mark, Observe, GenTypeOK, Writes, Loads
  <2>3. CacheInv'
    <3>1. ASSUME NEW f \in Containers PROVE (f # e => container'[f] = container[f])
      BY <2>1 DEF GenTypeOK
    <3>2. /\ container'[e].held = container[e].held
          /\ container'[e].cache = container[e].cache
          /\ container'[e].seen = container[e].seen
          /\ container'[e].must = container[e].must
          /\ container'[e].pc = "evaluate"
      BY <2>1 DEF GenTypeOK
    <3>3. QED BY <2>1, <3>1, <3>2 DEF GenTypeOK, CacheInv
  <2>4. MarkInv'
    <3>1. CASE container[e].seen = 0
      BY <1>3, <3>1 DEF Mark, Observe, MarkInv
    <3>2. CASE container[e].seen # 0
      BY <1>3, <3>2 DEF Mark, Observe, MarkInv, CacheInv, GenTypeOK
    <3>3. QED BY <3>1, <3>2
  <2>5. StampInv'
    BY <2>1 DEF StampInv
  <2>6. QED BY <2>2, <2>3, <2>4, <2>5
<1>4. CASE Evaluate(e) \/ Fail(e)
  <2>1. /\ EndInvocation(e)
        /\ UNCHANGED <<ruleStamp, generation, announced, observed, marked, publisher>>
    BY <1>4 DEF Evaluate, Fail
  <2>2. GenTypeOK'
    <3>1. 0 \in Writes
      BY DEF Writes
    <3>2. container' = [container EXCEPT ![e] =
            [container[e] EXCEPT !.pc = "idle", !.seen = 0, !.must = 0]]
      BY <2>1 DEF EndInvocation
    <3>3. QED BY <2>1, <3>1, <3>2 DEF GenTypeOK
  <2>3. CacheInv'
    BY <2>1 DEF EndInvocation, GenTypeOK, CacheInv, Writes
  <2>4. StampInv' /\ MarkInv'
    BY <2>1 DEF StampInv, MarkInv
  <2>5. QED BY <2>2, <2>3, <2>4
<1>5. CASE Expire(e)
  <2>1. GenTypeOK'
    BY <1>5 DEF Expire, GenTypeOK
  <2>2. CacheInv'
    BY <1>5 DEF Expire, GenTypeOK, CacheInv
  <2>3. StampInv' /\ MarkInv'
    BY <1>5 DEF Expire, StampInv, MarkInv
  <2>4. QED BY <2>1, <2>2, <2>3
<1>6. QED BY <1>1, <1>2, <1>3, <1>4, <1>5

LEMMA GenStepInv == GenInv /\ [GenNext]_genVars => GenInv'
<1> SUFFICES ASSUME GenInv, [GenNext]_genVars PROVE GenInv'
  OBVIOUS
<1>1. CASE UNCHANGED genVars
  BY <1>1 DEF genVars, GenInv, GenTypeOK, StampInv, CacheInv, MarkInv
<1>2. CASE GenNext
  BY <1>2, PublisherStep, ContainerStep DEF GenNext
<1>3. QED BY <1>1, <1>2

LEMMA GenAlways == GenSpec => []GenInv
<1>1. GenInit /\ [][GenNext]_genVars => []GenInv
  BY GenInitInv, GenStepInv, PTL
<1>2. QED BY <1>1, PTL DEF GenSpec

(* Every state of publishers and evaluators is well typed, for any number   *)
(* of them (load_detection_rules and _bump_rule_catalog).                  *)
THEOREM GenTypeCorrect == GenSpec => []GenTypeOK
<1>1. GenInv => GenTypeOK
  BY DEF GenInv
<1>2. QED BY <1>1, GenAlways, PTL

(* Whoever is invoked after a change was announced evaluates with it: for   *)
(* any number of publishers and containers, whatever calls fail.           *)
THEOREM AnnouncedIsEvaluated == GenSpec => []EvaluatesAnnounced
<1>1. GenInv => EvaluatesAnnounced
  BY DEF GenInv, CacheInv, EvaluatesAnnounced
<1>2. QED BY <1>1, GenAlways, PTL

(* "verified" is never said of rules that no evaluator has loaded, although *)
(* marks are unconditional and can put an older generation back.           *)
THEOREM VerifiedIsLoaded == GenSpec => []CurrentMeansLoaded
<1>1. GenInv => CurrentMeansLoaded
  BY DEF GenInv, MarkInv, CurrentMeansLoaded, Current
<1>2. QED BY <1>1, GenAlways, PTL
HIDE GenerationAssumption DEF GenerationAssumption

-----------------------------------------------------------------------------
(* Scopes of keys                                                          *)

USE AccessAssumption DEF AccessAssumption

(* What a container holds of a key was true when it was read, so the key    *)
(* had each of those scopes at that time or later.                         *)
ScopeInv ==
  /\ \A s \in Scopes : heldLast[s] <= clock
  /\ \A s \in ScopesOf(keyName) : heldLast[s] = clock
  /\ \A c \in ApiContainers :
       scopeCache[c].cached =>
         /\ scopeCache[c].at <= clock
         /\ \A s \in scopeCache[c].scopes : heldLast[s] >= scopeCache[c].at

AccessInv == AccessTypeOK /\ ScopeInv /\ AccessEndsInTime

LEMMA ScopesAreKnown == \A n \in KeyNames : ScopesOf(n) \subseteq Scopes
BY DEF ScopesOf

(* The two tables of the API agree: a handler acts over a resource only     *)
(* behind the scope of that resource.                                      *)
LEMMA RoutesAreGuarded ==
  ASSUME NEW family \in Families, NEW method \in Methods,
         Touches(family, method) # "nothing"
  PROVE  /\ Touches(family, method) \in Scopes
         /\ RequiredScope(family, method) = Touches(family, method)
BY DEF Families, Methods, Touches, RequiredScope, Scopes

(* A request that is served with scopes held more recently than KeyTTL ago. *)
LEMMA DispatchIsInTime ==
  ASSUME AccessTypeOK, ScopeInv, NEW scopes \in SUBSET Scopes, Dispatch(scopes),
         \A s \in scopes : clock - heldLast[s] < KeyTTL
  PROVE  /\ served' \in [touched : Scopes \cup {"nothing"}, since : 0..KeyHorizon]
         /\ AccessEndsInTime'
<1>1. PICK family \in Families, method \in Methods :
        /\ RequiredScope(family, method) = "none" \/ RequiredScope(family, method) \in scopes
        /\ served' = [touched |-> Touches(family, method),
                      since |-> IF Touches(family, method) = "nothing" THEN 0
                                ELSE clock - heldLast[Touches(family, method)]]
  BY DEF Dispatch
<1>2. CASE Touches(family, method) = "nothing"
  BY <1>1, <1>2 DEF AccessEndsInTime
<1>3. CASE Touches(family, method) # "nothing"
  <2>1. /\ Touches(family, method) \in Scopes
        /\ Touches(family, method) \in scopes
    BY <1>1, <1>3, RoutesAreGuarded DEF Scopes
  <2>2. clock - heldLast[Touches(family, method)] \in 0..KeyHorizon
    BY <2>1 DEF AccessTypeOK, ScopeInv
  <2>3. QED BY <1>1, <1>3, <2>1, <2>2 DEF AccessEndsInTime
<1>4. QED BY <1>2, <1>3

LEMMA AccessInitInv == AccessInit => AccessInv
BY ScopesAreKnown
   DEF AccessInit, AccessInv, AccessTypeOK, ScopeInv, AccessEndsInTime, NoScopes

LEMMA AccessStepInv == AccessInv /\ [AccessNext]_accessVars => AccessInv'
<1> SUFFICES ASSUME AccessInv, [AccessNext]_accessVars PROVE AccessInv'
  OBVIOUS
<1> USE DEF AccessInv
<1>1. CASE UNCHANGED accessVars
  BY <1>1 DEF accessVars, AccessTypeOK, ScopeInv, AccessEndsInTime
<1>2. ASSUME NEW n \in KeyNames, Rename(n) PROVE AccessInv'
  <2>1. AccessTypeOK'
    BY <1>2 DEF Rename, AccessTypeOK
  <2>2. ScopeInv'
    BY <1>2, ScopesAreKnown DEF Rename, AccessTypeOK, ScopeInv
  <2>3. AccessEndsInTime'
    BY <1>2 DEF Rename, AccessEndsInTime
  <2>4. QED BY <2>1, <2>2, <2>3
<1>3. CASE KeyTick
  <2>1. AccessTypeOK'
    BY <1>3 DEF KeyTick, AccessTypeOK
  <2>2. ScopeInv'
    BY <1>3, ScopesAreKnown DEF KeyTick, AccessTypeOK, ScopeInv
  <2>3. AccessEndsInTime'
    BY <1>3 DEF KeyTick, AccessEndsInTime
  <2>4. QED BY <2>1, <2>2, <2>3
<1>4. ASSUME NEW c \in ApiContainers, ServeCached(c) PROVE AccessInv'
  <2>1. /\ Dispatch(scopeCache[c].scopes)
        /\ scopeCache[c].scopes \in SUBSET Scopes
    BY <1>4 DEF ServeCached, AccessTypeOK
  <2>2. \A s \in scopeCache[c].scopes : clock - heldLast[s] < KeyTTL
    BY <1>4 DEF ServeCached, FreshAt, AccessTypeOK, ScopeInv
  <2>3. /\ served' \in [touched : Scopes \cup {"nothing"}, since : 0..KeyHorizon]
        /\ AccessEndsInTime'
    BY <2>1, <2>2, DispatchIsInTime
  <2>4. QED BY <1>4, <2>3 DEF ServeCached, AccessTypeOK, ScopeInv
<1>5. ASSUME NEW c \in ApiContainers, LookUp(c) PROVE AccessInv'
  <2>1. ScopesOf(keyName) \in SUBSET Scopes
    BY ScopesAreKnown DEF AccessTypeOK
  <2>2. AccessTypeOK'
    BY <1>5, <2>1 DEF LookUp, AccessTypeOK
  <2>3. ScopeInv'
    BY <1>5, <2>1 DEF LookUp, AccessTypeOK, ScopeInv
  <2>4. AccessEndsInTime'
    BY <1>5 DEF LookUp, AccessEndsInTime
  <2>5. QED BY <2>2, <2>3, <2>4
<1>6. ASSUME NEW c \in ApiContainers, ServeWithoutScopes(c) PROVE AccessInv'
  <2>1. /\ served' \in [touched : Scopes \cup {"nothing"}, since : 0..KeyHorizon]
        /\ AccessEndsInTime'
    BY <1>6, DispatchIsInTime DEF ServeWithoutScopes
  <2>2. QED BY <1>6, <2>1 DEF ServeWithoutScopes, AccessTypeOK, ScopeInv
<1>7. QED BY <1>1, <1>2, <1>3, <1>4, <1>5, <1>6 DEF AccessNext

LEMMA AccessAlways == AccessSpec => []AccessInv
BY AccessInitInv, AccessStepInv, PTL DEF AccessSpec

(* Every state of a key and of the containers' caches is well typed; what   *)
(* is cached of a name is known scopes only (_scopes_from_key_name).       *)
THEOREM AccessTypeCorrect == AccessSpec => []AccessTypeOK
<1>1. AccessInv => AccessTypeOK
  BY DEF AccessInv
<1>2. QED BY <1>1, AccessAlways, PTL

(* A scope that was taken from a key ends within KeyTTL, for any names,     *)
(* number of containers, renames and lookups that fail (_get_key_scopes).  *)
THEOREM AccessEnds == AccessSpec => []AccessEndsInTime
<1>1. AccessInv => AccessEndsInTime
  BY DEF AccessInv
<1>2. QED BY <1>1, AccessAlways, PTL

HIDE AccessAssumption DEF AccessAssumption

-----------------------------------------------------------------------------
(* Roles                                                                   *)

USE RolesAssumption DEF RolesAssumption

(* namedLast is about the role that the row, or what a slow replica shows   *)
(* for it, names now; and about the one a container has cached since.      *)
NamedInv ==
  /\ \A a \in Arns : namedLast[a] <= roleClock
  /\ \A r \in {accountRow, rowBefore} : RoleFor(r) \in Arns => namedLast[RoleFor(r)] = roleClock

RoleCacheInv ==
  \A c \in Responders :
    /\ roleCache[c].there =>
         /\ roleCache[c].at <= roleClock
         /\ roleCache[c].arn # NoRole => namedLast[roleCache[c].arn] >= roleCache[c].at
    /\ \A a \in Arns : clients[c][a].there => clients[c][a].at <= roleClock

RolesInv == RolesTypeOK /\ NamedInv /\ RoleCacheInv /\ ActsWithCurrentRole

LEMMA RowsNameRoles == \A r \in AccountRows : RoleFor(r) \in Arns \cup {NoRole}
BY DEF AccountRows, RoleFor, Arns

LEMMA NoRoleIsNone == NoRole \notin Arns
BY DEF Arns

LEMMA RolesInitInv == RolesInit => RolesInv
<1> SUFFICES ASSUME RolesInit PROVE RolesInv
  OBVIOUS
<1>1. RolesTypeOK
  BY DEF RolesInit, RolesTypeOK, Times, AccountRows, Unbuilt, NoAction
<1>2. NamedInv
  BY DEF RolesInit, NamedInv
<1>3. RoleCacheInv
  BY DEF RolesInit, RoleCacheInv, Unbuilt
<1>4. ActsWithCurrentRole
  BY DEF RolesInit, ActsWithCurrentRole
<1>5. QED BY <1>1, <1>2, <1>3, <1>4 DEF RolesInv

LEMMA ActStep ==
  ASSUME RolesInv, NEW c \in Responders, Act(c)
  PROVE  RolesInv'
<1> USE DEF RolesInv
<1> DEFINE a == roleCache[c].arn
<1>1. a \in Arns /\ namedLast[a] \in Times /\ roleCache[c].at \in Times /\ roleClock \in Times
  BY DEF Act, RolesTypeOK
<1>2. /\ roleClock - roleCache[c].at < RoleTTL
      /\ namedLast[a] >= roleCache[c].at
      /\ namedLast[a] <= roleClock
  BY <1>1 DEF Act, RoleFresh, RoleCacheInv, NamedInv
<1>3. /\ clients' \in [Responders -> [Arns -> [there : BOOLEAN, at : Times]]]
      /\ \A d \in Responders, b \in Arns : clients'[d][b].there => clients'[d][b].at <= roleClock
      /\ roleClock + 1 - clients'[c][a].at <= SessionTime
  <2>1. CASE ClientFresh(c, a)
    BY <1>1, <2>1 DEF Act, ClientFresh, RolesTypeOK, RoleCacheInv, Times
  <2>2. CASE ~ClientFresh(c, a)
    <3>1. clients' = [clients EXCEPT ![c][a] = [there |-> TRUE, at |-> roleClock]]
      BY <2>2 DEF Act
    <3>2. clients' \in [Responders -> [Arns -> [there : BOOLEAN, at : Times]]]
      BY <1>1, <3>1 DEF RolesTypeOK
    <3>3. clients'[c][a] = [there |-> TRUE, at |-> roleClock]
      BY <1>1, <3>1 DEF RolesTypeOK
    <3>4. ASSUME NEW d \in Responders, NEW b \in Arns, clients'[d][b].there
          PROVE  clients'[d][b].at <= roleClock
      <4>1. CASE d = c /\ b = a
        BY <1>1, <3>3, <4>1 DEF Times
      <4>2. CASE ~(d = c /\ b = a)
        <5>1. clients'[d][b] = clients[d][b]
          BY <3>1, <4>2 DEF RolesTypeOK
        <5>2. QED BY <3>4, <5>1 DEF RoleCacheInv
      <4>3. QED BY <4>1, <4>2
    <3>5. roleClock + 1 - clients'[c][a].at <= SessionTime
      BY <1>1, <3>3 DEF Times
    <3>6. QED BY <3>2, <3>4, <3>5
  <2>3. QED BY <2>1, <2>2
<1>4. acting' = [acting EXCEPT ![c] =
        [arn |-> a, built |-> clients'[c][a].at, idleFor |-> roleClock - namedLast[a]]]
  BY DEF Act
<1>5. clients'[c][a].at \in Times /\ roleClock - namedLast[a] \in Times
  BY <1>1, <1>2, <1>3 DEF Times
<1>6. RolesTypeOK'
  BY <1>1, <1>3, <1>4, <1>5 DEF Act, RolesTypeOK
<1>7. NamedInv' /\ RoleCacheInv'
  BY <1>3 DEF Act, NamedInv, RoleCacheInv
<1>8. ActsWithCurrentRole'
  <2> SUFFICES ASSUME NEW d \in Responders, acting'[d] # NoAction
               PROVE  /\ acting'[d].idleFor <= RoleTTL
                      /\ roleClock' + 1 - acting'[d].built <= SessionTime
    BY DEF ActsWithCurrentRole
  <2>1. CASE d = c
    <3>1. acting'[d] = [arn |-> a, built |-> clients'[c][a].at, idleFor |-> roleClock - namedLast[a]]
      BY <1>4, <2>1 DEF RolesTypeOK
    <3>2. QED BY <1>1, <1>2, <1>3, <3>1 DEF Act, Times
  <2>2. CASE d # c
    BY <1>4, <2>2 DEF Act, RolesTypeOK, ActsWithCurrentRole
  <2>3. QED BY <2>1, <2>2
<1>9. QED BY <1>6, <1>7, <1>8

LEMMA RolesStepInv == RolesInv /\ [RolesNext]_rolesVars => RolesInv'
<1> SUFFICES ASSUME RolesInv, [RolesNext]_rolesVars PROVE RolesInv'
  OBVIOUS
<1> USE DEF RolesInv
<1>1. CASE UNCHANGED rolesVars
  BY <1>1 DEF rolesVars, RolesTypeOK, NamedInv, RoleCacheInv, ActsWithCurrentRole
<1>2. ASSUME NEW r \in AccountRows, SetRow(r) PROVE RolesInv'
  <2>1. RolesTypeOK'
    BY <1>2 DEF SetRow, RolesTypeOK
  <2>2. NamedInv'
    BY <1>2 DEF SetRow, Named, RolesTypeOK, NamedInv, Times
  <2>3. RoleCacheInv'
    BY <1>2 DEF SetRow, RolesTypeOK, RoleCacheInv, Times
  <2>4. ActsWithCurrentRole'
    BY <1>2 DEF SetRow, ActsWithCurrentRole
  <2>5. QED BY <2>1, <2>2, <2>3, <2>4
<1>3. CASE RoleTick
  <2>1. RolesTypeOK'
    BY <1>3 DEF RoleTick, RolesTypeOK, Times
  <2>2. NamedInv'
    BY <1>3 DEF RoleTick, Named, RolesTypeOK, NamedInv, Times
  <2>3. RoleCacheInv'
    BY <1>3 DEF RoleTick, RolesTypeOK, RoleCacheInv, NamedInv, Times
  <2>4. ActsWithCurrentRole'
    BY <1>3 DEF RoleTick, ActsWithCurrentRole
  <2>5. QED BY <2>1, <2>2, <2>3, <2>4
<1>4. ASSUME NEW c \in Responders, ReadRole(c) PROVE RolesInv'
  <2>1. PICK r \in {accountRow, rowBefore} :
          roleCache' = [roleCache EXCEPT ![c] =
            [there |-> TRUE, arn |-> RoleFor(r), at |-> roleClock]]
    BY <1>4 DEF ReadRole
  <2>2. RoleFor(r) \in Arns \cup {NoRole}
    BY RowsNameRoles DEF RolesTypeOK
  <2>3. RolesTypeOK'
    BY <1>4, <2>1, <2>2 DEF ReadRole, RolesTypeOK
  <2>4. RoleCacheInv'
    <3> SUFFICES ASSUME NEW d \in Responders, roleCache'[d].there
                 PROVE  /\ roleCache'[d].at <= roleClock
                        /\ roleCache'[d].arn # NoRole =>
                             namedLast[roleCache'[d].arn] >= roleCache'[d].at
      BY <1>4 DEF ReadRole, RoleCacheInv
    <3>1. CASE d = c
      BY <2>1, <2>2, <3>1 DEF RolesTypeOK, NamedInv, Times
    <3>2. CASE d # c
      BY <2>1, <3>2 DEF RolesTypeOK, RoleCacheInv
    <3>3. QED BY <3>1, <3>2
  <2>5. NamedInv' /\ ActsWithCurrentRole'
    BY <1>4 DEF ReadRole, NamedInv, ActsWithCurrentRole
  <2>6. QED BY <2>3, <2>4, <2>5
<1>5. ASSUME NEW c \in Responders, Acted(c) PROVE RolesInv'
  <2>1. 0 \in Times
    BY DEF Times
  <2>2. RolesTypeOK'
    BY <1>5, <2>1 DEF Acted, NoAction, RolesTypeOK
  <2>3. NamedInv' /\ RoleCacheInv'
    BY <1>5 DEF Acted, NamedInv, RoleCacheInv
  <2>4. ActsWithCurrentRole'
    BY <1>5 DEF Acted, RolesTypeOK, ActsWithCurrentRole
  <2>5. QED BY <2>2, <2>3, <2>4
<1>6. QED BY <1>1, <1>2, <1>3, <1>4, <1>5, ActStep DEF RolesNext

LEMMA RolesAlways == RolesSpec => []RolesInv
BY RolesInitInv, RolesStepInv, PTL DEF RolesSpec

(* Every state of the account's row and of the containers' two caches is    *)
(* well typed; no client is built without a role.                          *)
THEOREM RolesTypeCorrect == RolesSpec => []RolesTypeOK
<1>1. RolesInv => RolesTypeOK
  BY DEF RolesInv
<1>2. QED BY <1>1, RolesAlways, PTL

(* The kill switch works within the caches' lifetimes, for any accounts'    *)
(* roles, containers and lifetimes in the order the code gives them         *)
(* (_resolve_role_arn and _get_dredge).                                    *)
THEOREM RolesAreCurrent == RolesSpec => []ActsWithCurrentRole
<1>1. RolesInv => ActsWithCurrentRole
  BY DEF RolesInv
<1>2. QED BY <1>1, RolesAlways, PTL
=============================================================================
