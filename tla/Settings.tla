------------------------------ MODULE Settings ------------------------------
(***************************************************************************)
(* A settings document and its secrets: the /settings endpoints of         *)
(* src/handlers/api.py, the clients that read, merge and write it back     *)
(* (scripts/opencdr.py, mcp_server/server.py), and the notifier, which     *)
(* loads it (load_global_settings of src/handlers/notifier.py).            *)
(*                                                                         *)
(* Secrets live in parameters of SSM; the document holds references.  A    *)
(* read shows a mask for each secret, a client writes the masks back for    *)
(* the secrets it does not change, and a write replaces masks by the       *)
(* references that are stored (_resolve_redacted_secrets) and new secrets  *)
(* by references to new parameters (_externalize_secrets), before it       *)
(* stores the document.                                                    *)
(*                                                                         *)
(* The model has one channel with a secret of its own, slack, and the       *)
(* webhook, with a sequence of targets of which each has a secret header   *)
(* of the same name.  A slot is a place of a document where a secret       *)
(* belongs: slot 0 is slack's, slot i the header of the i-th target.  The   *)
(* secrets that one request brings are told by the number of that request.  *)
(***************************************************************************)
EXTENDS Integers, Sequences

CONSTANTS
  TargetNames,      \* of webhook targets
  Layouts,          \* sequences of names, for documents that come from a file
  Clients,          \* each with one request at a time
  MaxTargets,       \* bound: webhook targets of a document
  MaxSecrets,       \* bound: requests that bring secrets
  MaxSettingsWrites \* bound: writes and deletions of the document

Slack == "slack"

ASSUME SettingsAssumption ==
  /\ Slack \notin TargetNames
  /\ Layouts \subseteq Seq(TargetNames)
  /\ \A l \in Layouts :
       /\ Len(l) <= MaxTargets
       /\ \A i, j \in 1..Len(l) : l[i] = l[j] => i = j
  /\ MaxTargets \in Nat
  /\ MaxSecrets \in Nat
  /\ MaxSettingsWrites \in Nat

VARIABLES
  doc,        \* the stored document
  lagging,    \* the document before its last write, as a slow replica has it
  ssm,        \* ssm[i][n]: the secret in parameter n of slot i, 0 if there is none
  secrets,    \* number of requests that brought secrets
  revisions,  \* number of writes and deletions of the document
  unruly,     \* a deletion, or a write that names no revision, was made (history)
  client,     \* requests
  notifier    \* the references that the notifier has loaded and is about to resolve

settingsVars ==
  <<doc, lagging, ssm, secrets, revisions, unruly, client, notifier>>

parameters == <<ssm, secrets>>

document == <<doc, lagging, revisions, unruly>>

-----------------------------------------------------------------------------
Numbers == 1..MaxSecrets

Slots == 0..MaxTargets

(* What stands in a slot.  A reference remembers which secret it was made    *)
(* for (history).                                                          *)
Value == [kind   : {"none", "mask", "plain", "ref"},
          slot   : Slots,
          number : 0..MaxSecrets,
          secret : 0..MaxSecrets]

Bare(kind) == [kind |-> kind, slot |-> 0, number |-> 0, secret |-> 0]

Ref(i, n, s) == [kind |-> "ref", slot |-> i, number |-> n, secret |-> s]

Targets == UNION {[1..n -> [name : TargetNames, header : Value]] : n \in 0..MaxTargets}

Document == [there : BOOLEAN, rev : 0..MaxSettingsWrites, slack : Value, targets : Targets]

NoDocument == [there |-> FALSE, rev |-> 0, slack |-> Bare("none"), targets |-> <<>>]

(* What a client changes: one secret, or nothing that is secret.           *)
Changes == {Slack, "other"} \cup TargetNames

Ready == [pc |-> "idle"]

Putting ==
  [pc      : {"normalize", "put"},
   op      : {"create", "guarded", "unguarded"},
   change  : Changes \cup {"file"},
   expects : 0..MaxSettingsWrites,
   payload : Document,
   stale   : BOOLEAN]    \* masks were resolved from a slow replica (history)

Erasing == [pc : {"erase", "sweep"}, payload : Document]

(* What is stored names parameters, and holds no secret and no mask.        *)
OnlyRefs(d) ==
  /\ d.slack.kind \in {"none", "ref"}
  /\ \A i \in DOMAIN d.targets : d.targets[i].header.kind \in {"none", "ref"}

SettingsTypeOK ==
  /\ {doc, lagging} \subseteq Document
  /\ OnlyRefs(doc)
  /\ ssm \in [Slots -> [Numbers -> 0..MaxSecrets]]
  /\ secrets \in 0..MaxSecrets
  /\ revisions \in 0..MaxSettingsWrites
  /\ unruly \in BOOLEAN
  /\ client \in [Clients -> {Ready} \cup Putting \cup Erasing]
  /\ notifier \in SUBSET Value

SettingsInit ==
  /\ doc = NoDocument
  /\ lagging = NoDocument
  /\ ssm = [i \in Slots |-> [n \in Numbers |-> 0]]
  /\ secrets = 0
  /\ revisions = 0
  /\ unruly = FALSE
  /\ client = [c \in Clients |-> Ready]
  /\ notifier = {}

-----------------------------------------------------------------------------
(* _normalize_settings_payload                                             *)

HasMask(d) ==
  d.slack.kind = "mask" \/ \E i \in DOMAIN d.targets : d.targets[i].header.kind = "mask"

Unmasked(v, existing) == IF v.kind = "mask" THEN existing ELSE v

(* Slots correspond by their path in the document; a target's path is its   *)
(* position.                                                               *)
HeaderAt(d, i) == IF i \in DOMAIN d.targets THEN d.targets[i].header ELSE Bare("none")

Resolved(d, existing) ==
  [d EXCEPT
    !.slack = Unmasked(@, existing.slack),
    !.targets = [i \in DOMAIN d.targets |->
                   [name |-> d.targets[i].name,
                    header |-> Unmasked(d.targets[i].header, HeaderAt(existing, i))]]]

(* A parameter for each slot of the document.                              *)
SameName(n) == 1

(* A parameter for each secret: the name ends in a uuid.                   *)
FreshName(n) == n

Externalize(v, i, n) == IF v.kind = "plain" THEN Ref(i, FreshName(n), n) ELSE v

Externalized(d, n) ==
  [d EXCEPT
    !.slack = Externalize(@, 0, n),
    !.targets = [i \in DOMAIN d.targets |->
                   [name |-> d.targets[i].name, header |-> Externalize(d.targets[i].header, i, n)]]]

(* Slots with a new secret.                                                *)
Given(d) ==
  {0 : v \in {d.slack} \cap {Bare("plain")}}
    \cup {i \in DOMAIN d.targets : d.targets[i].header.kind = "plain"}

(* put_parameter for each new secret.  A name is never met twice, so that   *)
(* Overwrite=False refuses nothing.                                        *)
StoreSecrets(given, n) ==
  /\ n <= MaxSecrets
  /\ secrets' = n
  /\ ssm' = [i \in Slots |->
       IF i \in given THEN [ssm[i] EXCEPT ![FreshName(n)] = n] ELSE ssm[i]]

(* Client c is about to store what d becomes.  The read that resolves masks *)
(* is not consistent.  Until the document is stored nobody knows of the new *)
(* parameters, so that they may as well be stored together with that read.  *)
Normalize(c, op, change, expects, d) ==
  LET given == Given(d)
      n == IF given = {} THEN secrets ELSE secrets + 1
  IN /\ StoreSecrets(given, n)
     /\ \E existing \in IF HasMask(d) THEN {doc, lagging} ELSE {doc} :
          client' = [client EXCEPT ![c] =
            [pc |-> "put", op |-> op, change |-> change, expects |-> expects,
             payload |-> Externalized(Resolved(d, existing), n), stale |-> existing # doc]]

-----------------------------------------------------------------------------
(* Clients                                                                 *)

Rest(c) == client' = [client EXCEPT ![c] = Ready]

FileContent(layout) ==
  [NoDocument EXCEPT
    !.there = TRUE,
    !.slack = Bare("plain"),
    !.targets = [i \in 1..Len(layout) |-> [name |-> layout[i], header |-> Bare("plain")]]]

(* POST, or a PUT of a whole file: all of the document, secrets included.    *)
SendFile(c, op, layout) ==
  /\ client[c] = Ready
  /\ Normalize(c, op, "file", 0, FileContent(layout))
  /\ UNCHANGED <<document, notifier>>

Masked(v) == IF v.kind = "none" THEN v ELSE Bare("mask")

(* _redact_settings.                                                       *)
Redacted(d) ==
  [d EXCEPT
    !.slack = Masked(@),
    !.targets = [i \in DOMAIN d.targets |->
                   [name |-> d.targets[i].name, header |-> Masked(d.targets[i].header)]]]

(* No two targets of a document have the same name.                        *)
Without(targets, name) ==
  IF \E i \in DOMAIN targets : targets[i].name = name
  THEN LET i == CHOOSE i \in DOMAIN targets : targets[i].name = name
       IN SubSeq(targets, 1, i - 1) \o SubSeq(targets, i + 1, Len(targets))
  ELSE targets

(* _merge_channels: a target of the same name goes, the new one comes last. *)
Merged(d, change) ==
  CASE change = Slack -> [d EXCEPT !.there = TRUE, !.slack = Bare("plain")]
    [] change = "other" -> [d EXCEPT !.there = TRUE]
    [] OTHER ->
         [d EXCEPT !.there = TRUE,
                   !.targets = Append(Without(@, change),
                                      [name |-> change, header |-> Bare("plain")])]

(* GET and merge.  The command line then sends the revision it read as part *)
(* of the document, the MCP server as expected_rev.                        *)
StartChange(c, op, change) ==
  /\ client[c] = Ready
  /\ LET payload == Merged(Redacted(doc), change) IN
       /\ Len(payload.targets) <= MaxTargets
       /\ client' = [client EXCEPT ![c] =
            [pc |-> "normalize", op |-> op, change |-> change,
             expects |-> IF op = "guarded" THEN doc.rev ELSE 0,
             payload |-> payload, stale |-> FALSE]]
  /\ UNCHANGED <<document, parameters, notifier>>

SendChange(c) ==
  /\ client[c].pc = "normalize"
  /\ Normalize(c, client[c].op, client[c].change, client[c].expects, client[c].payload)
  /\ UNCHANGED <<document, notifier>>

-----------------------------------------------------------------------------
(* PUT and POST                                                            *)

StoreDocument(d) ==
  /\ revisions < MaxSettingsWrites
  /\ revisions' = revisions + 1
  /\ doc' = d
  /\ lagging' = doc

Create(c) ==
  /\ client[c].pc = "put"
  /\ client[c].op = "create"
  /\ ~doc.there
  /\ StoreDocument(client[c].payload)
  /\ Rest(c)
  /\ UNCHANGED <<unruly, parameters, notifier>>

AcceptedIfStored(c) == doc.there

(* _put_with_rev; revision 0 is a document without the attribute, or none.  *)
AcceptedRev(c) == doc.rev = client[c].expects

ReplaceGuarded(c) ==
  /\ client[c].pc = "put"
  /\ client[c].op = "guarded"
  /\ AcceptedRev(c)
  /\ StoreDocument([client[c].payload EXCEPT !.rev = client[c].expects + 1])
  /\ Rest(c)
  /\ UNCHANGED <<unruly, parameters, notifier>>

ReplaceUnguarded(c) ==
  /\ client[c].pc = "put"
  /\ client[c].op = "unguarded"
  /\ StoreDocument(client[c].payload)
  /\ unruly' = TRUE
  /\ Rest(c)
  /\ UNCHANGED <<parameters, notifier>>

(* A 409, which the MCP server answers by starting again, a secret that     *)
(* could not be stored, a request that dies; parameters stay behind.        *)
Refused(c) ==
  /\ client[c] # Ready
  /\ Rest(c)
  /\ UNCHANGED <<document, parameters, notifier>>

-----------------------------------------------------------------------------
(* DELETE                                                                  *)

StartErase(c) ==
  /\ client[c] = Ready
  /\ doc.there
  /\ client' = [client EXCEPT ![c] = [pc |-> "erase", payload |-> doc]]
  /\ UNCHANGED <<document, parameters, notifier>>

Erase(c) ==
  /\ client[c].pc = "erase"
  /\ StoreDocument(NoDocument)
  /\ unruly' = TRUE
  /\ client' = [client EXCEPT ![c].pc = "sweep"]
  /\ UNCHANGED <<parameters, notifier>>

ValuesOf(d) == {d.slack} \cup {d.targets[i].header : i \in DOMAIN d.targets}

RefsOf(d) == {v \in ValuesOf(d) : v.kind = "ref"}

(* _delete_secret_refs: of the document that was read.                     *)
Sweep(c) ==
  /\ client[c].pc = "sweep"
  /\ ssm' = [i \in Slots |-> [n \in Numbers |->
       IF \E v \in RefsOf(client[c].payload) : v.slot = i /\ v.number = n THEN 0 ELSE ssm[i][n]]]
  /\ Rest(c)
  /\ UNCHANGED <<secrets, document, notifier>>

-----------------------------------------------------------------------------
(* The notifier                                                            *)

LoadSettings ==
  /\ notifier = {}
  /\ notifier' = RefsOf(doc)
  /\ UNCHANGED <<document, parameters, client>>

(* _resolve_secret_refs; a parameter that is gone is an empty secret.  The  *)
(* settings are cached; or a read raises, and the batch is retried.         *)
ResolveRefs ==
  /\ notifier # {}
  /\ notifier' = {}
  /\ UNCHANGED <<document, parameters, client>>

-----------------------------------------------------------------------------
SettingsNext ==
  \/ \E c \in Clients :
       \/ \E op \in {"create", "unguarded"}, l \in Layouts : SendFile(c, op, l)
       \/ \E op \in {"guarded", "unguarded"}, change \in Changes : StartChange(c, op, change)
       \/ SendChange(c)
       \/ Create(c)
       \/ ReplaceGuarded(c)
       \/ ReplaceUnguarded(c)
       \/ Refused(c)
       \/ StartErase(c)
       \/ Erase(c)
       \/ Sweep(c)
  \/ LoadSettings
  \/ ResolveRefs

SettingsSpec == SettingsInit /\ [][SettingsNext]_settingsVars

-----------------------------------------------------------------------------
(* Client c stores a change that it made to the document under its revision, *)
(* masks resolved from that document.                                      *)
EditsDocument(c) ==
  /\ client[c].pc = "put" /\ client[c].op = "guarded" /\ client[c].change # "file"
  /\ doc.rev # 0 /\ ~unruly /\ ~client[c].stale
  /\ doc' # doc /\ client'[c] = Ready

(* Target i, and every one before it, has another name.                    *)
StandsBefore(targets, i, name) == \A j \in 1..i : targets[j].name # name

(* A write that is rejected, fails or races another cannot replace an       *)
(* active credential: the parameter that the stored document names for a    *)
(* secret holds that secret, and so do those that the notifier is about to   *)
(* read, unless a DELETE removed them.                                     *)
ActiveSecretsHold ==
  \A v \in RefsOf(doc) \cup notifier : ssm[v.slot][v.number] \in {v.secret, 0}

(* Writers that name the revision they read keep the secrets they do not    *)
(* change, although they never see them, and those that another client has  *)
(* changed in between: of all targets if they change none, and otherwise of  *)
(* those before the target they change, or of all if it is new.  Targets     *)
(* after it move up, and masks are resolved by position: see               *)
(* OtherTargetsKeepTheirSecrets.  Deletions and writes that name no revision *)
(* void revisions; a document without one can be replaced by whoever saw    *)
(* none; and a slow replica may resolve a mask to an older secret.          *)
SecretsSurviveEdits ==
  [][\A c \in Clients :
       EditsDocument(c) =>
         /\ client[c].change # Slack => doc'.slack = doc.slack
         /\ client[c].change \in {Slack, "other"} => doc'.targets = doc.targets
         /\ \A i \in DOMAIN doc.targets :
              StandsBefore(doc.targets, i, client[c].change) =>
                i \in DOMAIN doc'.targets /\ doc'.targets[i] = doc.targets[i]]_settingsVars

(* "Merge new channel config into the existing one without clobbering       *)
(* untouched channels", where a target "is replaced in-place"              *)
(* (scripts/opencdr.py:478-484); and a mask means "leave unchanged"         *)
(* (src/handlers/api.py:2169): an edit of one target leaves every other      *)
(* target its secret, wherever it stands.  Not true of the code.            *)
OtherTargetsKeepTheirSecrets ==
  [][\A c \in Clients :
       EditsDocument(c) =>
         \A i \in DOMAIN doc.targets :
           doc.targets[i].name # client[c].change =>
             \E j \in DOMAIN doc'.targets : doc'.targets[j] = doc.targets[i]]_settingsVars
=============================================================================
