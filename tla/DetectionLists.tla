--------------------------- MODULE DetectionLists ---------------------------
(***************************************************************************)
(* A detection list: the /lists endpoints of src/handlers/api.py, the      *)
(* clients that edit it by read, change and guarded write                  *)
(* (mcp_server/server.py, scripts/opencdr.py), and the evaluators that     *)
(* hold a snapshot of it (src/infra/detection_lists_repository.py).        *)
(*                                                                         *)
(* A PUT writes the values of a new version under a token of its own and   *)
(* then the metadata row, on condition that the revision it was told is    *)
(* still there.  A reader takes the metadata first and then the values of  *)
(* the version it names, so that it should never see two versions mixed.   *)
(* A DELETE removes whatever rows its query returned, unconditionally.     *)
(*                                                                         *)
(* Lists are independent of each other: this is one of them.  A token is   *)
(* the number of the PUT that made it.  The revision and the version       *)
(* number of a list start, grow and restart together: one field, rev.      *)
(***************************************************************************)
EXTENDS Naturals, FiniteSets

CONSTANTS
  Values,          \* values a list can hold
  Editors,         \* clients of the API, each with one request at a time
  ListReaders,     \* containers of processor and alerter
  Contents,        \* the contents that clients replace a list by, or create it with
  MaxListWrites,       \* bound: PUT requests that write values and DELETE requests together
  ListAttempts     \* _CAS_MAX_ATTEMPTS

ASSUME ListAssumption ==
  /\ Contents \subseteq (SUBSET Values) \ {{}}
  /\ MaxListWrites \in Nat
  /\ ListAttempts \in Nat \ {0}

VARIABLES
  meta,      \* the metadata row
  index,     \* the metadata row as gsi_list_metadata shows it
  settled,   \* every replica of the table knows that the metadata row exists
  rows,      \* rows[t]: the stored values of version t
  written,   \* written[t]: the values its PUT was asked to store (history)
  torn,      \* versions of which a DELETE removed rows (history)
  deleted,   \* the metadata row was deleted once (history)
  issued,    \* number of tokens issued
  deletes,   \* number of DELETE requests
  editor,    \* requests of clients
  reader     \* evaluators

listVars == <<meta, index, settled, rows, written, torn, deleted, issued, deletes, editor, reader>>

table == <<meta, index, settled, rows, written, torn, deleted, issued, deletes>>

-----------------------------------------------------------------------------
Tokens == 1..MaxListWrites

(* Token 0 is no row.                                                      *)
Meta == [token : 0..MaxListWrites, rev : 0..MaxListWrites]

NoMeta == [token |-> 0, rev |-> 0]

Exists(m) == m # NoMeta

Resting == [pc |-> "idle"]

(* edit turns the values read into those to store; "replace" and "create"  *)
(* ignore what is there.                                                   *)
Edits ==
  [kind : {"add", "remove"}, value : Values]
    \cup [kind : {"replace", "create"}, value : Contents]

Editing ==
  [pc       : {"get", "values", "put", "write", "commit"},
   edit     : Edits,
   base     : Meta,               \* what GET returned
   found    : Meta,               \* what PUT found
   values   : SUBSET Values,      \* what is to be stored
   token    : 0..MaxListWrites,
   attempts : 1..ListAttempts]

Deleting ==
  [pc   : {"erase"},
   meta : BOOLEAN,            \* the metadata row is still to be deleted
   rest : SUBSET Tokens]      \* the versions whose rows are still to be deleted

Nothing == [t \in Tokens |-> {}]

(* A snapshot of token 0 is a list the evaluator does not have.            *)
Snapshot == [token : 0..MaxListWrites, rev : 0..MaxListWrites, values : SUBSET Values]

NoSnapshot == [token |-> 0, rev |-> 0, values |-> {}]

ListTypeOK ==
  /\ meta \in Meta
  /\ index \in Meta
  /\ settled \in BOOLEAN
  /\ rows \in [Tokens -> SUBSET Values]
  /\ written \in [Tokens -> SUBSET Values]
  /\ torn \in SUBSET Tokens
  /\ deleted \in BOOLEAN
  /\ issued \in 0..MaxListWrites
  /\ deletes \in 0..MaxListWrites
  /\ editor \in [Editors -> {Resting} \cup Editing \cup Deleting]
  /\ reader \in [ListReaders -> [named : Meta, loading : BOOLEAN, held : Snapshot]]

ListInit ==
  /\ meta = NoMeta
  /\ index = NoMeta
  /\ settled = TRUE
  /\ rows = Nothing
  /\ written = Nothing
  /\ torn = {}
  /\ deleted = FALSE
  /\ issued = 0
  /\ deletes = 0
  /\ editor = [c \in Editors |-> Resting]
  /\ reader = [e \in ListReaders |-> [named |-> NoMeta, loading |-> FALSE, held |-> NoSnapshot]]

-----------------------------------------------------------------------------
(* Clients that edit                                                       *)

GoTo(c, pc) == editor' = [editor EXCEPT ![c].pc = pc]

Leave(c) == editor' = [editor EXCEPT ![c] = Resting]

Request(pc, e) ==
  [pc |-> pc, edit |-> e, base |-> NoMeta, found |-> NoMeta, values |-> {}, token |-> 0,
   attempts |-> 1]

(* The command line creates a list by a PUT that names no revision.         *)
StartCreate(c, e) ==
  /\ editor[c] = Resting
  /\ e.kind = "create"
  /\ editor' = [editor EXCEPT ![c] = [Request("put", e) EXCEPT !.values = e.value]]
  /\ UNCHANGED <<table, reader>>

(* GET, first call.  A list that does not exist can only be replaced.      *)
GetMeta(c, e) ==
  /\ e.kind # "create"
  /\ Exists(meta) \/ e.kind = "replace"
  /\ \/ /\ editor[c] = Resting
        /\ editor' = [editor EXCEPT ![c] = [Request("values", e) EXCEPT !.base = meta]]
     \/ /\ editor[c].pc = "get"
        /\ editor[c].edit = e
        /\ editor' = [editor EXCEPT ![c].base = meta, ![c].pc = "values"]
  /\ UNCHANGED <<table, reader>>

(* The values of the version that is current by then.                      *)
NewestValues(m) == IF Exists(m) /\ Exists(meta) THEN rows[meta.token] ELSE {}

ListedValues(m) == IF Exists(m) THEN rows[m.token] ELSE {}

(* The values asked for, given those that were read.                       *)
Edited(e, values) ==
  CASE e.kind = "add" -> values \cup {e.value}
    [] e.kind = "remove" -> values \ {e.value}
    [] OTHER -> e.value

(* GET, second call, and the client's edit: it stops when nothing changes,  *)
(* or when nothing would be left.                                          *)
GetValues(c) ==
  /\ editor[c].pc = "values"
  /\ LET read == ListedValues(editor[c].base)
         asked == Edited(editor[c].edit, read)
     IN IF asked = {} \/ (asked = read /\ editor[c].edit.kind # "replace")
        THEN Leave(c)
        ELSE editor' = [editor EXCEPT ![c].values = asked, ![c].pc = "put"]
  /\ UNCHANGED <<table, reader>>

(* expected_rev is required of an existing list, and ignored otherwise.     *)
Accepted(c) == Exists(meta) => editor[c].base.rev = meta.rev

TokenByRevision == meta.rev + 1

(* A uuid: no two PUTs share the rows they write.                          *)
FreshToken == issued + 1

PutRead(c) ==
  /\ editor[c].pc = "put"
  /\ Accepted(c)
  /\ issued + deletes < MaxListWrites
  /\ issued' = issued + 1
  /\ editor' = [editor EXCEPT ![c].found = meta, ![c].token = FreshToken, ![c].pc = "write"]
  /\ UNCHANGED <<meta, index, settled, rows, written, torn, deleted, deletes, reader>>

(* A 409 is read again and retried by the MCP server, not by the command    *)
(* line; everybody gives up in the end.                                    *)
Conflict(c) ==
  \/ Leave(c)
  \/ /\ editor[c].edit.kind \in {"add", "remove"}
     /\ editor[c].attempts < ListAttempts
     /\ editor' = [editor EXCEPT ![c].pc = "get", ![c].base = NoMeta, ![c].found = NoMeta,
                                 ![c].values = {}, ![c].token = 0, ![c].attempts = @ + 1]

PutRefused(c) ==
  /\ editor[c].pc = "put"
  /\ ~Accepted(c)
  /\ Conflict(c)
  /\ UNCHANGED <<table, reader>>

(* The batch of values.  One that fails in the middle leaves rows that no   *)
(* metadata names: that is Abandon before or after this step.              *)
WriteValues(c) ==
  /\ editor[c].pc = "write"
  /\ LET t == editor[c].token IN
       /\ written' = [written EXCEPT ![t] = editor[c].values]
       /\ rows' = [rows EXCEPT ![t] = editor[c].values]
  /\ GoTo(c, "commit")
  /\ UNCHANGED <<meta, index, settled, torn, deleted, issued, deletes, reader>>

NewMeta(c) == [token |-> editor[c].token, rev |-> editor[c].found.rev + 1]

UnchangedIfPresent(c) == Exists(editor[c].found) <=> Exists(meta)

(* Attr("rev").eq(expected_rev), or Attr("list_id").not_exists().          *)
Unchanged(c) ==
  IF Exists(editor[c].found)
  THEN Exists(meta) /\ meta.rev = editor[c].base.rev
  ELSE ~Exists(meta)

Commit(c) ==
  /\ editor[c].pc = "commit"
  /\ Unchanged(c)
  /\ meta' = NewMeta(c)
  /\ settled' = (settled /\ Exists(meta))
  /\ Leave(c)
  /\ UNCHANGED <<index, rows, written, torn, deleted, issued, deletes, reader>>

CommitRefused(c) ==
  /\ editor[c].pc = "commit"
  /\ ~Unchanged(c)
  /\ Conflict(c)
  /\ UNCHANGED <<table, reader>>

-----------------------------------------------------------------------------
(* Deletion                                                                *)

(* The query is eventually consistent: a metadata row just created may be   *)
(* missing from it although the values are there.                          *)
StartDelete(c) ==
  /\ editor[c] = Resting
  /\ issued + deletes < MaxListWrites
  /\ deletes' = deletes + 1
  /\ \E seen \in {Exists(meta), Exists(meta) /\ settled} :
       LET stored == {t \in Tokens : rows[t] # {}} IN
         /\ seen \/ stored # {}
         /\ editor' = [editor EXCEPT ![c] = [pc |-> "erase", meta |-> seen, rest |-> stored]]
  /\ UNCHANGED <<meta, index, settled, rows, written, torn, deleted, issued, reader>>

(* Batches have no order: the metadata row and the values of any version    *)
(* may go first, or some of the values.                                    *)
EraseMeta(c) ==
  /\ editor[c].pc = "erase"
  /\ editor[c].meta
  /\ meta' = NoMeta
  /\ deleted' = TRUE
  /\ editor' = [editor EXCEPT ![c].meta = FALSE]
  /\ UNCHANGED <<index, settled, rows, written, torn, issued, deletes, reader>>

EraseRows(c, t) ==
  /\ editor[c].pc = "erase"
  /\ t \in editor[c].rest
  /\ \/ /\ rows' = [rows EXCEPT ![t] = {}]
        /\ editor' = [editor EXCEPT ![c].rest = @ \ {t}]
     \/ /\ \E v \in rows[t] : rows' = [rows EXCEPT ![t] = @ \ {v}]
        /\ UNCHANGED editor
  /\ torn' = torn \cup {t}
  /\ UNCHANGED <<meta, index, settled, written, deleted, issued, deletes, reader>>

(* The end of a DELETE, or of a request that dies or raises anywhere.       *)
Abandon(c) ==
  /\ editor[c] # Resting
  /\ Leave(c)
  /\ UNCHANGED <<table, reader>>

-----------------------------------------------------------------------------
(* Replication and readers                                                 *)

Replicate ==
  /\ index # meta \/ ~settled
  /\ index' = meta
  /\ settled' = TRUE
  /\ UNCHANGED <<meta, rows, written, torn, deleted, issued, deletes, editor, reader>>

(* get_lists: the snapshot has expired.  The metadata comes from the index. *)
LoadMeta(e) ==
  /\ ~reader[e].loading
  /\ reader' = [reader EXCEPT ![e].loading = TRUE, ![e].named = index]
  /\ UNCHANGED <<table, editor>>

(* The values are read consistently.  A version without values is ignored,  *)
(* and a failure leaves the old snapshot.                                  *)
LoadValues(e) ==
  /\ reader[e].loading
  /\ LET m == reader[e].named
         loaded == IF ListedValues(m) = {} THEN NoSnapshot
                   ELSE [token |-> m.token, rev |-> m.rev, values |-> ListedValues(m)]
     IN \E snapshot \in {loaded, reader[e].held} :
          reader' = [reader EXCEPT ![e] = [named |-> NoMeta, loading |-> FALSE, held |-> snapshot]]
  /\ UNCHANGED <<table, editor>>

-----------------------------------------------------------------------------
ListNext ==
  \/ \E c \in Editors :
       \/ \E e \in Edits : StartCreate(c, e) \/ GetMeta(c, e)
       \/ GetValues(c)
       \/ PutRead(c)
       \/ PutRefused(c)
       \/ WriteValues(c)
       \/ Commit(c)
       \/ CommitRefused(c)
       \/ StartDelete(c)
       \/ EraseMeta(c)
       \/ \E t \in Tokens : EraseRows(c, t)
       \/ Abandon(c)
  \/ Replicate
  \/ \E e \in ListReaders : LoadMeta(e) \/ LoadValues(e)

ListSpec == ListInit /\ [][ListNext]_listVars

-----------------------------------------------------------------------------
(* A snapshot that an evaluator holds is exactly what one PUT asked to      *)
(* store, never a mixture of versions nor a part of one, unless a DELETE    *)
(* took rows of that very version; and as long as the list was not deleted, *)
(* the version number, which detections quote, names one content.           *)
SnapshotsAreWhole ==
  \A e \in ListReaders :
    LET s == reader[e].held IN
      s.token # 0 =>
        /\ s.token \notin torn => s.values = written[s.token]
        /\ ~deleted /\ s.rev = meta.rev => s.token = meta.token

(* No edit is lost: a PUT that replaces a version was computed from that    *)
(* version and no older one.  Once the list was deleted revisions start     *)
(* again, and an editor may take a new list for the one it read.           *)
EditsBuildOnEachOther ==
  [][\A c \in Editors :
       editor[c].pc = "commit" /\ meta' = NewMeta(c) /\ Exists(meta) /\ ~deleted
         => editor[c].base = meta]_listVars

(* To those who edit and evaluate it a list is a register: ListPromise.     *)
(* Its content is what was asked to be stored under the token that its     *)
(* metadata row names.                                                     *)
Version(m) == [rev |-> m.rev, values |-> IF Exists(m) THEN written[m.token] ELSE {}]

Register == INSTANCE ListPromise WITH
  current <- Version(meta),
  copy    <- Version(index),
  taken   <- [e \in ListReaders |-> IF reader[e].loading THEN {Version(reader[e].named)} ELSE {}],
  held    <- [e \in ListReaders |-> [rev |-> reader[e].held.rev, values |-> reader[e].held.values]],
  spoiled <- deleted \/ torn # {}

ActsAsRegister == Register!Spec
=============================================================================
