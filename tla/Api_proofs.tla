----------------------------- MODULE Api_proofs -----------------------------
(***************************************************************************)
(* Theorems about what the endpoints of src/handlers/api.py keep, for any   *)
(* number of clients, of values and of requests: detection lists            *)
(* (DetectionLists), rules and releases (RuleCatalog), the settings with    *)
(* their secrets (Settings), and listings page by page (Paging).            *)
(*                                                                         *)
(* In each of the first three an edit is a read, a change and a write on    *)
(* condition, and the invariant says what a revision that is still there    *)
(* tells about what was read under it.  Of a listing it says where it       *)
(* stands in each partition: what lies before that place was got, or is     *)
(* not owed, and nothing that lies after it was.                           *)
(***************************************************************************)
EXTENDS DetectionLists, RuleCatalog, Settings, Paging, SequenceTheorems, FiniteSetTheorems, TLAPS

-----------------------------------------------------------------------------
(* Lists: the inductive invariant                                          *)

USE ListAssumption DEF ListAssumption

EditPcs == {"get", "values", "put", "write", "commit"}

(* The PUTs whose tokens no metadata row names yet.                         *)
HoldPcs == {"write", "commit"}

(* A metadata row that was stored once, after n tokens were issued: nobody  *)
(* in ed will write values under its token any more.                       *)
GenuineMeta(m, n, ed) ==
  m # NoMeta =>
    /\ m.token \in 1..n
    /\ m.rev \in 1..m.token
    /\ \A c \in Editors : ed[c].pc \in HoldPcs => ed[c].token # m.token

(* Unless the list was deleted, revisions have only grown up to that of top, *)
(* and a revision names one row.                                           *)
NotAhead(m, top, gone) ==
  gone \/ (m.rev <= top.rev /\ (m.rev = top.rev => m = top))

Known(m, top, gone, n, ed) == GenuineMeta(m, n, ed) /\ NotAhead(m, top, gone)

VersionOf(s) == [token |-> s.token, rev |-> s.rev]

(* Whatever row somebody goes by was stored once.                           *)
KnownInv ==
  /\ Known(meta, meta, deleted, issued, editor)
  /\ Known(index, meta, deleted, issued, editor)
  /\ \A e \in ListReaders :
       /\ Known(reader[e].named, meta, deleted, issued, editor)
       /\ Known(VersionOf(reader[e].held), meta, deleted, issued, editor)
  /\ \A c \in Editors : editor[c].pc \in EditPcs =>
       /\ Known(editor[c].base, meta, deleted, issued, editor)
       /\ Known(editor[c].found, meta, deleted, issued, editor)

(* Tokens of PUTs in progress are theirs alone and newer than what they     *)
(* replace; and they were accepted.                                        *)
TokenInv ==
  \A c \in Editors : editor[c].pc \in HoldPcs =>
    /\ editor[c].token \in 1..issued
    /\ editor[c].found.token < editor[c].token
    /\ Exists(editor[c].found) => editor[c].base.rev = editor[c].found.rev
    /\ \A d \in Editors \ {c} :
         editor[d].pc \in HoldPcs => editor[c].token # editor[d].token

(* The values of a version are those asked for, until a DELETE takes some.  *)
RowInv == \A t \in Tokens : t \notin torn => rows[t] = written[t]

HeldInv ==
  \A e \in ListReaders :
    LET s == reader[e].held IN
      s.token \in Tokens \ torn => s.values = written[s.token]

ListInv == ListTypeOK /\ KnownInv /\ TokenInv /\ RowInv /\ HeldInv

-----------------------------------------------------------------------------
(* Lists: the requests of editors                                          *)

EditorStates == {Resting} \cup Editing \cup Deleting

(* An editor that is at an edit has all that an edit keeps.                *)
LEMMA EditingType ==
  ASSUME ListTypeOK, NEW c \in Editors, editor[c].pc \in EditPcs
  PROVE  editor[c] \in Editing
BY DEF ListTypeOK, Resting, Deleting, EditPcs

(* An editor that erases has what a deletion keeps.                        *)
LEMMA DeletingType ==
  ASSUME ListTypeOK, NEW c \in Editors, editor[c].pc = "erase"
  PROVE  editor[c] \in Deleting
BY DEF ListTypeOK, Resting, Editing

(* An edit makes a set of values of a set of values.                       *)
LEMMA EditedType ==
  ASSUME NEW e \in Edits, NEW V \in SUBSET Values
  PROVE  Edited(e, V) \in SUBSET Values
<1>1. CASE e.kind = "add"
  <2>1. e.value \in Values
    BY <1>1 DEF Edits
  <2>2. Edited(e, V) = V \cup {e.value}
    BY <1>1, Zenon DEF Edited
  <2> QED BY <2>1, <2>2
<1>2. CASE e.kind = "remove"
  <2>1. "remove" # "add"
    OBVIOUS
  <2>2. Edited(e, V) = V \ {e.value}
    BY <1>2, <2>1, Zenon DEF Edited
  <2> QED BY <2>2
<1>3. CASE e.kind \notin {"add", "remove"}
  <2>1. e.value \in SUBSET Values
    BY <1>3 DEF Edits
  <2>2. Edited(e, V) = e.value
    BY <1>3, Zenon DEF Edited
  <2> QED BY <2>1, <2>2
<1> QED BY <1>1, <1>2, <1>3

(* What a request does to the editors while it writes nothing: it knows     *)
(* rows that it knew, the one that is there, or none.                      *)
QuietEffect(c) ==
  /\ editor' \in [Editors -> EditorStates]
  /\ \A d \in Editors \ {c} : editor'[d] = editor[d]
  /\ editor'[c].pc \notin HoldPcs
  /\ editor'[c].pc \in EditPcs =>
       /\ editor'[c].base \in {NoMeta, meta} \/
            (editor[c].pc \in EditPcs /\ editor'[c].base = editor[c].base)
       /\ editor'[c].found = NoMeta \/
            (editor[c].pc \in EditPcs /\ editor'[c].found = editor[c].found)

(* Leaving is quiet.                                                       *)
LEMMA LeaveQuiet ==
  ASSUME ListTypeOK, NEW c \in Editors, Leave(c)
  PROVE  QuietEffect(c)
BY DEF ListTypeOK, Leave, QuietEffect, EditorStates, Resting, HoldPcs, EditPcs

(* The missing row has the shape of a row.                                 *)
LEMMA NoMetaType == NoMeta \in Meta
BY DEF NoMeta, Meta

(* A request has the shape of an edit under way.                           *)
LEMMA RequestType ==
  ASSUME NEW pc \in {"values", "put"}, NEW e \in Edits
  PROVE  Request(pc, e) \in Editing
BY NoMetaType DEF Request, Editing

(* An edit that is refused is quiet.                                       *)
LEMMA ConflictQuiet ==
  ASSUME ListTypeOK, NEW c \in Editors, editor[c].pc \in EditPcs, Conflict(c)
  PROVE  QuietEffect(c)
<1>1. CASE Leave(c)
  BY <1>1, LeaveQuiet
<1>2. CASE ~Leave(c)
  <2>1. editor[c] \in Editing
    BY EditingType
  <2> DEFINE x == [editor[c] EXCEPT !.pc = "get", !.base = NoMeta, !.found = NoMeta,
                                    !.values = {}, !.token = 0, !.attempts = @ + 1]
  <2>2. editor' = [editor EXCEPT ![c] = x] /\ editor[c].attempts < ListAttempts
    BY <1>2, Zenon DEF Conflict
  <2> DEFINE n == editor[c].attempts + 1
  <2>3. n \in 1..ListAttempts
    BY <2>1, <2>2 DEF Editing
  <2> DEFINE y == [editor[c] EXCEPT !.pc = "get", !.base = NoMeta, !.found = NoMeta]
             z == [y EXCEPT !.values = {}]
             w == [z EXCEPT !.token = 0]
  <2>4. x = [w EXCEPT !.attempts = n]
    OBVIOUS
  <2>5. y \in Editing /\ y.pc = "get" /\ y.base = NoMeta /\ y.found = NoMeta
    BY <2>1, NoMetaType DEF Editing
  <2> HIDE DEF x, y, n
  <2>6. z \in Editing /\ z.pc = "get" /\ z.base = NoMeta /\ z.found = NoMeta
    BY <2>5 DEF Editing
  <2> HIDE DEF z
  <2>7. w \in Editing /\ w.pc = "get" /\ w.base = NoMeta /\ w.found = NoMeta
    BY <2>6 DEF Editing
  <2> HIDE DEF w
  <2>8. x \in Editing /\ x.pc = "get" /\ x.base = NoMeta /\ x.found = NoMeta
    BY <2>3, <2>4, <2>7 DEF Editing
  <2> QED
    BY <2>2, <2>8 DEF ListTypeOK, QuietEffect, EditorStates, HoldPcs, EditPcs
<1> QED BY <1>1, <1>2

(* The requests that write nothing yet, or are refused or abandoned.        *)
Quiet(c) ==
  \/ \E e \in Edits : StartCreate(c, e) \/ GetMeta(c, e)
  \/ GetValues(c)
  \/ PutRefused(c)
  \/ CommitRefused(c)
  \/ Abandon(c)

(* Starting to create a list is quiet.                                     *)
LEMMA StartCreateQuiet ==
  ASSUME ListTypeOK, NEW c \in Editors, NEW e \in Edits, StartCreate(c, e)
  PROVE  QuietEffect(c)
<1> DEFINE x == [Request("put", e) EXCEPT !.values = e.value]
<1>1. editor' = [editor EXCEPT ![c] = x] /\ e.kind = "create"
  BY Zenon DEF StartCreate
<1>2. e.value \in SUBSET Values
  BY <1>1 DEF Edits
<1>3. x \in Editing /\ x.pc = "put" /\ x.base = NoMeta /\ x.found = NoMeta
  BY <1>2, RequestType DEF Editing, Request
<1> HIDE DEF x
<1> QED
  BY <1>1, <1>3 DEF ListTypeOK, QuietEffect, EditorStates, HoldPcs, EditPcs

(* Reading the current row is quiet.                                       *)
LEMMA GetMetaQuiet ==
  ASSUME ListTypeOK, NEW c \in Editors, NEW e \in Edits, GetMeta(c, e)
  PROVE  QuietEffect(c)
<1>0. meta \in Meta
  BY DEF ListTypeOK
<1>1. CASE editor[c] = Resting /\ editor' = [editor EXCEPT ![c] = [Request("values", e) EXCEPT !.base = meta]]
  <2> DEFINE x == [Request("values", e) EXCEPT !.base = meta]
  <2>1. x \in Editing /\ x.pc = "values" /\ x.base = meta /\ x.found = NoMeta
    BY <1>0, RequestType DEF Editing, Request
  <2>2. editor' = [editor EXCEPT ![c] = x]
    BY <1>1
  <2> HIDE DEF x
  <2> QED
    BY <2>1, <2>2 DEF ListTypeOK, QuietEffect, EditorStates, HoldPcs, EditPcs
<1>2. CASE editor[c].pc = "get" /\ editor' = [editor EXCEPT ![c].base = meta, ![c].pc = "values"]
  <2> DEFINE x == [editor[c] EXCEPT !.base = meta, !.pc = "values"]
  <2>1. editor[c] \in Editing /\ editor[c].pc \in EditPcs
    BY <1>2, EditingType DEF EditPcs
  <2>2. x \in Editing /\ x.pc = "values" /\ x.base = meta /\ x.found = editor[c].found
    BY <1>0, <2>1 DEF Editing
  <2>3. editor' = [editor EXCEPT ![c] = x]
    BY <1>2
  <2> HIDE DEF x
  <2> QED
    BY <2>1, <2>2, <2>3 DEF ListTypeOK, QuietEffect, EditorStates, HoldPcs, EditPcs
<1> QED BY <1>1, <1>2, Zenon DEF GetMeta

(* Reading the values is quiet.                                            *)
LEMMA GetValuesQuiet ==
  ASSUME ListTypeOK, KnownInv, NEW c \in Editors, GetValues(c)
  PROVE  QuietEffect(c)
<1>1. editor[c].pc \in EditPcs /\ editor[c] \in Editing
  BY EditingType DEF GetValues, EditPcs
<1> DEFINE read == ListedValues(editor[c].base)
           asked == Edited(editor[c].edit, read)
<1>2. read \in SUBSET Values
  BY <1>1 DEF ListedValues, Exists, KnownInv, Known, GenuineMeta, ListTypeOK, Tokens, Editing, Meta
<1>3. asked \in SUBSET Values
  BY <1>1, <1>2, EditedType DEF Editing
<1>4. Leave(c) \/ editor' = [editor EXCEPT ![c].values = asked, ![c].pc = "put"]
  BY Zenon DEF GetValues
<1> HIDE DEF asked
<1> DEFINE x == [editor[c] EXCEPT !.values = asked, !.pc = "put"]
<1>5. x \in Editing /\ x.pc = "put" /\ x.base = editor[c].base /\ x.found = editor[c].found
  BY <1>1, <1>3 DEF Editing
<1>6. Leave(c) \/ editor' = [editor EXCEPT ![c] = x]
  BY <1>4
<1> HIDE DEF x
<1> QED
  BY <1>1, <1>5, <1>6, LeaveQuiet DEF ListTypeOK, QuietEffect, EditorStates, HoldPcs, EditPcs

(* Every quiet step leaves the tables and the evaluators alone.            *)
LEMMA QuietStep ==
  ASSUME ListTypeOK, KnownInv, NEW c \in Editors, Quiet(c)
  PROVE  QuietEffect(c) /\ UNCHANGED <<table, reader>>
<1>1. ASSUME NEW e \in Edits, StartCreate(c, e) \/ GetMeta(c, e)
      PROVE  QuietEffect(c) /\ UNCHANGED <<table, reader>>
  BY <1>1, StartCreateQuiet, GetMetaQuiet, Zenon DEF StartCreate, GetMeta
<1>2. CASE GetValues(c)
  BY <1>2, GetValuesQuiet DEF GetValues
<1>3. CASE PutRefused(c)
  BY <1>3, ConflictQuiet DEF PutRefused, EditPcs
<1>4. CASE CommitRefused(c)
  BY <1>4, ConflictQuiet DEF CommitRefused, EditPcs
<1>5. CASE Abandon(c)
  BY <1>5, LeaveQuiet DEF Abandon
<1> QED BY <1>1, <1>2, <1>3, <1>4, <1>5, Zenon DEF Quiet

-----------------------------------------------------------------------------
(* Lists: what is known stays known                                        *)

(* That no row is there is known of any list.                              *)
LEMMA NoMetaKnown ==
  ASSUME NEW top \in Meta, NEW gone, NEW n, NEW ed, GenuineMeta(top, n, ed)
  PROVE  Known(NoMeta, top, gone, n, ed)
BY DEF Known, GenuineMeta, NotAhead, NoMeta, Meta

(* A row stays genuine while tokens are only added to those issued.         *)
LEMMA GenuineKept ==
  ASSUME NEW m, NEW n \in Nat, NEW k \in Nat, n <= k, NEW ed, NEW fd,
         \A c \in Editors : fd[c].pc \in HoldPcs =>
           \/ ed[c].pc \in HoldPcs /\ fd[c].token = ed[c].token
           \/ fd[c].token \notin 1..n,
         GenuineMeta(m, n, ed)
  PROVE  GenuineMeta(m, k, fd)
<1>1. CASE m = NoMeta
  BY <1>1 DEF GenuineMeta
<1>2. CASE m # NoMeta
  <2>1. m.token \in 1..n /\ m.rev \in 1..m.token
        /\ \A c \in Editors : ed[c].pc \in HoldPcs => ed[c].token # m.token
    BY <1>2 DEF GenuineMeta
  <2>2. m.token \in 1..k
    BY <2>1
  <2>3. ASSUME NEW c \in Editors, fd[c].pc \in HoldPcs
        PROVE  fd[c].token # m.token
    BY <2>1, <2>3
  <2> QED BY <2>1, <2>2, <2>3, Zenon DEF GenuineMeta
<1> QED BY <1>1, <1>2

(* A quiet step makes no row that was genuine another.                     *)
LEMMA QuietGenuine ==
  ASSUME NEW c \in Editors, QuietEffect(c), ListTypeOK, NEW m, GenuineMeta(m, issued, editor)
  PROVE  GenuineMeta(m, issued, editor')
<1>1. \A d \in Editors : editor'[d].pc \in HoldPcs =>
        editor[d].pc \in HoldPcs /\ editor'[d].token = editor[d].token
  BY DEF QuietEffect
<1>2. issued \in Nat
  BY DEF ListTypeOK
<1> HIDE DEF QuietEffect
<1> QED BY <1>1, <1>2, GenuineKept

(* A quiet step takes no token.                                            *)
LEMMA QuietTokens ==
  ASSUME NEW c \in Editors, QuietEffect(c), TokenInv, issued' = issued
  PROVE  TokenInv'
BY DEF QuietEffect, TokenInv, Exists

(* From where the rows that are known next were taken.                     *)
LEMMA KnownCarried ==
  ASSUME KnownInv, meta' \in Meta,
         \A m : Known(m, meta, deleted, issued, editor)
                  => Known(m, meta', deleted', issued', editor'),
         Known(meta', meta', deleted', issued', editor'),
         index' \in {index, meta},
         \A e \in ListReaders :
           /\ reader'[e].named \in {reader[e].named, index, NoMeta}
           /\ VersionOf(reader'[e].held) \in {VersionOf(reader[e].held), reader[e].named, NoMeta},
         \A c \in Editors : editor'[c].pc \in EditPcs =>
           /\ editor'[c].base \in {NoMeta, meta} \/
                (editor[c].pc \in EditPcs /\ editor'[c].base = editor[c].base)
           /\ editor'[c].found \in {NoMeta, meta} \/
                (editor[c].pc \in EditPcs /\ editor'[c].found = editor[c].found)
  PROVE  KnownInv'
<1> DEFINE K(m) == Known(m, meta, deleted, issued, editor)
           N(m) == Known(m, meta', deleted', issued', editor')
<1>1. N(NoMeta)
  BY NoMetaKnown DEF Known
<1>2. N(meta')
  OBVIOUS
<1>3. K(meta) /\ K(index)
  BY DEF KnownInv
<1>4. N(meta) /\ N(index')
  BY <1>3
<1>5. ASSUME NEW e \in ListReaders
      PROVE  N(reader'[e].named) /\ N(VersionOf(reader'[e].held))
  <2>1. K(reader[e].named) /\ K(VersionOf(reader[e].held))
    BY DEF KnownInv
  <2>2. N(reader[e].named) /\ N(VersionOf(reader[e].held)) /\ N(index)
    BY <2>1, <1>3
  <2> HIDE DEF N, K
  <2> QED BY <1>1, <2>2
<1>6. ASSUME NEW c \in Editors, editor'[c].pc \in EditPcs
      PROVE  N(editor'[c].base) /\ N(editor'[c].found)
  <2>1. editor[c].pc \in EditPcs => K(editor[c].base) /\ K(editor[c].found)
    BY DEF KnownInv
  <2>2. editor[c].pc \in EditPcs => N(editor[c].base) /\ N(editor[c].found)
    BY <2>1
  <2> HIDE DEF N, K
  <2> QED BY <1>1, <1>4, <1>6, <2>2
<1> QED BY <1>2, <1>4, <1>5, <1>6 DEF KnownInv, VersionOf

(* A quiet step learns only rows that are known.                           *)
LEMMA QuietKnown ==
  ASSUME ListTypeOK, KnownInv, NEW c \in Editors, QuietEffect(c),
         UNCHANGED <<meta, deleted, issued, index, reader>>
  PROVE  KnownInv'
<1>1. \A m : Known(m, meta, deleted, issued, editor)
               => Known(m, meta', deleted', issued', editor')
  BY QuietGenuine DEF Known
<1>2. Known(meta', meta', deleted', issued', editor')
  BY <1>1 DEF KnownInv
<1>3. \A d \in Editors : editor'[d].pc \in EditPcs =>
           /\ editor'[d].base \in {NoMeta, meta} \/
                (editor[d].pc \in EditPcs /\ editor'[d].base = editor[d].base)
           /\ editor'[d].found \in {NoMeta, meta} \/
                (editor[d].pc \in EditPcs /\ editor'[d].found = editor[d].found)
  BY DEF QuietEffect
<1>4. meta' \in Meta
  BY DEF ListTypeOK
<1> QED
  BY <1>1, <1>2, <1>3, <1>4, KnownCarried

-----------------------------------------------------------------------------
(* Lists: the invariant, action by action                                  *)

(* A quiet step keeps the invariant.                                       *)
LEMMA QuietInv ==
  ASSUME ListInv, NEW c \in Editors, Quiet(c)
  PROVE  ListInv'
<1>1. QuietEffect(c) /\ UNCHANGED <<table, reader>>
  BY QuietStep DEF ListInv
<1>2. ListTypeOK'
  BY <1>1 DEF ListInv, ListTypeOK, QuietEffect, EditorStates, table
<1>3. KnownInv' /\ TokenInv'
  BY <1>1, QuietKnown, QuietTokens DEF ListInv, table
<1>4. RowInv' /\ HeldInv'
  BY <1>1 DEF ListInv, RowInv, HeldInv, table
<1> QED BY <1>2, <1>3, <1>4 DEF ListInv

(* A put starts from the row that is stored, under a token of its own.     *)
LEMMA PutReadInv ==
  ASSUME ListInv, NEW c \in Editors, PutRead(c)
  PROVE  ListInv'
<1> USE DEF ListInv
<1>1. editor[c] \in Editing /\ editor[c].pc = "put" /\ editor[c].pc \in EditPcs \ HoldPcs
  BY EditingType DEF PutRead, EditPcs, HoldPcs
<1> DEFINE x == [editor[c] EXCEPT !.found = meta, !.token = FreshToken, !.pc = "write"]
<1>2. editor' = [editor EXCEPT ![c] = x]
  BY DEF PutRead
<1>3. /\ issued \in Nat /\ issued' = issued + 1 /\ issued' \in 0..MaxListWrites
      /\ FreshToken \in Tokens /\ FreshToken = issued + 1
  BY DEF PutRead, ListTypeOK, FreshToken, Tokens
<1>4. meta \in Meta /\ GenuineMeta(meta, issued, editor)
  BY DEF ListTypeOK, KnownInv, Known
<1>5. /\ x \in Editing /\ x.pc = "write" /\ x.base = editor[c].base /\ x.found = meta
      /\ x.token = issued + 1
  BY <1>1, <1>3, <1>4 DEF Editing, Tokens
<1> HIDE DEF x
<1>6. UNCHANGED <<meta, index, settled, rows, written, torn, deleted, deletes, reader>>
  BY DEF PutRead
<1>7. /\ editor' \in [Editors -> EditorStates]
      /\ editor'[c] = x
      /\ \A d \in Editors \ {c} : editor'[d] = editor[d]
  BY <1>2, <1>5 DEF ListTypeOK, EditorStates
<1>8. ListTypeOK'
  BY <1>3, <1>6, <1>7 DEF ListTypeOK, EditorStates
<1>9. KnownInv'
  <2>1. ASSUME NEW m, GenuineMeta(m, issued, editor)
        PROVE  GenuineMeta(m, issued', editor')
    <3>1. \A d \in Editors : editor'[d].pc \in HoldPcs =>
            \/ editor[d].pc \in HoldPcs /\ editor'[d].token = editor[d].token
            \/ editor'[d].token \notin 1..issued
      BY <1>3, <1>5, <1>7
    <3>2. issued' \in Nat /\ issued <= issued'
      BY <1>3
    <3> QED BY <1>3, <2>1, <3>1, <3>2, GenuineKept
  <2>2. \A m : Known(m, meta, deleted, issued, editor)
                 => Known(m, meta', deleted', issued', editor')
    BY <1>6, <2>1 DEF Known
  <2>3. Known(meta', meta', deleted', issued', editor')
    BY <1>6, <2>2 DEF KnownInv
  <2>4. \A d \in Editors : editor'[d].pc \in EditPcs =>
           /\ editor'[d].base \in {NoMeta, meta} \/
                (editor[d].pc \in EditPcs /\ editor'[d].base = editor[d].base)
           /\ editor'[d].found \in {NoMeta, meta} \/
                (editor[d].pc \in EditPcs /\ editor'[d].found = editor[d].found)
    BY <1>1, <1>5, <1>7
  <2> QED BY <1>4, <1>6, <2>2, <2>3, <2>4, KnownCarried
<1>10. TokenInv'
  <2>1. meta.token \in 0..issued
    BY <1>3, <1>4 DEF GenuineMeta, NoMeta
  <2>2. Exists(meta) => x.base.rev = meta.rev
    BY <1>5 DEF PutRead, Accepted
  <2>3. ASSUME NEW d \in Editors, editor'[d].pc \in HoldPcs
        PROVE  /\ editor'[d].token \in 1..issued'
               /\ editor'[d].found.token < editor'[d].token
               /\ Exists(editor'[d].found) => editor'[d].base.rev = editor'[d].found.rev
               /\ \A b \in Editors \ {d} :
                    editor'[b].pc \in HoldPcs => editor'[d].token # editor'[b].token
    <3>1. CASE d = c
      <4>1. \A b \in Editors \ {c} : editor[b].pc \in HoldPcs => editor[b].token \in 1..issued
        BY DEF TokenInv
      <4> QED
      BY <1>3, <1>5, <1>7, <2>1, <2>2, <3>1, <4>1
    <3>2. CASE d # c
      <4>1. editor'[d] = editor[d] /\ editor[d].pc \in HoldPcs /\ editor[d].token \in 1..issued
        BY <1>7, <2>3, <3>2 DEF TokenInv
      <4>2. ASSUME NEW b \in Editors \ {d}, editor'[b].pc \in HoldPcs
            PROVE  editor'[d].token # editor'[b].token
        BY <1>3, <1>5, <1>7, <4>1, <4>2 DEF TokenInv
      <4> QED BY <1>3, <4>1, <4>2 DEF TokenInv
    <3> QED BY <3>1, <3>2
  <2> QED BY <2>3 DEF TokenInv, Exists
<1>11. RowInv' /\ HeldInv'
  BY <1>6 DEF RowInv, HeldInv
<1> QED BY <1>8, <1>9, <1>10, <1>11

(* Writing the values of a new version disturbs no other version.          *)
LEMMA WriteValuesInv ==
  ASSUME ListInv, NEW c \in Editors, WriteValues(c)
  PROVE  ListInv'
<1> USE DEF ListInv
<1>1. editor[c] \in Editing /\ editor[c].pc = "write" /\ editor[c].pc \in EditPcs \cap HoldPcs
  BY EditingType DEF WriteValues, EditPcs, HoldPcs
<1> DEFINE x == [editor[c] EXCEPT !.pc = "commit"]
           t == editor[c].token
<1>2. editor' = [editor EXCEPT ![c] = x]
  BY DEF WriteValues, GoTo
<1>3. /\ x \in Editing /\ x.pc = "commit" /\ x.base = editor[c].base
      /\ x.found = editor[c].found /\ x.token = t
  BY <1>1 DEF Editing
<1> HIDE DEF x
<1>4. /\ editor' \in [Editors -> EditorStates]
      /\ editor'[c] = x
      /\ \A d \in Editors \ {c} : editor'[d] = editor[d]
  BY <1>2, <1>3 DEF ListTypeOK, EditorStates
<1>5. UNCHANGED <<meta, index, settled, torn, deleted, issued, deletes, reader>>
  BY DEF WriteValues
<1>6. /\ t \in Tokens /\ t \in 1..issued /\ editor[c].values \in SUBSET Values
      /\ written' = [written EXCEPT ![t] = editor[c].values]
      /\ rows' = [rows EXCEPT ![t] = editor[c].values]
  BY <1>1 DEF WriteValues, TokenInv, ListTypeOK, Tokens, Editing
<1>7. ListTypeOK'
  BY <1>4, <1>5, <1>6 DEF ListTypeOK, EditorStates
<1>8. KnownInv'
  <2>1. ASSUME NEW m, GenuineMeta(m, issued, editor)
        PROVE  GenuineMeta(m, issued', editor')
    <3>1. \A d \in Editors : editor'[d].pc \in HoldPcs =>
            editor[d].pc \in HoldPcs /\ editor'[d].token = editor[d].token
      BY <1>1, <1>3, <1>4
    <3>2. issued \in Nat /\ issued' = issued
      BY <1>5 DEF ListTypeOK
    <3> QED BY <2>1, <3>1, <3>2, GenuineKept
  <2>2. \A m : Known(m, meta, deleted, issued, editor)
                 => Known(m, meta', deleted', issued', editor')
    BY <1>5, <2>1 DEF Known
  <2>3. Known(meta', meta', deleted', issued', editor')
    BY <1>5, <2>2 DEF KnownInv
  <2>4. \A d \in Editors : editor'[d].pc \in EditPcs =>
          editor[d].pc \in EditPcs /\ editor'[d].base = editor[d].base
            /\ editor'[d].found = editor[d].found
    BY <1>1, <1>3, <1>4
  <2>5. meta' \in Meta
    BY <1>5 DEF ListTypeOK
  <2> QED BY <1>5, <2>2, <2>3, <2>4, <2>5, KnownCarried
<1>9. TokenInv'
  <2>1. \A d \in Editors : editor'[d].pc \in HoldPcs =>
          /\ editor[d].pc \in HoldPcs /\ editor'[d].token = editor[d].token
          /\ editor'[d].base = editor[d].base /\ editor'[d].found = editor[d].found
    BY <1>1, <1>3, <1>4
  <2> QED BY <1>5, <2>1 DEF TokenInv, Exists
<1>10. RowInv'
  BY <1>5, <1>6 DEF RowInv, ListTypeOK
<1>11. HeldInv'
  <2> SUFFICES ASSUME NEW e \in ListReaders, reader[e].held.token \in Tokens \ torn
               PROVE  reader[e].held.values = written'[reader[e].held.token]
    BY <1>5 DEF HeldInv
  <2>1. GenuineMeta(VersionOf(reader[e].held), issued, editor)
    BY DEF KnownInv, Known
  <2>2. VersionOf(reader[e].held) # NoMeta
    BY DEF VersionOf, NoMeta, Tokens
  <2>3. reader[e].held.token # t
    BY <1>1, <2>1, <2>2 DEF GenuineMeta, VersionOf
  <2> QED BY <1>6, <2>3 DEF HeldInv, ListTypeOK
<1> QED BY <1>7, <1>8, <1>9, <1>10, <1>11

(* The row that a PUT stores is newer than all that is known, unless the    *)
(* list was deleted.                                                       *)
LEMMA CommitEffect ==
  ASSUME ListInv, NEW c \in Editors, Commit(c)
  PROVE  /\ QuietEffect(c)
         /\ NewMeta(c) \in Meta
         /\ GenuineMeta(NewMeta(c), issued, editor')
         /\ ~deleted => meta.rev < NewMeta(c).rev
<1> USE DEF ListInv
<1>1. QuietEffect(c)
  BY LeaveQuiet DEF Commit
<1>2. editor[c] \in Editing /\ editor[c].pc \in EditPcs \cap HoldPcs
  BY EditingType DEF Commit, EditPcs, HoldPcs
<1>3. /\ editor[c].token \in 1..issued /\ issued \in 0..MaxListWrites
      /\ editor[c].found.token < editor[c].token
      /\ editor[c].found \in Meta /\ meta \in Meta
      /\ Known(editor[c].found, meta, deleted, issued, editor)
      /\ Known(meta, meta, deleted, issued, editor)
  BY <1>2 DEF TokenInv, ListTypeOK, Editing, KnownInv
<1>4. editor[c].found.rev + 1 \in 1..editor[c].token
  BY <1>3 DEF Known, GenuineMeta, NoMeta, Meta
<1>5. NewMeta(c) \in Meta
  BY <1>3, <1>4 DEF NewMeta, Meta
<1>6. GenuineMeta(NewMeta(c), issued, editor')
  <2>1. ASSUME NEW d \in Editors, editor'[d].pc \in HoldPcs
        PROVE  editor'[d].token # editor[c].token
    BY <1>1, <1>2, <2>1 DEF QuietEffect, TokenInv
  <2> QED BY <1>3, <1>4, <2>1 DEF GenuineMeta, NewMeta
<1>7. ASSUME ~deleted
      PROVE  meta.rev < NewMeta(c).rev
  <2>1. CASE Exists(editor[c].found)
    BY <1>2, <1>3, <2>1 DEF Commit, Unchanged, TokenInv, NewMeta, Meta
  <2>2. CASE ~Exists(editor[c].found)
    BY <1>3, <2>2 DEF Commit, Unchanged, NewMeta, Meta, Exists, NoMeta
  <2> QED BY <2>1, <2>2
<1> QED BY <1>1, <1>5, <1>6, <1>7

(* The conditional write of the current row makes one version of the one   *)
(* read.                                                                   *)
LEMMA CommitInv ==
  ASSUME ListInv, NEW c \in Editors, Commit(c)
  PROVE  ListInv'
<1> USE DEF ListInv
<1>1. /\ QuietEffect(c)
      /\ NewMeta(c) \in Meta
      /\ GenuineMeta(NewMeta(c), issued, editor')
      /\ ~deleted => meta.rev < NewMeta(c).rev
  BY CommitEffect
<1>2. /\ meta' = NewMeta(c)
      /\ settled' \in BOOLEAN
      /\ UNCHANGED <<index, rows, written, torn, deleted, issued, deletes, reader>>
  BY DEF Commit
<1>3. ListTypeOK'
  BY <1>1, <1>2 DEF ListTypeOK, QuietEffect, EditorStates
<1>4. KnownInv'
  <2>1. ASSUME NEW m, Known(m, meta, deleted, issued, editor)
        PROVE  Known(m, meta', deleted', issued', editor')
    <3>1. GenuineMeta(m, issued', editor')
      BY <1>1, <1>2, <2>1, QuietGenuine DEF Known
    <3>2. ASSUME ~deleted
          PROVE  m.rev < meta'.rev
      <4>1. m.rev \in Nat
        BY <2>1 DEF Known, GenuineMeta, NoMeta
      <4> QED
      BY <1>1, <1>2, <2>1, <3>2, <4>1 DEF Known, NotAhead, Meta, ListTypeOK
    <3>3. m.rev \in Nat /\ meta'.rev \in Nat
      BY <1>1, <1>2, <2>1 DEF Known, GenuineMeta, NoMeta, Meta
    <3>4. NotAhead(m, meta', deleted')
      BY <1>2, <3>2, <3>3 DEF NotAhead
    <3> QED BY <3>1, <3>4 DEF Known
  <2>2. Known(meta', meta', deleted', issued', editor')
    BY <1>1, <1>2 DEF Known, NotAhead, Meta
  <2>3. \A d \in Editors : editor'[d].pc \in EditPcs =>
           /\ editor'[d].base \in {NoMeta, meta} \/
                (editor[d].pc \in EditPcs /\ editor'[d].base = editor[d].base)
           /\ editor'[d].found \in {NoMeta, meta} \/
                (editor[d].pc \in EditPcs /\ editor'[d].found = editor[d].found)
    BY <1>1 DEF QuietEffect
  <2> QED BY <1>1, <1>2, <2>1, <2>2, <2>3, KnownCarried
<1>5. TokenInv' /\ RowInv' /\ HeldInv'
  BY <1>1, <1>2, QuietTokens DEF RowInv, HeldInv
<1> QED BY <1>3, <1>4, <1>5

(* A deletion starts from the rows that are there.                         *)
LEMMA StartDeleteInv ==
  ASSUME ListInv, NEW c \in Editors, StartDelete(c)
  PROVE  ListInv'
<1> USE DEF ListInv
<1>1. settled \in BOOLEAN
  BY DEF ListTypeOK
<1>2. PICK seen \in {Exists(meta), Exists(meta) /\ settled} :
        editor' = [editor EXCEPT ![c] =
          [pc |-> "erase", meta |-> seen, rest |-> {t \in Tokens : rows[t] # {}}]]
  BY Zenon DEF StartDelete
<1>3. seen \in BOOLEAN
  BY <1>1, <1>2, Zenon DEF Exists
<1>4. [pc |-> "erase", meta |-> seen, rest |-> {t \in Tokens : rows[t] # {}}] \in Deleting
  BY <1>3 DEF Deleting
<1>5. QuietEffect(c)
  BY <1>2, <1>4 DEF QuietEffect, ListTypeOK, EditorStates, HoldPcs, EditPcs
<1>6. /\ deletes' \in 0..MaxListWrites
      /\ UNCHANGED <<meta, index, settled, rows, written, torn, deleted, issued, reader>>
  BY DEF StartDelete, ListTypeOK
<1>7. ListTypeOK'
  BY <1>5, <1>6 DEF ListTypeOK, QuietEffect, EditorStates
<1>8. KnownInv' /\ TokenInv'
  BY <1>5, <1>6, QuietKnown, QuietTokens
<1>9. RowInv' /\ HeldInv'
  BY <1>6 DEF RowInv, HeldInv
<1> QED BY <1>7, <1>8, <1>9

(* Without its row a list has no version.                                  *)
LEMMA EraseMetaInv ==
  ASSUME ListInv, NEW c \in Editors, EraseMeta(c)
  PROVE  ListInv'
<1> USE DEF ListInv
<1>1. editor[c] \in Deleting
  BY DeletingType DEF EraseMeta
<1>2. [editor[c] EXCEPT !.meta = FALSE] \in Deleting
  BY <1>1 DEF Deleting
<1>3. QuietEffect(c)
  BY <1>1, <1>2 DEF EraseMeta, QuietEffect, ListTypeOK, EditorStates, Deleting, HoldPcs, EditPcs
<1>4. /\ meta' = NoMeta /\ deleted' = TRUE
      /\ UNCHANGED <<index, settled, rows, written, torn, issued, deletes, reader>>
  BY DEF EraseMeta
<1>5. ListTypeOK'
  BY <1>3, <1>4, NoMetaType DEF ListTypeOK, QuietEffect, EditorStates
<1>6. KnownInv'
  <2>1. \A m : Known(m, meta, deleted, issued, editor)
                 => Known(m, meta', deleted', issued', editor')
    BY <1>3, <1>4, QuietGenuine DEF Known, NotAhead
  <2>2. Known(meta', meta', deleted', issued', editor')
    BY <1>4 DEF Known, NotAhead, GenuineMeta
  <2>3. \A d \in Editors : editor'[d].pc \in EditPcs =>
           /\ editor'[d].base \in {NoMeta, meta} \/
                (editor[d].pc \in EditPcs /\ editor'[d].base = editor[d].base)
           /\ editor'[d].found \in {NoMeta, meta} \/
                (editor[d].pc \in EditPcs /\ editor'[d].found = editor[d].found)
    BY <1>3 DEF QuietEffect
  <2> QED BY <1>4, <2>1, <2>2, <2>3, NoMetaType, KnownCarried
<1>7. TokenInv' /\ RowInv' /\ HeldInv'
  BY <1>3, <1>4, QuietTokens DEF RowInv, HeldInv
<1> QED BY <1>5, <1>6, <1>7

(* Values that are erased leave their version torn, and no other.          *)
LEMMA EraseRowsInv ==
  ASSUME ListInv, NEW c \in Editors, NEW t \in Tokens, EraseRows(c, t)
  PROVE  ListInv'
<1> USE DEF ListInv
<1>1. editor[c] \in Deleting
  BY DeletingType DEF EraseRows
<1>2. [editor[c] EXCEPT !.rest = @ \ {t}] \in Deleting
  BY <1>1 DEF Deleting
<1>3. editor' = [editor EXCEPT ![c].rest = @ \ {t}] \/ editor' = editor
  BY DEF EraseRows
<1>4. QuietEffect(c)
  BY <1>1, <1>2, <1>3 DEF QuietEffect, ListTypeOK, EditorStates, Deleting, HoldPcs, EditPcs
<1>5. PICK kept \in SUBSET Values : rows' = [rows EXCEPT ![t] = kept]
  <2>1. rows[t] \in SUBSET Values
    BY DEF ListTypeOK
  <2>2. CASE rows' = [rows EXCEPT ![t] = {}]
    BY <2>2
  <2>3. ASSUME NEW v \in rows[t], rows' = [rows EXCEPT ![t] = @ \ {v}]
        PROVE  \E kept \in SUBSET Values : rows' = [rows EXCEPT ![t] = kept]
    <3>1. rows[t] \ {v} \in SUBSET Values
      BY <2>1
    <3> QED BY <2>3, <3>1
  <2> QED BY <2>2, <2>3, Zenon DEF EraseRows
<1>6. /\ torn' = torn \cup {t}
      /\ UNCHANGED <<meta, index, settled, written, deleted, issued, deletes, reader>>
  BY DEF EraseRows
<1>7. ListTypeOK'
  BY <1>4, <1>5, <1>6 DEF ListTypeOK, QuietEffect, EditorStates
<1>8. KnownInv' /\ TokenInv'
  BY <1>4, <1>6, QuietKnown, QuietTokens
<1>9. RowInv' /\ HeldInv'
  BY <1>5, <1>6 DEF RowInv, HeldInv, ListTypeOK
<1> QED BY <1>7, <1>8, <1>9

(* A replica that catches up shows only what was stored.                   *)
LEMMA ReplicateInv ==
  ASSUME ListInv, Replicate
  PROVE  ListInv'
<1> USE DEF ListInv
<1>1. /\ index' = meta /\ settled' = TRUE
      /\ UNCHANGED <<meta, rows, written, torn, deleted, issued, deletes, editor, reader>>
  BY DEF Replicate
<1>2. ListTypeOK'
  BY <1>1 DEF ListTypeOK
<1>3. KnownInv'
  BY <1>1 DEF KnownInv
<1>4. TokenInv' /\ RowInv' /\ HeldInv'
  BY <1>1 DEF TokenInv, RowInv, HeldInv
<1> QED BY <1>2, <1>3, <1>4

(* A reader holds what it held, or what it has just loaded.                 *)
LEMMA ReaderInv ==
  ASSUME ListInv, NEW e \in ListReaders, LoadMeta(e) \/ LoadValues(e)
  PROVE  ListInv'
<1> USE DEF ListInv
<1>1. UNCHANGED <<table, editor>>
  BY DEF LoadMeta, LoadValues
<1>2. reader \in [ListReaders -> [named : Meta, loading : BOOLEAN, held : Snapshot]]
  BY DEF ListTypeOK
<1> DEFINE m == reader[e].named
           loaded == IF ListedValues(m) = {} THEN NoSnapshot
                     ELSE [token |-> m.token, rev |-> m.rev, values |-> ListedValues(m)]
<1>3. /\ loaded \in Snapshot
      /\ VersionOf(loaded) \in {m, NoMeta}
      /\ loaded.token \in Tokens \ torn => loaded.values = written[loaded.token]
  <2>1. CASE m = NoMeta
    BY <2>1 DEF ListedValues, Exists, NoSnapshot, NoMeta, VersionOf, Snapshot, Tokens
  <2>2. CASE m # NoMeta
    <3>1. m \in Meta /\ m.token \in Tokens
      BY <1>2, <2>2 DEF KnownInv, Known, GenuineMeta, ListTypeOK, Tokens, Meta
    <3>2. ListedValues(m) = rows[m.token] /\ rows[m.token] \in SUBSET Values
      BY <2>2, <3>1 DEF ListedValues, Exists, ListTypeOK
    <3>3. CASE ListedValues(m) = {}
      BY <3>3 DEF NoSnapshot, NoMeta, VersionOf, Snapshot, Tokens
    <3>4. CASE ListedValues(m) # {}
      <4>1. loaded = [token |-> m.token, rev |-> m.rev, values |-> rows[m.token]]
        BY <3>2, <3>4
      <4> HIDE DEF loaded, m
      <4>2. loaded \in Snapshot
        BY <3>1, <3>2, <4>1 DEF Snapshot, Meta
      <4>3. VersionOf(loaded) = m
        BY <3>1, <4>1 DEF VersionOf, Meta
      <4>4. loaded.token \in Tokens \ torn => loaded.values = written[loaded.token]
        BY <4>1 DEF RowInv
      <4> QED BY <4>2, <4>3, <4>4
    <3> QED BY <3>3, <3>4
  <2> QED BY <2>1, <2>2
<1> DEFINE x == reader'[e]
<1>4. /\ reader' \in [ListReaders -> [named : Meta, loading : BOOLEAN, held : Snapshot]]
      /\ \A d \in ListReaders \ {e} : reader'[d] = reader[d]
      /\ x.named \in {index, NoMeta}
      /\ x.held \in {reader[e].held, loaded}
  <2>1. CASE LoadMeta(e)
    <3>1. [reader[e] EXCEPT !.loading = TRUE, !.named = index]
            \in [named : Meta, loading : BOOLEAN, held : Snapshot]
      BY <1>2 DEF ListTypeOK
    <3>2. reader' = [reader EXCEPT ![e] = [reader[e] EXCEPT !.loading = TRUE, !.named = index]]
      BY <2>1 DEF LoadMeta
    <3> QED BY <1>2, <3>1, <3>2
  <2>2. CASE LoadValues(e)
    <3>1. PICK s \in {loaded, reader[e].held} :
            reader' = [reader EXCEPT ![e] = [named |-> NoMeta, loading |-> FALSE, held |-> s]]
      BY <2>2, Zenon DEF LoadValues
    <3>2. s \in Snapshot
      BY <1>2, <1>3, <3>1
    <3> HIDE DEF loaded
    <3> QED BY <1>2, <3>1, <3>2, NoMetaType
  <2> QED BY <2>1, <2>2
<1>5. ListTypeOK'
  BY <1>1, <1>4 DEF ListTypeOK, table
<1>6. \A d \in ListReaders :
        /\ reader'[d].named \in {reader[d].named, index, NoMeta}
        /\ VersionOf(reader'[d].held) \in {VersionOf(reader[d].held), reader[d].named, NoMeta}
  BY <1>3, <1>4
<1>7. KnownInv'
  <2>1. Known(meta', meta', deleted', issued', editor')
    BY <1>1 DEF KnownInv, table
  <2>2. meta' \in Meta
    BY <1>5 DEF ListTypeOK
  <2>3. \A k : Known(k, meta, deleted, issued, editor)
                 => Known(k, meta', deleted', issued', editor')
    BY <1>1 DEF table
  <2> QED BY <1>1, <1>6, <2>1, <2>2, <2>3, KnownCarried DEF table
<1>8. HeldInv'
  BY <1>1, <1>3, <1>4 DEF HeldInv, table
<1>9. TokenInv' /\ RowInv'
  BY <1>1 DEF TokenInv, RowInv, table
<1> QED BY <1>5, <1>7, <1>8, <1>9

(* The invariant holds of an empty table.                                  *)
LEMMA ListInitInv == ListInit => ListInv
<1> SUFFICES ASSUME ListInit PROVE ListInv
  OBVIOUS
<1>1. ListTypeOK
  <2>1. [named |-> NoMeta, loading |-> FALSE, held |-> NoSnapshot]
          \in [named : Meta, loading : BOOLEAN, held : Snapshot]
    BY NoMetaType DEF NoSnapshot, Snapshot
  <2>2. reader \in [ListReaders -> [named : Meta, loading : BOOLEAN, held : Snapshot]]
    BY <2>1 DEF ListInit
  <2>3. editor \in [Editors -> {Resting} \cup Editing \cup Deleting]
    BY DEF ListInit
  <2>4. rows \in [Tokens -> SUBSET Values] /\ written \in [Tokens -> SUBSET Values]
    BY DEF ListInit, Nothing
  <2>5. settled \in BOOLEAN /\ deleted \in BOOLEAN
    BY Zenon DEF ListInit
  <2>6. meta \in Meta /\ index \in Meta /\ torn \in SUBSET Tokens
    BY NoMetaType DEF ListInit
  <2>7. issued \in 0..MaxListWrites /\ deletes \in 0..MaxListWrites
    BY DEF ListInit
  <2> QED BY <2>2, <2>3, <2>4, <2>5, <2>6, <2>7, Zenon DEF ListTypeOK
<1>2. KnownInv
  BY DEF ListInit, KnownInv, Known, GenuineMeta, NotAhead, NoMeta, VersionOf, NoSnapshot,
         Resting, EditPcs
<1>3. TokenInv /\ RowInv /\ HeldInv
  BY DEF ListInit, TokenInv, RowInv, HeldInv, NoSnapshot, Resting, HoldPcs, Nothing, Tokens
<1> QED BY <1>1, <1>2, <1>3 DEF ListInv

(* Every step keeps the invariant.                                         *)
LEMMA ListStepInv == ListInv /\ [ListNext]_listVars => ListInv'
<1> SUFFICES ASSUME ListInv, [ListNext]_listVars PROVE ListInv'
  OBVIOUS
<1>1. CASE UNCHANGED listVars
  BY <1>1 DEF listVars, ListInv, ListTypeOK, KnownInv, TokenInv, RowInv, HeldInv
<1>2. ASSUME NEW c \in Editors,
             \/ \E e \in Edits : StartCreate(c, e) \/ GetMeta(c, e)
             \/ GetValues(c) \/ PutRefused(c) \/ CommitRefused(c) \/ Abandon(c)
      PROVE  ListInv'
  BY <1>2, QuietInv, Zenon DEF Quiet
<1>3. ASSUME NEW c \in Editors,
             \/ PutRead(c) \/ WriteValues(c) \/ Commit(c) \/ StartDelete(c) \/ EraseMeta(c)
             \/ \E t \in Tokens : EraseRows(c, t)
      PROVE  ListInv'
  BY <1>3, PutReadInv, WriteValuesInv, CommitInv, StartDeleteInv, EraseMetaInv, EraseRowsInv,
     Zenon
<1>4. CASE Replicate
  BY <1>4, ReplicateInv
<1>5. ASSUME NEW e \in ListReaders, LoadMeta(e) \/ LoadValues(e)
      PROVE  ListInv'
  BY <1>5, ReaderInv
<1> QED BY <1>1, <1>2, <1>3, <1>4, <1>5, Zenon DEF ListNext

(* Rows, snapshots and requests keep their types; revisions stay within the *)
(* number of PUTs (the /lists endpoints).                                  *)
THEOREM ListTypesHold == ListSpec => []ListTypeOK
<1>1. ListInv => ListTypeOK
  BY DEF ListInv
<1> QED BY <1>1, ListInitInv, ListStepInv, PTL DEF ListSpec

-----------------------------------------------------------------------------
(* Lists: the properties                                                   *)

(* What the invariant says of the snapshots that evaluators hold.          *)
LEMMA ListInvSnapshots == ListInv => SnapshotsAreWhole
<1> SUFFICES ASSUME ListInv, NEW e \in ListReaders, reader[e].held.token # 0
             PROVE  /\ reader[e].held.token \notin torn =>
                          reader[e].held.values = written[reader[e].held.token]
                    /\ ~deleted /\ reader[e].held.rev = meta.rev =>
                          reader[e].held.token = meta.token
  BY Zenon DEF SnapshotsAreWhole
<1>1. reader[e].held \in Snapshot
  BY DEF ListInv, ListTypeOK
<1>2. reader[e].held.token \in Tokens
  BY <1>1 DEF Snapshot, Tokens
<1>3. Known(VersionOf(reader[e].held), meta, deleted, issued, editor)
  BY DEF ListInv, KnownInv
<1> QED BY <1>2, <1>3 DEF ListInv, HeldInv, Known, NotAhead, VersionOf

(* An evaluator never holds a mixture of two versions of a list nor a part  *)
(* of one, for any number of writers, and unless the list was deleted a     *)
(* revision names one content (src/infra/detection_lists_repository.py).    *)
THEOREM SnapshotsStayWhole == ListSpec => []SnapshotsAreWhole
BY ListInvSnapshots, ListInitInv, ListStepInv, PTL DEF ListSpec

(* Only c's own commit makes the row of c's token.                          *)
LEMMA CommitBuildsOnBase ==
  ASSUME ListInv, [ListNext]_listVars, NEW c \in Editors, editor[c].pc = "commit",
         meta' = NewMeta(c), Exists(meta), ~deleted
  PROVE  editor[c].base = meta
<1>1. /\ editor[c].token \in 1..issued
      /\ \A d \in Editors \ {c} : editor[d].pc \in HoldPcs => editor[c].token # editor[d].token
      /\ Exists(editor[c].found) => editor[c].base.rev = editor[c].found.rev
      /\ meta.token # editor[c].token
      /\ Known(editor[c].base, meta, deleted, issued, editor)
  BY DEF ListInv, TokenInv, HoldPcs, EditPcs, KnownInv, Known, GenuineMeta, Exists
<1>2. meta'.token = editor[c].token
  BY DEF NewMeta
<1>3. meta' # meta /\ meta' # NoMeta
  BY <1>1, <1>2 DEF NoMeta
<1>4. \E d \in Editors : Commit(d)
  BY <1>3, Zenon DEF ListNext, listVars, StartCreate, GetMeta, GetValues, PutRead, PutRefused,
     WriteValues, CommitRefused, StartDelete, EraseMeta, EraseRows, Abandon, Replicate, LoadMeta,
     LoadValues, table
<1>5. PICK d \in Editors : Commit(d)
  BY <1>4
<1>6. editor[d].pc \in HoldPcs /\ meta'.token = editor[d].token
  BY <1>5 DEF Commit, NewMeta, HoldPcs
<1>7. d = c
  BY <1>1, <1>2, <1>6
<1>8. Exists(editor[c].found) /\ meta.rev = editor[c].base.rev
  BY <1>5, <1>7 DEF Commit, Unchanged
<1> QED BY <1>1, <1>8 DEF Known, NotAhead

(* No edit of a list is lost, for any number of clients: a PUT that replaces *)
(* a version was computed from that very version.                          *)
THEOREM ListEditsBuild == ListSpec => EditsBuildOnEachOther
<1>1. ListInv /\ [ListNext]_listVars =>
        [\A c \in Editors :
           editor[c].pc = "commit" /\ meta' = NewMeta(c) /\ Exists(meta) /\ ~deleted
             => editor[c].base = meta]_listVars
  BY CommitBuildsOnBase
<1> QED BY <1>1, ListInitInv, ListStepInv, PTL DEF ListSpec, EditsBuildOnEachOther

-----------------------------------------------------------------------------
(* Lists: a list is a register                                             *)

(* What was asked to be stored as the version that a row names.            *)
Content(m, w) == IF m # NoMeta THEN w[m.token] ELSE {}

Solid(m, w) == m # NoMeta => w[m.token] # {}

(* The edit that x stores was made to what it read.                        *)
Computed(x, w) ==
  /\ x.values = Edited(x.edit, Content(x.base, w))
  /\ x.edit.kind \in {"add", "remove"} => x.base # NoMeta /\ x.values # Content(x.base, w)

StorePcs == {"put", "write", "commit"}

(* What an editor x knows, if w was written, t torn and the list gone or not. *)
Worked(x, w, t, gone) ==
  /\ x.pc = "values" /\ x.edit.kind \in {"add", "remove"} => x.base # NoMeta
  /\ x.pc \in StorePcs => x.values # {} /\ (t = {} => Computed(x, w))
  /\ x.pc = "commit" => w[x.token] = x.values
  /\ x.pc \in HoldPcs /\ x.base # NoMeta /\ ~gone => x.found # NoMeta

EditInv == \A c \in Editors : Worked(editor[c], written, torn, deleted)

(* Every row that may be shown has values.                                 *)
SolidInv ==
  /\ Solid(meta, written)
  /\ Solid(index, written)
  /\ \A e \in ListReaders : Solid(reader[e].named, written)

(* An evaluator r is not ahead of what it loads, nor that of the index ix. *)
Follows(r, ix) ==
  /\ r.held.rev <= ix.rev
  /\ r.loading => r.held.rev <= r.named.rev /\ r.named.rev <= ix.rev

BehindInv == ~deleted => \A e \in ListReaders : Follows(reader[e], index)

RegisterInv == ListInv /\ EditInv /\ SolidInv /\ BehindInv

(* An editor that nobody disturbs knows what it knew.                      *)
LEMMA WorkedKept ==
  ASSUME NEW x, NEW w, NEW t, NEW gone, NEW v, NEW s, NEW left,
         Worked(x, w, t, gone),
         s = {} => t = {},
         ~left => ~gone,
         x.pc \in StorePcs => Content(x.base, v) = Content(x.base, w),
         x.pc = "commit" => v[x.token] = w[x.token]
  PROVE  Worked(x, v, s, left)
BY DEF Worked, Computed

(* Nothing is known of who edits nothing.                                  *)
LEMMA WorkedIdle ==
  ASSUME NEW x, x.pc \notin {"values"} \cup StorePcs, NEW w, NEW t, NEW gone
  PROVE  Worked(x, w, t, gone)
BY DEF Worked, StorePcs, HoldPcs

(* Nothing that is lost is found again, and values are written once.       *)
Persists(c) ==
  /\ torn' = {} => torn = {}
  /\ ~deleted' => ~deleted
  /\ written' = written \/
       /\ editor[c].pc = "write"
       /\ written' = [written EXCEPT ![editor[c].token] = editor[c].values]

(* A step of one editor leaves the others with what they know.              *)
LEMMA OthersWorked ==
  ASSUME ListInv, EditInv, NEW c \in Editors, NEW d \in Editors \ {c}, editor'[d] = editor[d],
         Persists(c)
  PROVE  Worked(editor'[d], written', torn', deleted')
<1>0. (torn' = {} => torn = {}) /\ (~deleted' => ~deleted)
  BY Zenon DEF Persists
<1>1. Worked(editor[d], written, torn, deleted)
  BY DEF EditInv
<1>2. CASE written' = written
  BY <1>0, <1>1, <1>2, WorkedKept
<1>3. CASE /\ editor[c].pc = "write"
           /\ written' = [written EXCEPT ![editor[c].token] = editor[c].values]
  <2>1. editor[c].pc \in HoldPcs
    BY <1>3 DEF HoldPcs
  <2>2. \A t \in Tokens : t # editor[c].token => written'[t] = written[t]
    BY <1>3 DEF ListInv, ListTypeOK
  <2>3. ASSUME editor[d].pc \in StorePcs
        PROVE  Content(editor[d].base, written') = Content(editor[d].base, written)
    <3>1. GenuineMeta(editor[d].base, issued, editor) /\ issued \in 0..MaxListWrites
      BY <2>3 DEF ListInv, ListTypeOK, KnownInv, Known, StorePcs, EditPcs
    <3>2. editor[d].base # NoMeta =>
            editor[d].base.token \in Tokens /\ editor[d].base.token # editor[c].token
      BY <2>1, <3>1 DEF GenuineMeta, Tokens
    <3> QED
      BY <2>2, <3>2 DEF Content
  <2>4. ASSUME editor[d].pc = "commit"
        PROVE  written'[editor[d].token] = written[editor[d].token]
    <3>1. editor[d].token \in Tokens /\ editor[d].token # editor[c].token
      BY <2>1, <2>4 DEF ListInv, TokenInv, HoldPcs, ListTypeOK, Tokens
    <3> QED
      BY <2>2, <3>1
  <2> QED
    BY <1>0, <1>1, <2>3, <2>4, WorkedKept
<1> QED
  BY <1>2, <1>3, Zenon DEF Persists

(* What editor c knows after a step of its own.                            *)
LEMMA CreateWorked ==
  ASSUME ListTypeOK, NEW c \in Editors, NEW e \in Edits, StartCreate(c, e)
  PROVE  Worked(editor'[c], written', torn', deleted')
<1> DEFINE x == [Request("put", e) EXCEPT !.values = e.value]
<1>1. editor' = [editor EXCEPT ![c] = x] /\ e.kind = "create"
  BY Zenon DEF StartCreate
<1>2. /\ x.pc = "put" /\ x.edit = e /\ x.base = NoMeta /\ x.values = e.value
  BY DEF Request
<1>3. e.value # {}
  BY <1>1 DEF Edits
<1>4. Edited(e, {}) = e.value
  BY <1>1, Zenon DEF Edited
<1>5. editor'[c] = x
  BY <1>1 DEF ListTypeOK
<1> HIDE DEF x
<1>6. Worked(x, written', torn', deleted')
  BY <1>1, <1>2, <1>3, <1>4 DEF Worked, Computed, Content, StorePcs, HoldPcs
<1> QED
  BY <1>5, <1>6

(* An addition or a removal is one to a list that was there.               *)
LEMMA GetMetaWorked ==
  ASSUME ListTypeOK, NEW c \in Editors, NEW e \in Edits, GetMeta(c, e)
  PROVE  Worked(editor'[c], written', torn', deleted')
<1>1. e.kind \in {"add", "remove"} => meta # NoMeta
  BY DEF GetMeta, Exists
<1>2. PICK x : editor'[c] = x /\ x.pc = "values" /\ x.edit = e /\ x.base = meta
  <2>1. CASE /\ editor[c] = Resting
             /\ editor' = [editor EXCEPT ![c] = [Request("values", e) EXCEPT !.base = meta]]
    <3> DEFINE y == [Request("values", e) EXCEPT !.base = meta]
    <3>1. y.pc = "values" /\ y.edit = e /\ y.base = meta
      BY DEF Request
    <3>2. editor'[c] = y
      BY <2>1 DEF ListTypeOK
    <3> HIDE DEF y
    <3> QED
      BY <3>1, <3>2
  <2>2. CASE /\ editor[c].pc = "get" /\ editor[c].edit = e
             /\ editor' = [editor EXCEPT ![c].base = meta, ![c].pc = "values"]
    <3>1. editor[c] \in Editing
      BY <2>2, EditingType DEF EditPcs
    <3> QED
      BY <2>2, <3>1 DEF ListTypeOK, Editing
  <2> QED
    BY <2>1, <2>2, Zenon DEF GetMeta
<1>3. Worked(x, written', torn', deleted')
  BY <1>1, <1>2 DEF Worked, StorePcs, HoldPcs
<1> QED
  BY <1>2, <1>3

(* The values read are those of the version, until a DELETE takes some.     *)
LEMMA ListedContent ==
  ASSUME ListInv, torn = {}, NEW m, GenuineMeta(m, issued, editor)
  PROVE  ListedValues(m) = Content(m, written)
<1>1. m # NoMeta => m.token \in Tokens
  BY DEF GenuineMeta, ListInv, ListTypeOK, Tokens
<1> QED
  BY <1>1 DEF ListedValues, Content, Exists, ListInv, RowInv

(* What is to be stored is the edit made to what was read.                 *)
LEMMA GetValuesWorked ==
  ASSUME ListInv, EditInv, NEW c \in Editors, GetValues(c)
  PROVE  Worked(editor'[c], written', torn', deleted')
<1>1. /\ editor[c].pc = "values" /\ editor[c] \in Editing
      /\ GenuineMeta(editor[c].base, issued, editor)
      /\ UNCHANGED <<written, torn, deleted>>
  BY EditingType DEF GetValues, EditPcs, ListInv, KnownInv, Known, table
<1> DEFINE read == ListedValues(editor[c].base)
           asked == Edited(editor[c].edit, read)
           x == [editor[c] EXCEPT !.values = asked, !.pc = "put"]
<1>2. \/ Leave(c)
      \/ /\ editor' = [editor EXCEPT ![c].values = asked, ![c].pc = "put"]
         /\ asked # {}
         /\ asked # read \/ editor[c].edit.kind = "replace"
  <2>1. IF asked = {} \/ (asked = read /\ editor[c].edit.kind # "replace")
        THEN Leave(c)
        ELSE editor' = [editor EXCEPT ![c].values = asked, ![c].pc = "put"]
    BY Zenon DEF GetValues
  <2> HIDE DEF asked, read
  <2> QED
    BY <2>1
<1>3. torn = {} => read = Content(editor[c].base, written)
  BY <1>1, ListedContent
<1> HIDE DEF read
<1>4. CASE Leave(c)
  BY <1>4, WorkedIdle DEF Leave, ListInv, ListTypeOK, Resting, StorePcs
<1>5. CASE /\ editor' = [editor EXCEPT ![c].values = asked, ![c].pc = "put"]
           /\ asked # {}
           /\ asked # read \/ editor[c].edit.kind = "replace"
  <2>1. editor' = [editor EXCEPT ![c] = x]
    BY <1>5
  <2>2. editor'[c] = x
    BY <2>1 DEF ListInv, ListTypeOK
  <2> HIDE DEF asked
  <2>3. /\ x.pc = "put" /\ x.values = asked /\ x.base = editor[c].base /\ x.edit = editor[c].edit
    BY <1>1 DEF Editing
  <2> HIDE DEF x
  <2>4. asked = Edited(editor[c].edit, read)
    BY DEF asked
  <2>5. editor[c].edit.kind \in {"add", "remove"} => editor[c].base # NoMeta
    BY <1>1 DEF EditInv, Worked
  <2>6. torn = {} => Computed(x, written)
    BY <1>3, <1>5, <2>3, <2>4, <2>5 DEF Computed
  <2>7. Worked(x, written, torn, deleted)
    BY <1>5, <2>3, <2>6 DEF Worked, StorePcs, HoldPcs
  <2> QED
    BY <1>1, <2>2, <2>7
<1> QED
  BY <1>2, <1>4, <1>5

(* A list that was read and not deleted is still there.                    *)
LEMMA StillThere ==
  ASSUME ListInv, NEW m, Known(m, meta, deleted, issued, editor), m # NoMeta, ~deleted
  PROVE  meta # NoMeta
<1>1. /\ m.token \in 1..issued /\ issued \in 0..MaxListWrites
      /\ m.rev \in 1..m.token /\ m.rev <= meta.rev
  BY DEF Known, GenuineMeta, NotAhead, ListInv, ListTypeOK
<1> QED
  BY <1>1 DEF NoMeta

(* A PUT finds the list that its request was made for, if any.             *)
LEMMA PutReadWorked ==
  ASSUME ListInv, EditInv, NEW c \in Editors, PutRead(c)
  PROVE  Worked(editor'[c], written', torn', deleted')
<1>1. /\ editor[c].pc = "put" /\ editor[c] \in Editing
      /\ Known(editor[c].base, meta, deleted, issued, editor)
      /\ UNCHANGED <<written, torn, deleted>>
  BY EditingType DEF PutRead, EditPcs, ListInv, KnownInv
<1> DEFINE x == [editor[c] EXCEPT !.found = meta, !.token = FreshToken, !.pc = "write"]
<1>2. editor' = [editor EXCEPT ![c] = x]
  BY DEF PutRead
<1>3. editor'[c] = x
  BY <1>2 DEF ListInv, ListTypeOK
<1>4. /\ x.pc = "write" /\ x.found = meta /\ x.values = editor[c].values
      /\ x.base = editor[c].base /\ x.edit = editor[c].edit
  BY <1>1 DEF Editing
<1> HIDE DEF x
<1>5. x.base # NoMeta /\ ~deleted => x.found # NoMeta
  BY <1>1, <1>4, StillThere
<1>6. x.values # {} /\ (torn = {} => Computed(x, written))
  BY <1>1, <1>4 DEF EditInv, Worked, StorePcs, Computed
<1>7. Worked(x, written, torn, deleted)
  BY <1>4, <1>5, <1>6 DEF Worked
<1> QED
  BY <1>1, <1>3, <1>7

(* The values stand under the token that the metadata row will name.       *)
LEMMA WriteValuesWorked ==
  ASSUME ListInv, EditInv, NEW c \in Editors, WriteValues(c)
  PROVE  Worked(editor'[c], written', torn', deleted')
<1> DEFINE t == editor[c].token
<1>1. /\ editor[c].pc = "write" /\ editor[c] \in Editing
      /\ GenuineMeta(editor[c].base, issued, editor)
      /\ t \in Tokens
      /\ written' = [written EXCEPT ![t] = editor[c].values]
      /\ UNCHANGED <<torn, deleted>>
  BY EditingType DEF WriteValues, EditPcs, HoldPcs, ListInv, ListTypeOK, KnownInv, Known, TokenInv,
     Tokens
<1> DEFINE x == [editor[c] EXCEPT !.pc = "commit"]
<1>2. editor' = [editor EXCEPT ![c] = x]
  BY DEF WriteValues, GoTo
<1>3. editor'[c] = x
  BY <1>2 DEF ListInv, ListTypeOK
<1>4. /\ x.pc = "commit" /\ x.found = editor[c].found /\ x.values = editor[c].values
      /\ x.base = editor[c].base /\ x.edit = editor[c].edit /\ x.token = t
  BY <1>1 DEF Editing
<1> HIDE DEF x
<1>5. written'[t] = editor[c].values /\ \A u \in Tokens : u # t => written'[u] = written[u]
  BY <1>1 DEF ListInv, ListTypeOK
<1>6. Content(x.base, written') = Content(x.base, written)
  <2>1. x.base # NoMeta => x.base.token \in Tokens /\ x.base.token # t
    BY <1>1, <1>4 DEF GenuineMeta, HoldPcs, ListInv, ListTypeOK, Tokens
  <2> QED
    BY <1>5, <2>1 DEF Content
<1>7. Worked(editor[c], written, torn, deleted)
  BY DEF EditInv
<1>8. x.values # {} /\ (torn = {} => Computed(x, written'))
  BY <1>1, <1>4, <1>6, <1>7 DEF Worked, StorePcs, Computed
<1>9. x.base # NoMeta /\ ~deleted => x.found # NoMeta
  BY <1>1, <1>4, <1>7 DEF Worked, HoldPcs
<1>10. Worked(x, written', torn, deleted)
  BY <1>4, <1>5, <1>8, <1>9 DEF Worked
<1> QED
  BY <1>1, <1>3, <1>10

(* Requests that end, are refused, or delete.                              *)
LEMMA OtherWorked ==
  ASSUME ListTypeOK, NEW c \in Editors,
         \/ PutRefused(c) \/ CommitRefused(c) \/ Commit(c) \/ StartDelete(c) \/ EraseMeta(c)
         \/ \E t \in Tokens : EraseRows(c, t)
         \/ Abandon(c)
  PROVE  Worked(editor'[c], written', torn', deleted')
<1>1. CASE Leave(c)
  BY <1>1, WorkedIdle DEF Leave, ListTypeOK, Resting, StorePcs
<1>2. CASE (PutRefused(c) \/ CommitRefused(c)) /\ ~Leave(c)
  <2>1. editor[c] \in Editing
    BY <1>2, EditingType DEF PutRefused, CommitRefused, EditPcs
  <2>2. editor' = [editor EXCEPT ![c].pc = "get", ![c].base = NoMeta, ![c].found = NoMeta,
                                 ![c].values = {}, ![c].token = 0, ![c].attempts = @ + 1]
    BY <1>2, Zenon DEF PutRefused, CommitRefused, Conflict
  <2>3. editor'[c].pc = "get"
    BY <2>1, <2>2 DEF ListTypeOK, Editing
  <2> QED
    BY <2>3, WorkedIdle DEF StorePcs
<1>3. CASE StartDelete(c)
  <2>1. editor'[c].pc = "erase"
    BY <1>3 DEF StartDelete, ListTypeOK
  <2> QED
    BY <2>1, WorkedIdle DEF StorePcs
<1>4. CASE EraseMeta(c) \/ \E t \in Tokens : EraseRows(c, t)
  <2>1. editor[c] \in Deleting
    BY <1>4, DeletingType DEF EraseMeta, EraseRows
  <2>2. editor'[c].pc = "erase"
    BY <1>4, <2>1 DEF EraseMeta, EraseRows, ListTypeOK, Deleting
  <2> QED
    BY <2>2, WorkedIdle DEF StorePcs
<1> QED
  BY <1>1, <1>2, <1>3, <1>4 DEF Commit, Abandon

(* A step of one editor is one of nobody else.                             *)
EditorStep(c) ==
  \/ \E e \in Edits : StartCreate(c, e) \/ GetMeta(c, e)
  \/ GetValues(c) \/ PutRead(c) \/ PutRefused(c) \/ WriteValues(c) \/ Commit(c)
  \/ CommitRefused(c) \/ StartDelete(c) \/ EraseMeta(c)
  \/ \E t \in Tokens : EraseRows(c, t)
  \/ Abandon(c)

LEMMA OthersUntouched ==
  ASSUME ListTypeOK, NEW c \in Editors, EditorStep(c), NEW d \in Editors \ {c}
  PROVE  editor'[d] = editor[d]
<1>1. ASSUME Leave(c) \/ Conflict(c)
      PROVE  editor'[d] = editor[d]
  BY <1>1 DEF Leave, Conflict, ListTypeOK
<1>2. ASSUME NEW e \in Edits, StartCreate(c, e) \/ GetMeta(c, e)
      PROVE  editor'[d] = editor[d]
  BY <1>2 DEF StartCreate, GetMeta, ListTypeOK
<1>3. ASSUME GetValues(c)
      PROVE  editor'[d] = editor[d]
  <2> DEFINE asked == Edited(editor[c].edit, ListedValues(editor[c].base))
  <2>1. Leave(c) \/ editor' = [editor EXCEPT ![c].values = asked, ![c].pc = "put"]
    BY <1>3, Zenon DEF GetValues
  <2> HIDE DEF asked
  <2> QED
    BY <1>1, <2>1 DEF ListTypeOK
<1>4. ASSUME PutRead(c) \/ WriteValues(c) \/ StartDelete(c) \/ EraseMeta(c)
      PROVE  editor'[d] = editor[d]
  BY <1>4 DEF PutRead, WriteValues, StartDelete, EraseMeta, GoTo, ListTypeOK
<1>5. ASSUME NEW t \in Tokens, EraseRows(c, t)
      PROVE  editor'[d] = editor[d]
  BY <1>5 DEF EraseRows, ListTypeOK
<1>6. ASSUME PutRefused(c) \/ Commit(c) \/ CommitRefused(c) \/ Abandon(c)
      PROVE  editor'[d] = editor[d]
  BY <1>1, <1>6, Zenon DEF PutRefused, Commit, CommitRefused, Abandon
<1> QED
  BY <1>2, <1>3, <1>4, <1>5, <1>6, Zenon DEF EditorStep

(* Every step keeps that.                                                  *)
LEMMA EditorPersists ==
  ASSUME NEW c \in Editors, EditorStep(c)
  PROVE  Persists(c)
<1>1. CASE UNCHANGED <<written, torn, deleted>>
  BY <1>1, Zenon DEF Persists
<1>2. CASE WriteValues(c)
  BY <1>2, Zenon DEF WriteValues, Persists
<1>3. CASE EraseMeta(c)
  BY <1>3 DEF EraseMeta, Persists
<1>4. ASSUME NEW t \in Tokens, EraseRows(c, t)
      PROVE  Persists(c)
  BY <1>4 DEF EraseRows, Persists
<1> QED
  BY <1>1, <1>2, <1>3, <1>4, Zenon DEF EditorStep, StartCreate, GetMeta, GetValues, PutRead,
     PutRefused, Commit, CommitRefused, StartDelete, Abandon, table

(* What editors know, they know until they leave.                          *)
LEMMA EditorWorked ==
  ASSUME ListInv, EditInv, NEW c \in Editors, EditorStep(c)
  PROVE  EditInv'
<1>1. Worked(editor'[c], written', torn', deleted')
  <2>0. ListTypeOK
    BY DEF ListInv
  <2> QED
    BY <2>0, CreateWorked, GetMetaWorked, GetValuesWorked, PutReadWorked, WriteValuesWorked,
       OtherWorked, Zenon DEF EditorStep
<1>2. ASSUME NEW d \in Editors \ {c}
      PROVE  Worked(editor'[d], written', torn', deleted')
  <2>1. editor'[d] = editor[d]
    BY OthersUntouched DEF ListInv
  <2> QED
    BY <2>1, EditorPersists, OthersWorked
<1> QED
  BY <1>1, <1>2 DEF EditInv

(* The metadata of readers and of the index is that of the list or older.   *)
ReadersStep == Replicate \/ \E e \in ListReaders : LoadMeta(e) \/ LoadValues(e)

(* Each step is one of an editor or one of the readers.                    *)
LEMMA ListNextSplit ==
  ASSUME ListNext
  PROVE  ReadersStep \/ \E c \in Editors : EditorStep(c)
BY Zenon DEF ListNext, ReadersStep, EditorStep

(* Readers write nothing.                                                  *)
LEMMA ReadersQuiet ==
  ASSUME ReadersStep
  PROVE  UNCHANGED <<meta, rows, written, torn, deleted, issued, editor>>
BY Zenon DEF ReadersStep, Replicate, LoadMeta, LoadValues, table

(* So every step keeps what editors know.                                  *)
LEMMA EditStepInv ==
  ASSUME ListInv, EditInv, [ListNext]_listVars
  PROVE  EditInv'
<1>1. CASE UNCHANGED <<written, torn, deleted, editor>>
  BY <1>1, Zenon DEF EditInv
<1>2. ASSUME NEW c \in Editors, EditorStep(c)
      PROVE  EditInv'
  BY <1>2, EditorWorked
<1> QED
  BY <1>1, <1>2, ListNextSplit, ReadersQuiet, Zenon DEF listVars

(* What was written under the token of a row that was stored stays.         *)
LEMMA ContentStays ==
  ASSUME ListInv, NEW c \in Editors, Persists(c), NEW m, GenuineMeta(m, issued, editor)
  PROVE  Content(m, written') = Content(m, written) /\ (Solid(m, written) => Solid(m, written'))
<1>1. CASE written' = written
  BY <1>1
<1>2. CASE /\ editor[c].pc = "write"
           /\ written' = [written EXCEPT ![editor[c].token] = editor[c].values]
  <2>1. m # NoMeta => m.token \in Tokens /\ m.token # editor[c].token
    BY <1>2 DEF GenuineMeta, HoldPcs, ListInv, ListTypeOK, Tokens
  <2>2. \A t \in Tokens : t # editor[c].token => written'[t] = written[t]
    BY <1>2 DEF ListInv, ListTypeOK
  <2> QED
    BY <2>1, <2>2 DEF Content, Solid
<1> QED
  BY <1>1, <1>2 DEF Persists

(* The row that a step leaves is the one before it, none, or that of a PUT. *)
LEMMA MetaFrom ==
  ASSUME NEW c \in Editors, EditorStep(c)
  PROVE  meta' = meta \/ meta' = NoMeta \/ Commit(c)
BY Zenon DEF EditorStep, StartCreate, GetMeta, GetValues, PutRead, PutRefused, WriteValues,
   CommitRefused, StartDelete, EraseMeta, EraseRows, Abandon, table

(* Editors show nothing to the readers.                                    *)
LEMMA EditorShows ==
  ASSUME NEW c \in Editors, EditorStep(c)
  PROVE  index' = index /\ reader' = reader
BY Zenon DEF EditorStep, StartCreate, GetMeta, GetValues, PutRead, PutRefused, WriteValues, Commit,
   CommitRefused, StartDelete, EraseMeta, EraseRows, Abandon, table

(* What the readers' steps put where.                                      *)
LEMMA ReadersShow ==
  ASSUME ListTypeOK, ReadersStep
  PROVE  /\ index' \in {index, meta}
         /\ \A e \in ListReaders : reader'[e].named \in {reader[e].named, index, NoMeta}
<1>1. CASE Replicate
  BY <1>1 DEF Replicate
<1>2. ASSUME NEW e \in ListReaders, LoadMeta(e)
      PROVE  /\ index' = index
             /\ \A d \in ListReaders : reader'[d].named \in {reader[d].named, index, NoMeta}
  BY <1>2 DEF LoadMeta, ListTypeOK, table
<1>3. ASSUME NEW e \in ListReaders, LoadValues(e)
      PROVE  /\ index' = index
             /\ \A d \in ListReaders : reader'[d].named \in {reader[d].named, index, NoMeta}
  <2>1. \E s : reader' = [reader EXCEPT ![e] = [named |-> NoMeta, loading |-> FALSE, held |-> s]]
    BY <1>3, Zenon DEF LoadValues
  <2> QED
    BY <1>3, <2>1 DEF LoadValues, ListTypeOK, table
<1> QED
  BY <1>1, <1>2, <1>3 DEF ReadersStep

(* No step shows a row without values.                                     *)
LEMMA SolidStepInv ==
  ASSUME ListInv, EditInv, SolidInv, [ListNext]_listVars
  PROVE  SolidInv'
<1>1. CASE UNCHANGED listVars
  BY <1>1, Zenon DEF SolidInv, listVars
<1>2. CASE ReadersStep
  <2>1. \A m : Solid(m, written) => Solid(m, written')
    BY <1>2, ReadersQuiet
  <2>2. Solid(NoMeta, written)
    BY DEF Solid
  <2>3. index' \in {index, meta} /\ meta' = meta
    BY <1>2, ReadersShow, ReadersQuiet DEF ListInv
  <2>4. \A e \in ListReaders : reader'[e].named \in {reader[e].named, index, NoMeta}
    BY <1>2, ReadersShow DEF ListInv
  <2> QED
    BY <2>1, <2>2, <2>3, <2>4 DEF SolidInv
<1>3. ASSUME NEW c \in Editors, EditorStep(c)
      PROVE  SolidInv'
  <2>1. Persists(c) /\ index' = index /\ reader' = reader
    BY <1>3, EditorPersists, EditorShows
  <2>2. ASSUME NEW m, Known(m, meta, deleted, issued, editor), Solid(m, written)
        PROVE  Solid(m, written')
    BY <2>1, <2>2, ContentStays DEF Known
  <2>3. Solid(index, written') /\ \A e \in ListReaders : Solid(reader[e].named, written')
    BY <2>2 DEF SolidInv, ListInv, KnownInv
  <2>4. Solid(meta, written') /\ Solid(NoMeta, written')
    BY <2>2 DEF SolidInv, ListInv, KnownInv, Solid
  <2>5. CASE Commit(c)
    <3>1. /\ editor[c].pc = "commit" /\ editor[c].values # {}
          /\ written[editor[c].token] = editor[c].values
          /\ written' = written
      BY <2>5 DEF Commit, EditInv, Worked, StorePcs
    <3>2. meta'.token = editor[c].token
      BY <2>5 DEF Commit, NewMeta
    <3>3. Solid(meta', written')
      BY <3>1, <3>2 DEF Solid
    <3> QED
      BY <2>1, <2>3, <3>3 DEF SolidInv
  <2>6. CASE meta' = meta \/ meta' = NoMeta
    <3>1. Solid(meta', written')
      BY <2>4, <2>6
    <3> QED
      BY <2>1, <2>3, <3>1 DEF SolidInv
  <2> QED
    BY <1>3, <2>5, <2>6, MetaFrom
<1> QED
  BY <1>1, <1>2, <1>3, ListNextSplit

(* Evaluators stay behind the index, and the index behind the list.         *)
LEMMA BehindStepInv ==
  ASSUME ListInv, BehindInv, [ListNext]_listVars
  PROVE  BehindInv'
<1>0. /\ meta \in Meta /\ index \in Meta
      /\ \A e \in ListReaders : reader[e].named \in Meta /\ reader[e].held \in Snapshot
  BY DEF ListInv, ListTypeOK
<1>1. CASE UNCHANGED listVars
  BY <1>1, Zenon DEF BehindInv, listVars
<1>2. CASE Replicate
  <2>1. SUFFICES ASSUME ~deleted, NEW e \in ListReaders
                 PROVE  Follows(reader[e], meta)
    BY <1>2 DEF BehindInv, Replicate
  <2>2. index.rev <= meta.rev /\ Follows(reader[e], index)
    BY <2>1 DEF ListInv, KnownInv, Known, NotAhead, BehindInv
  <2> QED
    BY <1>0, <2>2 DEF Follows, Meta, Snapshot
<1>3. ASSUME NEW d \in ListReaders, LoadMeta(d)
      PROVE  BehindInv'
  <2>1. SUFFICES ASSUME ~deleted, NEW e \in ListReaders
                 PROVE  Follows(reader'[e], index)
    BY <1>3 DEF BehindInv, LoadMeta, table
  <2>2. Follows(reader[e], index)
    BY <2>1 DEF BehindInv
  <2>3. \/ reader'[e] = reader[e]
        \/ reader'[e].held = reader[e].held /\ reader'[e].named = index
    BY <1>3 DEF LoadMeta, ListInv, ListTypeOK
  <2> QED
    BY <1>0, <2>2, <2>3 DEF Follows, Meta
<1>4. ASSUME NEW d \in ListReaders, LoadValues(d)
      PROVE  BehindInv'
  <2>1. SUFFICES ASSUME ~deleted, NEW e \in ListReaders
                 PROVE  Follows(reader'[e], index)
    BY <1>4 DEF BehindInv, LoadValues, table
  <2>2. Follows(reader[e], index)
    BY <2>1 DEF BehindInv
  <2> DEFINE named == [token |-> reader[d].named.token, rev |-> reader[d].named.rev,
                       values |-> ListedValues(reader[d].named)]
  <2>3. PICK s \in {NoSnapshot, named, reader[d].held} :
          reader' = [reader EXCEPT ![d] = [named |-> NoMeta, loading |-> FALSE, held |-> s]]
    BY <1>4, Zenon DEF LoadValues
  <2>4. CASE e # d
    BY <2>2, <2>3, <2>4 DEF ListInv, ListTypeOK
  <2>5. CASE e = d
    <3>1. reader'[e] = [named |-> NoMeta, loading |-> FALSE, held |-> s]
      BY <2>3, <2>5 DEF ListInv, ListTypeOK
    <3>2. reader[e].loading
      BY <1>4, <2>5 DEF LoadValues
    <3>3. s.rev \in {0, reader[e].named.rev, reader[e].held.rev}
      BY <2>5 DEF NoSnapshot
    <3>4. s.rev <= index.rev
      BY <1>0, <2>2, <3>2, <3>3 DEF Follows, Meta, Snapshot
    <3> QED
      BY <3>1, <3>4 DEF Follows
  <2> QED
    BY <2>4, <2>5
<1>5. ASSUME NEW c \in Editors, EditorStep(c)
      PROVE  BehindInv'
  BY <1>5, EditorPersists, EditorShows DEF BehindInv, Persists
<1> QED
  BY <1>1, <1>2, <1>3, <1>4, <1>5, ListNextSplit DEF ReadersStep

(* The strengthened invariant holds at first and is kept.                  *)
LEMMA RegisterStepInv == RegisterInv /\ [ListNext]_listVars => RegisterInv'
BY ListStepInv, EditStepInv, SolidStepInv, BehindStepInv, Zenon DEF RegisterInv

LEMMA RegisterInitInv == ListInit => RegisterInv
<1> SUFFICES ASSUME ListInit PROVE RegisterInv
  OBVIOUS
<1>1. ListInv
  BY ListInitInv
<1>2. EditInv
  <2>1. \A c \in Editors : editor[c].pc \notin {"values"} \cup StorePcs
    BY DEF ListInit, Resting, StorePcs
  <2> QED
    BY <2>1, WorkedIdle DEF EditInv
<1>3. SolidInv
  BY DEF ListInit, SolidInv, Solid
<1>4. BehindInv
  BY DEF ListInit, BehindInv, Follows, NoMeta, NoSnapshot
<1> QED
  BY <1>1, <1>2, <1>3, <1>4 DEF RegisterInv

(* What ListPromise sees of the readers, and of the damage.                *)
TakenNow ==
  [e \in ListReaders |-> IF reader[e].loading THEN {Version(reader[e].named)} ELSE {}]

HeldNow ==
  [e \in ListReaders |-> [rev |-> reader[e].held.rev, values |-> reader[e].held.values]]

Spoiled == deleted \/ torn # {}

RegisterView == <<Version(meta), Version(index), TakenNow, HeldNow, Spoiled>>

(* Of a list that lost something nothing is promised.                      *)
LEMMA SpoilRefines ==
  ASSUME Spoiled'
  PROVE  Register!Next
BY DEF Spoiled, Register!Next, Register!Spoil

(* An editor's step shows nothing to the readers.                          *)
LEMMA EditorView ==
  ASSUME ListInv, NEW c \in Editors, EditorStep(c)
  PROVE  /\ UNCHANGED <<Version(index), TakenNow, HeldNow>>
         /\ meta' = meta => UNCHANGED Version(meta)
<1>1. Persists(c) /\ index' = index /\ reader' = reader
  BY EditorPersists, EditorShows
<1>2. ASSUME NEW m, Known(m, meta, deleted, issued, editor)
      PROVE  Content(m, written') = Content(m, written)
  BY <1>1, <1>2, ContentStays DEF Known
<1>3. /\ Content(index, written') = Content(index, written)
      /\ Content(meta, written') = Content(meta, written)
      /\ \A e \in ListReaders :
           Content(reader[e].named, written') = Content(reader[e].named, written)
  BY <1>2 DEF ListInv, KnownInv
<1>4. UNCHANGED Version(index)
  BY <1>1, <1>3 DEF Version, Content, Exists
<1>5. UNCHANGED TakenNow
  BY <1>1, <1>3 DEF TakenNow, Version, Content, Exists
<1>6. UNCHANGED HeldNow
  BY <1>1 DEF HeldNow
<1>7. meta' = meta => UNCHANGED Version(meta)
  BY <1>1, <1>3 DEF Version, Content, Exists
<1> QED
  BY <1>4, <1>5, <1>6, <1>7

(* What is stored over a list that is there, or is not, was made of it.     *)
LEMMA CommitMade ==
  ASSUME RegisterInv, NEW c \in Editors, Commit(c), ~Spoiled
  PROVE  /\ editor[c].base = meta
         /\ editor[c].values # {}
         /\ Computed(editor[c], written)
         /\ Version(meta)' = [rev |-> meta.rev + 1, values |-> editor[c].values]
<1>1. /\ editor[c].pc = "commit" /\ Unchanged(c) /\ meta' = NewMeta(c)
      /\ written' = written /\ ~deleted /\ torn = {}
  BY DEF Commit, Spoiled
<1>2. /\ editor[c].found # NoMeta => editor[c].base.rev = editor[c].found.rev
      /\ editor[c].token \in 1..issued /\ issued \in 0..MaxListWrites
      /\ Known(editor[c].base, meta, deleted, issued, editor)
  BY <1>1 DEF RegisterInv, ListInv, TokenInv, HoldPcs, Exists, KnownInv, EditPcs, ListTypeOK
<1>3. Worked(editor[c], written, torn, deleted)
  BY DEF RegisterInv, EditInv
<1>4. /\ editor[c].values # {} /\ Computed(editor[c], written)
      /\ written[editor[c].token] = editor[c].values
  BY <1>1, <1>3 DEF Worked, StorePcs
<1>5. editor[c].base = meta /\ editor[c].found.rev = meta.rev
  <2>1. CASE editor[c].found # NoMeta
    <3>1. meta.rev = editor[c].base.rev
      BY <1>1, <2>1 DEF Unchanged, Exists
    <3> QED
      BY <1>1, <1>2, <2>1, <3>1 DEF Known, NotAhead
  <2>2. CASE editor[c].found = NoMeta
    <3>1. meta = NoMeta
      BY <1>1, <2>2 DEF Unchanged, Exists
    <3>2. editor[c].base = NoMeta
      BY <1>1, <1>3, <2>2 DEF Worked, HoldPcs
    <3> QED
      BY <2>2, <3>1, <3>2
  <2> QED
    BY <2>1, <2>2
<1>6. Version(meta)' = [rev |-> meta.rev + 1, values |-> editor[c].values]
  <2>1. meta'.rev = meta.rev + 1 /\ meta'.token = editor[c].token /\ meta' # NoMeta
    BY <1>1, <1>2, <1>5 DEF NewMeta, NoMeta
  <2> QED
    BY <1>1, <1>4, <2>1 DEF Version, Exists
<1> QED
  BY <1>4, <1>5, <1>6

(* A PUT that is stored is an addition, a removal or a replacement.        *)
LEMMA CommitRefines ==
  ASSUME RegisterInv, NEW c \in Editors, Commit(c), ~Spoiled
  PROVE  Register!Next
<1>1. /\ editor[c].base = meta
      /\ editor[c].values # {}
      /\ Computed(editor[c], written)
      /\ Version(meta)' = [rev |-> meta.rev + 1, values |-> editor[c].values]
  BY CommitMade
<1>2. UNCHANGED <<Version(index), TakenNow, HeldNow, Spoiled>>
  BY EditorView DEF RegisterInv, EditorStep, Commit, Spoiled
<1>3. editor[c].edit \in Edits
  BY EditingType DEF RegisterInv, ListInv, Commit, EditPcs, Editing
<1>4. Version(meta).rev = meta.rev /\ Version(meta).values = Content(meta, written)
  BY DEF Version, Content, Exists
<1>5. Register!Store(editor[c].values)
  BY <1>1, <1>2, <1>4 DEF Register!Store, TakenNow, HeldNow, Spoiled
<1>6. CASE editor[c].edit.kind = "add"
  <2>1. editor[c].edit.value \in Values
    BY <1>3, <1>6 DEF Edits
  <2>2. editor[c].values = Content(meta, written) \cup {editor[c].edit.value}
    BY <1>1, <1>6, Zenon DEF Computed, Edited
  <2>3. meta # NoMeta /\ editor[c].values # Content(meta, written)
    BY <1>1, <1>6 DEF Computed
  <2>4. Version(meta).rev # 0
    BY <1>4, <2>3 DEF RegisterInv, ListInv, ListTypeOK, KnownInv, Known, GenuineMeta
  <2>5. Register!Add(editor[c].edit.value)
    BY <1>4, <1>5, <2>2, <2>3, <2>4 DEF Register!Add, Register!NoList
  <2> QED
    BY <2>1, <2>5 DEF Register!Next
<1>7. CASE editor[c].edit.kind = "remove"
  <2>1. editor[c].edit.value \in Values
    BY <1>3, <1>7 DEF Edits
  <2>2. "remove" # "add"
    OBVIOUS
  <2>3. editor[c].values = Content(meta, written) \ {editor[c].edit.value}
    BY <1>1, <1>7, <2>2, Zenon DEF Computed, Edited
  <2>4. editor[c].values # Content(meta, written)
    BY <1>1, <1>7 DEF Computed
  <2>5. Register!Remove(editor[c].edit.value)
    BY <1>4, <1>5, <2>3, <2>4 DEF Register!Remove
  <2> QED
    BY <2>1, <2>5 DEF Register!Next
<1>8. CASE editor[c].edit.kind \notin {"add", "remove"}
  <2>1. editor[c].edit.value \in Contents
    BY <1>3, <1>8 DEF Edits
  <2>2. editor[c].values = editor[c].edit.value
    BY <1>1, <1>8, Zenon DEF Computed, Edited
  <2>3. Register!Replace(editor[c].edit.value)
    BY <1>5, <2>2 DEF Register!Replace
  <2> QED
    BY <2>1, <2>3 DEF Register!Next
<1> QED
  BY <1>6, <1>7, <1>8

(* So every step of an editor is one of the register, or none.             *)
LEMMA EditorRefines ==
  ASSUME RegisterInv, NEW c \in Editors, EditorStep(c)
  PROVE  Register!Next \/ UNCHANGED RegisterView
<1>0. Persists(c)
  BY EditorPersists
<1>1. CASE Spoiled'
  BY <1>1, SpoilRefines
<1>2. CASE ~Spoiled' /\ Commit(c)
  BY <1>2, CommitRefines DEF Spoiled, Commit
<1>3. CASE ~Spoiled' /\ ~Commit(c)
  <2>1. UNCHANGED Spoiled
    BY <1>0, <1>3 DEF Persists, Spoiled
  <2>2. meta' = meta
    BY <1>3, Zenon DEF Spoiled, EditorStep, StartCreate, GetMeta, GetValues, PutRead, PutRefused,
       WriteValues, CommitRefused, StartDelete, EraseMeta, EraseRows, Abandon, table
  <2> QED
    BY <2>1, <2>2, EditorView DEF RegisterView, RegisterInv
<1> QED
  BY <1>1, <1>2, <1>3

(* The index shows what the list is, or was.                               *)
LEMMA ReplicateRefines ==
  ASSUME ListInv, Replicate
  PROVE  Register!Next
<1>1. UNCHANGED <<Version(meta), TakenNow, HeldNow, Spoiled>>
  BY DEF Replicate, Version, TakenNow, HeldNow, Spoiled
<1>2. Version(index)' = Version(meta)
  BY DEF Replicate, Version
<1> QED
  BY <1>1, <1>2 DEF Register!Next, Register!Follow, TakenNow, HeldNow, Spoiled

(* An evaluator takes the version that the index shows.                    *)
LEMMA LoadMetaRefines ==
  ASSUME ListInv, NEW e \in ListReaders, LoadMeta(e)
  PROVE  Register!Next
<1>1. UNCHANGED <<Version(meta), Version(index), Spoiled>>
  BY DEF LoadMeta, table, Version, Spoiled
<1>2. /\ ~reader[e].loading /\ reader'[e].loading /\ reader'[e].named = index
      /\ written' = written
      /\ \A d \in ListReaders : reader'[d].held = reader[d].held
      /\ \A d \in ListReaders \ {e} : reader'[d] = reader[d]
  BY DEF LoadMeta, table, ListInv, ListTypeOK
<1>3. UNCHANGED HeldNow
  BY <1>2 DEF HeldNow
<1>4. TakenNow[e] = {}
  BY <1>2 DEF TakenNow
<1>5. TakenNow' = [TakenNow EXCEPT ![e] = {Version(index)}]
  BY <1>2 DEF TakenNow, Version
<1>6. Register!Take(e)
  BY <1>1, <1>3, <1>4, <1>5 DEF Register!Take, TakenNow, HeldNow, Spoiled
<1> QED
  BY <1>6 DEF Register!Next

(* It uses all of it, or none.                                             *)
LEMMA LoadValuesRefines ==
  ASSUME RegisterInv, NEW e \in ListReaders, LoadValues(e), ~Spoiled
  PROVE  Register!Next
<1> DEFINE m == reader[e].named
           full == [token |-> m.token, rev |-> m.rev, values |-> ListedValues(m)]
           loaded == IF ListedValues(m) = {} THEN NoSnapshot ELSE full
<1>1. UNCHANGED <<Version(meta), Version(index), Spoiled>>
  BY DEF LoadValues, table, Version, Spoiled
<1>2. reader[e].loading /\ written' = written
  BY DEF LoadValues, table
<1>3. PICK s \in {loaded, reader[e].held} :
        reader' = [reader EXCEPT ![e] = [named |-> NoMeta, loading |-> FALSE, held |-> s]]
  BY Zenon DEF LoadValues
<1>4. Known(m, meta, deleted, issued, editor) /\ Solid(m, written)
  BY DEF RegisterInv, ListInv, KnownInv, SolidInv
<1>5. ListedValues(m) = Content(m, written)
  BY <1>4, ListedContent DEF RegisterInv, Known, Spoiled
<1>6. [rev |-> loaded.rev, values |-> loaded.values] = Version(m)
  <2>1. CASE m = NoMeta
    BY <1>5, <2>1 DEF Content, Version, Exists, NoSnapshot, NoMeta
  <2>2. CASE m # NoMeta
    BY <1>4, <1>5, <2>2 DEF Content, Solid, Version, Exists
  <2> QED
    BY <2>1, <2>2
<1>7. Version(m).rev = m.rev
  BY DEF Version
<1>8. reader[e].held.rev <= m.rev
  BY <1>2 DEF RegisterInv, BehindInv, Spoiled, Follows
<1> HIDE DEF loaded, m
<1>9. /\ reader'[e].loading = FALSE /\ reader'[e].held = s
      /\ \A d \in ListReaders \ {e} : reader'[d] = reader[d]
  BY <1>3 DEF RegisterInv, ListInv, ListTypeOK
<1>10. TakenNow' = [TakenNow EXCEPT ![e] = {}]
  BY <1>2, <1>9 DEF TakenNow, Version
<1>11. CASE s = reader[e].held
  <2>1. UNCHANGED HeldNow
    BY <1>9, <1>11 DEF HeldNow
  <2>2. Register!GiveUp(e)
    BY <1>1, <1>10, <2>1 DEF Register!GiveUp, TakenNow, HeldNow, Spoiled
  <2> QED
    BY <2>2 DEF Register!Next
<1>12. CASE s = loaded
  <2>1. HeldNow' = [HeldNow EXCEPT ![e] = Version(m)]
    BY <1>6, <1>9, <1>12 DEF HeldNow
  <2>2. Version(m) \in TakenNow[e]
    BY <1>2 DEF TakenNow, m
  <2>3. HeldNow[e].rev <= Version(m).rev
    BY <1>7, <1>8 DEF HeldNow
  <2>4. Register!Use(e)
    BY <1>1, <1>10, <2>1, <2>2, <2>3 DEF Register!Use, TakenNow, HeldNow, Spoiled
  <2> QED
    BY <2>4 DEF Register!Next
<1> QED
  BY <1>3, <1>11, <1>12

(* The first list is none.                                                 *)
LEMMA RegisterInitial ==
  ASSUME ListInit
  PROVE  Register!Init
<1>1. Version(NoMeta) = Register!NoList
  BY DEF Version, Exists, NoMeta, Register!NoList
<1>2. TakenNow = [e \in ListReaders |-> {}]
  BY DEF ListInit, TakenNow
<1>3. HeldNow = [e \in ListReaders |-> Register!NoList]
  BY DEF ListInit, HeldNow, NoSnapshot, Register!NoList
<1>4. meta = NoMeta /\ index = NoMeta /\ ~Spoiled
  BY DEF ListInit, Spoiled
<1> QED
  BY <1>1, <1>2, <1>3, <1>4 DEF Register!Init, TakenNow, HeldNow, Spoiled

(* Until something of it is deleted, a list is a register for any number of *)
(* clients that edit it and containers that evaluate it: each edit is made *)
(* to what the one before it left, and evaluators use whole versions that  *)
(* never get older (src/handlers/api.py, detection_lists_repository.py).    *)
THEOREM ListIsRegister == ListSpec => ActsAsRegister
<1>1. RegisterInv /\ [ListNext]_listVars => Register!Next \/ UNCHANGED RegisterView
  <2> SUFFICES ASSUME RegisterInv, [ListNext]_listVars
               PROVE  Register!Next \/ UNCHANGED RegisterView
    OBVIOUS
  <2>1. CASE UNCHANGED listVars
    BY <2>1 DEF listVars, RegisterView, Version, TakenNow, HeldNow, Spoiled
  <2>2. ASSUME NEW c \in Editors, EditorStep(c) PROVE Register!Next \/ UNCHANGED RegisterView
    BY <2>2, EditorRefines
  <2>3. CASE ReadersStep
    <3>1. Spoiled => Spoiled'
      BY <2>3, ReadersQuiet DEF Spoiled
    <3> QED
      BY <2>3, <3>1, SpoilRefines, ReplicateRefines, LoadMetaRefines, LoadValuesRefines, Zenon
         DEF ReadersStep, RegisterInv
  <2> QED
    BY <2>1, <2>2, <2>3, ListNextSplit, Zenon
<1>2. RegisterInv /\ [ListNext]_listVars => [Register!Next]_RegisterView
  BY <1>1
<1>3. ListSpec => []RegisterInv
  BY RegisterInitInv, RegisterStepInv, PTL DEF ListSpec
<1> QED
  BY <1>2, <1>3, RegisterInitial, PTL DEF ListSpec, ActsAsRegister, Register!Spec, RegisterView,
     TakenNow, HeldNow, Spoiled

-----------------------------------------------------------------------------
(* Rules: the inductive invariant                                          *)

HIDE ListAssumption DEF ListAssumption
USE CatalogAssumption DEF CatalogAssumption

AuthorStates == {Free} \cup Writing \cup Releasing

(* x was read of a row that is now row, after n writes: unless revisions    *)
(* are void, they have only grown, and one other than 0 names one row.      *)
PastRow(x, row, void, n) ==
  /\ x.rev <= n
  /\ void \/ (x.rev <= row.rev /\ (x.rev = row.rev => x.rev = 0 \/ x = row))

RowsInv ==
  \A r \in RuleIds :
    /\ rule[r].rev <= writes
    /\ ~Stored(rule[r]) => rule[r].rev = 0

(* What the requests under way have read.                                  *)
ReadInv ==
  \A a \in Authors :
    /\ author[a].pc = "put" =>
         PastRow(author[a].base, rule[author[a].rule], author[a].rule \in loose, writes)
    /\ author[a].pc = "apply" =>
         \A r \in RuleIds : PastRow(author[a].plan[r], rule[r], r \in loose, writes)

RuleInv == RuleTypeOK /\ RowsInv /\ ReadInv

-----------------------------------------------------------------------------
(* Rules: what a write does                                                *)

(* An author that writes has all that a write keeps.                       *)
LEMMA WritingType ==
  ASSUME RuleTypeOK, NEW a \in Authors, author[a].pc = "put"
  PROVE  author[a] \in Writing
BY DEF RuleTypeOK, Free, Releasing

(* An author that releases has all that a release keeps.                   *)
LEMMA ReleasingType ==
  ASSUME RuleTypeOK, NEW a \in Authors, author[a].pc = "apply"
  PROVE  author[a] \in Releasing
BY DEF RuleTypeOK, Free, Writing

(* A write changes one row, whose revision grows, unless the row had none   *)
(* or the write voids revisions.                                           *)
WriteEffect(r) ==
  /\ writes' = writes + 1
  /\ writes' <= MaxRuleWrites
  /\ rule' \in [RuleIds -> StoredRow]
  /\ \A q \in RuleIds \ {r} : rule'[q] = rule[q]
  /\ rule'[r].rev <= writes'
  /\ ~Stored(rule'[r]) => rule'[r].rev = 0
  /\ loose' \in {loose, loose \cup {r}}
  /\ r \in loose' \/ rule[r].rev < rule'[r].rev \/ (rule[r].rev = 0 /\ rule'[r].rev = 0)

(* A write of a row makes one well-typed row.                              *)
LEMMA StoreType ==
  ASSUME RuleTypeOK, NEW r \in RuleIds, NEW rev \in Nat, rev <= writes + 1,
         NEW b \in Bodies \cup {Off}, Store(r, rev, b)
  PROVE  /\ writes' = writes + 1 /\ writes' \in 0..MaxRuleWrites
         /\ rule' \in [RuleIds -> StoredRow]
         /\ \A q \in RuleIds \ {r} : rule'[q] = rule[q]
         /\ rule'[r].rev = rev /\ Stored(rule'[r])
<1>1. /\ writes \in 0..MaxRuleWrites /\ writes < MaxRuleWrites /\ writes' = writes + 1
      /\ rule' = [rule EXCEPT ![r] = [stamp |-> writes + 1, rev |-> rev, body |-> b]]
  BY DEF Store, RuleTypeOK
<1>2. writes + 1 \in 0..MaxRuleWrites /\ rev \in 0..MaxRuleWrites
  BY <1>1
<1>3. [stamp |-> writes + 1, rev |-> rev, body |-> b] \in StoredRow
  BY <1>2 DEF StoredRow
<1>4. b # Absent
  BY DEF Off, Absent
<1> QED BY <1>1, <1>2, <1>3, <1>4 DEF RuleTypeOK, Stored

(* A guarded write changes one row.                                        *)
LEMMA GuardedEffect ==
  ASSUME RuleInv, NEW r \in RuleIds, NEW base \in StoredRow, base.rev <= writes,
         NEW b \in Bodies \cup {Off}, Guarded(r, base, b)
  PROVE  WriteEffect(r)
<1>1. /\ rule[r].rev = base.rev /\ Store(r, base.rev + 1, b) /\ loose' = loose
      /\ base.rev \in Nat /\ base.rev + 1 \in Nat /\ writes \in Nat
  BY DEF Guarded, Holds, StoredRow, RuleInv, RuleTypeOK
<1>2. base.rev + 1 <= writes + 1
  BY <1>1
<1>3. /\ writes' = writes + 1 /\ writes' \in 0..MaxRuleWrites
      /\ rule' \in [RuleIds -> StoredRow]
      /\ \A q \in RuleIds \ {r} : rule'[q] = rule[q]
      /\ rule'[r].rev = base.rev + 1 /\ Stored(rule'[r])
  BY <1>1, <1>2, StoreType DEF RuleInv
<1> QED BY <1>1, <1>2, <1>3 DEF WriteEffect

(* A removal changes one row.                                              *)
LEMMA RemoveEffect ==
  ASSUME RuleInv, NEW r \in RuleIds, Remove(r)
  PROVE  WriteEffect(r)
<1>1. NoRow \in StoredRow /\ NoRow.rev = 0
  BY DEF NoRow, StoredRow
<1>2. /\ writes \in Nat /\ writes < MaxRuleWrites /\ writes' = writes + 1
      /\ rule' = [rule EXCEPT ![r] = NoRow] /\ loose' = loose \cup {r}
  BY DEF Remove, RuleInv, RuleTypeOK
<1> QED BY <1>1, <1>2 DEF WriteEffect, RuleInv, RuleTypeOK

(* Who has read something, has read something older.                       *)
LEMMA PastKept ==
  ASSUME RuleInv, NEW r \in RuleIds, WriteEffect(r), NEW q \in RuleIds, NEW x \in StoredRow,
         PastRow(x, rule[q], q \in loose, writes)
  PROVE  PastRow(x, rule'[q], q \in loose', writes')
<1>1. /\ x.rev \in Nat /\ rule[q] \in StoredRow /\ rule'[q] \in StoredRow
      /\ writes \in Nat /\ writes' = writes + 1
  BY DEF StoredRow, RuleInv, RuleTypeOK, WriteEffect
<1>2. rule[q].rev \in Nat /\ rule'[q].rev \in Nat
  BY <1>1 DEF StoredRow
<1>3. q \in loose => q \in loose'
  BY DEF WriteEffect
<1>4. CASE q # r
  BY <1>1, <1>2, <1>3, <1>4 DEF PastRow, WriteEffect
<1>5. CASE q = r
  BY <1>1, <1>2, <1>3, <1>5 DEF PastRow, WriteEffect
<1> QED BY <1>4, <1>5

(* Requests go on with what they have read, or end.                        *)
LEMMA AuthorsKept ==
  ASSUME RuleInv,
         \A a \in Authors :
           \/ author'[a].pc \notin {"put", "apply"}
           \/ /\ author[a].pc = "put" /\ author'[a].pc = "put"
              /\ author'[a].rule = author[a].rule /\ author'[a].base = author[a].base
           \/ /\ author[a].pc = "apply" /\ author'[a].pc = "apply"
              /\ author'[a].plan = author[a].plan,
         \/ UNCHANGED <<rule, loose, writes>>
         \/ \E r \in RuleIds : WriteEffect(r)
  PROVE  ReadInv'
<1>1. ASSUME NEW q \in RuleIds, NEW x \in StoredRow, PastRow(x, rule[q], q \in loose, writes)
      PROVE  PastRow(x, rule'[q], q \in loose', writes')
  <2>1. CASE UNCHANGED <<rule, loose, writes>>
    BY <1>1, <2>1
  <2>2. CASE \E r \in RuleIds : WriteEffect(r)
    BY <1>1, <2>2, PastKept
  <2> QED BY <2>1, <2>2
<1>2. ASSUME NEW a \in Authors, author'[a].pc = "put"
      PROVE  PastRow(author'[a].base, rule'[author'[a].rule], author'[a].rule \in loose', writes')
  <2>1. /\ author[a].pc = "put"
        /\ author'[a].rule = author[a].rule /\ author'[a].base = author[a].base
    BY <1>2
  <2>2. author[a] \in Writing
    BY <2>1, WritingType DEF RuleInv
  <2>3. author[a].rule \in RuleIds /\ author[a].base \in StoredRow
    BY <2>2 DEF Writing
  <2>4. PastRow(author[a].base, rule[author[a].rule], author[a].rule \in loose, writes)
    BY <2>1 DEF RuleInv, ReadInv
  <2> QED BY <1>1, <2>1, <2>3, <2>4
<1>3. ASSUME NEW a \in Authors, author'[a].pc = "apply", NEW r \in RuleIds
      PROVE  PastRow(author'[a].plan[r], rule'[r], r \in loose', writes')
  <2>1. author[a].pc = "apply" /\ author'[a].plan = author[a].plan
    BY <1>3
  <2>2. author[a] \in Releasing
    BY <2>1, ReleasingType DEF RuleInv
  <2>3. author[a].plan[r] \in StoredRow
    BY <2>2 DEF Releasing
  <2>4. PastRow(author[a].plan[r], rule[r], r \in loose, writes)
    BY <2>1 DEF RuleInv, ReadInv
  <2> QED BY <1>1, <2>1, <2>3, <2>4
<1> QED BY <1>2, <1>3 DEF ReadInv

-----------------------------------------------------------------------------
(* Rules: the invariant, action by action                                  *)

(* An author that finishes is free, and no other is disturbed.             *)
LEMMA FinishType ==
  ASSUME RuleTypeOK, NEW a \in Authors, Finish(a)
  PROVE  /\ author' \in [Authors -> AuthorStates]
         /\ author'[a].pc = "idle"
         /\ \A b \in Authors \ {a} : author'[b] = author[b]
BY DEF RuleTypeOK, Finish, AuthorStates, Free

(* What a write of one row leaves.                                         *)
LEMMA RowTypes ==
  ASSUME RuleInv, NEW r \in RuleIds, WriteEffect(r)
  PROVE  /\ rule' \in [RuleIds -> StoredRow] /\ loose' \in SUBSET RuleIds
         /\ writes' \in 0..MaxRuleWrites
         /\ RowsInv'
<1>1. /\ rule' \in [RuleIds -> StoredRow] /\ loose' \in SUBSET RuleIds
      /\ writes' \in 0..MaxRuleWrites
  BY DEF RuleInv, RuleTypeOK, WriteEffect
<1>2. ASSUME NEW q \in RuleIds
      PROVE  rule'[q].rev <= writes' /\ (~Stored(rule'[q]) => rule'[q].rev = 0)
  <2>1. rule[q].rev \in Nat /\ writes \in Nat
    BY DEF RuleInv, RuleTypeOK, StoredRow
  <2>2. CASE q = r
    BY <2>2 DEF WriteEffect
  <2>3. CASE q # r
    BY <2>1, <2>3 DEF WriteEffect, RuleInv, RowsInv
  <2> QED BY <2>2, <2>3
<1> QED BY <1>1, <1>2 DEF RowsInv, Stored

(* What a client's write changes.                                          *)
LEMMA PutEffect ==
  ASSUME RuleInv, NEW a \in Authors,
         PutNew(a) \/ PutGuarded(a) \/ PutUnguarded(a) \/ Delete(a)
  PROVE  /\ author[a].rule \in RuleIds /\ author[a].pc = "put"
         /\ WriteEffect(author[a].rule)
         /\ Finish(a)
<1>1. author[a] \in Writing /\ author[a].pc = "put"
  BY WritingType DEF RuleInv, PutNew, PutGuarded, PutUnguarded, Delete
<1>2. /\ author[a].rule \in RuleIds /\ author[a].body \in Bodies \cup {Off}
      /\ author[a].base \in StoredRow /\ author[a].base.rev <= writes
      /\ author[a].base.rev \in Nat /\ writes \in Nat
  BY <1>1 DEF Writing, StoredRow, RuleInv, ReadInv, PastRow, RuleTypeOK
<1>3. Finish(a)
  BY DEF PutNew, PutGuarded, PutUnguarded, Delete
<1>4. CASE PutNew(a)
  <2>1. /\ ~Stored(rule[author[a].rule]) /\ Store(author[a].rule, 0, author[a].body)
        /\ loose' = loose
    BY <1>4 DEF PutNew
  <2>2. /\ writes' = writes + 1 /\ writes' \in 0..MaxRuleWrites
        /\ rule' \in [RuleIds -> StoredRow]
        /\ \A q \in RuleIds \ {author[a].rule} : rule'[q] = rule[q]
        /\ rule'[author[a].rule].rev = 0 /\ Stored(rule'[author[a].rule])
    <3>1. 0 \in Nat /\ 0 <= writes + 1
      BY <1>2
    <3> QED BY <1>2, <2>1, <3>1, StoreType DEF RuleInv
  <2>3. rule[author[a].rule].rev = 0
    BY <1>2, <2>1 DEF RuleInv, RowsInv
  <2> QED BY <1>1, <1>2, <1>3, <2>1, <2>2, <2>3 DEF WriteEffect
<1>5. CASE PutGuarded(a)
  <2>1. Guarded(author[a].rule, author[a].base, author[a].body)
    BY <1>5 DEF PutGuarded
  <2> QED BY <1>1, <1>2, <1>3, <2>1, GuardedEffect
<1>6. CASE PutUnguarded(a)
  <2>1. PICK rev \in {0, author[a].base.rev} : Store(author[a].rule, rev, author[a].body)
    BY <1>6 DEF PutUnguarded
  <2>2. loose' = loose \cup {author[a].rule}
    BY <1>6 DEF PutUnguarded
  <2>3. rev \in Nat /\ rev <= writes + 1
    BY <1>2, <2>1
  <2>4. /\ writes' = writes + 1 /\ writes' \in 0..MaxRuleWrites
        /\ rule' \in [RuleIds -> StoredRow]
        /\ \A q \in RuleIds \ {author[a].rule} : rule'[q] = rule[q]
        /\ rule'[author[a].rule].rev = rev /\ Stored(rule'[author[a].rule])
    BY <1>2, <2>1, <2>3, StoreType DEF RuleInv
  <2> QED BY <1>1, <1>2, <1>3, <2>2, <2>3, <2>4 DEF WriteEffect
<1>7. CASE Delete(a)
  BY <1>1, <1>2, <1>3, <1>7, RemoveEffect DEF Delete
<1> QED BY <1>4, <1>5, <1>6, <1>7

(* What a manifest wants of a rule is a body, or the rule off or absent.   *)
LEMMA WantedType ==
  ASSUME NEW m \in Manifests, NEW r \in RuleIds, NEW x \in StoredRow
  PROVE  Wanted(m, r, x) \in Bodies \cup {Off, Absent}
BY DEF Wanted, Dropped, StoredRow

(* An operation of a release writes one row.                               *)
LEMMA ApplyEffect ==
  ASSUME RuleInv, NEW a \in Authors, NEW r \in RuleIds, Apply(a, r)
  PROVE  /\ WriteEffect(r)
         /\ author[a].pc = "apply"
         /\ author' \in [Authors -> AuthorStates]
         /\ author'[a].pc = "apply" /\ author'[a].plan = author[a].plan
         /\ \A b \in Authors \ {a} : author'[b] = author[b]
<1>1. author[a] \in Releasing /\ author[a].pc = "apply"
  BY ReleasingType DEF RuleInv, Apply
<1> DEFINE m == author[a].manifest
           base == author[a].plan[r]
           wanted == Wanted(m, r, base)
<1>2. m \in Manifests /\ base \in StoredRow /\ base.rev <= writes
  BY <1>1 DEF Releasing, RuleInv, ReadInv, PastRow
<1>3. wanted \in Bodies \cup {Off, Absent}
  BY <1>2, WantedType
<1>4. Remove(r) \/ (wanted # Absent /\ Guarded(r, base, wanted))
  BY Zenon DEF Apply
<1>5. WriteEffect(r)
  <2>1. CASE Remove(r)
    BY <2>1, RemoveEffect
  <2>2. CASE wanted # Absent /\ Guarded(r, base, wanted)
    <3>1. wanted \in Bodies \cup {Off}
      BY <1>3, <2>2
    <3> HIDE DEF wanted, base
    <3> QED BY <1>2, <2>2, <3>1, GuardedEffect
  <2> QED BY <1>4, <2>1, <2>2
<1> DEFINE x == [author[a] EXCEPT !.todo = @ \ {r}]
<1>6. author' = [author EXCEPT ![a] = x]
  BY DEF Apply
<1>7. x \in Releasing /\ x.pc = "apply" /\ x.plan = author[a].plan
  BY <1>1 DEF Releasing
<1> HIDE DEF x
<1> QED BY <1>1, <1>5, <1>6, <1>7 DEF RuleInv, RuleTypeOK, AuthorStates

(* An author starts from rows that are stored.                             *)
LEMMA StartRuleInv ==
  ASSUME RuleInv, NEW a \in Authors,
         NEW x \in Writing \cup Releasing,
         author' = [author EXCEPT ![a] = x],
         x.pc = "put" => x.base = rule[x.rule],
         x.pc = "apply" => x.plan = rule,
         UNCHANGED <<rule, loose, writes>>
  PROVE  RuleInv'
<1>1. RuleTypeOK'
  BY DEF RuleInv, RuleTypeOK
<1>2. RowsInv'
  BY DEF RuleInv, RowsInv
<1>3. /\ author'[a] = x /\ \A b \in Authors \ {a} : author'[b] = author[b]
      /\ \A r \in RuleIds : PastRow(rule[r], rule[r], r \in loose, writes)
  BY DEF RuleInv, RuleTypeOK, RowsInv, PastRow, StoredRow
<1>4. x.pc = "put" => x.rule \in RuleIds
  BY DEF Writing, Releasing
<1>5. ReadInv'
  BY <1>3, <1>4 DEF RuleInv, ReadInv
<1> QED BY <1>1, <1>2, <1>5 DEF RuleInv

(* The invariant holds of the catalog at first.                            *)
LEMMA RuleInitInv == RuleInit => RuleInv
<1> SUFFICES ASSUME RuleInit PROVE RuleInv
  OBVIOUS
<1>1. NoRow \in StoredRow /\ NoRow.rev = 0
  BY DEF NoRow, StoredRow
<1> QED BY <1>1 DEF RuleInit, RuleInv, RuleTypeOK, RowsInv, ReadInv, Free

(* Every step keeps the invariant.                                         *)
LEMMA RuleStepInv == RuleInv /\ [RuleNext]_ruleVars => RuleInv'
<1> SUFFICES ASSUME RuleInv, [RuleNext]_ruleVars PROVE RuleInv'
  OBVIOUS
<1>1. CASE UNCHANGED ruleVars
  BY <1>1 DEF ruleVars, RuleInv, RuleTypeOK, RowsInv, ReadInv
<1>2. ASSUME NEW a \in Authors, NEW op \in {"create", "guarded", "unguarded", "delete"},
             NEW r \in RuleIds, NEW b \in Bodies, StartWrite(a, op, r, b)
      PROVE  RuleInv'
  <2> DEFINE x == [pc |-> "put", op |-> op, rule |-> r, body |-> b, base |-> rule[r]]
  <2>1. x \in Writing \cup Releasing /\ x.pc = "put" /\ x.base = rule[x.rule]
    BY DEF Writing, RuleInv, RuleTypeOK
  <2>2. author' = [author EXCEPT ![a] = x] /\ UNCHANGED <<rule, loose, writes>>
    BY <1>2 DEF StartWrite
  <2> HIDE DEF x
  <2> QED BY <2>1, <2>2, StartRuleInv
<1>3. ASSUME NEW a \in Authors, PutNew(a) \/ PutGuarded(a) \/ PutUnguarded(a) \/ Delete(a)
      PROVE  RuleInv'
  <2>1. /\ author[a].rule \in RuleIds
        /\ WriteEffect(author[a].rule)
        /\ author' \in [Authors -> AuthorStates]
        /\ author'[a].pc = "idle"
        /\ \A b \in Authors \ {a} : author'[b] = author[b]
    BY <1>3, PutEffect, FinishType DEF RuleInv
  <2>2. ReadInv'
    BY <2>1, AuthorsKept
  <2> QED BY <2>1, <2>2, RowTypes DEF RuleInv, RuleTypeOK, AuthorStates
<1>4. ASSUME NEW a \in Authors, NEW m \in Manifests, Plan(a, m)
      PROVE  RuleInv'
  <2> DEFINE x == [pc |-> "apply", manifest |-> m, plan |-> rule,
                   todo |-> {r \in RuleIds : ~Left(m, r, rule[r])}]
  <2>1. x \in Writing \cup Releasing /\ x.pc = "apply" /\ x.plan = rule
    BY DEF Releasing, RuleInv, RuleTypeOK
  <2>2. author' = [author EXCEPT ![a] = x] /\ UNCHANGED <<rule, loose, writes>>
    BY <1>4 DEF Plan
  <2> HIDE DEF x
  <2> QED BY <2>1, <2>2, StartRuleInv
<1>5. ASSUME NEW a \in Authors, NEW r \in RuleIds, Apply(a, r)
      PROVE  RuleInv'
  <2>1. /\ WriteEffect(r)
        /\ author[a].pc = "apply"
        /\ author' \in [Authors -> AuthorStates]
        /\ author'[a].pc = "apply" /\ author'[a].plan = author[a].plan
        /\ \A b \in Authors \ {a} : author'[b] = author[b]
    BY <1>5, ApplyEffect
  <2>2. ReadInv'
    BY <2>1, AuthorsKept
  <2> QED BY <2>1, <2>2, RowTypes DEF RuleInv, RuleTypeOK, AuthorStates
<1>6. ASSUME NEW a \in Authors, Applied(a) \/ GiveUp(a)
      PROVE  RuleInv'
  <2>1. /\ UNCHANGED <<rule, loose, writes>>
        /\ author' \in [Authors -> AuthorStates]
        /\ author'[a].pc = "idle"
        /\ \A b \in Authors \ {a} : author'[b] = author[b]
    BY <1>6, FinishType DEF RuleInv, Applied, GiveUp
  <2>2. ReadInv'
    BY <2>1, AuthorsKept
  <2> QED BY <2>1, <2>2 DEF RuleInv, RuleTypeOK, RowsInv, AuthorStates
<1> QED BY <1>1, <1>2, <1>3, <1>4, <1>5, <1>6, Zenon DEF RuleNext

(* Rows and requests keep their types; revisions stay within the number of  *)
(* writes (the /rules and /rule-releases endpoints).                       *)
THEOREM RuleTypesHold == RuleSpec => []RuleTypeOK
<1>1. RuleInv => RuleTypeOK
  BY DEF RuleInv
<1> QED BY <1>1, RuleInitInv, RuleStepInv, PTL DEF RuleSpec

-----------------------------------------------------------------------------
(* Rules: the property                                                     *)

(* An author changes a row only from what it read.                         *)
LEMMA WriteBuildsOnRead ==
  ASSUME RuleInv, [RuleNext]_ruleVars, NEW a \in Authors, NEW r \in RuleIds,
         author'[a] # author[a], rule'[r] # rule[r], rule[r].rev # 0, r \notin loose'
  PROVE  \/ author[a].pc = "put" /\ author[a].base = rule[r]
         \/ author[a].pc = "apply" /\ author[a].plan[r] = rule[r]
<1>1. \E b \in Authors :
        \/ PutNew(b) \/ PutGuarded(b) \/ PutUnguarded(b) \/ Delete(b)
        \/ \E q \in RuleIds : Apply(b, q)
  BY Zenon DEF RuleNext, ruleVars, StartWrite, Plan, Applied, GiveUp
<1>2. ASSUME NEW b \in Authors, PutNew(b) \/ PutGuarded(b) \/ PutUnguarded(b) \/ Delete(b)
      PROVE  author[a].pc = "put" /\ author[a].base = rule[r]
  <2>1. /\ author[b].rule \in RuleIds /\ author[b].pc = "put"
        /\ WriteEffect(author[b].rule)
        /\ \A d \in Authors \ {b} : author'[d] = author[d]
    BY <1>2, PutEffect, FinishType DEF RuleInv
  <2>2. a = b /\ author[a].rule = r
    BY <2>1 DEF WriteEffect
  <2>3. PutGuarded(a)
    BY <1>2, <2>2 DEF PutNew, PutUnguarded, Delete, Remove, RuleInv, RowsInv
  <2>4. r \notin loose /\ rule[r].rev = author[a].base.rev
    BY <2>2, <2>3 DEF PutGuarded, Guarded, Holds
  <2>5. PastRow(author[a].base, rule[r], r \in loose, writes)
    BY <2>1, <2>2 DEF RuleInv, ReadInv
  <2> QED BY <2>1, <2>2, <2>4, <2>5 DEF PastRow
<1>3. ASSUME NEW b \in Authors, NEW q \in RuleIds, Apply(b, q)
      PROVE  author[a].pc = "apply" /\ author[a].plan[r] = rule[r]
  <2>1. /\ WriteEffect(q) /\ author[b].pc = "apply"
        /\ \A d \in Authors \ {b} : author'[d] = author[d]
    BY <1>3, ApplyEffect
  <2>2. a = b /\ q = r
    BY <2>1 DEF WriteEffect
  <2>3. \E w : Remove(r) \/ Guarded(r, author[a].plan[r], w)
    BY <1>3, <2>2, Zenon DEF Apply
  <2>4. r \notin loose /\ rule[r].rev = author[a].plan[r].rev
    BY <2>3 DEF Remove, Guarded, Holds
  <2>5. PastRow(author[a].plan[r], rule[r], r \in loose, writes)
    BY <2>1, <2>2 DEF RuleInv, ReadInv
  <2> QED BY <2>1, <2>2, <2>4, <2>5 DEF PastRow
<1> QED BY <1>1, <1>2, <1>3

(* Authors that name the revision they read, and releases, replace nothing  *)
(* but the row they had read, for any number of authors, rules and releases *)
(* (_put_with_rev of src/handlers/api.py, src/domain/rule_release.py).      *)
THEOREM RuleEditsBuild == RuleSpec => RuleEditsBuildOnEachOther
<1>1. RuleInv /\ [RuleNext]_ruleVars =>
        [\A a \in Authors, r \in RuleIds :
           (author'[a] # author[a] /\ rule'[r] # rule[r] /\ rule[r].rev # 0 /\ r \notin loose')
             => \/ author[a].pc = "put" /\ author[a].base = rule[r]
                \/ author[a].pc = "apply" /\ author[a].plan[r] = rule[r]]_ruleVars
  BY WriteBuildsOnRead
<1> QED BY <1>1, RuleInitInv, RuleStepInv, PTL DEF RuleSpec, RuleEditsBuildOnEachOther

-----------------------------------------------------------------------------
(* Settings: the inductive invariant                                       *)

HIDE CatalogAssumption DEF CatalogAssumption

(* The number of targets of a document is bounded.                         *)
LEMMA TargetBound == MaxTargets \in Nat
BY SettingsAssumption DEF SettingsAssumption

(* The bounds are numbers.                                                 *)
LEMMA SettingsBounds == MaxSecrets \in Nat /\ MaxSettingsWrites \in Nat
BY SettingsAssumption DEF SettingsAssumption

USE SettingsBounds

Target == [name : TargetNames, header : Value]

(* What a client may send: secrets and masks, but no reference.             *)
OpenTarget == {t \in Target : t.header.kind # "ref"}

OpenDoc(d) ==
  /\ d \in Document
  /\ d.there
  /\ d.slack.kind # "ref"
  /\ d.slack.kind = "plain" => d.slack = Bare("plain")
  /\ d.targets \in Seq(OpenTarget)

(* What is stored after n requests brought secrets: each reference is to the *)
(* parameter that was made for its secret.                                 *)
StoredValue(v, n) ==
  \/ v.kind = "none"
  \/ v.kind = "ref" /\ v.slot \in Slots /\ v.number \in 1..n /\ v.secret = v.number

StoredDoc(d, n) ==
  /\ d \in Document
  /\ StoredValue(d.slack, n)
  /\ \A i \in DOMAIN d.targets : StoredValue(d.targets[i].header, n)
  /\ ~d.there => d.rev = 0

(* A parameter holds the secret it was made for, or is gone.                *)
ParameterInv == \A i \in Slots, n \in Numbers : ssm[i][n] \in {0, n}

DocInv ==
  /\ StoredDoc(doc, secrets) /\ doc.rev <= revisions
  /\ StoredDoc(lagging, secrets)
  /\ \A v \in notifier : v.kind = "ref" /\ StoredValue(v, secrets)

ClientInv ==
  \A c \in Clients :
    /\ client[c].pc = "normalize" => OpenDoc(client[c].payload)
    /\ client[c].pc \in {"put", "erase", "sweep"} => StoredDoc(client[c].payload, secrets)
    /\ client[c].pc \in {"normalize", "put"} =>
         /\ client[c].payload.there
         /\ client[c].payload.rev <= revisions
         /\ client[c].op = "create" => client[c].payload.rev = 0

(* The targets of ts before the one called name are where they were.       *)
KeptBefore(ts, us, name) ==
  \A i \in DOMAIN ts : StandsBefore(ts, i, name) => i \in DOMAIN us /\ us[i] = ts[i]

(* What a request under revision d.rev, other than 0, is about to store of  *)
(* document d.                                                             *)
BuildsOn(x, d) ==
  /\ x.pc = "normalize" => x.payload = Merged(Redacted(d), x.change)
  /\ x.pc = "put" /\ ~x.stale =>
       /\ x.change # Slack => x.payload.slack = d.slack
       /\ x.change \in {Slack, "other"} => x.payload.targets = d.targets
       /\ KeptBefore(d.targets, x.payload.targets, x.change)

(* As long as revisions are not void they have only grown, and one that is  *)
(* still there names the document that was read.                           *)
Builder(x, d, void) ==
  x.pc \in {"normalize", "put"} /\ x.op = "guarded" /\ ~void =>
    /\ x.expects <= d.rev
    /\ x.expects = d.rev /\ d.rev # 0 => BuildsOn(x, d)

BuildInv == \A c \in Clients : Builder(client[c], doc, unruly)

SettingsInv == SettingsTypeOK /\ ParameterInv /\ DocInv /\ ClientInv /\ BuildInv

-----------------------------------------------------------------------------
(* Settings: documents                                                     *)

(* The lists of targets are the sequences of at most two.                  *)
LEMMA TargetsAreSequences ==
  ASSUME NEW ts
  PROVE  ts \in Targets <=> ts \in Seq(Target) /\ Len(ts) <= MaxTargets
<1>1. ASSUME ts \in Targets
      PROVE  ts \in Seq(Target) /\ Len(ts) <= MaxTargets
  <2>1. PICK n \in 0..MaxTargets : ts \in [1..n -> Target]
    BY <1>1 DEF Targets, Target
  <2>2. ts \in Seq(Target)
    BY <2>1
  <2>3. DOMAIN ts = 1..n
    BY <2>1
  <2>4. Len(ts) = n
    BY <2>2, <2>3
  <2> QED BY <2>2, <2>4
<1>2. ASSUME ts \in Seq(Target), Len(ts) <= MaxTargets
      PROVE  ts \in Targets
  <2>1. Len(ts) \in Nat /\ ts \in [1..Len(ts) -> Target]
    BY <1>2, LenProperties
  <2>2. Len(ts) \in 0..MaxTargets
    BY <1>2, <2>1
  <2> QED BY <2>1, <2>2 DEF Targets, Target
<1> QED BY <1>1, <1>2

(* The fields of a document.                                               *)
LEMMA DocumentFields ==
  ASSUME NEW d \in Document
  PROVE  /\ d = [there |-> d.there, rev |-> d.rev, slack |-> d.slack, targets |-> d.targets]
         /\ d.there \in BOOLEAN /\ d.rev \in 0..MaxSettingsWrites /\ d.slack \in Value
         /\ d.targets \in Seq(Target) /\ Len(d.targets) \in 0..MaxTargets
         /\ DOMAIN d.targets = 1..Len(d.targets) /\ DOMAIN d.targets \subseteq 1..MaxTargets
         /\ \A i \in DOMAIN d.targets : d.targets[i] \in Target
<1>1. /\ d = [there |-> d.there, rev |-> d.rev, slack |-> d.slack, targets |-> d.targets]
      /\ d.there \in BOOLEAN /\ d.rev \in 0..MaxSettingsWrites /\ d.slack \in Value
      /\ d.targets \in Targets
  BY DEF Document
<1> DEFINE ts == d.targets
<1>2. ts \in Targets
  BY <1>1
<1> HIDE DEF ts
<1>3. ts \in Seq(Target) /\ Len(ts) <= MaxTargets
  BY <1>2, TargetsAreSequences
<1>4. Len(ts) \in Nat /\ DOMAIN ts = 1..Len(ts)
  BY <1>3, LenProperties
<1>5. Len(ts) \in 0..MaxTargets
  BY <1>3, <1>4
<1>6. \A i \in DOMAIN ts : ts[i] \in Target
  BY <1>3, <1>4, ElementOfSeq
<1>7. DOMAIN ts \subseteq 1..MaxTargets
  BY <1>4, <1>5, TargetBound
<1> QED BY <1>1, <1>3, <1>4, <1>5, <1>6, <1>7 DEF ts

(* A value without a reference has the shape of a value.                   *)
LEMMA BareType ==
  ASSUME NEW k \in {"none", "mask", "plain"}
  PROVE  Bare(k) \in Value /\ Bare(k).kind = k
BY TargetBound DEF Bare, Value, Slots

(* Targets whose headers are rewritten are targets.                        *)
LEMMA RewrittenTargets ==
  ASSUME NEW d \in Document, NEW ts \in [DOMAIN d.targets -> Target]
  PROVE  ts \in Targets
<1>1. DOMAIN d.targets = 1..Len(d.targets) /\ Len(d.targets) \in 0..MaxTargets
  BY DocumentFields
<1> QED BY <1>1 DEF Targets, Target

(* A target of an open document refers to no secret.                       *)
LEMMA OpenDocFields ==
  ASSUME NEW d, OpenDoc(d), NEW i \in DOMAIN d.targets
  PROVE  d.targets[i] \in Target /\ d.targets[i].header.kind # "ref"
<1>1. d.targets \in Seq(OpenTarget)
  BY DEF OpenDoc
<1>2. i \in 1..Len(d.targets)
  BY <1>1, LenProperties
<1>3. d.targets[i] \in OpenTarget
  BY <1>1, <1>2, ElementOfSeq
<1> QED BY <1>3 DEF OpenTarget

(* Targets without one of them are targets.                                *)
LEMMA WithoutType ==
  ASSUME NEW P, NEW ts \in Seq(P), NEW name
  PROVE  Without(ts, name) \in Seq(P)
<1>1. Len(ts) \in Nat /\ DOMAIN ts = 1..Len(ts)
  BY LenProperties
<1>2. CASE \E i \in DOMAIN ts : ts[i].name = name
  <2> DEFINE i == CHOOSE i \in DOMAIN ts : ts[i].name = name
  <2>1. i \in 1..Len(ts)
    BY <1>1, <1>2
  <2>2. Without(ts, name) = SubSeq(ts, 1, i - 1) \o SubSeq(ts, i + 1, Len(ts))
    BY <1>2, Zenon DEF Without
  <2> HIDE DEF i
  <2>3. SubSeq(ts, 1, i - 1) \in Seq(P)
    <3>1. 1 \in 1..Len(ts)+1 /\ i - 1 \in 0..Len(ts)
      BY <1>1, <2>1
    <3> QED BY <1>1, <3>1, SubSeqProperties
  <2>4. SubSeq(ts, i + 1, Len(ts)) \in Seq(P)
    <3>1. i + 1 \in 1..Len(ts)+1 /\ Len(ts) \in 0..Len(ts)
      BY <1>1, <2>1
    <3> QED BY <1>1, <3>1, SubSeqProperties
  <2> QED BY <2>2, <2>3, <2>4, ConcatProperties
<1>3. CASE ~\E i \in DOMAIN ts : ts[i].name = name
  BY <1>3, Zenon DEF Without
<1> QED BY <1>2, <1>3

(* Targets before the one that goes stay where they are.                   *)
LEMMA WithoutKeeps ==
  ASSUME NEW P, NEW ts \in Seq(P), NEW name
  PROVE  KeptBefore(ts, Without(ts, name), name)
<1>1. Len(ts) \in Nat /\ DOMAIN ts = 1..Len(ts)
  BY LenProperties
<1>2. CASE \E i \in DOMAIN ts : ts[i].name = name
  <2> DEFINE i == CHOOSE i \in DOMAIN ts : ts[i].name = name
             us == SubSeq(ts, 1, i - 1)
             vs == SubSeq(ts, i + 1, Len(ts))
  <2>1. i \in 1..Len(ts) /\ ts[i].name = name
    BY <1>1, <1>2
  <2>2. Without(ts, name) = us \o vs
    BY <1>2, Zenon DEF Without
  <2> HIDE DEF i
  <2>3. us \in Seq(P) /\ Len(us) = i - 1 /\ \A k \in 1..(i - 1) : us[k] = ts[k]
    <3> DEFINE m == i - 1
    <3>1. m \in Nat /\ m <= Len(ts)
      BY <1>1, <2>1
    <3> HIDE DEF m
    <3>2. \A k \in 1..m : ts[k] \in P
      BY <1>1, <3>1, ElementOfSeq
    <3>3. /\ SubSeq(ts, 1, m) \in Seq(P)
          /\ Len(SubSeq(ts, 1, m)) = IF 1 <= m THEN m - 1 + 1 ELSE 0
          /\ \A k \in 1 .. m - 1 + 1 : SubSeq(ts, 1, m)[k] = ts[1 + k - 1]
      BY <3>1, <3>2, SubSeqProperties
    <3>4. m - 1 + 1 = m /\ \A k \in 1..m : 1 + k - 1 = k
      BY <3>1
    <3> QED BY <3>1, <3>3, <3>4 DEF m
  <2>4. vs \in Seq(P)
    <3>1. i + 1 \in 1..Len(ts)+1 /\ Len(ts) \in 0..Len(ts)
      BY <1>1, <2>1
    <3> QED BY <1>1, <3>1, SubSeqProperties
  <2> HIDE DEF us, vs
  <2>5. Len(us \o vs) = Len(us) + Len(vs) /\ Len(vs) \in Nat
        /\ DOMAIN (us \o vs) = 1..Len(us \o vs)
        /\ \A k \in 1..Len(us) : (us \o vs)[k] = us[k]
    <3>1. us \in Seq(P) /\ vs \in Seq(P) /\ Len(us) \in Nat /\ Len(vs) \in Nat
      BY <2>3, <2>4, LenProperties
    <3>2. us \o vs \in Seq(P) /\ Len(us \o vs) = Len(us) + Len(vs)
          /\ \A k \in 1 .. Len(us) + Len(vs) :
               (us \o vs)[k] = IF k <= Len(us) THEN us[k] ELSE vs[k - Len(us)]
      BY <3>1, ConcatProperties
    <3>3. DOMAIN (us \o vs) = 1..Len(us \o vs)
      BY <3>2, LenProperties
    <3> QED BY <3>1, <3>2, <3>3
  <2> SUFFICES ASSUME NEW k \in 1..Len(ts), \A j \in 1..k : ts[j].name # name
               PROVE  k \in DOMAIN (us \o vs) /\ (us \o vs)[k] = ts[k]
    BY <1>1, <2>2 DEF KeptBefore, StandsBefore
  <2>6. k \in 1..(i - 1)
    BY <1>1, <2>1
  <2>7. k \in 1..Len(us \o vs) /\ k \in 1..Len(us)
    BY <1>1, <2>1, <2>3, <2>5, <2>6
  <2> QED BY <2>3, <2>5, <2>6, <2>7
<1>3. CASE ~\E i \in DOMAIN ts : ts[i].name = name
  <2>1. Without(ts, name) = ts
    BY <1>3, Zenon DEF Without
  <2> QED BY <2>1 DEF KeptBefore
<1> QED BY <1>2, <1>3

(* A masked value says only whether there is a secret.                     *)
LEMMA MaskedType ==
  ASSUME NEW v \in Value, v.kind \in {"none", "ref"}
  PROVE  Masked(v) \in Value /\ Masked(v).kind \in {"none", "mask"}
BY BareType DEF Masked

(* What a client gets to see holds no reference.                           *)
LEMMA RedactedDoc ==
  ASSUME NEW d, NEW n, StoredDoc(d, n)
  PROVE  LET x == Redacted(d) IN
           /\ x \in Document /\ x.rev = d.rev
           /\ x.slack = Masked(d.slack) /\ x.slack.kind \in {"none", "mask"}
           /\ x.targets \in Seq(OpenTarget)
           /\ DOMAIN x.targets = DOMAIN d.targets
           /\ \A i \in DOMAIN d.targets :
                /\ x.targets[i].name = d.targets[i].name
                /\ x.targets[i].header = Masked(d.targets[i].header)
<1>1. d \in Document /\ d.slack.kind \in {"none", "ref"}
      /\ \A i \in DOMAIN d.targets : d.targets[i].header.kind \in {"none", "ref"}
  BY DEF StoredDoc, StoredValue
<1>2. d.slack \in Value /\ \A i \in DOMAIN d.targets : d.targets[i].header \in Value
  BY <1>1, DocumentFields DEF Target
<1>3. Masked(d.slack) \in Value /\ Masked(d.slack).kind \in {"none", "mask"}
  BY <1>1, <1>2, MaskedType
<1> DEFINE ts == [i \in DOMAIN d.targets |->
                   [name |-> d.targets[i].name, header |-> Masked(d.targets[i].header)]]
           x == Redacted(d)
<1>4. /\ DOMAIN ts = DOMAIN d.targets
      /\ \A i \in DOMAIN d.targets :
           /\ ts[i] \in Target /\ ts[i].name = d.targets[i].name
           /\ ts[i].header = Masked(d.targets[i].header)
           /\ ts[i].header.kind \in {"none", "mask"}
  <2>1. \A i \in DOMAIN d.targets :
          /\ d.targets[i].name \in TargetNames
          /\ Masked(d.targets[i].header) \in Value
          /\ Masked(d.targets[i].header).kind \in {"none", "mask"}
    BY <1>1, <1>2, MaskedType, DocumentFields DEF Target
  <2> QED BY <2>1 DEF Target
<1>5. x = [d EXCEPT !.slack = Masked(d.slack), !.targets = ts]
  BY DEF Redacted
<1> HIDE DEF ts, x
<1>6. /\ x \in Document /\ x.rev = d.rev /\ x.slack = Masked(d.slack)
      /\ x.targets = ts /\ DOMAIN x.targets = DOMAIN d.targets
  <2>1. ts \in [DOMAIN d.targets -> Target]
    <3>1. ts = [i \in DOMAIN ts |-> ts[i]]
      BY DEF ts
    <3> QED BY <1>4, <3>1
  <2>2. ts \in Targets
    BY <1>1, <2>1, RewrittenTargets
  <2> QED BY <1>1, <1>3, <1>4, <1>5, <2>2 DEF Document
<1>7. x.targets \in Seq(OpenTarget)
  <2>1. x.targets \in Seq(Target) /\ DOMAIN x.targets = 1..Len(x.targets)
        /\ \A i \in DOMAIN x.targets : x.targets[i] \in Target
    BY <1>6, DocumentFields
  <2>2. \A i \in 1..Len(x.targets) : x.targets[i] \in OpenTarget
    BY <1>4, <1>6, <2>1 DEF OpenTarget
  <2>3. Len(x.targets) \in Nat /\ x.targets \in [1..Len(x.targets) -> OpenTarget]
    BY <2>1, <2>2, LenProperties
  <2> QED BY <2>3, IsASeq
<1> QED BY <1>3, <1>4, <1>6, <1>7 DEF x

(* So does what it sends back.                                             *)
LEMMA MergedDoc ==
  ASSUME NEW d \in Document, d.slack.kind \in {"none", "mask"}, d.targets \in Seq(OpenTarget),
         NEW change \in Changes, Len(Merged(d, change).targets) <= MaxTargets
  PROVE  LET x == Merged(d, change) IN
           /\ OpenDoc(x) /\ x.rev = d.rev
           /\ change # Slack => x.slack = d.slack
           /\ change \in {Slack, "other"} => x.targets = d.targets
<1> DEFINE x == Merged(d, change)
<1>0. Bare("plain") \in Value /\ Bare("plain").kind = "plain"
  BY BareType
<1>1. CASE change = Slack
  <2>1. x = [d EXCEPT !.there = TRUE, !.slack = Bare("plain")]
    <3>1. "other" # Slack
      BY DEF Slack
    <3> QED BY <1>1, <3>1, Zenon DEF Merged
  <2> HIDE DEF x
  <2> QED BY <1>0, <1>1, <2>1 DEF Document, OpenDoc, x
<1>2. CASE change = "other"
  <2>1. x = [d EXCEPT !.there = TRUE]
    <3>1. "other" # Slack
      BY DEF Slack
    <3> QED BY <1>2, <3>1, Zenon DEF Merged
  <2> HIDE DEF x
  <2> QED BY <1>2, <2>1 DEF Document, OpenDoc, x
<1>3. CASE change \notin {Slack, "other"}
  <2> DEFINE t == [name |-> change, header |-> Bare("plain")]
             ts == Append(Without(d.targets, change), t)
  <2>1. x = [d EXCEPT !.there = TRUE, !.targets = ts]
    BY <1>3, Zenon DEF Merged
  <2>2. t \in OpenTarget
    BY <1>0, <1>3 DEF OpenTarget, Target, Changes
  <2>3. ts \in Seq(OpenTarget)
    <3>1. Without(d.targets, change) \in Seq(OpenTarget)
      BY WithoutType
    <3> HIDE DEF t
    <3> QED BY <2>2, <3>1, AppendProperties
  <2> HIDE DEF ts, x
  <2>4. x.targets = ts /\ x.slack = d.slack /\ x.rev = d.rev /\ x.there
    BY <2>1 DEF Document
  <2>5. ts \in Targets
    <3>1. OpenTarget \subseteq Target
      BY DEF OpenTarget
    <3>2. ts \in Seq(Target)
      BY <2>3, <3>1, SeqMonotonic
    <3>3. Len(ts) <= MaxTargets
      BY <2>4 DEF x
    <3> QED BY <3>2, <3>3, TargetsAreSequences
  <2>6. x \in Document
    BY <2>1, <2>5 DEF Document
  <2> QED BY <1>3, <2>3, <2>4, <2>6 DEF OpenDoc, x
<1> QED BY <1>1, <1>2, <1>3

(* A document whose secrets are stored has them stored later too.          *)
LEMMA StoredLater ==
  ASSUME NEW n \in Nat, NEW m \in Nat, n <= m
  PROVE  /\ \A v : StoredValue(v, n) => StoredValue(v, m)
         /\ \A d : StoredDoc(d, n) => StoredDoc(d, m)
<1>1. \A v : StoredValue(v, n) => StoredValue(v, m)
  BY DEF StoredValue
<1> QED BY <1>1 DEF StoredDoc

(* What a secret, a mask or nothing becomes where e is stored.             *)
LEMMA NormalizedValue ==
  ASSUME NEW n \in 0..MaxSecrets, NEW i \in Slots,
         NEW v \in Value, v.kind # "ref", v.kind = "plain" => n # 0,
         NEW e \in Value, StoredValue(e, n)
  PROVE  LET x == Externalize(Unmasked(v, e), i, n) IN
           x \in Value /\ StoredValue(x, n) /\ (v = Masked(e) => x = e)
<1> DEFINE x == Externalize(Unmasked(v, e), i, n)
<1>1. v.kind \in {"none", "mask", "plain"} /\ e.kind \in {"none", "ref"}
  BY DEF Value, StoredValue
<1>2. CASE v.kind = "none"
  <2>1. x = v
    BY <1>2 DEF Externalize, Unmasked
  <2> HIDE DEF x
  <2>2. v = Masked(e) => v = e
    BY <1>2, BareType DEF Masked
  <2> QED BY <1>2, <2>1, <2>2 DEF StoredValue, x
<1>3. CASE v.kind = "mask"
  <2>1. x = e
    BY <1>1, <1>3 DEF Externalize, Unmasked
  <2> QED BY <2>1
<1>4. CASE v.kind = "plain"
  <2>1. x = Ref(i, n, n)
    BY <1>4 DEF Externalize, Unmasked, FreshName
  <2>2. x \in Value /\ StoredValue(x, n)
    <3>1. n \in 1..n
      BY <1>4
    <3> HIDE DEF x
    <3> QED BY <2>1, <3>1 DEF Ref, Value, StoredValue
  <2>3. v # Masked(e)
    BY <1>1, <1>4, BareType DEF Masked
  <2> QED BY <2>2, <2>3
<1> QED BY <1>1, <1>2, <1>3, <1>4

(* What a request is about to store, of a payload and the document that its *)
(* masks are resolved from.                                                *)
LEMMA NormalizedDoc ==
  ASSUME NEW d, OpenDoc(d), NEW n \in 0..MaxSecrets, Given(d) # {} => n # 0,
         NEW e, StoredDoc(e, n)
  PROVE  LET x == Externalized(Resolved(d, e), n) IN
           /\ StoredDoc(x, n) /\ x.there /\ x.rev = d.rev
           /\ d.slack = Masked(e.slack) => x.slack = e.slack
           /\ d.targets = Redacted(e).targets => x.targets = e.targets
           /\ \A i \in DOMAIN e.targets :
                i \in DOMAIN d.targets /\ d.targets[i] = Redacted(e).targets[i] =>
                  i \in DOMAIN x.targets /\ x.targets[i] = e.targets[i]
<1> DEFINE r == Resolved(d, e)
           x == Externalized(r, n)
           dts == d.targets
           ets == e.targets
           at(i) == HeaderAt(e, i)
           rts == [i \in DOMAIN dts |->
                     [name |-> dts[i].name, header |-> Unmasked(dts[i].header, at(i))]]
           xts == [i \in DOMAIN dts |->
                     [name |-> dts[i].name,
                      header |-> Externalize(Unmasked(dts[i].header, at(i)), i, n)]]
           xslack == Externalize(Unmasked(d.slack, e.slack), 0, n)
<1>1. d \in Document /\ e \in Document /\ d.there /\ d.slack.kind # "ref"
  BY DEF OpenDoc, StoredDoc
<1>2. d.slack \in Value /\ e.slack \in Value /\ StoredValue(e.slack, n)
  BY <1>1, DocumentFields DEF StoredDoc
<1>3. DOMAIN dts \subseteq 1..MaxTargets /\ DOMAIN ets \subseteq 1..MaxTargets
  BY <1>1, DocumentFields
<1>4. \A i \in DOMAIN dts :
        dts[i].name \in TargetNames /\ dts[i].header \in Value /\ dts[i].header.kind # "ref"
  BY OpenDocFields DEF Target
<1>5. \A i \in DOMAIN dts : at(i) \in Value /\ StoredValue(at(i), n)
  <2> SUFFICES ASSUME NEW i \in DOMAIN dts
               PROVE  at(i) \in Value /\ StoredValue(at(i), n)
    OBVIOUS
  <2>1. CASE i \in DOMAIN ets
    BY <1>1, <2>1, DocumentFields DEF HeaderAt, StoredDoc, Target
  <2>2. CASE i \notin DOMAIN ets
    BY <2>2, BareType DEF HeaderAt, StoredValue
  <2> QED BY <2>1, <2>2
<1>6. d.slack.kind = "plain" => n # 0
  <2> SUFFICES ASSUME d.slack.kind = "plain" PROVE 0 \in Given(d)
    OBVIOUS
  <2>1. d.slack = Bare("plain")
    BY DEF OpenDoc
  <2> QED BY <2>1 DEF Given
<1>7. \A i \in DOMAIN dts : dts[i].header.kind = "plain" => n # 0
  BY DEF Given
<1>8. xslack \in Value /\ StoredValue(xslack, n) /\ (d.slack = Masked(e.slack) => xslack = e.slack)
  <2>1. 0 \in Slots
    BY TargetBound DEF Slots
  <2> HIDE DEF xslack
  <2> QED BY <1>1, <1>2, <1>6, <2>1, NormalizedValue, Zenon DEF xslack
<1>9. \A i \in DOMAIN dts :
        LET y == Externalize(Unmasked(dts[i].header, at(i)), i, n) IN
          y \in Value /\ StoredValue(y, n) /\ (dts[i].header = Masked(at(i)) => y = at(i))
  <2> SUFFICES ASSUME NEW i \in DOMAIN dts
               PROVE  LET y == Externalize(Unmasked(dts[i].header, at(i)), i, n) IN
                        y \in Value /\ StoredValue(y, n) /\ (dts[i].header = Masked(at(i)) => y = at(i))
    OBVIOUS
  <2>1. i \in Slots
    BY <1>3 DEF Slots
  <2>2. dts[i].header \in Value /\ dts[i].header.kind # "ref"
        /\ (dts[i].header.kind = "plain" => n # 0)
        /\ at(i) \in Value /\ StoredValue(at(i), n)
    BY <1>4, <1>5, <1>7
  <2> HIDE DEF dts, at
  <2> QED BY <2>1, <2>2, NormalizedValue, Zenon
<1>10. /\ DOMAIN xts = DOMAIN dts /\ xts \in [DOMAIN dts -> Target]
       /\ \A i \in DOMAIN dts : StoredValue(xts[i].header, n)
  <2>1. xts \in [DOMAIN dts -> Target]
    BY <1>4, <1>9 DEF Target
  <2>2. \A i \in DOMAIN dts :
          xts[i].header = Externalize(Unmasked(dts[i].header, at(i)), i, n)
    OBVIOUS
  <2> QED BY <1>9, <2>1, <2>2
<1>11. r = [d EXCEPT !.slack = Unmasked(d.slack, e.slack), !.targets = rts]
  BY DEF Resolved
<1>12. x = [d EXCEPT !.slack = xslack, !.targets = xts]
  <2>1. r.slack = Unmasked(d.slack, e.slack) /\ r.targets = rts
    BY <1>1, <1>11 DEF Document
  <2>2. DOMAIN rts = DOMAIN dts
        /\ \A i \in DOMAIN dts :
             rts[i].name = dts[i].name /\ rts[i].header = Unmasked(dts[i].header, at(i))
    OBVIOUS
  <2> DEFINE zts == [i \in DOMAIN r.targets |->
                      [name |-> r.targets[i].name, header |-> Externalize(r.targets[i].header, i, n)]]
  <2>3. zts = xts
    <3> HIDE DEF r, rts
    <3> QED BY <2>1, <2>2
  <2>4. x = [r EXCEPT !.slack = Externalize(r.slack, 0, n), !.targets = zts]
    BY DEF Externalized
  <2> HIDE DEF r, x, zts, xts, rts
  <2>5. x = [r EXCEPT !.slack = xslack, !.targets = xts]
    BY <2>1, <2>3, <2>4
  <2> HIDE DEF xslack, dts
  <2> QED BY <1>1, <1>11, <2>5 DEF Document
<1>13. xts \in Targets
  BY <1>1, <1>10, RewrittenTargets
<1> HIDE DEF xts, xslack, x, r, rts
<1>14. x \in Document /\ x.there /\ x.rev = d.rev /\ x.slack = xslack /\ x.targets = xts
  BY <1>1, <1>8, <1>12, <1>13 DEF Document
<1>15. StoredDoc(x, n)
  BY <1>8, <1>10, <1>14 DEF StoredDoc
<1>16. ASSUME dts = Redacted(e).targets
       PROVE  xts = ets
  <2>1. /\ DOMAIN dts = DOMAIN ets
        /\ \A i \in DOMAIN ets : dts[i].name = ets[i].name /\ dts[i].header = Masked(ets[i].header)
    BY <1>16, RedactedDoc
  <2>2. \A i \in DOMAIN ets : at(i) = ets[i].header
    BY DEF HeaderAt
  <2>3. \A i \in DOMAIN ets :
          xts[i] = [name |-> ets[i].name, header |-> ets[i].header]
    <3> HIDE DEF dts, ets, at
    <3> QED BY <1>9, <2>1, <2>2 DEF xts
  <2>4. /\ DOMAIN ets = 1..Len(ets) /\ ets \in Seq(Target)
        /\ \A i \in DOMAIN ets : ets[i] \in Target
    BY <1>1, DocumentFields
  <2>5. \A i \in DOMAIN ets : xts[i] = ets[i]
    BY <2>3, <2>4 DEF Target
  <2>6. ets = [i \in DOMAIN ets |-> ets[i]]
    BY <2>4
  <2>7. xts = [i \in DOMAIN ets |-> xts[i]]
    BY <2>1 DEF xts
  <2> QED BY <2>5, <2>6, <2>7
<1>17. ASSUME NEW i \in DOMAIN ets, i \in DOMAIN dts, dts[i] = Redacted(e).targets[i]
       PROVE  i \in DOMAIN xts /\ xts[i] = ets[i]
  <2>1. dts[i].name = ets[i].name /\ dts[i].header = Masked(ets[i].header)
    BY <1>17, RedactedDoc
  <2>2. at(i) = ets[i].header
    BY <1>17 DEF HeaderAt
  <2>3. i \in DOMAIN xts /\ xts[i] = [name |-> ets[i].name, header |-> ets[i].header]
    <3> HIDE DEF dts, ets, at
    <3> QED BY <1>9, <1>17, <2>1, <2>2 DEF xts
  <2>4. ets[i] \in Target
    BY <1>1, <1>17, DocumentFields
  <2> QED BY <2>3, <2>4 DEF Target
<1> QED BY <1>8, <1>14, <1>15, <1>16, <1>17 DEF x, r

(* An edit of what is not secret leaves the rest as it was read, and one of *)
(* a target those before it.                                               *)
LEMMA MergedKeeps ==
  ASSUME NEW d \in Document, NEW change
  PROVE  /\ change # Slack => Merged(d, change).slack = d.slack
         /\ change \in {Slack, "other"} => Merged(d, change).targets = d.targets
         /\ KeptBefore(d.targets, Merged(d, change).targets, change)
<1>0. "other" # Slack
  BY DEF Slack
<1>1. CASE change = Slack
  <2>1. Merged(d, change) = [d EXCEPT !.there = TRUE, !.slack = Bare("plain")]
    BY <1>0, <1>1, Zenon DEF Merged
  <2> QED BY <1>1, <2>1 DEF Document, KeptBefore
<1>2. CASE change = "other"
  <2>1. Merged(d, change) = [d EXCEPT !.there = TRUE]
    BY <1>0, <1>2, Zenon DEF Merged
  <2> QED BY <1>2, <2>1 DEF Document, KeptBefore
<1>3. CASE change \notin {Slack, "other"}
  <2> DEFINE ts == Append(Without(d.targets, change), [name |-> change, header |-> Bare("plain")])
  <2>1. Merged(d, change) = [d EXCEPT !.there = TRUE, !.targets = ts]
    BY <1>3, Zenon DEF Merged
  <2>2. KeptBefore(d.targets, ts, change)
    <3> DEFINE ws == Without(d.targets, change)
               t == [name |-> change, header |-> Bare("plain")]
    <3>1. d.targets \in Seq(Target)
      BY DocumentFields
    <3>2. ws \in Seq(Target) /\ KeptBefore(d.targets, ws, change)
      BY <3>1, WithoutType, WithoutKeeps
    <3> HIDE DEF ws, t
    <3>3. DOMAIN ws = 1..Len(ws) /\ Len(ws) \in Nat
      BY <3>2, LenProperties
    <3>4. t \in Target \cup {t} /\ ws \in Seq(Target \cup {t})
      BY <3>2, SeqMonotonic
    <3>5. \A k \in DOMAIN ws : k \in DOMAIN Append(ws, t) /\ Append(ws, t)[k] = ws[k]
      <4>1. /\ Append(ws, t) \in Seq(Target \cup {t}) /\ Len(Append(ws, t)) = Len(ws) + 1
            /\ \A k \in 1..Len(ws) : Append(ws, t)[k] = ws[k]
        BY <3>4, AppendProperties
      <4>2. DOMAIN Append(ws, t) = 1..(Len(ws) + 1)
        BY <4>1, LenProperties
      <4> QED BY <3>3, <4>1, <4>2
    <3> QED BY <3>2, <3>5 DEF KeptBefore, ws, t
  <2> HIDE DEF ts
  <2> QED BY <1>3, <2>1, <2>2 DEF Document
<1> QED BY <1>1, <1>2, <1>3

(* The document of a client's file refers to no secret.                    *)
LEMMA FileDoc ==
  ASSUME NEW l \in Layouts
  PROVE  OpenDoc(FileContent(l)) /\ FileContent(l).rev = 0
<1> DEFINE x == FileContent(l)
           ts == [i \in 1..Len(l) |-> [name |-> l[i], header |-> Bare("plain")]]
<1>1. l \in Seq(TargetNames) /\ Len(l) \in 0..MaxTargets
  <2>1. l \in Seq(TargetNames) /\ Len(l) <= MaxTargets
    BY SettingsAssumption DEF SettingsAssumption
  <2> DEFINE k == Len(l)
  <2>2. k \in Nat /\ k <= MaxTargets
    BY <2>1, LenProperties
  <2> HIDE DEF k
  <2>3. k \in 0..MaxTargets
    BY <2>2
  <2> QED BY <2>1, <2>3 DEF k
<1>2. Bare("plain") \in Value /\ Bare("plain").kind = "plain"
      /\ Bare("none") \in Value /\ Bare("none").kind = "none"
  BY BareType
<1>3. ts \in [1..Len(l) -> OpenTarget]
  <2>1. \A i \in 1..Len(l) : l[i] \in TargetNames
    BY <1>1, ElementOfSeq
  <2> QED BY <1>2, <2>1 DEF OpenTarget, Target
<1>4. ts \in Seq(OpenTarget)
  BY <1>1, <1>3, IsASeq
<1>5. ts \in Targets
  <2>1. OpenTarget \subseteq Target
    BY DEF OpenTarget
  <2>2. ts \in [1..Len(l) -> Target]
    BY <1>3, <2>1
  <2> QED BY <1>1, <2>2 DEF Targets, Target
<1>6. x = [there |-> TRUE, rev |-> 0, slack |-> Bare("plain"), targets |-> ts]
  <2>1. x = [NoDocument EXCEPT !.there = TRUE, !.slack = Bare("plain"), !.targets = ts]
    BY Zenon DEF FileContent
  <2> HIDE DEF ts, x
  <2> QED BY <2>1 DEF NoDocument
<1> HIDE DEF ts, x
<1>7. x \in Document
  BY <1>2, <1>5, <1>6 DEF Document
<1> QED BY <1>2, <1>4, <1>6, <1>7 DEF OpenDoc, x

(* Storing secrets adds parameters of the next number, and changes none.   *)
LEMMA ParameterStored ==
  ASSUME ssm \in [Slots -> [Numbers -> 0..MaxSecrets]], ParameterInv,
         secrets \in 0..MaxSecrets,
         NEW given, NEW n \in {secrets, secrets + 1}, given # {} => n = secrets + 1,
         StoreSecrets(given, n)
  PROVE  /\ n \in 0..MaxSecrets /\ secrets' = n
         /\ ssm' \in [Slots -> [Numbers -> 0..MaxSecrets]] /\ ParameterInv'
<1>1. n \in 0..MaxSecrets /\ secrets' = n
  BY DEF StoreSecrets
<1>2. ssm' = [i \in Slots |-> IF i \in given THEN [ssm[i] EXCEPT ![n] = n] ELSE ssm[i]]
  BY DEF StoreSecrets, FreshName
<1>3. ASSUME NEW i \in Slots
      PROVE  ssm'[i] \in [Numbers -> 0..MaxSecrets] /\ \A k \in Numbers : ssm'[i][k] \in {0, k}
  <2>1. CASE i \in given
    <3>1. ssm'[i] = [ssm[i] EXCEPT ![n] = n]
      BY <1>2, <2>1
    <3>2. ssm[i] \in [Numbers -> 0..MaxSecrets]
      OBVIOUS
    <3>3. \A k \in Numbers : ssm'[i][k] = IF k = n THEN n ELSE ssm[i][k]
      BY <3>1, <3>2
    <3>4. \A k \in Numbers : ssm[i][k] \in {0, k}
      BY DEF ParameterInv
    <3> QED BY <1>1, <3>1, <3>2, <3>3, <3>4
  <2>2. CASE i \notin given
    BY <1>2, <2>2 DEF ParameterInv
  <2> QED BY <2>1, <2>2
<1>4. ssm' \in [Slots -> [Numbers -> 0..MaxSecrets]]
  BY <1>2, <1>3
<1> QED BY <1>1, <1>3, <1>4 DEF ParameterInv, Numbers

(* A request that brings payload d, under a revision or not.               *)
LEMMA NormalizeStep ==
  ASSUME SettingsInv, NEW c \in Clients, NEW op \in {"create", "guarded", "unguarded"},
         NEW change \in Changes \cup {"file"}, NEW expects \in 0..MaxSettingsWrites,
         NEW d, OpenDoc(d), d.rev <= revisions, op = "create" => d.rev = 0,
         op = "guarded" /\ ~unruly =>
           /\ expects <= doc.rev
           /\ expects = doc.rev /\ doc.rev # 0 => d = Merged(Redacted(doc), change),
         Normalize(c, op, change, expects, d), UNCHANGED <<document, notifier>>
  PROVE  SettingsInv'
<1> DEFINE given == Given(d)
           n == IF given = {} THEN secrets ELSE secrets + 1
<1> USE DEF SettingsInv, SettingsTypeOK
<1>0. UNCHANGED <<doc, lagging, revisions, unruly, notifier>>
  BY DEF document
<1>1. StoreSecrets(given, n)
  BY DEF Normalize
<1>2. PICK existing \in {doc, lagging} :
        client' = [client EXCEPT ![c] =
            [pc |-> "put", op |-> op, change |-> change, expects |-> expects,
             payload |-> Externalized(Resolved(d, existing), n), stale |-> existing # doc]]
  BY Zenon DEF Normalize
<1>3. n \in {secrets, secrets + 1} /\ (given # {} => n = secrets + 1) /\ secrets <= n /\ n \in Nat
  OBVIOUS
<1> HIDE DEF n
<1>4. /\ n \in 0..MaxSecrets /\ secrets' = n /\ secrets' \in 0..MaxSecrets
      /\ ssm' \in [Slots -> [Numbers -> 0..MaxSecrets]] /\ ParameterInv'
  BY <1>1, <1>3, ParameterStored
<1>5. /\ \A v : StoredValue(v, secrets) => StoredValue(v, n)
      /\ \A y : StoredDoc(y, secrets) => StoredDoc(y, n)
  BY <1>3, StoredLater
<1> DEFINE p == Externalized(Resolved(d, existing), n)
           x == [pc |-> "put", op |-> op, change |-> change, expects |-> expects,
                 payload |-> p, stale |-> existing # doc]
<1>6. /\ StoredDoc(p, n) /\ p.there /\ p.rev = d.rev
      /\ d.slack = Masked(existing.slack) => p.slack = existing.slack
      /\ d.targets = Redacted(existing).targets => p.targets = existing.targets
      /\ \A i \in DOMAIN existing.targets :
           i \in DOMAIN d.targets /\ d.targets[i] = Redacted(existing).targets[i] =>
             i \in DOMAIN p.targets /\ p.targets[i] = existing.targets[i]
  <2>1. StoredDoc(existing, n)
    BY <1>2, <1>5 DEF DocInv
  <2>2. Given(d) # {} => n # 0
    BY <1>3
  <2> HIDE DEF given
  <2> QED BY <1>4, <2>1, <2>2, NormalizedDoc
<1> HIDE DEF p, given
<1>7. x \in Putting
  <2>1. (existing # doc) \in BOOLEAN
    OBVIOUS
  <2> QED BY <1>6, <2>1 DEF Putting, StoredDoc
<1>8. /\ x.pc = "put" /\ x.payload = p /\ x.op = op /\ x.change = change /\ x.expects = expects
      /\ x.stale <=> existing # doc
  OBVIOUS
<1>9. Builder(x, doc, unruly)
  <2> SUFFICES ASSUME op = "guarded", ~unruly
               PROVE  /\ expects <= doc.rev
                      /\ expects = doc.rev /\ doc.rev # 0 /\ existing = doc =>
                           /\ change # Slack => p.slack = doc.slack
                           /\ change \in {Slack, "other"} => p.targets = doc.targets
                           /\ KeptBefore(doc.targets, p.targets, change)
    BY <1>8 DEF Builder, BuildsOn
  <2> SUFFICES ASSUME expects = doc.rev, doc.rev # 0, existing = doc
               PROVE  /\ change # Slack => p.slack = doc.slack
                      /\ change \in {Slack, "other"} => p.targets = doc.targets
                      /\ KeptBefore(doc.targets, p.targets, change)
    OBVIOUS
  <2>1. d = Merged(Redacted(doc), change)
    OBVIOUS
  <2>2. Redacted(doc) \in Document /\ Redacted(doc).slack = Masked(doc.slack)
    BY RedactedDoc DEF DocInv
  <2>3. /\ change # Slack => d.slack = Masked(doc.slack)
        /\ change \in {Slack, "other"} => d.targets = Redacted(doc).targets
        /\ KeptBefore(Redacted(doc).targets, d.targets, change)
    BY <2>1, <2>2, MergedKeeps
  <2>4. KeptBefore(doc.targets, p.targets, change)
    <3> DEFINE rts == Redacted(doc).targets
    <3>1. /\ DOMAIN rts = DOMAIN doc.targets
          /\ \A i \in DOMAIN doc.targets : rts[i].name = doc.targets[i].name
          /\ DOMAIN doc.targets = 1..Len(doc.targets) /\ Len(doc.targets) \in Nat
      BY RedactedDoc, DocumentFields DEF DocInv
    <3> HIDE DEF rts
    <3>2. \A i \in DOMAIN doc.targets :
            StandsBefore(doc.targets, i, change) => StandsBefore(rts, i, change)
      <4> DEFINE ts == doc.targets
      <4> HIDE DEF ts
      <4> SUFFICES ASSUME NEW i \in DOMAIN ts
                   PROVE  StandsBefore(ts, i, change) => StandsBefore(rts, i, change)
        BY DEF ts
      <4>1. \A j \in 1..i : j \in DOMAIN ts
        BY <3>1 DEF ts
      <4>2. \A j \in 1..i : rts[j].name = ts[j].name
        BY <3>1, <4>1 DEF ts
      <4> QED BY <4>2 DEF StandsBefore
    <3>3. \A i \in DOMAIN doc.targets :
            StandsBefore(rts, i, change) => i \in DOMAIN d.targets /\ d.targets[i] = rts[i]
      BY <2>3, <3>1 DEF KeptBefore, rts
    <3> QED BY <1>6, <3>2, <3>3 DEF KeptBefore, rts
  <2> QED BY <1>6, <2>3, <2>4
<1> HIDE DEF x
<1>10. client' = [client EXCEPT ![c] = x]
  BY <1>2 DEF x, p
<1>11. SettingsTypeOK'
  BY <1>0, <1>4, <1>7, <1>10
<1>12. DocInv'
  BY <1>0, <1>4, <1>5 DEF DocInv
<1>13. ClientInv'
  <2> SUFFICES ASSUME NEW b \in Clients
               PROVE /\ client'[b].pc = "normalize" => OpenDoc(client'[b].payload)
                     /\ client'[b].pc \in {"put", "erase", "sweep"} => StoredDoc(client'[b].payload, n)
                     /\ client'[b].pc \in {"normalize", "put"} =>
                          /\ client'[b].payload.there
                          /\ client'[b].payload.rev <= revisions
                          /\ client'[b].op = "create" => client'[b].payload.rev = 0
    BY <1>0, <1>4 DEF ClientInv
  <2>1. CASE b = c
    <3>1. client'[b] = x
      BY <1>10, <2>1
    <3> QED BY <1>6, <1>8, <3>1
  <2>2. CASE b # c
    <3>1. client'[b] = client[b]
      BY <1>10, <2>2
    <3> QED BY <1>5, <3>1 DEF ClientInv
  <2> QED BY <2>1, <2>2
<1>14. BuildInv'
  <2> SUFFICES ASSUME NEW b \in Clients
               PROVE  Builder(client'[b], doc, unruly)
    BY <1>0 DEF BuildInv
  <2>1. CASE b = c
    BY <1>9, <1>10, <2>1
  <2>2. CASE b # c
    <3>1. client'[b] = client[b]
      BY <1>10, <2>2
    <3> QED BY <3>1 DEF BuildInv
  <2> QED BY <2>1, <2>2
<1> QED BY <1>4, <1>11, <1>12, <1>13, <1>14

-----------------------------------------------------------------------------
(* Settings: the steps                                                     *)

(* What a client at work carries.                                          *)
LEMMA ClientShape ==
  ASSUME SettingsInv, NEW c \in Clients
  PROVE  /\ client[c].pc \in {"normalize", "put"} =>
              /\ client[c].op \in {"create", "guarded", "unguarded"}
              /\ client[c].change \in Changes \cup {"file"}
              /\ client[c].expects \in 0..MaxSettingsWrites
              /\ client[c].payload \in Document
         /\ client[c].pc \in {"erase", "sweep"} => client[c] \in Erasing
<1>1. client[c] \in {Ready} \cup Putting \cup Erasing
  BY DEF SettingsInv, SettingsTypeOK
<1> QED BY <1>1 DEF Ready, Putting, Erasing

(* Sending a file keeps the invariant.                                     *)
LEMMA SendFileStep ==
  ASSUME SettingsInv, NEW c \in Clients, NEW op \in {"create", "unguarded"}, NEW l \in Layouts,
         SendFile(c, op, l)
  PROVE  SettingsInv'
<1>1. Normalize(c, op, "file", 0, FileContent(l)) /\ UNCHANGED <<document, notifier>>
  BY DEF SendFile
<1>2. OpenDoc(FileContent(l)) /\ FileContent(l).rev = 0
  BY FileDoc
<1>3. /\ op \in {"create", "guarded", "unguarded"} /\ op # "guarded"
      /\ 0 \in 0..MaxSettingsWrites /\ "file" \in Changes \cup {"file"}
      /\ 0 <= revisions
  BY DEF SettingsInv, SettingsTypeOK
<1> DEFINE d == FileContent(l)
<1> HIDE DEF d
<1>4. OpenDoc(d) /\ d.rev = 0 /\ Normalize(c, op, "file", 0, d)
  BY <1>1, <1>2 DEF d
<1> QED BY <1>1, <1>3, <1>4, NormalizeStep

(* A change starts from what a client gets to see.                         *)
LEMMA StartChangeStep ==
  ASSUME SettingsInv, NEW c \in Clients, NEW op \in {"guarded", "unguarded"},
         NEW change \in Changes, StartChange(c, op, change)
  PROVE  SettingsInv'
<1> DEFINE p == Merged(Redacted(doc), change)
           expects == IF op = "guarded" THEN doc.rev ELSE 0
           x == [pc |-> "normalize", op |-> op, change |-> change, expects |-> expects,
                 payload |-> p, stale |-> FALSE]
<1> USE DEF SettingsInv, SettingsTypeOK
<1>1. Len(p.targets) <= MaxTargets /\ client' = [client EXCEPT ![c] = x]
  BY Zenon DEF StartChange
<1>2. UNCHANGED <<doc, lagging, revisions, unruly, notifier, ssm, secrets>>
  BY DEF StartChange, document, parameters
<1>3. StoredDoc(doc, secrets) /\ doc.rev <= revisions
  BY DEF DocInv
<1>4. OpenDoc(p) /\ p.rev = doc.rev
  <2> DEFINE r == Redacted(doc)
  <2>1. /\ r \in Document /\ r.rev = doc.rev
        /\ r.slack.kind \in {"none", "mask"} /\ r.targets \in Seq(OpenTarget)
    BY <1>3, RedactedDoc
  <2>2. Len(Merged(r, change).targets) <= MaxTargets
    BY <1>1
  <2> HIDE DEF r
  <2>3. OpenDoc(Merged(r, change)) /\ Merged(r, change).rev = r.rev
    BY <2>1, <2>2, MergedDoc
  <2> QED BY <2>1, <2>3 DEF r
<1>5. expects \in 0..MaxSettingsWrites /\ expects <= doc.rev
  BY <1>3, DocumentFields
<1> HIDE DEF p, expects
<1>6. /\ x \in Putting /\ x.pc = "normalize" /\ x.payload = p /\ x.op = op /\ x.change = change
      /\ x.expects = expects
  BY <1>4, <1>5 DEF Putting, OpenDoc
<1> HIDE DEF x
<1>7. SettingsTypeOK'
  BY <1>1, <1>2, <1>6
<1>8. DocInv' /\ ParameterInv'
  BY <1>2 DEF DocInv, ParameterInv
<1>9. ClientInv'
  <2> SUFFICES ASSUME NEW b \in Clients
               PROVE /\ client'[b].pc = "normalize" => OpenDoc(client'[b].payload)
                     /\ client'[b].pc \in {"put", "erase", "sweep"} => StoredDoc(client'[b].payload, secrets)
                     /\ client'[b].pc \in {"normalize", "put"} =>
                          /\ client'[b].payload.there
                          /\ client'[b].payload.rev <= revisions
                          /\ client'[b].op = "create" => client'[b].payload.rev = 0
    BY <1>2 DEF ClientInv
  <2>1. CASE b = c
    <3>1. client'[b] = x
      BY <1>1, <2>1
    <3> QED BY <1>3, <1>4, <1>6, <3>1 DEF OpenDoc
  <2>2. CASE b # c
    <3>1. client'[b] = client[b]
      BY <1>1, <2>2
    <3> QED BY <3>1 DEF ClientInv
  <2> QED BY <2>1, <2>2
<1>10. BuildInv'
  <2> SUFFICES ASSUME NEW b \in Clients
               PROVE  Builder(client'[b], doc, unruly)
    BY <1>2 DEF BuildInv
  <2>1. CASE b = c
    <3>1. client'[b] = x
      BY <1>1, <2>1
    <3> QED BY <1>5, <1>6, <3>1 DEF Builder, BuildsOn, p
  <2>2. CASE b # c
    <3>1. client'[b] = client[b]
      BY <1>1, <2>2
    <3> QED BY <3>1 DEF BuildInv
  <2> QED BY <2>1, <2>2
<1> QED BY <1>7, <1>8, <1>9, <1>10

(* Sending a change keeps the invariant.                                   *)
LEMMA SendChangeStep ==
  ASSUME SettingsInv, NEW c \in Clients, SendChange(c)
  PROVE  SettingsInv'
<1>1. /\ client[c].pc = "normalize" /\ UNCHANGED <<document, notifier>>
      /\ Normalize(c, client[c].op, client[c].change, client[c].expects, client[c].payload)
  BY DEF SendChange
<1>2. /\ client[c].op \in {"create", "guarded", "unguarded"}
      /\ client[c].change \in Changes \cup {"file"}
      /\ client[c].expects \in 0..MaxSettingsWrites
  BY <1>1, ClientShape
<1>3. /\ OpenDoc(client[c].payload) /\ client[c].payload.rev <= revisions
      /\ client[c].op = "create" => client[c].payload.rev = 0
  BY <1>1 DEF SettingsInv, ClientInv
<1>4. client[c].op = "guarded" /\ ~unruly =>
         /\ client[c].expects <= doc.rev
         /\ client[c].expects = doc.rev /\ doc.rev # 0 =>
              client[c].payload = Merged(Redacted(doc), client[c].change)
  BY <1>1 DEF SettingsInv, BuildInv, Builder, BuildsOn
<1> QED BY <1>1, <1>2, <1>3, <1>4, NormalizeStep

(* A write of the document, at the end of a request or before a sweep.      *)
LEMMA StoreStep ==
  ASSUME SettingsInv, NEW c \in Clients, NEW d, StoreDocument(d),
         StoredDoc(d, secrets), d.rev <= revisions + 1,
         unruly' \in BOOLEAN,
         NEW y, client' = [client EXCEPT ![c] = y],
         \/ y = Ready
         \/ y \in Erasing /\ y.pc = "sweep" /\ StoredDoc(y.payload, secrets),
         UNCHANGED <<parameters, notifier>>,
         \A b \in Clients \ {c} : Builder(client[b], d, unruly')
  PROVE  SettingsInv'
<1> USE DEF SettingsInv, SettingsTypeOK
<1>1. /\ revisions < MaxSettingsWrites /\ revisions' = revisions + 1 /\ doc' = d /\ lagging' = doc
      /\ UNCHANGED <<ssm, secrets, notifier>>
  BY DEF StoreDocument, parameters
<1>2. y.pc \notin {"normalize", "put"} /\ y \in {Ready} \cup Erasing
      /\ (y.pc \in {"put", "erase", "sweep"} => StoredDoc(y.payload, secrets))
  BY DEF Ready, Erasing
<1>3. d \in Document /\ OnlyRefs(d)
  BY DEF StoredDoc, StoredValue, OnlyRefs
<1>4. SettingsTypeOK'
  <2>1. client' \in [Clients -> {Ready} \cup Putting \cup Erasing]
    BY <1>2
  <2>2. revisions' \in 0..MaxSettingsWrites
    BY <1>1
  <2> QED BY <1>1, <1>3, <2>1, <2>2
<1>5. DocInv' /\ ParameterInv'
  BY <1>1 DEF DocInv, ParameterInv
<1>6. ClientInv'
  <2> SUFFICES ASSUME NEW b \in Clients
               PROVE /\ client'[b].pc = "normalize" => OpenDoc(client'[b].payload)
                     /\ client'[b].pc \in {"put", "erase", "sweep"} => StoredDoc(client'[b].payload, secrets)
                     /\ client'[b].pc \in {"normalize", "put"} =>
                          /\ client'[b].payload.there
                          /\ client'[b].payload.rev <= revisions + 1
                          /\ client'[b].op = "create" => client'[b].payload.rev = 0
    BY <1>1 DEF ClientInv
  <2>1. CASE b = c
    <3>1. client'[b] = y
      BY <2>1
    <3> QED BY <1>2, <3>1
  <2>2. CASE b # c
    <3>1. client'[b] = client[b]
      BY <2>2
    <3>2. /\ client[b].pc = "normalize" => OpenDoc(client[b].payload)
          /\ client[b].pc \in {"put", "erase", "sweep"} => StoredDoc(client[b].payload, secrets)
          /\ client[b].pc \in {"normalize", "put"} =>
               /\ client[b].payload.there
               /\ client[b].payload.rev <= revisions
               /\ client[b].op = "create" => client[b].payload.rev = 0
      BY DEF ClientInv
    <3>3. client[b].pc \in {"normalize", "put"} => client[b].payload.rev <= revisions + 1
      <4> SUFFICES ASSUME client[b].pc \in {"normalize", "put"}
                   PROVE  client[b].payload.rev <= revisions + 1
        OBVIOUS
      <4>1. client[b].payload \in Document
        BY ClientShape
      <4>2. client[b].payload.rev \in Nat
        BY <4>1, DocumentFields
      <4> QED BY <3>2, <4>2
    <3> QED BY <3>1, <3>2, <3>3
  <2> QED BY <2>1, <2>2
<1>7. BuildInv'
  <2> SUFFICES ASSUME NEW b \in Clients
               PROVE  Builder(client'[b], d, unruly')
    BY <1>1 DEF BuildInv
  <2>1. CASE b = c
    <3>1. client'[b] = y
      BY <2>1
    <3> QED BY <1>2, <3>1 DEF Builder
  <2>2. CASE b # c
    <3>1. client'[b] = client[b]
      BY <2>2
    <3> QED BY <2>2, <3>1
  <2> QED BY <2>1, <2>2
<1> QED BY <1>4, <1>5, <1>6, <1>7

(* Creating the document keeps the invariant.                              *)
LEMMA CreateStep ==
  ASSUME SettingsInv, NEW c \in Clients, Create(c)
  PROVE  SettingsInv'
<1> DEFINE d == client[c].payload
<1>1. /\ client[c].pc = "put" /\ client[c].op = "create" /\ ~doc.there
      /\ StoreDocument(d) /\ client' = [client EXCEPT ![c] = Ready]
      /\ UNCHANGED <<unruly, parameters, notifier>>
  BY DEF Create, Rest
<1>2. UNCHANGED <<parameters, notifier>> /\ unruly' = unruly /\ unruly' \in BOOLEAN
  BY <1>1 DEF SettingsInv, SettingsTypeOK
<1>3. StoredDoc(d, secrets) /\ d.rev = 0 /\ d.rev <= revisions + 1
  BY <1>1 DEF SettingsInv, SettingsTypeOK, ClientInv
<1>4. doc.rev = 0
  BY <1>1 DEF SettingsInv, DocInv, StoredDoc
<1>5. \A b \in Clients \ {c} : Builder(client[b], d, unruly')
  BY <1>2, <1>3, <1>4 DEF SettingsInv, BuildInv, Builder
<1> HIDE DEF d
<1> QED BY <1>1, <1>2, <1>3, <1>5, StoreStep

(* Replacing the revision that was read keeps the invariant.               *)
LEMMA ReplaceGuardedStep ==
  ASSUME SettingsInv, NEW c \in Clients, ReplaceGuarded(c)
  PROVE  SettingsInv'
<1> DEFINE p == client[c].payload
           rev == client[c].expects + 1
           d == [p EXCEPT !.rev = rev]
<1>1. /\ client[c].pc = "put" /\ doc.rev = client[c].expects
      /\ StoreDocument(d) /\ client' = [client EXCEPT ![c] = Ready]
      /\ UNCHANGED <<unruly, parameters, notifier>>
  BY DEF ReplaceGuarded, Rest, AcceptedRev
<1>2. UNCHANGED <<parameters, notifier>> /\ unruly' = unruly /\ unruly' \in BOOLEAN
  BY <1>1 DEF SettingsInv, SettingsTypeOK
<1>3. StoredDoc(p, secrets) /\ p.there /\ doc \in Document /\ doc.rev <= revisions
  BY <1>1 DEF SettingsInv, SettingsTypeOK, ClientInv, DocInv
<1>4. doc.rev \in Nat /\ rev = doc.rev + 1
  BY <1>1, <1>3, DocumentFields
<1>5. rev \in 0..MaxSettingsWrites /\ rev <= revisions + 1
  <2>1. revisions < MaxSettingsWrites /\ revisions \in Nat
    BY <1>1 DEF StoreDocument, SettingsInv, SettingsTypeOK
  <2> HIDE DEF rev
  <2> QED BY <1>3, <1>4, <2>1
<1> HIDE DEF p, rev
<1>6. p \in Document
  BY <1>3 DEF StoredDoc
<1>7. d.rev = rev /\ d.there /\ d.slack = p.slack /\ d.targets = p.targets /\ d \in Document
  BY <1>3, <1>5, <1>6 DEF Document
<1> HIDE DEF d
<1>8. StoredDoc(d, secrets)
  BY <1>3, <1>7 DEF StoredDoc
<1>9. \A b \in Clients \ {c} : Builder(client[b], d, unruly')
  <2> SUFFICES ASSUME NEW b \in Clients \ {c}, client[b].pc \in {"normalize", "put"},
                      client[b].op = "guarded", ~unruly
               PROVE  client[b].expects <= d.rev /\ client[b].expects # d.rev
    BY <1>2 DEF Builder
  <2>1. client[b].expects \in Nat /\ client[b].expects <= doc.rev
    BY ClientShape DEF SettingsInv, BuildInv, Builder
  <2> QED BY <1>4, <1>7, <2>1
<1> QED BY <1>1, <1>2, <1>5, <1>7, <1>8, <1>9, StoreStep

(* Replacing whatever is there keeps the invariant.                        *)
LEMMA ReplaceUnguardedStep ==
  ASSUME SettingsInv, NEW c \in Clients, ReplaceUnguarded(c)
  PROVE  SettingsInv'
<1> DEFINE d == client[c].payload
<1>1. /\ client[c].pc = "put" /\ StoreDocument(d) /\ unruly' = TRUE
      /\ client' = [client EXCEPT ![c] = Ready]
      /\ UNCHANGED <<parameters, notifier>>
  BY DEF ReplaceUnguarded, Rest
<1>2. StoredDoc(d, secrets) /\ d.rev <= revisions
  BY <1>1 DEF SettingsInv, ClientInv
<1>3. d.rev <= revisions + 1
  <2>1. d.rev \in Nat /\ revisions \in Nat
    BY <1>2, DocumentFields DEF StoredDoc, SettingsInv, SettingsTypeOK
  <2> QED BY <1>2, <2>1
<1>4. \A b \in Clients \ {c} : Builder(client[b], d, unruly')
  BY <1>1 DEF Builder
<1> HIDE DEF d
<1> QED BY <1>1, <1>2, <1>3, <1>4, StoreStep

(* Deleting the document keeps the invariant.                              *)
LEMMA EraseStep ==
  ASSUME SettingsInv, NEW c \in Clients, Erase(c)
  PROVE  SettingsInv'
<1> DEFINE y == [client[c] EXCEPT !.pc = "sweep"]
<1>1. /\ client[c].pc = "erase" /\ StoreDocument(NoDocument) /\ unruly' = TRUE
      /\ client' = [client EXCEPT ![c] = y]
      /\ UNCHANGED <<parameters, notifier>>
  BY DEF Erase
<1>2. client[c] \in Erasing /\ StoredDoc(client[c].payload, secrets)
  BY <1>1, ClientShape DEF SettingsInv, ClientInv
<1>3. y \in Erasing /\ y.pc = "sweep" /\ StoredDoc(y.payload, secrets)
  BY <1>2 DEF Erasing
<1> HIDE DEF y
<1>4. StoredDoc(NoDocument, secrets) /\ NoDocument.rev <= revisions + 1
  <2> DEFINE ts == <<>>
  <2>1. ts \in Seq(Target) /\ Len(ts) <= MaxTargets /\ DOMAIN ts = {}
    BY TargetBound
  <2> HIDE DEF ts
  <2>2. ts \in Targets
    BY <2>1, TargetsAreSequences
  <2>3. Bare("none") \in Value /\ Bare("none").kind = "none"
    BY BareType
  <2>4. NoDocument = [there |-> FALSE, rev |-> 0, slack |-> Bare("none"), targets |-> ts]
    BY DEF NoDocument, ts
  <2>5. NoDocument \in Document
    BY <2>2, <2>3, <2>4 DEF Document
  <2>6. revisions \in Nat
    BY DEF SettingsInv, SettingsTypeOK
  <2> QED BY <2>1, <2>3, <2>4, <2>5, <2>6 DEF StoredDoc, StoredValue
<1>5. \A b \in Clients \ {c} : Builder(client[b], NoDocument, unruly')
  BY <1>1 DEF Builder
<1> QED BY <1>1, <1>3, <1>4, <1>5, StoreStep

(* A request that ends, or a deletion that starts.                         *)
LEMMA ClientStep ==
  ASSUME SettingsInv, NEW c \in Clients, UNCHANGED <<document, parameters, notifier>>,
         NEW y, client' = [client EXCEPT ![c] = y],
         y = Ready \/ (y \in Erasing /\ StoredDoc(y.payload, secrets))
  PROVE  SettingsInv'
<1> USE DEF SettingsInv, SettingsTypeOK
<1>1. UNCHANGED <<doc, lagging, revisions, unruly, notifier, ssm, secrets>>
  BY DEF document, parameters
<1>2. y.pc \notin {"normalize", "put"} /\ y \in {Ready} \cup Erasing
      /\ (y.pc \in {"put", "erase", "sweep"} => StoredDoc(y.payload, secrets))
  BY DEF Ready, Erasing
<1>3. SettingsTypeOK'
  BY <1>1, <1>2
<1>4. DocInv' /\ ParameterInv'
  BY <1>1 DEF DocInv, ParameterInv
<1>5. \A b \in Clients : client'[b] = IF b = c THEN y ELSE client[b]
  OBVIOUS
<1>6. ClientInv'
  BY <1>1, <1>2, <1>5 DEF ClientInv
<1>7. BuildInv'
  BY <1>1, <1>2, <1>5 DEF BuildInv, Builder
<1> QED BY <1>3, <1>4, <1>6, <1>7

(* Reading the document to delete it keeps the invariant.                  *)
LEMMA StartEraseStep ==
  ASSUME SettingsInv, NEW c \in Clients, StartErase(c)
  PROVE  SettingsInv'
<1> DEFINE y == [pc |-> "erase", payload |-> doc]
<1>1. client' = [client EXCEPT ![c] = y] /\ UNCHANGED <<document, parameters, notifier>>
  BY DEF StartErase
<1>2. y \in Erasing /\ StoredDoc(y.payload, secrets)
  BY DEF SettingsInv, SettingsTypeOK, DocInv, Erasing
<1> HIDE DEF y
<1> QED BY <1>1, <1>2, ClientStep

(* A refused write keeps the invariant.                                    *)
LEMMA RefusedStep ==
  ASSUME SettingsInv, NEW c \in Clients, Refused(c)
  PROVE  SettingsInv'
<1>1. client' = [client EXCEPT ![c] = Ready] /\ UNCHANGED <<document, parameters, notifier>>
  BY DEF Refused, Rest
<1>2. Ready = Ready \/ (Ready \in Erasing /\ StoredDoc(Ready.payload, secrets))
  OBVIOUS
<1> QED BY <1>1, <1>2, ClientStep

(* Sweeping takes parameters that the document does not refer to.          *)
LEMMA SweepStep ==
  ASSUME SettingsInv, NEW c \in Clients, Sweep(c)
  PROVE  SettingsInv'
<1> USE DEF SettingsInv, SettingsTypeOK
<1> DEFINE gone(i, n) == \E v \in RefsOf(client[c].payload) : v.slot = i /\ v.number = n
<1>1. /\ ssm' = [i \in Slots |-> [n \in Numbers |-> IF gone(i, n) THEN 0 ELSE ssm[i][n]]]
      /\ client' = [client EXCEPT ![c] = Ready]
      /\ UNCHANGED <<secrets, document, notifier>>
  BY Zenon DEF Sweep, Rest
<1> HIDE DEF gone
<1>2. UNCHANGED <<doc, lagging, revisions, unruly, notifier, secrets>>
  BY <1>1 DEF document
<1>3. ssm' \in [Slots -> [Numbers -> 0..MaxSecrets]] /\ ParameterInv'
  <2>1. \A i \in Slots, n \in Numbers : ssm'[i][n] = IF gone(i, n) THEN 0 ELSE ssm[i][n]
    BY <1>1
  <2>2. \A i \in Slots, n \in Numbers : ssm[i][n] \in 0..MaxSecrets /\ ssm[i][n] \in {0, n}
    BY DEF ParameterInv
  <2>3. ParameterInv'
    BY <2>1, <2>2 DEF ParameterInv
  <2>4. \A i \in Slots, n \in Numbers :
          (IF gone(i, n) THEN 0 ELSE ssm[i][n]) \in 0..MaxSecrets
    BY <2>2
  <2> QED BY <1>1, <2>3, <2>4
<1>4. Ready.pc = "idle"
  BY DEF Ready
<1>5. \A b \in Clients : client'[b] = IF b = c THEN Ready ELSE client[b]
  BY <1>1
<1>6. SettingsTypeOK'
  <2>1. client' \in [Clients -> {Ready} \cup Putting \cup Erasing]
    BY <1>1
  <2> QED BY <1>2, <1>3, <2>1
<1>7. DocInv'
  BY <1>2 DEF DocInv
<1>8. ClientInv'
  BY <1>2, <1>4, <1>5 DEF ClientInv
<1>9. BuildInv'
  BY <1>2, <1>4, <1>5 DEF BuildInv, Builder
<1> QED BY <1>3, <1>6, <1>7, <1>8, <1>9

(* The notifier's reads keep the invariant.                                *)
LEMMA NotifierStep ==
  ASSUME SettingsInv, LoadSettings \/ ResolveRefs
  PROVE  SettingsInv'
<1> USE DEF SettingsInv, SettingsTypeOK
<1>1. UNCHANGED <<doc, lagging, revisions, unruly, ssm, secrets, client>>
      /\ notifier' \in {RefsOf(doc), {}}
  BY DEF LoadSettings, ResolveRefs, document, parameters
<1>2. \A v \in RefsOf(doc) : v \in Value /\ v.kind = "ref" /\ StoredValue(v, secrets)
  <2> SUFFICES ASSUME NEW v \in ValuesOf(doc), v.kind = "ref"
               PROVE  v \in Value /\ StoredValue(v, secrets)
    BY DEF RefsOf
  <2>1. StoredDoc(doc, secrets)
    BY DEF DocInv
  <2>2. doc.slack \in Value /\ \A i \in DOMAIN doc.targets : doc.targets[i].header \in Value
    BY DocumentFields DEF Target
  <2> QED BY <2>1, <2>2 DEF ValuesOf, StoredDoc
<1>3. \A v \in notifier' : v \in Value /\ v.kind = "ref" /\ StoredValue(v, secrets)
  BY <1>1, <1>2
<1>4. SettingsTypeOK' /\ DocInv'
  BY <1>1, <1>3 DEF DocInv
<1>5. ClientInv' /\ BuildInv' /\ ParameterInv'
  BY <1>1 DEF ClientInv, BuildInv, ParameterInv
<1> QED BY <1>4, <1>5

(* The invariant holds at first.                                           *)
LEMMA SettingsInitInv ==
  ASSUME SettingsInit
  PROVE  SettingsInv
<1> USE DEF SettingsInit
<1> DEFINE ts == <<>>
<1>1. ts \in Seq(Target) /\ Len(ts) <= MaxTargets /\ DOMAIN ts = {}
  BY TargetBound
<1> HIDE DEF ts
<1>2. Bare("none") \in Value /\ Bare("none").kind = "none"
  BY BareType
<1>3. NoDocument = [there |-> FALSE, rev |-> 0, slack |-> Bare("none"), targets |-> ts]
  BY DEF NoDocument, ts
<1>4. NoDocument \in Document
  <2>1. ts \in Targets
    BY <1>1, TargetsAreSequences
  <2> QED BY <1>2, <1>3, <2>1 DEF Document
<1>5. StoredDoc(NoDocument, 0) /\ OnlyRefs(NoDocument) /\ NoDocument.rev = 0
  BY <1>1, <1>2, <1>3, <1>4 DEF StoredDoc, StoredValue, OnlyRefs
<1>6. SettingsTypeOK
  <2>1. 0 \in 0..MaxSecrets /\ 0 \in 0..MaxSettingsWrites
    OBVIOUS
  <2>2. ssm \in [Slots -> [Numbers -> 0..MaxSecrets]]
    <3> DEFINE none == [n \in Numbers |-> 0]
    <3>1. none \in [Numbers -> 0..MaxSecrets]
      BY <2>1
    <3>2. ssm = [i \in Slots |-> none]
      OBVIOUS
    <3> HIDE DEF none
    <3> QED BY <3>1, <3>2
  <2>3. client \in [Clients -> {Ready} \cup Putting \cup Erasing]
    OBVIOUS
  <2> QED BY <1>4, <1>5, <2>1, <2>2, <2>3 DEF SettingsTypeOK
<1>7. DocInv /\ ParameterInv
  BY <1>5 DEF DocInv, ParameterInv
<1>8. ClientInv /\ BuildInv
  BY DEF ClientInv, BuildInv, Builder, Ready
<1> QED BY <1>6, <1>7, <1>8 DEF SettingsInv

(* Every step keeps the invariant.                                         *)
LEMMA SettingsStepInv ==
  ASSUME SettingsInv, [SettingsNext]_settingsVars
  PROVE  SettingsInv'
<1>1. ASSUME NEW c \in Clients, NEW op \in {"create", "unguarded"}, NEW l \in Layouts,
             SendFile(c, op, l)
      PROVE  SettingsInv'
  BY <1>1, SendFileStep
<1>2. ASSUME NEW c \in Clients, NEW op \in {"guarded", "unguarded"}, NEW change \in Changes,
             StartChange(c, op, change)
      PROVE  SettingsInv'
  BY <1>2, StartChangeStep
<1>3. ASSUME NEW c \in Clients,
             \/ SendChange(c) \/ Create(c) \/ ReplaceGuarded(c) \/ ReplaceUnguarded(c)
             \/ Refused(c) \/ StartErase(c) \/ Erase(c) \/ Sweep(c)
      PROVE  SettingsInv'
  BY <1>3, SendChangeStep, CreateStep, ReplaceGuardedStep, ReplaceUnguardedStep, RefusedStep,
     StartEraseStep, EraseStep, SweepStep
<1>4. CASE LoadSettings \/ ResolveRefs
  BY <1>4, NotifierStep
<1>5. CASE UNCHANGED settingsVars
  <2>1. UNCHANGED <<doc, lagging, ssm, secrets, revisions, unruly, client, notifier>>
    BY <1>5 DEF settingsVars
  <2> QED BY <2>1 DEF SettingsInv, SettingsTypeOK, ParameterInv, DocInv, ClientInv, BuildInv
<1> QED BY <1>1, <1>2, <1>3, <1>4, <1>5 DEF SettingsNext

(* The invariant holds of every behaviour of the settings.                 *)
LEMMA SettingsInvariant == SettingsSpec => []SettingsInv
<1>1. SettingsInit => SettingsInv
  BY SettingsInitInv
<1>2. SettingsInv /\ [SettingsNext]_settingsVars => SettingsInv'
  BY SettingsStepInv
<1> QED BY <1>1, <1>2, PTL DEF SettingsSpec

-----------------------------------------------------------------------------
(* Settings: the theorems                                                  *)

(* The stored document holds references only, and every request carries a   *)
(* document of its kind (_externalize_secrets, _put_with_rev).             *)
THEOREM SettingsTypesHold == SettingsSpec => []SettingsTypeOK
<1>1. SettingsInv => SettingsTypeOK
  BY DEF SettingsInv
<1> QED BY <1>1, SettingsInvariant, PTL

(* Whatever is written, rejected or abandoned around it, the parameter that *)
(* an active reference names holds the secret it was made for or was        *)
(* deleted: a new secret has a parameter of its own (_externalize_secrets). *)
THEOREM SecretsStayActive == SettingsSpec => []ActiveSecretsHold
<1>1. SettingsInv => ActiveSecretsHold
  <2> SUFFICES ASSUME SettingsInv, NEW v \in RefsOf(doc) \cup notifier
               PROVE  ssm[v.slot][v.number] \in {v.secret, 0}
    BY DEF ActiveSecretsHold
  <2>1. v.kind = "ref" /\ StoredValue(v, secrets)
    BY DEF SettingsInv, DocInv, StoredDoc, RefsOf, ValuesOf
  <2>2. v.slot \in Slots /\ v.number \in 1..secrets /\ v.secret = v.number
    BY <2>1 DEF StoredValue
  <2>3. v.number \in Numbers
    BY <2>2 DEF SettingsInv, SettingsTypeOK, Numbers
  <2> QED BY <2>2, <2>3 DEF SettingsInv, ParameterInv
<1> QED BY <1>1, SettingsInvariant, PTL

(* An edit under the revision it read keeps the secrets it never saw, also  *)
(* those that another client has just changed: slack, and the targets       *)
(* before the one it changes (_resolve_redacted_secrets and _put_with_rev).  *)
THEOREM EditsKeepSecrets == SettingsSpec => SecretsSurviveEdits
<1> DEFINE Survive ==
      \A c \in Clients :
       EditsDocument(c) =>
         /\ client[c].change # Slack => doc'.slack = doc.slack
         /\ client[c].change \in {Slack, "other"} => doc'.targets = doc.targets
         /\ \A i \in DOMAIN doc.targets :
              StandsBefore(doc.targets, i, client[c].change) =>
                i \in DOMAIN doc'.targets /\ doc'.targets[i] = doc.targets[i]
<1>1. SettingsInv /\ [SettingsNext]_settingsVars => [Survive]_settingsVars
  <2> SUFFICES ASSUME SettingsInv, SettingsNext, NEW c \in Clients,
                      client[c].pc = "put", client[c].op = "guarded", doc' # doc,
                      client'[c] = Ready, doc.rev # 0, ~unruly, ~client[c].stale
               PROVE  /\ client[c].change # Slack => doc'.slack = doc.slack
                      /\ client[c].change \in {Slack, "other"} => doc'.targets = doc.targets
                      /\ KeptBefore(doc.targets, doc'.targets, client[c].change)
    BY DEF Survive, EditsDocument, KeptBefore
  <2>1. client[c] # Ready /\ Ready.pc = "idle"
    BY DEF Ready
  <2>2. ReplaceGuarded(c)
    <3>1. PICK b \in Clients :
             Create(b) \/ ReplaceGuarded(b) \/ ReplaceUnguarded(b) \/ Erase(b)
      BY DEF SettingsNext, SendFile, StartChange, SendChange, Refused, StartErase, Sweep,
         LoadSettings, ResolveRefs, document
    <3>2. b = c
      <4>1. \E y : client' = [client EXCEPT ![b] = y]
        BY <3>1 DEF Create, ReplaceGuarded, ReplaceUnguarded, Erase, Rest
      <4> QED BY <2>1, <4>1 DEF SettingsInv, SettingsTypeOK
    <3> QED BY <3>1, <3>2 DEF Create, ReplaceUnguarded, Erase
  <2> DEFINE p == client[c].payload
  <2>3. doc' = [p EXCEPT !.rev = client[c].expects + 1] /\ doc.rev = client[c].expects
    BY <2>2 DEF ReplaceGuarded, StoreDocument, AcceptedRev
  <2>4. p \in Document
    BY ClientShape
  <2>5. doc'.slack = p.slack /\ doc'.targets = p.targets
    BY <2>3, <2>4 DEF Document
  <2>6. /\ client[c].change # Slack => p.slack = doc.slack
        /\ client[c].change \in {Slack, "other"} => p.targets = doc.targets
        /\ KeptBefore(doc.targets, p.targets, client[c].change)
    BY <2>3 DEF SettingsInv, BuildInv, Builder, BuildsOn
  <2> QED BY <2>5, <2>6
<1>2. SettingsSpec => [][Survive]_settingsVars
  BY <1>1, SettingsInvariant, PTL DEF SettingsSpec
<1> QED BY <1>2 DEF SecretsSurviveEdits, Survive

-----------------------------------------------------------------------------
(* Listings: sets in order                                                 *)

HIDE SettingsBounds
USE PagingAssumption DEF PagingAssumption

(* Items have a strict order either way.                                   *)
LEMMA BeforeOrders ==
  ASSUME NEW order \in Orders
  PROVE  /\ \A j, k \in Int : j = k \/ Before(order, j, k) \/ Before(order, k, j)
         /\ \A j, k \in Int : ~(Before(order, j, k) /\ (j = k \/ Before(order, k, j)))
         /\ \A i, j, k \in Int : Before(order, i, j) /\ Before(order, j, k) => Before(order, i, k)
BY DEF Orders, Before

(* A set of items in its order.                                            *)
InOrder(R, order) ==
  LET Place(k) == Cardinality({j \in R : Before(order, j, k)}) + 1
  IN [i \in 1..Cardinality(R) |-> CHOOSE k \in R : Place(k) = i]

Lists(s, n, R, order) ==
  /\ n \in Nat
  /\ \A i \in 1..n : s[i] \in R
  /\ \A k \in R : \E i \in 1..n : s[i] = k
  /\ \A i, j \in 1..n : i < j => Before(order, s[i], s[j])

(* Every member is at its place.                                           *)
LEMMA Enumerated ==
  ASSUME NEW R \in SUBSET Items, NEW order \in Orders
  PROVE  Lists(InOrder(R, order), Cardinality(R), R, order)
<1> DEFINE Earliers(k) == {j \in R : Before(order, j, k)}
           n == Cardinality(R)
           place == [k \in R |-> Cardinality(Earliers(k)) + 1]
           s == [i \in 1..n |-> CHOOSE k \in R : Cardinality(Earliers(k)) + 1 = i]
<1>1. R \subseteq Int /\ IsFiniteSet(R) /\ n \in Nat
  <2>1. IsFiniteSet(Items) /\ Items \subseteq Int  BY FS_Interval DEF Items
  <2> QED  BY <2>1, FS_Subset, FS_CardinalityType
<1>2. \A k \in R : IsFiniteSet(Earliers(k)) /\ Cardinality(Earliers(k)) \in Nat /\ Cardinality(Earliers(k)) < n
  <2> SUFFICES ASSUME NEW k \in R
               PROVE  IsFiniteSet(Earliers(k)) /\ Cardinality(Earliers(k)) \in Nat /\ Cardinality(Earliers(k)) < n
    OBVIOUS
  <2>1. Earliers(k) \in SUBSET (R \ {k})  BY <1>1, BeforeOrders
  <2>2. IsFiniteSet(R \ {k}) /\ Cardinality(R \ {k}) = n - 1  BY <1>1, FS_RemoveElement
  <2>3. IsFiniteSet(Earliers(k)) /\ Cardinality(Earliers(k)) <= n - 1
    <3> HIDE DEF Earliers, n
    <3> QED  BY <2>1, <2>2, FS_Subset
  <2>4. Cardinality(Earliers(k)) \in Nat  BY <2>3, FS_CardinalityType
  <2> HIDE DEF Earliers, n
  <2> QED  BY <1>1, <2>3, <2>4
<1>3. \A j, k \in R : Before(order, j, k) => place[j] < place[k]
  <2> SUFFICES ASSUME NEW j \in R, NEW k \in R, Before(order, j, k)
               PROVE  Cardinality(Earliers(j)) + 1 < Cardinality(Earliers(k)) + 1
    OBVIOUS
  <2>1. j \notin Earliers(j) /\ Earliers(j) \cup {j} \in SUBSET Earliers(k)
    BY <1>1, BeforeOrders
  <2> HIDE DEF Earliers, n
  <2>2. Cardinality(Earliers(j) \cup {j}) = Cardinality(Earliers(j)) + 1  BY <1>2, <2>1, FS_AddElement
  <2>3. Cardinality(Earliers(j) \cup {j}) <= Cardinality(Earliers(k))  BY <1>2, <2>1, FS_Subset
  <2> QED  BY <1>2, <2>2, <2>3
<1>4. place \in [R -> 1..n]
  <2> HIDE DEF Earliers, n
  <2> QED  BY <1>1, <1>2
<1>5. \A k \in R : place[k] = Cardinality(Earliers(k)) + 1  OBVIOUS
<1> HIDE DEF place
<1>6. \A j, k \in R : place[j] = place[k] => j = k
  <2>1. \A j \in R : place[j] \in Int  BY <1>1, <1>4
  <2>2. \A j, k \in R : j = k \/ Before(order, j, k) \/ Before(order, k, j)  BY <1>1, BeforeOrders
  <2> QED  BY <1>3, <2>1, <2>2
<1>7. place \in Injection(R, 1..n)  BY <1>4, <1>6 DEF Injection, IsInjective
<1>8. \A i \in 1..n : \E k \in R : place[k] = i
  <2>1. IsFiniteSet(1..n) /\ Cardinality(1..n) = n  BY <1>1, FS_Interval
  <2>2. place \in Surjection(R, 1..n)  BY <1>7, <2>1, FS_Injection
  <2> QED  BY <2>2 DEF Surjection
<1>9. \A i \in 1..n : s[i] \in R /\ place[s[i]] = i
  <2> SUFFICES ASSUME NEW i \in 1..n PROVE s[i] \in R /\ place[s[i]] = i
    OBVIOUS
  <2>1. \E k \in R : Cardinality(Earliers(k)) + 1 = i  BY <1>5, <1>8
  <2>2. s[i] = CHOOSE k \in R : Cardinality(Earliers(k)) + 1 = i  OBVIOUS
  <2> HIDE DEF Earliers, s
  <2> QED  BY <1>5, <2>1, <2>2
<1> HIDE DEF s
<1>10. \A k \in R : \E i \in 1..n : s[i] = k  BY <1>4, <1>6, <1>9
<1>11. \A i, j \in 1..n : i < j => Before(order, s[i], s[j])
  <2> SUFFICES ASSUME NEW i \in 1..n, NEW j \in 1..n, i < j PROVE Before(order, s[i], s[j])
    OBVIOUS
  <2>1. s[i] # s[j]  BY <1>9
  <2>2. ~Before(order, s[j], s[i])
    <3>1. place[s[i]] = i /\ place[s[j]] = j  BY <1>9
    <3> QED  BY <1>3, <1>9, <3>1
  <2> QED  BY <1>1, <1>9, <2>1, <2>2, BeforeOrders
<1>12. InOrder(R, order) = s
  BY DEF InOrder, s, n, Earliers
<1> QED  BY <1>1, <1>9, <1>10, <1>11, <1>12 DEF Lists

(* Whether place k comes after a key.                                      *)
After(order, key, k) == key = Fresh \/ Before(order, key, k)

(* What a query has ahead of it, in order.                                 *)
LEMMA AheadIsOrdered ==
  ASSUME held \in [Days -> SUBSET Items], NEW d \in Days, NEW key, NEW order \in Orders
  PROVE  LET ahead == Ahead(d, key, order) IN
         /\ ahead \in Seq(Items) /\ Len(ahead) \in Nat
         /\ \A i \in 1..Len(ahead) : ahead[i] \in held[d] /\ After(order, key, ahead[i])
         /\ \A k \in held[d] : After(order, key, k) => \E i \in 1..Len(ahead) : ahead[i] = k
         /\ \A i, j \in 1..Len(ahead) : i < j => Before(order, ahead[i], ahead[j])
<1> DEFINE R == {k \in held[d] : key = Fresh \/ Before(order, key, k)}
           s == InOrder(R, order)
<1>1. R \in SUBSET Items  OBVIOUS
<1>2. /\ Cardinality(R) \in Nat
      /\ \A i \in 1..Cardinality(R) : s[i] \in R
      /\ \A k \in R : \E i \in 1..Cardinality(R) : s[i] = k
      /\ \A i, j \in 1..Cardinality(R) : i < j => Before(order, s[i], s[j])
  <2> HIDE DEF R
  <2>1. Lists(s, Cardinality(R), R, order)  BY <1>1, Enumerated
  <2> HIDE DEF s
  <2> QED  BY <2>1 DEF Lists
<1>3. Ahead(d, key, order) = s  BY DEF Ahead, InOrder
<1>4. \A k : k \in R <=> k \in held[d] /\ After(order, key, k)  BY DEF After
<1>5. s \in Seq(Items) /\ Len(s) = Cardinality(R)
  <2> DEFINE n == Cardinality(R)
  <2>1. n \in Nat /\ s \in [1..n -> Items] /\ DOMAIN s = 1..n
    <3>1. \A i \in 1..n : s[i] \in Items  BY <1>1, <1>2
    <3>2. n = Cardinality(R)  OBVIOUS
    <3> HIDE DEF R, n
    <3>3. DOMAIN s = 1..n /\ s = [i \in 1..n |-> s[i]]
      <4> DEFINE at(i) == CHOOSE k \in R : Cardinality({j \in R : Before(order, j, k)}) + 1 = i
      <4>1. s = [i \in 1..n |-> at(i)]  BY <3>2 DEF InOrder
      <4> HIDE DEF s, at
      <4> QED  BY <4>1
    <3> HIDE DEF s
    <3> QED  BY <1>2, <3>1, <3>2, <3>3
  <2> HIDE DEF R, s, n
  <2>2. s \in Seq(Items)  BY <2>1, IsASeq
  <2>3. DOMAIN s = 1..Len(s) /\ Len(s) \in Nat  BY <2>2, LenProperties
  <2> QED  BY <2>1, <2>2, <2>3 DEF n
<1> HIDE DEF R, s
<1> QED  BY <1>2, <1>3, <1>4, <1>5

-----------------------------------------------------------------------------
(* Listings: the inductive invariant                                       *)

Requests ==
  [pc : {"idle", "reading", "done"}, listing : Listings, order : Orders, size : Nat, fixed : BOOLEAN,
   from : Days, to : Days, todo : Seq(Days), left : Nat, incoming : [Days -> 0..Fresh],
   outgoing : [Days -> 0..Fresh], got : Seq(Days \X Items), owed : SUBSET (Days \X Items),
   moved : BOOLEAN, partial : BOOLEAN]

PageTypeOK ==
  /\ today \in FirstToday..LastDay
  /\ held \in [Days -> SUBSET Items]
  /\ changes \in 0..MaxChanges
  /\ lister \in Requests

(* The range that was asked for.                                           *)
Asked(l) == l.from..l.to

(* What is still to read is the end of the range, which a partition waits   *)
(* in for its turn.                                                        *)
Waits(l, d) ==
  IF l.order = "asc" THEN d + Len(l.todo) > l.to ELSE d < l.from + Len(l.todo)

(* Where the listing stands in a partition.                                *)
Stand(l, d) == IF l.listing # "count" /\ Waits(l, d) THEN l.incoming[d] ELSE l.outgoing[d]

(* Whether place k of a partition in which a listing stands at p was read.  *)
Reached(order, p, k) == p = 0 \/ (p \in Items /\ ~Before(order, p, k))

ReadBefore(l, x) == Reached(l.order, Stand(l, x[1]), x[2])

Pending(l) == \E d \in Days : l.outgoing[d] \in Items

RangeInv(l) ==
  /\ l.from <= l.to
  /\ l.listing = "single" => l.from = l.to
  /\ ~l.fixed => l.listing = "feed" /\ l.to + 1 = l.from + RangeDays

TodoInv(l) ==
  /\ Len(l.todo) <= l.to + 1 - l.from
  /\ \A j \in 1..Len(l.todo) :
       l.todo[j] = IF l.order = "asc" THEN l.to + j - Len(l.todo) ELSE l.from + Len(l.todo) - j

(* What the token will say of a partition whose turn has come, or not.     *)
CursorInv(l) ==
  /\ \A d \in Days : d \notin Asked(l) => l.outgoing[d] = Fresh
  /\ \A d \in Asked(l) :
       IF l.listing = "count"
       THEN IF Waits(l, d) THEN l.outgoing[d] # 0 ELSE l.outgoing[d] = 0
       ELSE /\ Waits(l, d) => l.outgoing[d] = Fresh
            /\ ~Waits(l, d) /\ l.outgoing[d] = Fresh => Pending(l)

(* Where listings go from one partition to the next, all before are         *)
(* exhausted and all after have not been read.                             *)
FeedInv(l) ==
  l.listing # "partitions" =>
    \A d, e \in Asked(l) : Before(l.order, d, e) =>
      /\ Stand(l, d) # 0 => Stand(l, e) = Fresh
      /\ Len(l.todo) > 0 /\ e = l.todo[1] => Stand(l, d) = 0

(* What comes first in a listing.                                          *)
Precedes(l, x, y) ==
  IF l.listing = "partitions" THEN x # y
  ELSE IF x[1] = y[1] THEN Before(l.order, x[2], y[2]) ELSE Before(l.order, x[1], y[1])

GotInv(l) ==
  /\ \A j \in 1..Len(l.got) : l.got[j][1] \in Asked(l) /\ ReadBefore(l, l.got[j])
  /\ \A i, j \in 1..Len(l.got) : i < j => Precedes(l, l.got[i], l.got[j])

(* What is owed is still there, and was got if its place has been read.     *)
OwedInv(l, h) ==
  \A x \in l.owed :
    /\ x[1] \in Asked(l) /\ x[2] \in h[x[1]]
    /\ ReadBefore(l, x) => \E j \in 1..Len(l.got) : l.got[j] = x

EndInv(l) == l.pc = "done" => Len(l.todo) = 0 /\ (l.partial <=> Pending(l))

PlaceInv(l) == RangeInv(l) /\ TodoInv(l) /\ CursorInv(l) /\ FeedInv(l)

ListingInv(l, h) == PlaceInv(l) /\ GotInv(l) /\ OwedInv(l, h) /\ EndInv(l)

PageInv ==
  /\ PageTypeOK
  /\ lister.pc = "idle" => lister.got = <<>>
  /\ lister.pc # "idle" /\ ~lister.moved => ListingInv(lister, held)

(* The fields of a request.                                                *)
LEMMA RequestFields ==
  ASSUME NEW l \in Requests
  PROVE  /\ l.listing \in Listings /\ l.order \in Orders /\ l.from \in Days /\ l.to \in Days
         /\ l.from \in Int /\ l.to \in Int /\ Asked(l) \subseteq Days /\ Asked(l) \subseteq Int
         /\ l.incoming \in [Days -> 0..Fresh] /\ l.outgoing \in [Days -> 0..Fresh]
         /\ l.todo \in Seq(Days) /\ Len(l.todo) \in Nat
         /\ DOMAIN l.todo = 1..Len(l.todo) /\ \A j \in 1..Len(l.todo) : l.todo[j] \in Days
         /\ l.got \in Seq(Days \X Items) /\ Len(l.got) \in Nat
         /\ DOMAIN l.got = 1..Len(l.got) /\ \A j \in 1..Len(l.got) : l.got[j] \in Days \X Items
         /\ l.owed \subseteq Days \X Items
<1>1. /\ l.listing \in Listings /\ l.order \in Orders /\ l.from \in Days /\ l.to \in Days
      /\ l.incoming \in [Days -> 0..Fresh] /\ l.outgoing \in [Days -> 0..Fresh]
      /\ l.todo \in Seq(Days) /\ l.got \in Seq(Days \X Items) /\ l.owed \in SUBSET (Days \X Items)
  BY DEF Requests
<1>2. l.from \in Int /\ l.to \in Int /\ Asked(l) \subseteq Days /\ Asked(l) \subseteq Int
  BY <1>1 DEF Days, Asked
<1>3. Len(l.todo) \in Nat /\ DOMAIN l.todo = 1..Len(l.todo) /\ \A j \in 1..Len(l.todo) : l.todo[j] \in Days
  BY <1>1, LenProperties, ElementOfSeq
<1>4. Len(l.got) \in Nat /\ DOMAIN l.got = 1..Len(l.got)
  BY <1>1, LenProperties
<1>5. \A j \in 1..Len(l.got) : l.got[j] \in Days \X Items
  BY <1>1, ElementOfSeq
<1> QED  BY <1>1, <1>2, <1>3, <1>4, <1>5

(* Cursors are exhausted, fresh, or places.                                *)
LEMMA CursorValues ==
  ASSUME NEW p \in 0..Fresh
  PROVE  /\ p = 0 \/ p = Fresh \/ p \in Items
         /\ p \in Items => p # 0 /\ p # Fresh /\ p \in Int
         /\ Fresh # 0 /\ Fresh \notin Items /\ 0 \notin Items
BY DEF Fresh, Items

(* What the invariant says of a listing that has come to its end.           *)
LEMMA PageInvSuffices == PageInv => PagingTypeOK /\ ListingIsWhole
<1> SUFFICES ASSUME PageInv PROVE PagingTypeOK /\ ListingIsWhole
  OBVIOUS
<1> DEFINE l == lister
<1>0. l \in Requests /\ held \in [Days -> SUBSET Items]
  BY DEF PageInv, PageTypeOK
<1>1. PagingTypeOK
  <2>1. today \in Days
    BY DEF PageInv, PageTypeOK, Days
  <2>2. lister.pc \in {"idle", "reading", "done"} /\ lister.left \in Nat
    BY <1>0 DEF Requests
  <2> QED  BY <1>0, <2>1, <2>2, RequestFields DEF PageInv, PageTypeOK, PagingTypeOK
<1> HIDE DEF l
<1>2. ListingIsWhole
  <2>1. CASE l.moved  BY <2>1 DEF ListingIsWhole, l
  <2>2. CASE l.pc = "idle"
    <3>1. Len(l.got) = 0  BY <2>2, EmptySeq DEF PageInv, l
    <3> QED  BY <1>0, <2>2, <3>1, RequestFields DEF ListingIsWhole, l
  <2>3. CASE l.pc # "idle" /\ ~l.moved
    <3>0. PlaceInv(l) /\ GotInv(l) /\ OwedInv(l, held) /\ EndInv(l)
      BY <2>3 DEF PageInv, ListingInv, l
    <3>1. \A i, j \in DOMAIN l.got : i < j => Precedes(l, l.got[i], l.got[j])
      BY <1>0, <3>0, RequestFields DEF GotInv
    <3>2. ASSUME l.pc = "done", ~l.partial, NEW x \in l.owed
          PROVE  \E j \in DOMAIN l.got : l.got[j] = x
      <4> DEFINE d == x[1]
      <4>1. d \in Asked(l) /\ d \in Days /\ d \in Int
        BY <1>0, <3>0, <3>2, RequestFields DEF OwedInv
      <4> HIDE DEF d
      <4>2. Len(l.todo) = 0 /\ ~Pending(l)  BY <3>0, <3>2 DEF EndInv
      <4>3. ~Waits(l, d)
        BY <1>0, <4>1, <4>2, RequestFields DEF Waits, Asked
      <4>4. l.outgoing[d] \in 0..Fresh /\ l.outgoing[d] \notin Items
        BY <1>0, <4>1, <4>2, RequestFields DEF Pending
      <4>5. l.outgoing[d] = 0
        BY <3>0, <4>1, <4>2, <4>3, <4>4, CursorValues DEF CursorInv, PlaceInv
      <4>6. ReadBefore(l, x)  BY <4>3, <4>5 DEF ReadBefore, Reached, Stand, d
      <4> QED  BY <1>0, <3>0, <4>6, RequestFields DEF OwedInv
    <3>3. \A x, y : Earlier(x, y) <=> IF x[1] = y[1] THEN Before(l.order, x[2], y[2])
                                      ELSE Before(l.order, x[1], y[1])
      BY DEF Earlier, l
    <3> QED  BY <3>1, <3>2, <3>3 DEF ListingIsWhole, Precedes, l
  <2> QED  BY <2>1, <2>2, <2>3
<1> QED  BY <1>1, <1>2

-----------------------------------------------------------------------------
(* Listings: places                                                        *)

(* The partition whose turn it is waits, and with it those that come later. *)
LEMMA HeadOfRange ==
  ASSUME NEW l \in Requests, RangeInv(l), TodoInv(l), Len(l.todo) > 0
  PROVE  LET d == l.todo[1] IN
         /\ Head(l.todo) = d /\ d \in Asked(l) /\ d \in Days /\ d \in Int /\ Waits(l, d)
         /\ \A e \in Asked(l) : Waits(l, e) <=> e = d \/ Before(l.order, d, e)
<1> DEFINE n == Len(l.todo)
           d == l.todo[1]
<1>1. l.from \in Int /\ l.to \in Int /\ n \in Nat /\ n > 0 /\ n <= l.to + 1 - l.from /\ d \in Days
  BY RequestFields DEF TodoInv
<1>2. d = IF l.order = "asc" THEN l.to + 1 - n ELSE l.from + n - 1
  BY <1>1 DEF TodoInv
<1>3. Head(l.todo) = d
  BY <1>1, RequestFields, HeadTailProperties, EmptySeq
<1>4. d \in Asked(l) /\ d \in Int
  BY <1>1, <1>2, RequestFields DEF Asked
<1>5. \A e \in Asked(l) : Waits(l, e) <=> e = d \/ Before(l.order, d, e)
  <2>1. l.order \in {"asc", "desc"}  BY RequestFields DEF Orders
  <2> HIDE DEF d, n
  <2>2. SUFFICES ASSUME NEW e \in Asked(l) PROVE Waits(l, e) <=> e = d \/ Before(l.order, d, e)
    OBVIOUS
  <2>3. e \in Int  BY RequestFields
  <2>4. CASE l.order = "asc"
    <3>1. Waits(l, e) <=> e + n > l.to  BY <2>4 DEF Waits, n
    <3>2. Before(l.order, d, e) <=> d < e  BY <2>4 DEF Before
    <3> QED  BY <1>1, <1>2, <1>4, <2>3, <2>4, <3>1, <3>2
  <2>5. CASE l.order = "desc"
    <3>1. Waits(l, e) <=> e < l.from + n  BY <2>5 DEF Waits, n
    <3>2. Before(l.order, d, e) <=> d > e  BY <2>5 DEF Before
    <3> QED  BY <1>1, <1>2, <1>4, <2>3, <2>5, <3>1, <3>2
  <2> QED  BY <2>1, <2>4, <2>5
<1> HIDE DEF d
<1>6. Waits(l, d)  BY <1>4, <1>5
<1> QED  BY <1>1, <1>3, <1>4, <1>5, <1>6 DEF d

(* A listing whose fields are those of another, but for what a turn changes. *)
SameRequest(m, l) ==
  /\ m.listing = l.listing /\ m.order = l.order /\ m.fixed = l.fixed
  /\ m.from = l.from /\ m.to = l.to /\ m.incoming = l.incoming

(* What comes after the partition whose turn it was.                        *)
LEMMA NextInRange ==
  ASSUME NEW l \in Requests, RangeInv(l), TodoInv(l), Len(l.todo) > 0,
         NEW m \in Requests, SameRequest(m, l), m.todo = Tail(l.todo)
  PROVE  /\ TodoInv(m)
         /\ \A e \in Asked(l) : Waits(m, e) <=> Waits(l, e) /\ e # l.todo[1]
         /\ Len(m.todo) > 0 =>
              \A a \in Asked(l) : Before(l.order, a, m.todo[1]) => a = l.todo[1] \/ Before(l.order, a, l.todo[1])
<1> DEFINE n == Len(l.todo)
           k == Len(m.todo)
           lo == l.from
           hi == l.to
           s == l.todo
           t == m.todo
<1>1. lo \in Int /\ hi \in Int /\ n \in Nat /\ n > 0 /\ n <= hi + 1 - lo
  BY RequestFields DEF TodoInv
<1>2. \A j \in 1..n : s[j] = IF l.order = "asc" THEN hi + j - n ELSE lo + n - j
  BY DEF TodoInv
<1>3. k = n - 1 /\ \A j \in 1..k : t[j] = s[j + 1]
  BY <1>1, RequestFields, HeadTailProperties, EmptySeq
<1>4. m.order = l.order /\ m.from = lo /\ m.to = hi
  BY DEF SameRequest
<1>5. l.order = "asc" \/ l.order = "desc"
  BY RequestFields DEF Orders
<1>6. \A e \in Asked(l) : e \in Int
  BY RequestFields
<1>7. \A e : Waits(l, e) <=> IF l.order = "asc" THEN e + n > hi ELSE e < lo + n
  BY DEF Waits
<1>8. \A e : Waits(m, e) <=> IF l.order = "asc" THEN e + k > hi ELSE e < lo + k
  BY <1>4 DEF Waits
<1>9. TodoInv(m) <=> /\ k <= hi + 1 - lo
                     /\ \A j \in 1..k : t[j] = IF l.order = "asc" THEN hi + j - k ELSE lo + k - j
  BY <1>4 DEF TodoInv
<1> HIDE DEF n, k, lo, hi, s, t
<1>10. k \in Nat /\ \A j \in 1..k : j + 1 \in 1..n
  BY <1>1, <1>3
<1>11. \A j \in 1..k : t[j] = IF l.order = "asc" THEN hi + j - k ELSE lo + k - j
  <2> SUFFICES ASSUME NEW j \in 1..k
               PROVE  t[j] = IF l.order = "asc" THEN hi + j - k ELSE lo + k - j
    OBVIOUS
  <2>1. t[j] = IF l.order = "asc" THEN hi + (j + 1) - n ELSE lo + n - (j + 1)
    BY <1>2, <1>3, <1>10
  <2>2. hi + (j + 1) - n = hi + j - k /\ lo + n - (j + 1) = lo + k - j
    BY <1>1, <1>3
  <2> QED  BY <2>1, <2>2
<1>12. s[1] = IF l.order = "asc" THEN hi + 1 - n ELSE lo + n - 1
  BY <1>1, <1>2
<1>13. ASSUME NEW e \in Asked(l) PROVE Waits(m, e) <=> Waits(l, e) /\ e # s[1]
  <2>1. CASE l.order = "asc"
    <3>1. (Waits(l, e) <=> e + n > hi) /\ (Waits(m, e) <=> e + k > hi) /\ s[1] = hi + 1 - n
      BY <1>7, <1>8, <1>12, <2>1
    <3>2. e \in Int  BY <1>6
    <3>3. k = n - 1  BY <1>3
    <3>4. e + k > hi <=> (e + n > hi /\ e # hi + 1 - n)  BY <1>1, <3>2, <3>3
    <3> QED  BY <3>1, <3>4
  <2>2. CASE l.order = "desc"
    <3>1. (Waits(l, e) <=> e < lo + n) /\ (Waits(m, e) <=> e < lo + k) /\ s[1] = lo + n - 1
      BY <1>7, <1>8, <1>12, <2>2
    <3>2. e \in Int  BY <1>6
    <3>3. k = n - 1  BY <1>3
    <3> QED  BY <1>1, <3>1, <3>2, <3>3
  <2> QED  BY <1>5, <2>1, <2>2
<1>14. ASSUME k > 0, NEW a \in Asked(l), Before(l.order, a, t[1])
       PROVE  a = s[1] \/ Before(l.order, a, s[1])
  <2>0. 1 \in 1..k  BY <1>10, <1>14
  <2>1. CASE l.order = "asc"
    <3>1. t[1] = hi + 1 - k /\ s[1] = hi + 1 - n /\ a < t[1] /\ (a < s[1] => Before(l.order, a, s[1]))
      BY <1>11, <1>12, <1>14, <2>0, <2>1 DEF Before
    <3> QED  BY <1>1, <1>3, <1>6, <3>1
  <2>2. CASE l.order = "desc"
    <3>1. t[1] = lo + k - 1 /\ s[1] = lo + n - 1 /\ a > t[1] /\ (a > s[1] => Before(l.order, a, s[1]))
      BY <1>11, <1>12, <1>14, <2>0, <2>2 DEF Before
    <3> QED  BY <1>1, <1>3, <1>6, <3>1
  <2> QED  BY <1>5, <2>1, <2>2
<1>15. TodoInv(m)
  BY <1>1, <1>3, <1>9, <1>11
<1> QED  BY <1>13, <1>14, <1>15 DEF s, t, k

(* The turn of partition d, which is read as far as p.                      *)
Turn(l, m, d, p) ==
  /\ SameRequest(m, l)
  /\ m.outgoing = [l.outgoing EXCEPT ![d] = p]
  /\ \/ l.listing \in {"partitions", "single"} /\ m.todo = Tail(l.todo)
     \/ l.listing \in {"feed", "metrics", "count"} /\ p = 0 /\ m.todo = Tail(l.todo)
     \/ l.listing \in {"feed", "metrics"} /\ p # 0 /\ m.todo = <<>>
     \/ l.listing = "count" /\ p # 0 /\ m.todo = l.todo

(* What a turn changes of where the listing stands, and of its cursor.      *)
LEMMA TurnStands ==
  ASSUME NEW l \in Requests, NEW m \in Requests, PlaceInv(l), Len(l.todo) > 0, NEW p \in {0} \cup Items,
         Turn(l, m, l.todo[1], p), p # 0 => Stand(l, l.todo[1]) # 0
  PROVE  /\ Stand(m, l.todo[1]) = p
         /\ \A e \in Asked(l) : e # l.todo[1] => Stand(m, e) = Stand(l, e)
         /\ TodoInv(m) /\ CursorInv(m)
<1> DEFINE d == l.todo[1]
<1>1. RangeInv(l) /\ TodoInv(l) /\ CursorInv(l) /\ FeedInv(l)
  BY DEF PlaceInv
<1>2. /\ d \in Asked(l) /\ d \in Days /\ Waits(l, d)
      /\ \A e \in Asked(l) : Waits(l, e) <=> e = d \/ Before(l.order, d, e)
  BY <1>1, HeadOfRange
<1>3. SameRequest(m, l) /\ Asked(m) = Asked(l) /\ Asked(l) \subseteq Days
  BY RequestFields DEF Turn, SameRequest, Asked
<1>4. \A e \in Days : m.outgoing[e] = IF e = d THEN p ELSE l.outgoing[e]
  BY RequestFields DEF Turn
<1> HIDE DEF d
<1>5. p # Fresh /\ (p # 0 <=> p \in Items) /\ Fresh \notin Items
  BY DEF Items, Fresh
<1>6. Pending(m) <=> p \in Items \/ \E e \in Days : e # d /\ l.outgoing[e] \in Items
  BY <1>2, <1>4 DEF Pending
<1>7. \A e \in Days : e \notin Asked(m) => m.outgoing[e] = Fresh
  BY <1>1, <1>2, <1>3, <1>4 DEF CursorInv
<1>8. CASE m.todo = Tail(l.todo) /\ l.listing # "count"
  <2>1. TodoInv(m) /\ \A e \in Asked(l) : Waits(m, e) <=> Waits(l, e) /\ e # d
    BY <1>1, <1>3, <1>8, NextInRange DEF d
  <2>2. m.listing # "count" /\ m.incoming = l.incoming
    BY <1>3, <1>8 DEF SameRequest
  <2>3. l.outgoing[d] = Fresh
    BY <1>1, <1>2, <1>8 DEF CursorInv
  <2>4. Pending(l) => Pending(m)
    BY <1>5, <1>6, <2>3 DEF Pending
  <2>5. CursorInv(m)
    <3>1. \A e \in Asked(l) : /\ Waits(m, e) => m.outgoing[e] = Fresh
                              /\ ~Waits(m, e) /\ m.outgoing[e] = Fresh => Pending(m)
      BY <1>1, <1>2, <1>3, <1>4, <1>5, <1>8, <2>1, <2>4 DEF CursorInv
    <3> QED  BY <1>3, <1>7, <2>2, <3>1 DEF CursorInv
  <2>6. Stand(m, d) = p
    BY <1>2, <1>4, <2>1 DEF Stand
  <2>7. \A e \in Asked(l) : e # d => Stand(m, e) = Stand(l, e)
    BY <1>3, <1>4, <1>8, <2>1, <2>2 DEF Stand
  <2> QED  BY <2>1, <2>5, <2>6, <2>7 DEF d
<1>9. CASE m.todo = <<>> /\ p # 0 /\ l.listing \in {"feed", "metrics"}
  <2>1. m.listing \in {"feed", "metrics"} /\ m.incoming = l.incoming /\ m.order = l.order /\ m.from = l.from /\ m.to = l.to
    BY <1>3, <1>9 DEF SameRequest
  <2>2. Len(m.todo) = 0
    BY <1>9, EmptySeq
  <2>3. \A e \in Asked(l) : ~Waits(m, e)
    BY <2>1, <2>2, RequestFields DEF Waits, Asked
  <2>4. TodoInv(m)
    BY <1>1, <2>1, <2>2, RequestFields DEF TodoInv, RangeInv
  <2>5. CursorInv(m)
    BY <1>3, <1>5, <1>6, <1>7, <1>9, <2>1, <2>3 DEF CursorInv
  <2>6. Stand(m, d) = p
    BY <1>2, <1>4, <2>3 DEF Stand
  <2>7. ASSUME NEW e \in Asked(l), e # d PROVE Stand(m, e) = Stand(l, e)
    <3>1. Stand(m, e) = l.outgoing[e]
      BY <1>3, <1>4, <2>3, <2>7 DEF Stand
    <3>2. CASE ~Waits(l, e)
      BY <3>1, <3>2 DEF Stand
    <3>3. CASE Waits(l, e)
      <4>1. Before(l.order, d, e)  BY <1>2, <2>7, <3>3
      <4>2. Stand(l, d) # 0  BY <1>9 DEF d
      <4>3. Stand(l, e) = Fresh  BY <1>1, <1>2, <1>9, <4>1, <4>2 DEF FeedInv
      <4>4. l.outgoing[e] = Fresh  BY <1>1, <1>9, <3>3 DEF CursorInv
      <4> QED  BY <3>1, <4>3, <4>4
    <3> QED  BY <3>2, <3>3
  <2> QED  BY <2>4, <2>5, <2>6, <2>7 DEF d
<1>10. CASE l.listing = "count"
  <2>1. m.listing = "count" /\ m.order = l.order /\ m.from = l.from /\ m.to = l.to
    BY <1>3, <1>10 DEF SameRequest
  <2>2. Stand(m, d) = p /\ \A e \in Asked(l) : e # d => Stand(m, e) = Stand(l, e)
    BY <1>2, <1>3, <1>4, <1>10, <2>1 DEF Stand
  <2>3. CASE p = 0 /\ m.todo = Tail(l.todo)
    <3>1. TodoInv(m) /\ \A e \in Asked(l) : Waits(m, e) <=> Waits(l, e) /\ e # d
      BY <1>1, <1>3, <2>3, NextInRange DEF d
    <3>2. \A e \in Asked(l) : IF Waits(m, e) THEN m.outgoing[e] # 0 ELSE m.outgoing[e] = 0
      BY <1>1, <1>2, <1>3, <1>4, <1>10, <2>3, <3>1 DEF CursorInv
    <3> QED  BY <1>3, <1>7, <2>1, <2>2, <3>1, <3>2 DEF CursorInv, d
  <2>4. CASE p # 0 /\ m.todo = l.todo
    <3>1. TodoInv(m) /\ \A e : Waits(m, e) <=> Waits(l, e)
      BY <1>1, <2>1, <2>4 DEF TodoInv, Waits
    <3>2. \A e \in Asked(l) : IF Waits(m, e) THEN m.outgoing[e] # 0 ELSE m.outgoing[e] = 0
      BY <1>1, <1>2, <1>3, <1>4, <1>10, <2>4, <3>1 DEF CursorInv
    <3> QED  BY <1>3, <1>7, <2>1, <2>2, <3>1, <3>2 DEF CursorInv, d
  <2> QED  BY <1>10, <2>3, <2>4 DEF Turn
<1> QED  BY <1>8, <1>9, <1>10 DEF Turn

(* A turn leaves everything before it exhausted and all after it unread.    *)
LEMMA TurnKeepsPlaces ==
  ASSUME NEW l \in Requests, NEW m \in Requests, PlaceInv(l), Len(l.todo) > 0, NEW p \in {0} \cup Items,
         Turn(l, m, l.todo[1], p), p # 0 => Stand(l, l.todo[1]) # 0
  PROVE  PlaceInv(m)
<1> DEFINE d == l.todo[1]
<1>1. RangeInv(l) /\ TodoInv(l) /\ CursorInv(l) /\ FeedInv(l)
  BY DEF PlaceInv
<1>2. d \in Asked(l) /\ d \in Int
  BY <1>1, HeadOfRange
<1>3. SameRequest(m, l) /\ Asked(m) = Asked(l) /\ m.order = l.order /\ m.listing = l.listing
  BY DEF Turn, SameRequest, Asked
<1>4. RangeInv(m)
  BY <1>1, <1>3 DEF RangeInv, SameRequest
<1>5. /\ Stand(m, d) = p
      /\ \A e \in Asked(l) : e # d => Stand(m, e) = Stand(l, e)
      /\ TodoInv(m) /\ CursorInv(m)
  BY TurnStands
<1>6. p # 0 => Stand(l, d) # 0
  OBVIOUS
<1>7. \A a, b \in Asked(l) : Before(l.order, a, b) => a # b
  BY RequestFields, BeforeOrders
<1> HIDE DEF d
<1>8. ASSUME l.listing # "partitions", NEW a \in Asked(l), NEW b \in Asked(l), Before(l.order, a, b)
      PROVE  /\ Stand(m, a) # 0 => Stand(m, b) = Fresh
             /\ Len(m.todo) > 0 /\ b = m.todo[1] => Stand(m, a) = 0
  <2>1. \A e \in Asked(l) : Before(l.order, e, d) => Stand(l, e) = 0
    BY <1>1, <1>2, <1>8 DEF FeedInv, d
  <2>2. Stand(l, a) # 0 => Stand(l, b) = Fresh
    BY <1>1, <1>8 DEF FeedInv
  <2>3. Stand(m, a) # 0 => Stand(m, b) = Fresh
    BY <1>5, <1>6, <1>7, <1>8, <2>1, <2>2
  <2>4. ASSUME Len(m.todo) > 0, b = m.todo[1] PROVE Stand(m, a) = 0
    <3>1. l.listing # "single"
      BY <1>1, <1>7, <1>8, RequestFields DEF RangeInv, Asked
    <3>2. CASE m.todo = Tail(l.todo) /\ p = 0
      <4>1. a = d \/ Before(l.order, a, d)
        BY <1>1, <1>3, <1>8, <2>4, <3>2, NextInRange DEF d
      <4> QED  BY <1>5, <1>8, <2>1, <3>2, <4>1
    <3>3. CASE m.todo = l.todo
      BY <1>5, <1>7, <1>8, <2>1, <2>4, <3>3 DEF d
    <3>4. m.todo # <<>>
      BY <2>4, EmptySeq
    <3> QED  BY <1>8, <3>1, <3>2, <3>3, <3>4 DEF Turn
  <2> QED  BY <2>3, <2>4
<1>9. FeedInv(m)
  BY <1>3, <1>8 DEF FeedInv
<1> QED  BY <1>4, <1>5, <1>9 DEF PlaceInv

-----------------------------------------------------------------------------
(* Listings: what a query answers                                          *)

(* The first n items after key, up to place p or, if that is 0, to the end. *)
Answer(order, here, key, p, n, ahead) ==
  /\ \A i \in 1..n : ahead[i] \in here /\ After(order, key, ahead[i]) /\ Reached(order, p, ahead[i])
  /\ \A i, j \in 1..n : i < j => Before(order, ahead[i], ahead[j])
  /\ \A k \in here : After(order, key, k) /\ Reached(order, p, k) => \E i \in 1..n : ahead[i] = k
  /\ p # 0 => After(order, key, p)

(* What was got, and n items of partition d.                               *)
Extended(got, d, n, ahead) == got \o [j \in 1..n |-> <<d, ahead[j]>>]

(* The request after its answer of n items as far as p.                     *)
Answered(l, d, p, n, ahead, rest) ==
  [l EXCEPT
     !.got = Extended(@, d, n, ahead),
     !.left = IF l.listing \in {"feed", "metrics"} THEN @ - n ELSE @,
     !.outgoing[d] = p,
     !.todo = rest]

(* The request after a query of partition d: its answer and its new cursor. *)
Reads(l, m, here, d, key, limit, afterStop, afterEnd) ==
  \E p \in {0} \cup Items, n \in 0..limit, ahead \in Seq(Items) :
    /\ n <= Len(ahead)
    /\ Answer(l.order, here, key, p, n, ahead)
    /\ m = Answered(l, d, p, n, ahead, IF p # 0 THEN afterStop ELSE afterEnd)

(* A query adds an answer, and its cursor says how far it goes.             *)
LEMMA QueryEffect ==
  ASSUME lister \in Requests, held \in [Days -> SUBSET Items],
         NEW limit \in Nat, NEW cursor \in [Days -> 0..Fresh], NEW afterStop, NEW afterEnd,
         Partition \in Days, Query(limit, cursor, afterStop, afterEnd)
  PROVE  Reads(lister, lister', held[Partition], Partition,
               IF cursor[Partition] = 0 THEN Fresh ELSE cursor[Partition], limit, afterStop, afterEnd)
<1> DEFINE d == Partition
           key == IF cursor[d] = 0 THEN Fresh ELSE cursor[d]
           order == lister.order
           ahead == Ahead(d, key, order)
<1>1. PICK a \in Answers(d, key, limit) :
        lister' = [lister EXCEPT
           !.got = @ \o [j \in 1..a.count |-> <<d, ahead[j]>>],
           !.left = IF lister.listing \in {"feed", "metrics"} THEN @ - a.count ELSE @,
           !.outgoing[d] = IF a.stopped THEN ahead[a.count] ELSE 0,
           !.todo = IF a.stopped THEN afterStop ELSE afterEnd]
  BY Zenon DEF Query
<1>2. order \in Orders /\ d \in Days
  BY RequestFields
<1>3. /\ a.count \in 0..Len(ahead) /\ a.stopped \in BOOLEAN /\ a.count <= limit
      /\ a.stopped => a.count > 0
      /\ ~a.stopped => a.count = Len(ahead)
  BY DEF Answers
<1>4. /\ ahead \in Seq(Items) /\ Len(ahead) \in Nat
      /\ \A i \in 1..Len(ahead) : ahead[i] \in held[d] /\ After(order, key, ahead[i])
      /\ \A k \in held[d] : After(order, key, k) => \E i \in 1..Len(ahead) : ahead[i] = k
      /\ \A i, j \in 1..Len(ahead) : i < j => Before(order, ahead[i], ahead[j])
  BY <1>2, AheadIsOrdered
<1>5. held[d] \subseteq Int /\ held[d] \subseteq Items /\ 0 \notin Items
  BY <1>2 DEF Items
<1> DEFINE n == a.count
           stopped == a.stopped
           p == IF stopped THEN ahead[n] ELSE 0
           all == Len(ahead)
<1>6. /\ lister' = [lister EXCEPT
           !.got = @ \o [j \in 1..n |-> <<d, ahead[j]>>],
           !.left = IF lister.listing \in {"feed", "metrics"} THEN @ - n ELSE @,
           !.outgoing[d] = p,
           !.todo = IF stopped THEN afterStop ELSE afterEnd]
      /\ n \in 0..all /\ stopped \in BOOLEAN /\ n <= limit
      /\ stopped => n > 0
      /\ ~stopped => n = all
      /\ p = IF stopped THEN ahead[n] ELSE 0
  BY <1>1, <1>3
<1> HIDE DEF d, key, order, ahead, n, stopped, p, all
<1>7. all \in Nat /\ n \in Nat /\ n \in 0..limit /\ \A i \in 1..n : i \in 1..all
  BY <1>4, <1>6 DEF all
<1>8. stopped => n \in 1..all /\ p \in held[d] /\ After(order, key, p) /\ p \in Items /\ p # 0
  BY <1>4, <1>5, <1>6, <1>7 DEF all
<1>9. p \in {0} \cup Items /\ (p # 0 <=> stopped)
  BY <1>6, <1>8
<1>10. \A i \in 1..n : Reached(order, p, ahead[i])
  <2> SUFFICES ASSUME NEW i \in 1..n PROVE Reached(order, p, ahead[i])
    OBVIOUS
  <2>1. CASE ~stopped  BY <1>9, <2>1 DEF Reached
  <2>2. CASE stopped
    <3>1. i = n \/ Before(order, ahead[i], ahead[n])  BY <1>4, <1>7, <1>8, <2>2 DEF all
    <3>2. ~Before(order, ahead[n], ahead[i])
      <4>1. ahead[i] \in Int /\ ahead[n] \in Int  BY <1>4, <1>5, <1>7, <1>8, <2>2 DEF all
      <4> QED  BY <1>2, <3>1, <4>1, BeforeOrders
    <3> QED  BY <1>6, <1>8, <2>2, <3>2 DEF Reached
  <2> QED  BY <2>1, <2>2
<1>11. ASSUME NEW k \in held[d], After(order, key, k), Reached(order, p, k)
       PROVE  \E i \in 1..n : ahead[i] = k
  <2>1. PICK i \in 1..all : ahead[i] = k  BY <1>4, <1>11 DEF all
  <2>2. i \in 1..n
    <3>1. CASE ~stopped  BY <1>6, <3>1
    <3>2. CASE stopped
      <4>1. ~Before(order, ahead[n], ahead[i])  BY <1>6, <1>8, <1>11, <2>1, <3>2 DEF Reached
      <4>2. ~(n < i)  BY <1>4, <1>8, <3>2, <4>1 DEF all
      <4> QED  BY <1>7, <4>2
    <3> QED  BY <3>1, <3>2
  <2> QED  BY <2>1, <2>2
<1>12. Answer(order, held[d], key, p, n, ahead)
  BY <1>4, <1>7, <1>8, <1>9, <1>10, <1>11 DEF Answer, all
<1>13. lister' = Answered(lister, d, p, n, ahead, IF p # 0 THEN afterStop ELSE afterEnd)
  <2>1. (IF stopped THEN afterStop ELSE afterEnd) = IF p # 0 THEN afterStop ELSE afterEnd
    BY <1>9
  <2> QED  BY <1>6, <2>1, Zenon DEF Answered, Extended
<1>14. n <= Len(ahead)
  BY <1>6, <1>7 DEF all
<1>15. /\ p \in {0} \cup Items /\ n \in 0..limit /\ ahead \in Seq(Items) /\ n <= Len(ahead)
       /\ Answer(order, held[d], key, p, n, ahead)
       /\ lister' = Answered(lister, d, p, n, ahead, IF p # 0 THEN afterStop ELSE afterEnd)
  BY <1>4, <1>7, <1>9, <1>12, <1>13, <1>14
<1> QED  BY <1>15 DEF Reads, d, key, order

(* What was read of a partition before its turn stays read, and comes before *)
(* what the answer adds; and nothing else that is here has been read then.  *)
ReadOn(order, here, key, p, n, ahead) ==
  /\ \A k \in Items : Reached(order, key, k) => Reached(order, p, k)
  /\ \A k \in Items, i \in 1..n : Reached(order, key, k) => Before(order, k, ahead[i]) /\ k # ahead[i]
  /\ \A k \in here : Reached(order, p, k) => Reached(order, key, k) \/ \E i \in 1..n : ahead[i] = k

(* An answer reads on.                                                     *)
LEMMA ReadingOn ==
  ASSUME NEW order \in Orders, NEW here \in SUBSET Items, NEW key \in 1..Fresh, NEW p \in {0} \cup Items,
         NEW n \in Nat, NEW ahead, Answer(order, here, key, p, n, ahead)
  PROVE  ReadOn(order, here, key, p, n, ahead)
<1>1. Items \subseteq Int /\ here \subseteq Items /\ here \subseteq Int /\ 0 \notin Items /\ Fresh \notin Items
  BY DEF Items, Fresh
<1>2. key = Fresh \/ key \in Items
  BY DEF Items, Fresh
<1>3. \A k \in Items : Reached(order, key, k) <=> key \in Items /\ ~Before(order, key, k)
  BY DEF Reached, Fresh
<1>4. \A k \in Items : After(order, key, k) <=> key = Fresh \/ Before(order, key, k)
  BY DEF After
<1>5. ASSUME NEW k \in Items, Reached(order, key, k), NEW x \in Items, After(order, key, x)
      PROVE  Before(order, k, x) /\ k # x
  <2>1. key \in Items /\ ~Before(order, key, k) /\ Before(order, key, x)
    BY <1>1, <1>3, <1>4, <1>5
  <2>2. k \in Int /\ x \in Int /\ key \in Int
    BY <1>1, <1>5, <2>1
  <2> QED  BY <2>1, <2>2, BeforeOrders
<1>6. ASSUME NEW k \in Items, Reached(order, key, k) PROVE Reached(order, p, k)
  <2>1. CASE p = 0  BY <2>1 DEF Reached
  <2>2. CASE p # 0
    <3>1. p \in Items /\ After(order, key, p)  BY <2>2 DEF Answer
    <3>2. Before(order, k, p)  BY <1>5, <1>6, <3>1
    <3>3. ~Before(order, p, k)  BY <1>1, <3>1, <3>2, BeforeOrders
    <3> QED  BY <3>1, <3>3 DEF Reached
  <2> QED  BY <2>1, <2>2
<1>7. ASSUME NEW k \in Items, NEW i \in 1..n, Reached(order, key, k)
      PROVE  Before(order, k, ahead[i]) /\ k # ahead[i]
  <2>1. ahead[i] \in Items /\ After(order, key, ahead[i])  BY <1>1 DEF Answer
  <2> QED  BY <1>5, <1>7, <2>1
<1>8. ASSUME NEW k \in here, Reached(order, p, k), ~Reached(order, key, k)
      PROVE  \E i \in 1..n : ahead[i] = k
  <2>1. After(order, key, k)  BY <1>1, <1>2, <1>3, <1>4, <1>8
  <2> QED  BY <1>8, <2>1 DEF Answer
<1> QED  BY <1>6, <1>7, <1>8 DEF ReadOn

(* A sequence s, and t that has n elements more, those of r.                *)
Grows(s, n, r, t) ==
  /\ Len(s) \in Nat
  /\ \A j \in 1..Len(s) : j \in 1..Len(t) /\ t[j] = s[j]
  /\ \A j \in 1..n : Len(s) + j \in 1..Len(t) /\ t[Len(s) + j] = r[j]
  /\ \A j \in 1..Len(t) : j \in 1..Len(s) \/ \E i \in 1..n : j = Len(s) + i

(* Concatenation makes a sequence grow.                                    *)
LEMMA Grown ==
  ASSUME NEW S, NEW s \in Seq(S), NEW n \in Nat, NEW r \in [1..n -> S]
  PROVE  Grows(s, n, r, s \o r)
<1> DEFINE old == Len(s)
           t == s \o r
           new == Len(t)
<1>1. r \in Seq(S) /\ DOMAIN r = 1..n  BY IsASeq
<1>2. Len(r) = n /\ old \in Nat  BY <1>1, LenProperties
<1>3. new = old + n /\ \A i \in 1..(old + n) : t[i] = IF i <= old THEN s[i] ELSE r[i - old]
  BY <1>1, <1>2, ConcatProperties
<1> HIDE DEF old, t, new
<1>4. \A j \in 1..old : t[j] = s[j] /\ j \in 1..new
  BY <1>2, <1>3
<1>5. \A j \in 1..n : old + j \in 1..new /\ ~(old + j <= old) /\ (old + j) - old = j
  BY <1>2, <1>3
<1>6. \A j \in 1..n : t[old + j] = r[j]
  BY <1>3, <1>5
<1>7. ASSUME NEW j \in 1..new, j \notin 1..old PROVE \E i \in 1..n : j = old + i
  <2>1. j - old \in 1..n /\ j = old + (j - old)  BY <1>2, <1>3, <1>7
  <2> QED  BY <2>1
<1> QED  BY <1>2, <1>3, <1>4, <1>5, <1>6, <1>7 DEF Grows, old, t, new

(* The listing keeps its order and what it owes when a partition is read on. *)
LEMMA GotGrows ==
  ASSUME NEW l \in Requests, NEW m \in Requests, NEW h \in [Days -> SUBSET Items],
         PlaceInv(l), GotInv(l), OwedInv(l, h), Len(l.todo) > 0, SameRequest(m, l), m.owed = l.owed,
         NEW p \in {0} \cup Items, NEW n \in Nat, NEW ahead,
         Stand(l, l.todo[1]) # 0,
         Stand(m, l.todo[1]) = p,
         \A e \in Asked(l) : e # l.todo[1] => Stand(m, e) = Stand(l, e),
         Answer(l.order, h[l.todo[1]], Stand(l, l.todo[1]), p, n, ahead),
         m.got = Extended(l.got, l.todo[1], n, ahead)
  PROVE  GotInv(m) /\ OwedInv(m, h)
<1> DEFINE d == l.todo[1]
           key == Stand(l, d)
           old == Len(l.got)
           answer == [j \in 1..n |-> <<d, ahead[j]>>]
           here == h[d]
           before == l.got
           after == m.got
           new == Len(m.got)
<1>1. l.order \in Orders /\ d \in Asked(l) /\ d \in Days /\ Asked(l) \subseteq Days /\ Asked(l) \subseteq Int
  BY HeadOfRange, RequestFields DEF PlaceInv
<1>2. \A e \in Asked(l) : Stand(l, e) \in 0..Fresh
  BY <1>1, RequestFields DEF Stand
<1>3. key \in 1..Fresh /\ h[d] \in SUBSET Items
  BY <1>1, <1>2 DEF Fresh
<1>4. m.order = l.order /\ m.listing = l.listing /\ Asked(m) = Asked(l)
  BY DEF SameRequest, Asked
<1>5. /\ \A k \in Items : Reached(l.order, key, k) => Reached(l.order, p, k)
      /\ \A k \in Items, i \in 1..n : Reached(l.order, key, k) => Before(l.order, k, ahead[i]) /\ k # ahead[i]
      /\ \A k \in h[d] : Reached(l.order, p, k) => Reached(l.order, key, k) \/ \E i \in 1..n : ahead[i] = k
  <2>1. l.order \in Orders /\ here \in SUBSET Items /\ key \in 1..Fresh /\ Answer(l.order, here, key, p, n, ahead)
    BY <1>1, <1>3
  <2>2. here = h[d]
    OBVIOUS
  <2> HIDE DEF d, key, here
  <2>3. ReadOn(l.order, here, key, p, n, ahead)
    BY <2>1, ReadingOn
  <2> QED  BY <2>2, <2>3 DEF ReadOn
<1>6. \A i \in 1..n : ahead[i] \in Items /\ Reached(l.order, p, ahead[i])
  BY <1>3 DEF Answer
<1>7. \A i, j \in 1..n : i < j => Before(l.order, ahead[i], ahead[j]) /\ ahead[i] # ahead[j]
  <2>1. \A i, j \in 1..n : i < j => Before(l.order, ahead[i], ahead[j])  BY DEF Answer
  <2>2. \A i \in 1..n : ahead[i] \in Int  BY <1>6 DEF Items
  <2> QED  BY <1>1, <2>1, <2>2, BeforeOrders
<1>8. /\ old \in Nat
      /\ \A j \in 1..old : j \in 1..new /\ after[j] = before[j]
      /\ \A j \in 1..n : old + j \in 1..new /\ after[old + j] = <<d, ahead[j]>>
      /\ \A j \in 1..new : j \in 1..old \/ \E i \in 1..n : j = old + i
  <2>1. answer \in [1..n -> Days \X Items]  BY <1>1, <1>6
  <2>2. before \in Seq(Days \X Items) BY RequestFields
  <2>3. after = before \o answer /\ old = Len(before) /\ new = Len(after)  BY DEF Extended
  <2>4. \A j \in 1..n : answer[j] = <<d, ahead[j]>>  OBVIOUS
  <2> DEFINE S == Days \X Items
  <2>5. answer \in [1..n -> S] /\ before \in Seq(S)  BY <2>1, <2>2
  <2> HIDE DEF answer, before, after, old, new, d, S
  <2>6. Grows(before, n, answer, after)
    BY <2>3, <2>5, Grown
  <2> QED  BY <2>3, <2>4, <2>6 DEF Grows
<1>9. /\ Stand(l, d) # 0 /\ Stand(m, d) = p
      /\ \A e \in Asked(l) : e # d => Stand(m, e) = Stand(l, e)
  OBVIOUS
<1>17. \A x, y : Precedes(m, x, y) <=> Precedes(l, x, y)
  BY <1>4 DEF Precedes
<1> HIDE DEF answer, before, after, old, new
<1> HIDE DEF d
<1>10. \A x \in Asked(l) \X Items : ReadBefore(l, x) => ReadBefore(m, x)
  BY <1>4, <1>5, <1>9 DEF ReadBefore
<1>11. \A i \in 1..n : ReadBefore(m, <<d, ahead[i]>>)
  BY <1>4, <1>6, <1>9 DEF ReadBefore
<1>12. \A j \in 1..old : before[j] \in Asked(l) \X Items /\ ReadBefore(l, before[j])
  <2>1. \A j \in 1..old : before[j] \in Days \X Items  BY RequestFields DEF old, before
  <2> QED  BY <2>1 DEF GotInv, old, before
<1>13. ASSUME NEW i \in 1..n, NEW x \in Asked(l) \X Items, ReadBefore(l, x)
       PROVE  Precedes(m, x, <<d, ahead[i]>>)
  <2>1. PICK e \in Asked(l), k \in Items : x = <<e, k>>  OBVIOUS
  <2>2. Reached(l.order, Stand(l, e), k)  BY <1>13, <2>1 DEF ReadBefore
  <2>3. CASE e = d
    <3>1. Before(l.order, k, ahead[i]) /\ k # ahead[i]  BY <1>5, <2>2, <2>3
    <3> QED  BY <1>4, <2>1, <2>3, <3>1 DEF Precedes
  <2>4. CASE e # d
    <3>1. CASE l.listing = "partitions"  BY <1>4, <2>1, <2>4, <3>1 DEF Precedes
    <3>2. CASE l.listing # "partitions"
      <4>1. Stand(l, e) # Fresh  BY <2>2 DEF Reached, Fresh, Items
      <4>2. ~Before(l.order, d, e)  BY <1>1, <1>9, <3>2, <4>1 DEF PlaceInv, FeedInv
      <4>3. Before(l.order, e, d)  BY <1>1, <2>4, <4>2, BeforeOrders
      <4> QED  BY <1>4, <2>1, <2>4, <3>2, <4>3 DEF Precedes
    <3> QED  BY <3>1, <3>2
  <2> QED  BY <2>3, <2>4
<1>14. ASSUME NEW i \in 1..new, NEW j \in 1..new, i < j
       PROVE  Precedes(m, after[i], after[j])
  <2>1. CASE i \in 1..old /\ j \in 1..old
    <3>1. Precedes(l, before[i], before[j])  BY <1>14, <2>1 DEF GotInv, old, before
    <3> QED  BY <1>8, <1>17, <2>1, <3>1
  <2>2. CASE i \in 1..old /\ j \notin 1..old
    <3>1. PICK b \in 1..n : j = old + b  BY <1>8, <2>2
    <3> QED  BY <1>8, <1>12, <1>13, <2>2, <3>1
  <2>3. CASE i \notin 1..old
    <3>1. PICK a \in 1..n : i = old + a  BY <1>8, <2>3
    <3>2. j \notin 1..old  BY <1>8, <1>14, <3>1
    <3>3. PICK b \in 1..n : j = old + b  BY <1>8, <3>2
    <3>4. a < b  BY <1>8, <1>14, <3>1, <3>3
    <3>5. Before(l.order, ahead[a], ahead[b]) /\ ahead[a] # ahead[b]  BY <1>7, <3>4
    <3> QED  BY <1>4, <1>8, <3>1, <3>3, <3>5 DEF Precedes
  <2> QED  BY <2>1, <2>2, <2>3
<1>15. GotInv(m)
  <2>1. \A j \in 1..new : after[j][1] \in Asked(m) /\ ReadBefore(m, after[j])
    <3> SUFFICES ASSUME NEW j \in 1..new PROVE after[j][1] \in Asked(m) /\ ReadBefore(m, after[j])
      OBVIOUS
    <3>1. CASE j \in 1..old  BY <1>4, <1>8, <1>10, <1>12, <3>1
    <3>2. CASE j \notin 1..old
      <4>1. PICK i \in 1..n : j = old + i  BY <1>8, <3>2
      <4>2. after[j] = <<d, ahead[i]>>  BY <1>8, <4>1
      <4> QED  BY <1>1, <1>4, <1>11, <4>2
    <3> QED  BY <3>1, <3>2
  <2> QED  BY <1>14, <2>1 DEF GotInv, after, new
<1>16. ASSUME NEW x \in m.owed
       PROVE  /\ x[1] \in Asked(m) /\ x[2] \in h[x[1]]
              /\ ReadBefore(m, x) => \E j \in 1..new : after[j] = x
  <2>1. /\ x \in Days \X Items /\ x[1] \in Asked(l) /\ x[2] \in h[x[1]]
        /\ ReadBefore(l, x) => \E j \in 1..old : before[j] = x
    BY <1>16, RequestFields DEF OwedInv, old, before
  <2>2. ASSUME ReadBefore(m, x) PROVE \E j \in 1..new : after[j] = x
    <3>1. CASE ReadBefore(l, x)
      <4>1. PICK j \in 1..old : before[j] = x  BY <2>1, <3>1
      <4>2. j \in 1..new  BY <1>8
      <4> QED  BY <1>8, <4>1, <4>2
    <3>2. CASE ~ReadBefore(l, x)
      <4>1. x[1] = d
        BY <1>4, <1>9, <2>1, <2>2, <3>2 DEF ReadBefore
      <4>2. PICK i \in 1..n : ahead[i] = x[2]
        BY <1>4, <1>5, <1>9, <2>1, <2>2, <3>2, <4>1 DEF ReadBefore
      <4>3. old + i \in 1..new /\ after[old + i] = <<d, ahead[i]>>
        BY <1>8
      <4>4. x = <<d, ahead[i]>>
        BY <2>1, <4>1, <4>2
      <4> QED  BY <4>3, <4>4
    <3> QED  BY <3>1, <3>2
  <2> QED  BY <1>4, <2>1, <2>2
<1> QED  BY <1>15, <1>16 DEF OwedInv, after, new

-----------------------------------------------------------------------------
(* Listings: the invariant, action by action                               *)

(* An answer changes a request in a few fields.                            *)
Adds(m, l, d, p, n, ahead, rest) ==
  /\ m \in Requests
  /\ SameRequest(m, l) /\ m.owed = l.owed /\ m.pc = l.pc /\ m.moved = l.moved
  /\ m.got = Extended(l.got, d, n, ahead)
  /\ m.outgoing = [l.outgoing EXCEPT ![d] = p] /\ m.todo = rest

LEMMA AnsweredFields ==
  ASSUME NEW l \in Requests, NEW d \in Days, NEW p \in {0} \cup Items, NEW n \in Nat,
         NEW ahead \in Seq(Items), n <= Len(ahead), NEW rest \in Seq(Days),
         l.listing \in {"feed", "metrics"} => n <= l.left
  PROVE  Adds(Answered(l, d, p, n, ahead, rest), l, d, p, n, ahead, rest)
<1> DEFINE m == Answered(l, d, p, n, ahead, rest)
           got == Extended(l.got, d, n, ahead)
           out == [l.outgoing EXCEPT ![d] = p]
           room == IF l.listing \in {"feed", "metrics"} THEN l.left - n ELSE l.left
<1>1. got \in Seq(Days \X Items)
  <2> DEFINE answer == [j \in 1..n |-> <<d, ahead[j]>>]
  <2>1. \A j \in 1..n : ahead[j] \in Items
    <3>1. Len(ahead) \in Nat  BY LenProperties
    <3>2. \A j \in 1..n : j \in 1..Len(ahead)  BY <3>1
    <3> QED  BY <3>2, ElementOfSeq
  <2>2. answer \in [1..n -> Days \X Items]  BY <2>1
  <2>3. got = l.got \o answer  BY DEF Extended
  <2> HIDE DEF answer
  <2>4. answer \in Seq(Days \X Items)  BY <2>2, IsASeq
  <2> QED  BY <2>3, <2>4, RequestFields, ConcatProperties
<1>2. out \in [Days -> 0..Fresh]
  <2>1. p \in 0..Fresh  BY DEF Items, Fresh
  <2> QED  BY <2>1, RequestFields
<1>3. room \in Nat
  BY DEF Requests
<1>4. m = [l EXCEPT !.got = got, !.left = room, !.outgoing = out, !.todo = rest]
  BY DEF Answered, Requests
<1> HIDE DEF m, got, out, room
<1>5. m \in Requests
  BY <1>1, <1>2, <1>3, <1>4 DEF Requests
<1>6. /\ m.listing = l.listing /\ m.order = l.order /\ m.fixed = l.fixed
      /\ m.from = l.from /\ m.to = l.to /\ m.incoming = l.incoming
      /\ m.owed = l.owed /\ m.pc = l.pc /\ m.moved = l.moved
      /\ m.got = got /\ m.outgoing = out /\ m.todo = rest
  BY <1>4 DEF Requests
<1> QED  BY <1>5, <1>6 DEF Adds, SameRequest, m, got, out

(* A turn of the partition that is next, with its answer.                   *)
AnsweredTurn(l, m, h, d, p, n, ahead) ==
  /\ d = l.todo[1]
  /\ Turn(l, m, d, p) /\ Stand(l, d) # 0
  /\ Answer(l.order, h[d], Stand(l, d), p, n, ahead)
  /\ m.got = Extended(l.got, d, n, ahead) /\ m.owed = l.owed /\ m.pc = "reading"

LEMMA TurnInv ==
  ASSUME NEW l \in Requests, NEW m \in Requests, NEW h \in [Days -> SUBSET Items],
         ListingInv(l, h), Len(l.todo) > 0, NEW d, NEW p \in {0} \cup Items, NEW n \in Nat, NEW ahead,
         AnsweredTurn(l, m, h, d, p, n, ahead)
  PROVE  ListingInv(m, h)
<1>0. /\ Turn(l, m, l.todo[1], p) /\ Stand(l, l.todo[1]) # 0
      /\ Answer(l.order, h[l.todo[1]], Stand(l, l.todo[1]), p, n, ahead)
      /\ m.got = Extended(l.got, l.todo[1], n, ahead) /\ m.owed = l.owed /\ m.pc = "reading"
  BY DEF AnsweredTurn
<1>1. PlaceInv(l) /\ GotInv(l) /\ OwedInv(l, h)  BY DEF ListingInv
<1>2. PlaceInv(m)  BY <1>0, <1>1, TurnKeepsPlaces
<1>3. Stand(m, l.todo[1]) = p /\ \A e \in Asked(l) : e # l.todo[1] => Stand(m, e) = Stand(l, e)
  BY <1>0, <1>1, TurnStands
<1>4. SameRequest(m, l)  BY <1>0 DEF Turn
<1>5. GotInv(m) /\ OwedInv(m, h)  BY <1>0, <1>1, <1>3, <1>4, GotGrows
<1>6. EndInv(m)  BY <1>0 DEF EndInv
<1> QED  BY <1>2, <1>5, <1>6 DEF ListingInv

(* What is still to read when the answer of a listing was stopped.          *)
StopsAt(l, afterStop) ==
  \/ l.listing \in {"partitions", "single"} /\ afterStop = Tail(l.todo)
  \/ l.listing \in {"feed", "metrics"} /\ afterStop = <<>>
  \/ l.listing = "count" /\ afterStop = l.todo

(* The cursor by which a listing goes on.                                  *)
GoesOnBy(l) == IF l.listing = "count" THEN l.outgoing ELSE l.incoming

(* A query of the partition that is next.                                  *)
LEMMA QueriedInv ==
  ASSUME NEW l \in Requests, NEW m, NEW h \in [Days -> SUBSET Items], l.pc = "reading",
         ~l.moved => ListingInv(l, h),
         NEW limit \in Nat, l.listing \in {"feed", "metrics"} => limit = l.left,
         NEW afterStop, StopsAt(l, afterStop), NEW d, d = l.todo[1], Len(l.todo) > 0,
         NEW cursor, cursor = GoesOnBy(l), l.listing # "count" => cursor[d] # 0,
         NEW key, key = IF cursor[d] = 0 THEN Fresh ELSE cursor[d],
         Reads(l, m, h[d], d, key, limit, afterStop, Tail(l.todo))
  PROVE  m \in Requests /\ m.pc = "reading" /\ m.moved = l.moved /\ (~l.moved => ListingInv(m, h))
<1>1. PICK p \in {0} \cup Items, n \in 0..limit, ahead \in Seq(Items) :
        /\ n <= Len(ahead)
        /\ Answer(l.order, h[d], key, p, n, ahead)
        /\ m = Answered(l, d, p, n, ahead, IF p # 0 THEN afterStop ELSE Tail(l.todo))
  BY DEF Reads
<1>2. /\ l.todo \in Seq(Days) /\ Len(l.todo) \in Nat /\ d \in Days
      /\ Tail(l.todo) \in Seq(Days) /\ afterStop \in Seq(Days)
  <2>1. l.todo \in Seq(Days) /\ Len(l.todo) \in Nat /\ d \in Days
    BY RequestFields
  <2>2. Tail(l.todo) \in Seq(Days)
    BY <2>1, HeadTailProperties, EmptySeq
  <2> QED  BY <2>1, <2>2, EmptySeq DEF StopsAt
<1> DEFINE rest == IF p # 0 THEN afterStop ELSE Tail(l.todo)
<1>3. /\ rest \in Seq(Days) /\ n \in Nat /\ n <= Len(ahead) /\ (l.listing \in {"feed", "metrics"} => n <= l.left)
      /\ m = Answered(l, d, p, n, ahead, rest)
      /\ rest = IF p # 0 THEN afterStop ELSE Tail(l.todo)
  BY <1>1, <1>2
<1> HIDE DEF rest
<1>4. Adds(m, l, d, p, n, ahead, rest)
  BY <1>2, <1>3, AnsweredFields
<1>5. /\ m \in Requests
      /\ SameRequest(m, l) /\ m.owed = l.owed /\ m.pc = l.pc /\ m.moved = l.moved
      /\ m.got = Extended(l.got, d, n, ahead)
      /\ m.outgoing = [l.outgoing EXCEPT ![d] = p] /\ m.todo = rest
  BY <1>4 DEF Adds
<1>6. Turn(l, m, l.todo[1], p)
  <2>1. l.listing \in {"feed", "partitions", "single", "count", "metrics"}  BY RequestFields DEF Listings
  <2> QED  BY <1>3, <1>5, <2>1 DEF Turn, StopsAt
<1>7. ASSUME ~l.moved PROVE ListingInv(m, h)
  <2>0. ListingInv(l, h)  BY <1>7
  <2>1. PlaceInv(l) /\ CursorInv(l) /\ RangeInv(l) /\ TodoInv(l)  BY <2>0 DEF ListingInv, PlaceInv
  <2>2. Waits(l, d) /\ d \in Asked(l)  BY <2>1, HeadOfRange
  <2>3. Stand(l, d) = cursor[d]  BY <2>2 DEF Stand, GoesOnBy
  <2>4. cursor[d] # 0  BY <2>1, <2>2 DEF CursorInv, GoesOnBy
  <2>5. Answer(l.order, h[d], Stand(l, d), p, n, ahead) /\ Stand(l, d) # 0
    BY <1>1, <2>3, <2>4
  <2>6. AnsweredTurn(l, m, h, d, p, n, ahead)
    BY <1>5, <1>6, <2>5 DEF AnsweredTurn
  <2> QED  BY <1>3, <1>5, <2>0, <2>6, TurnInv
<1> QED  BY <1>5, <1>7

(* Where a partition's query goes on is where the listing stands.           *)
LEMMA QueryInv ==
  ASSUME PageInv, lister.pc = "reading", lister.todo # <<>>, UNCHANGED <<today, held, changes>>,
         NEW limit \in Nat, lister.listing \in {"feed", "metrics"} => limit = lister.left,
         NEW afterStop, StopsAt(lister, afterStop),
         lister.listing # "count" => GoesOnBy(lister)[Partition] # 0,
         Query(limit, GoesOnBy(lister), afterStop, Tail(lister.todo))
  PROVE  PageInv'
<1>1. /\ lister \in Requests /\ held \in [Days -> SUBSET Items]
      /\ ~lister.moved => ListingInv(lister, held)
  BY DEF PageInv, PageTypeOK
<1>2. Len(lister.todo) > 0 /\ Partition = lister.todo[1] /\ Partition \in Days
  <2>1. lister.todo \in Seq(Days)
    BY <1>1, RequestFields
  <2> QED  BY <2>1, HeadTailProperties, EmptySeq DEF Partition
<1>3. GoesOnBy(lister) \in [Days -> 0..Fresh]
  BY <1>1, RequestFields DEF GoesOnBy
<1> DEFINE cursor == GoesOnBy(lister)
           d == Partition
           key == IF cursor[d] = 0 THEN Fresh ELSE cursor[d]
<1>4. Reads(lister, lister', held[d], d, key, limit, afterStop, Tail(lister.todo))
  <2> HIDE DEF Query, Reads
  <2> QED  BY <1>1, <1>2, <1>3, QueryEffect
<1>5. cursor = GoesOnBy(lister) /\ (lister.listing # "count" => cursor[d] # 0) /\ d = lister.todo[1]
      /\ key = IF cursor[d] = 0 THEN Fresh ELSE cursor[d]
  BY <1>2
<1> HIDE DEF cursor, d, key
<1>6. lister' \in Requests /\ lister'.pc = "reading" /\ lister'.moved = lister.moved
      /\ (~lister.moved => ListingInv(lister', held))
  BY <1>1, <1>2, <1>4, <1>5, QueriedInv
<1>7. PageTypeOK'
  BY <1>6 DEF PageInv, PageTypeOK
<1>8. (lister.pc # "idle" /\ ~lister.moved => ListingInv(lister, held))'
  BY <1>6
<1> QED  BY <1>6, <1>7, <1>8 DEF PageInv

(* The days of a range are each there once, in order.                      *)
Enumerates(s, from, to, order) ==
  from <= to =>
    /\ Len(s) = to + 1 - from
    /\ \A j \in 1..Len(s) : s[j] = IF order = "asc" THEN from + j - 1 ELSE to + 1 - j

LEMMA RangeOfDays ==
  ASSUME NEW from \in Days, NEW to \in Days, NEW order \in Orders
  PROVE  /\ DateRange(from, to, order) \in Seq(Days)
         /\ Enumerates(DateRange(from, to, order), from, to, order)
<1> DEFINE size == to + 1 - from
           n == IF from <= to THEN size ELSE 0
           s == [j \in 1..size |-> IF order = "asc" THEN from + j - 1 ELSE to + 1 - j]
<1>1. n \in Nat /\ 1..size = 1..n /\ (from <= to => n = size)
  BY DEF Days
<1>2. \A j \in 1..size : (IF order = "asc" THEN from + j - 1 ELSE to + 1 - j) \in Days
  BY DEF Days
<1>3. s \in [1..size -> Days] /\ DOMAIN s = 1..size
  <2> HIDE DEF size
  <2> QED  BY <1>2
<1>4. \A j \in 1..size : s[j] = IF order = "asc" THEN from + j - 1 ELSE to + 1 - j
  OBVIOUS
<1>5. DateRange(from, to, order) = s
  BY DEF DateRange
<1> HIDE DEF s, n, size
<1>6. s \in Seq(Days)
  <2>1. s \in [1..n -> Days]  BY <1>1, <1>3
  <2> QED  BY <1>1, <2>1, IsASeq
<1>7. Len(s) = n
  BY <1>1, <1>3, <1>6, LenProperties
<1>8. Enumerates(s, from, to, order)
  BY <1>1, <1>4, <1>7 DEF Enumerates, size
<1> QED  BY <1>5, <1>6, <1>8

(* With a whole range to read, every partition of it waits.                *)
LEMMA AllWait ==
  ASSUME NEW m \in Requests, m.from <= m.to, m.todo = DateRange(m.from, m.to, m.order)
  PROVE  /\ TodoInv(m) /\ \A d \in Asked(m) : Waits(m, d)
         /\ \A d \in Asked(m) : ~Before(m.order, d, m.todo[1])
<1> DEFINE lo == m.from
           hi == m.to
           n == Len(m.todo)
           s == m.todo
           order == m.order
<1>1. lo \in Int /\ hi \in Int /\ lo <= hi /\ order \in {"asc", "desc"}
  BY RequestFields DEF Orders
<1>2. n = hi + 1 - lo /\ \A j \in 1..n : s[j] = IF order = "asc" THEN lo + j - 1 ELSE hi + 1 - j
  <2>1. lo \in Days /\ hi \in Days /\ order \in Orders /\ s = DateRange(lo, hi, order)  BY RequestFields
  <2>2. Enumerates(s, lo, hi, order)
    <3> HIDE DEF lo, hi, s, order
    <3> QED  BY <2>1, RangeOfDays
  <2> QED  BY <1>1, <2>2 DEF Enumerates
<1>3. TodoInv(m) <=> /\ n <= hi + 1 - lo
                     /\ \A j \in 1..n : s[j] = IF order = "asc" THEN hi + j - n ELSE lo + n - j
  BY DEF TodoInv
<1>4. \A d : Waits(m, d) <=> IF order = "asc" THEN d + n > hi ELSE d < lo + n
  BY DEF Waits
<1>5. \A d : d \in Asked(m) <=> d \in lo..hi
  BY DEF Asked
<1>6. \A d : Before(m.order, d, m.todo[1]) <=> IF order = "asc" THEN d < s[1] ELSE d > s[1]
  BY DEF Before
<1> HIDE DEF lo, hi, n, s, order
<1>7. \A j \in 1..n : s[j] = IF order = "asc" THEN hi + j - n ELSE lo + n - j
  <2> SUFFICES ASSUME NEW j \in 1..n
               PROVE  s[j] = IF order = "asc" THEN hi + j - n ELSE lo + n - j
    OBVIOUS
  <2>1. s[j] = IF order = "asc" THEN lo + j - 1 ELSE hi + 1 - j  BY <1>2
  <2>2. hi + j - n = lo + j - 1 /\ lo + n - j = hi + 1 - j  BY <1>1, <1>2
  <2> QED  BY <2>1, <2>2
<1>8. 1 \in 1..n /\ s[1] = IF order = "asc" THEN lo ELSE hi
  BY <1>1, <1>2
<1>9. ASSUME NEW d \in Asked(m) PROVE Waits(m, d) /\ ~Before(m.order, d, m.todo[1])
  <2>1. d \in lo..hi  BY <1>5, <1>9
  <2>2. CASE order = "asc"
    <3>1. (Waits(m, d) <=> d + n > hi) /\ (Before(m.order, d, m.todo[1]) <=> d < lo)
      BY <1>4, <1>6, <1>8, <2>2
    <3> QED  BY <1>1, <1>2, <2>1, <3>1
  <2>3. CASE order = "desc"
    <3>1. (Waits(m, d) <=> d < lo + n) /\ (Before(m.order, d, m.todo[1]) <=> d > hi)
      BY <1>4, <1>6, <1>8, <2>3
    <3> QED  BY <1>1, <1>2, <2>1, <3>1
  <2> QED  BY <1>1, <2>2, <2>3
<1> QED  BY <1>1, <1>2, <1>3, <1>7, <1>9

(* A listing begins before everything it asks for.                         *)
LEMMA StartInv ==
  ASSUME PageTypeOK,
         NEW listing \in Listings, NEW order \in Orders, NEW size \in Nat,
         NEW from \in Days, NEW to \in Days, NEW fixed \in BOOLEAN,
         StartListing(listing, order, size, from, to, fixed)
  PROVE  PageInv'
<1> DEFINE m == lister'
           owed == {x \in (from..to) \X Items : x[2] \in held[x[1]]}
           todo == DateRange(from, to, order)
<1>1. /\ m = [Unlisted EXCEPT
            !.pc = "reading", !.listing = listing, !.order = order, !.size = size,
            !.fixed = fixed, !.from = from, !.to = to, !.todo = todo,
            !.left = size, !.owed = owed]
      /\ from <= to /\ (listing = "single" => from = to)
      /\ (~fixed => listing = "feed" /\ from = DefaultFrom /\ to = today)
      /\ UNCHANGED <<today, held, changes>>
  BY DEF StartListing
<1>2. /\ m.pc = "reading" /\ m.listing = listing /\ m.order = order /\ m.size = size /\ m.fixed = fixed
      /\ m.from = from /\ m.to = to /\ m.todo = todo /\ m.left = size /\ m.owed = owed
      /\ m.incoming = NewCursor /\ m.outgoing = NewCursor /\ m.got = <<>>
      /\ m.moved = FALSE /\ m.partial = FALSE
  <2> HIDE DEF todo, owed
  <2> QED  BY <1>1 DEF Unlisted
<1>3. todo \in Seq(Days) /\ NewCursor \in [Days -> 0..Fresh] /\ <<>> \in Seq(Days \X Items)
  <2>1. Fresh \in 0..Fresh  BY DEF Fresh
  <2> QED  BY <1>1, <2>1, RangeOfDays, EmptySeq DEF NewCursor
<1>4. owed \in SUBSET (Days \X Items) /\ \A x \in owed : x[1] \in from..to /\ x[2] \in Items /\ x[2] \in held[x[1]]
  <2>1. from..to \subseteq Days  BY DEF Days
  <2> QED  BY <2>1
<1>5. m = [pc |-> m.pc, listing |-> m.listing, order |-> m.order, size |-> m.size, fixed |-> m.fixed,
           from |-> m.from, to |-> m.to, todo |-> m.todo, left |-> m.left, incoming |-> m.incoming,
           outgoing |-> m.outgoing, got |-> m.got, owed |-> m.owed, moved |-> m.moved, partial |-> m.partial]
  <2> HIDE DEF todo, owed
  <2> QED  BY <1>1, <1>2 DEF Unlisted
<1> HIDE DEF m, owed, todo
<1>6. m \in Requests
  BY <1>2, <1>3, <1>4, <1>5 DEF Requests
<1>7. /\ TodoInv(m) /\ \A d \in Asked(m) : Waits(m, d)
      /\ \A d \in Asked(m) : ~Before(m.order, d, m.todo[1])
  BY <1>1, <1>2, <1>6, AllWait DEF todo
<1>8. Asked(m) \subseteq Days /\ \A d \in Days : m.outgoing[d] = Fresh /\ m.incoming[d] = Fresh
  BY <1>2, <1>6, RequestFields DEF NewCursor
<1>9. \A d \in Asked(m) : Stand(m, d) = Fresh
  BY <1>8 DEF Stand
<1>10. RangeInv(m)
  BY <1>1, <1>2 DEF RangeInv, DefaultFrom, PageTypeOK
<1>11. CursorInv(m)
  BY <1>7, <1>8, CursorValues DEF CursorInv, Fresh
<1>12. FeedInv(m)
  BY <1>7, <1>9 DEF FeedInv
<1>13. Len(m.got) = 0
  BY <1>2, EmptySeq
<1>14. GotInv(m)
  BY <1>13 DEF GotInv
<1>15. OwedInv(m, held)
  <2> SUFFICES ASSUME NEW x \in m.owed
               PROVE  x[1] \in Asked(m) /\ x[2] \in held[x[1]] /\ ~ReadBefore(m, x)
    BY DEF OwedInv
  <2>1. x[1] \in Asked(m) /\ x[2] \in held[x[1]]  BY <1>2, <1>4 DEF Asked
  <2>2. Stand(m, x[1]) = Fresh  BY <1>9, <2>1
  <2> QED  BY <2>1, <2>2 DEF ReadBefore, Reached, Fresh, Items
<1>16. ListingInv(m, held)
  BY <1>2, <1>7, <1>10, <1>11, <1>12, <1>14, <1>15 DEF ListingInv, PlaceInv, EndInv
<1> QED  BY <1>1, <1>2, <1>6, <1>16 DEF PageInv, PageTypeOK, m

(* What was got, and what is owed, while the listing stands where it stood. *)
StandsStill(l, m, k) ==
  /\ m.listing = l.listing /\ m.order = l.order /\ m.from = l.from /\ m.to = l.to /\ m.got = l.got
  /\ \A d \in Asked(l) : Stand(m, d) = Stand(l, d)
  /\ m.owed \subseteq l.owed /\ \A x \in m.owed : x[2] \in k[x[1]]

LEMMA StandingStill ==
  ASSUME NEW l \in Requests, NEW m \in Requests, NEW h, NEW k, GotInv(l), OwedInv(l, h),
         StandsStill(l, m, k)
  PROVE  GotInv(m) /\ OwedInv(m, k)
<1>1. Asked(m) = Asked(l)
  BY DEF Asked, StandsStill
<1>2. \A x : x[1] \in Asked(l) => (ReadBefore(m, x) <=> ReadBefore(l, x))
  BY DEF ReadBefore, StandsStill
<1>3. \A x, y : Precedes(m, x, y) <=> Precedes(l, x, y)
  BY DEF Precedes, StandsStill
<1>4. GotInv(m)
  BY <1>1, <1>2, <1>3 DEF GotInv, StandsStill
<1>5. OwedInv(m, k)
  BY <1>1, <1>2 DEF OwedInv, StandsStill
<1> QED  BY <1>4, <1>5

(* A partition that was exhausted on a page before is passed over.          *)
LEMMA SkipInv == PageInv /\ SkipPartition => PageInv'
<1> SUFFICES ASSUME PageInv, SkipPartition PROVE PageInv'
  OBVIOUS
<1> DEFINE l == lister
           m == lister'
           d == l.todo[1]
<1>1. /\ l \in Requests /\ held \in [Days -> SUBSET Items] /\ UNCHANGED <<today, held, changes>>
      /\ ~l.moved => ListingInv(l, held)
      /\ l.pc = "reading" /\ l.listing \in {"feed", "partitions"} /\ l.todo # <<>>
  BY DEF PageInv, PageTypeOK, SkipPartition, ReadsOn
<1>2. Len(l.todo) > 0 /\ Partition = d /\ d \in Days /\ Tail(l.todo) \in Seq(Days)
  <2>1. l.todo \in Seq(Days)
    BY <1>1, RequestFields
  <2> QED  BY <1>1, <2>1, HeadTailProperties, EmptySeq DEF Partition
<1>3. l.incoming[d] = 0 /\ m = [l EXCEPT !.todo = Tail(l.todo), !.outgoing = [l.outgoing EXCEPT ![d] = 0]]
  BY <1>2 DEF SkipPartition, Exhausted
<1>4. [l.outgoing EXCEPT ![d] = 0] \in [Days -> 0..Fresh]
  <2>1. 0 \in 0..Fresh  BY DEF Fresh
  <2> QED  BY <1>1, <2>1, RequestFields
<1> HIDE DEF l, m, d
<1>5. /\ m.pc = l.pc /\ m.moved = l.moved /\ m.owed = l.owed /\ m.got = l.got
      /\ m.listing = l.listing /\ m.order = l.order /\ m.fixed = l.fixed
      /\ m.from = l.from /\ m.to = l.to /\ m.incoming = l.incoming
      /\ m.todo = Tail(l.todo) /\ m.outgoing = [l.outgoing EXCEPT ![d] = 0]
  BY <1>1, <1>3 DEF Requests
<1>6. m \in Requests
  BY <1>1, <1>2, <1>3, <1>4 DEF Requests
<1>7. Turn(l, m, l.todo[1], 0)
  BY <1>1, <1>5 DEF Turn, SameRequest, d
<1>8. ASSUME ~l.moved PROVE ListingInv(m, held)
  <2>1. PlaceInv(l) /\ GotInv(l) /\ OwedInv(l, held)
    BY <1>1, <1>8 DEF ListingInv
  <2>2. Waits(l, d)
    BY <1>1, <1>2, <2>1, HeadOfRange DEF d, PlaceInv
  <2>3. Stand(l, d) = 0
    BY <1>1, <1>3, <2>2 DEF Stand
  <2>4. Stand(m, d) = 0 /\ \A e \in Asked(l) : e # d => Stand(m, e) = Stand(l, e)
    BY <1>1, <1>2, <1>6, <1>7, <2>1, TurnStands DEF d
  <2>5. PlaceInv(m)
    BY <1>1, <1>2, <1>6, <1>7, <2>1, TurnKeepsPlaces
  <2>6. \A e \in Asked(l) : Stand(m, e) = Stand(l, e)
    BY <2>3, <2>4
  <2>7. \A x \in m.owed : x[2] \in held[x[1]]
    BY <1>5, <2>1 DEF OwedInv
  <2>8. GotInv(m) /\ OwedInv(m, held)
    <3>1. StandsStill(l, m, held)  BY <1>5, <2>6, <2>7 DEF StandsStill
    <3> QED  BY <1>1, <1>6, <2>1, <3>1, StandingStill
  <2> QED  BY <1>1, <1>5, <2>5, <2>8 DEF ListingInv, EndInv
<1>9. m.pc = "reading" /\ (~m.moved => ListingInv(m, held))
  BY <1>1, <1>5, <1>8
<1> QED  BY <1>1, <1>6, <1>9 DEF PageInv, PageTypeOK, m

(* A listing has come to its end when no partition is left to go on from.   *)
LEMMA EndListingInv == PageInv /\ EndListing => PageInv'
<1> SUFFICES ASSUME PageInv, EndListing PROVE PageInv'
  OBVIOUS
<1> DEFINE l == lister
           m == lister'
<1>1. /\ l \in Requests /\ held \in [Days -> SUBSET Items] /\ UNCHANGED <<today, held, changes>>
      /\ ~l.moved => ListingInv(l, held)
      /\ l.pc = "reading" /\ l.todo = <<>>
      /\ m = [l EXCEPT !.pc = "done", !.partial = HasNext]
  BY DEF PageInv, PageTypeOK, EndListing
<1>2. (HasNext <=> Pending(l)) /\ HasNext \in BOOLEAN
  BY DEF HasNext, Pending
<1> HIDE DEF l, m, HasNext
<1>3. /\ m.pc = "done" /\ m.moved = l.moved /\ m.owed = l.owed /\ m.got = l.got
      /\ m.listing = l.listing /\ m.order = l.order /\ m.fixed = l.fixed
      /\ m.from = l.from /\ m.to = l.to /\ m.incoming = l.incoming
      /\ m.todo = l.todo /\ m.outgoing = l.outgoing /\ m.partial = HasNext
  BY <1>1 DEF Requests
<1>4. m \in Requests
  BY <1>1, <1>2 DEF Requests
<1>5. ASSUME ~l.moved PROVE ListingInv(m, held)
  <2>1. PlaceInv(l) /\ GotInv(l) /\ OwedInv(l, held)
    BY <1>1, <1>5 DEF ListingInv
  <2>2. Asked(m) = Asked(l) /\ (Pending(m) <=> Pending(l)) /\ \A d : (Waits(m, d) <=> Waits(l, d)) /\ Stand(m, d) = Stand(l, d)
    BY <1>3 DEF Asked, Pending, Waits, Stand
  <2>3. PlaceInv(m)
    <3>1. RangeInv(m)  BY <1>3, <2>1 DEF PlaceInv, RangeInv
    <3>2. TodoInv(m)  BY <1>3, <2>1 DEF PlaceInv, TodoInv
    <3>3. CursorInv(m)  BY <1>3, <2>1, <2>2 DEF PlaceInv, CursorInv
    <3>4. FeedInv(m)  BY <1>3, <2>1, <2>2 DEF PlaceInv, FeedInv
    <3> QED  BY <3>1, <3>2, <3>3, <3>4 DEF PlaceInv
  <2>4. \A x \in m.owed : x[2] \in held[x[1]]
    BY <1>3, <2>1 DEF OwedInv
  <2>5. GotInv(m) /\ OwedInv(m, held)
    <3>1. StandsStill(l, m, held)  BY <1>3, <2>2, <2>4 DEF StandsStill
    <3> QED  BY <1>1, <1>4, <2>1, <3>1, StandingStill
  <2>6. EndInv(m)
    BY <1>1, <1>2, <1>3, <2>2, EmptySeq DEF EndInv
  <2> QED  BY <2>3, <2>5, <2>6 DEF ListingInv
<1> QED  BY <1>1, <1>3, <1>4, <1>5 DEF PageInv, PageTypeOK, l, m

(* The token says where the page ended, and the next one goes on from there. *)
LEMMA FollowInv == PageInv /\ FollowToken => PageInv'
<1> SUFFICES ASSUME PageInv, FollowToken PROVE PageInv'
  OBVIOUS
<1> DEFINE l == lister
           m == lister'
           from == IF l.fixed THEN l.from ELSE DefaultFrom
           to == IF l.fixed THEN l.to ELSE today
           todo == DateRange(from, to, l.order)
<1>1. /\ l \in Requests /\ held \in [Days -> SUBSET Items] /\ UNCHANGED <<today, held, changes>>
      /\ ~l.moved => ListingInv(l, held)
      /\ l.pc = "reading" /\ l.todo = <<>> /\ l.listing # "metrics" /\ HasNext
      /\ m = [l EXCEPT !.todo = todo, !.left = l.size, !.incoming = l.outgoing,
                       !.outgoing = NewCursor, !.moved = l.moved \/ from # l.from]
  BY DEF PageInv, PageTypeOK, FollowToken
<1>2. /\ today \in Days /\ DefaultFrom \in Days /\ DefaultFrom <= today
      /\ DefaultFrom = today + 1 - RangeDays
  BY DEF PageInv, PageTypeOK, DefaultFrom, Days
<1>3. Pending(l)
  BY <1>1 DEF HasNext, Pending
<1>4. from = (IF l.fixed THEN l.from ELSE DefaultFrom) /\ to = IF l.fixed THEN l.to ELSE today
  OBVIOUS
<1> HIDE DEF l, m, from, to, todo
<1>5. /\ m.pc = "reading" /\ m.owed = l.owed /\ m.got = l.got
      /\ m.listing = l.listing /\ m.order = l.order /\ m.fixed = l.fixed
      /\ m.from = l.from /\ m.to = l.to /\ m.incoming = l.outgoing
      /\ m.todo = todo /\ m.outgoing = NewCursor /\ (m.moved <=> l.moved \/ from # l.from)
  BY <1>1 DEF Requests
<1>6. from \in Days /\ to \in Days /\ l.order \in Orders /\ l.from \in Int /\ l.to \in Int
  BY <1>1, <1>2, <1>4, RequestFields
<1>7. todo \in Seq(Days) /\ NewCursor \in [Days -> 0..Fresh] /\ \A d \in Days : NewCursor[d] = Fresh
  <2>1. Fresh \in 0..Fresh  BY DEF Fresh
  <2> QED  BY <1>6, <2>1, RangeOfDays DEF NewCursor, todo
<1>8. m \in Requests
  <2>1. (l.moved \/ from # l.from) \in BOOLEAN  OBVIOUS
  <2> QED  BY <1>1, <1>7, <2>1 DEF Requests
<1>9. ASSUME ~m.moved PROVE ListingInv(m, held)
  <2>0. ~l.moved /\ from = l.from
    BY <1>5, <1>9
  <2>1. PlaceInv(l) /\ GotInv(l) /\ OwedInv(l, held) /\ RangeInv(l) /\ CursorInv(l) /\ FeedInv(l)
    BY <1>1, <2>0 DEF ListingInv, PlaceInv
  <2>2. to = l.to
    <3>1. ~l.fixed => l.to + 1 = l.from + RangeDays /\ DefaultFrom = l.from /\ to = today
      BY <1>4, <2>0, <2>1 DEF RangeInv
    <3>2. l.fixed => to = l.to  BY <1>4
    <3>3. l.fixed \/ ~l.fixed  OBVIOUS
    <3> QED  BY <1>2, <1>6, <3>1, <3>2, <3>3 DEF Days
  <2>3. m.from <= m.to /\ m.todo = DateRange(m.from, m.to, m.order)
    BY <1>5, <2>0, <2>1, <2>2 DEF RangeInv, todo
  <2>4. Asked(m) = Asked(l) /\ Asked(l) \subseteq Days
    BY <1>1, <1>5, RequestFields DEF Asked
  <2>5. /\ TodoInv(m) /\ \A d \in Asked(l) : Waits(m, d)
        /\ \A d \in Asked(l) : ~Before(m.order, d, m.todo[1])
    BY <1>8, <2>3, <2>4, AllWait
  <2>6. \A d \in Asked(l) : ~Waits(l, d)
    <3>1. Len(l.todo) = 0  BY <1>1, EmptySeq
    <3> QED  BY <1>1, <3>1, RequestFields DEF Waits, Asked
  <2>7. l.listing # "count"
    <3>1. ASSUME l.listing = "count" PROVE \A d \in Days : l.outgoing[d] = Fresh \/ l.outgoing[d] = 0
      BY <2>1, <2>6, <3>1 DEF CursorInv
    <3> QED  BY <1>3, <3>1, CursorValues DEF Pending, Items, Fresh
  <2>8. \A d \in Asked(l) : Stand(m, d) = Stand(l, d)
    BY <1>5, <2>5, <2>6, <2>7 DEF Stand
  <2>9. RangeInv(m)
    BY <1>5, <2>1 DEF RangeInv
  <2>10. CursorInv(m)
    BY <1>5, <1>7, <2>4, <2>5, <2>7 DEF CursorInv
  <2>11. FeedInv(m)
    BY <1>5, <2>1, <2>4, <2>5, <2>8 DEF FeedInv
  <2>12. \A x \in m.owed : x[2] \in held[x[1]]
    BY <1>5, <2>1 DEF OwedInv
  <2>13. GotInv(m) /\ OwedInv(m, held)
    <3>1. StandsStill(l, m, held)  BY <1>5, <2>2, <2>8, <2>12 DEF StandsStill
    <3> QED  BY <1>1, <1>8, <2>1, <3>1, StandingStill
  <2> QED  BY <1>5, <2>5, <2>9, <2>10, <2>11, <2>13 DEF ListingInv, PlaceInv, EndInv
<1> QED  BY <1>1, <1>5, <1>8, <1>9 DEF PageInv, PageTypeOK, m

(* An item that comes is owed to nobody; one that goes is so no longer.     *)
LEMMA StoreInv ==
  ASSUME PageInv, NEW d \in Days, NEW k \in Items, Insert(d, k) \/ Withdraw(d, k)
  PROVE  PageInv'
<1> DEFINE l == lister
           m == lister'
           owed == IF Insert(d, k) THEN l.owed ELSE l.owed \ {<<d, k>>}
<1>1. /\ l \in Requests /\ held \in [Days -> SUBSET Items] /\ changes \in 0..MaxChanges
      /\ ~l.moved => ListingInv(l, held)
      /\ l.pc = "reading" /\ today' = today
      /\ changes < MaxChanges /\ changes' = changes + 1
  BY DEF PageInv, PageTypeOK, Insert, Withdraw, Change
<1>2. held' \in [Days -> SUBSET Items]
  BY <1>1 DEF Insert, Withdraw
<1>3. \A x \in owed : x \in l.owed /\ (x[2] \in held[x[1]] => x[2] \in held'[x[1]])
  <2> SUFFICES ASSUME NEW x \in owed, x[2] \in held[x[1]]
               PROVE  x \in l.owed /\ x[2] \in held'[x[1]]
    OBVIOUS
  <2>1. x \in Days \X Items /\ x \in l.owed
    BY <1>1, RequestFields
  <2>2. x[1] \in Days /\ x = <<x[1], x[2]>>
    BY <2>1
  <2>3. CASE Insert(d, k)
    <3>1. held' = [held EXCEPT ![d] = @ \cup {k}]  BY <2>3 DEF Insert
    <3> QED  BY <1>1, <2>1, <2>2, <3>1
  <2>4. CASE Withdraw(d, k) /\ ~Insert(d, k)
    <3>1. held' = [held EXCEPT ![d] = @ \ {k}] /\ x # <<d, k>>  BY <2>4 DEF Withdraw
    <3>2. CASE x[1] = d
      <4>1. x[2] # k  BY <2>2, <3>1, <3>2
      <4> QED  BY <1>1, <2>1, <2>2, <3>1, <3>2, <4>1
    <3>3. CASE x[1] # d  BY <1>1, <2>1, <2>2, <3>1, <3>3
    <3> QED  BY <3>2, <3>3
  <2> QED  BY <2>3, <2>4
<1>4. m = [l EXCEPT !.owed = owed] \/ (m = l /\ owed = l.owed)
  BY DEF Insert, Withdraw
<1>5. owed \in SUBSET (Days \X Items)
  BY <1>1, RequestFields
<1> HIDE DEF l, m, owed
<1>6. /\ m.pc = l.pc /\ m.moved = l.moved /\ m.owed = owed /\ m.got = l.got
      /\ m.listing = l.listing /\ m.order = l.order /\ m.fixed = l.fixed
      /\ m.from = l.from /\ m.to = l.to /\ m.incoming = l.incoming
      /\ m.todo = l.todo /\ m.outgoing = l.outgoing /\ m.partial = l.partial
  BY <1>1, <1>4 DEF Requests
<1>7. m \in Requests
  <2>1. CASE m = [l EXCEPT !.owed = owed]
    <3>1. l \in Requests /\ owed \in SUBSET (Days \X Items)  BY <1>1, <1>5
    <3> QED  BY <2>1, <3>1 DEF Requests
  <2> QED  BY <1>1, <1>4, <2>1
<1>8. ASSUME ~l.moved PROVE ListingInv(m, held')
  <2>1. PlaceInv(l) /\ GotInv(l) /\ OwedInv(l, held)
    BY <1>1, <1>8 DEF ListingInv
  <2>2. Asked(m) = Asked(l) /\ (Pending(m) <=> Pending(l)) /\ \A e : (Waits(m, e) <=> Waits(l, e)) /\ Stand(m, e) = Stand(l, e)
    BY <1>6 DEF Asked, Pending, Waits, Stand
  <2>3. PlaceInv(m)
    <3>1. RangeInv(m)  BY <1>6, <2>1 DEF PlaceInv, RangeInv
    <3>2. TodoInv(m)  BY <1>6, <2>1 DEF PlaceInv, TodoInv
    <3>3. CursorInv(m)  BY <1>6, <2>1, <2>2 DEF PlaceInv, CursorInv
    <3>4. FeedInv(m)  BY <1>6, <2>1, <2>2 DEF PlaceInv, FeedInv
    <3> QED  BY <3>1, <3>2, <3>3, <3>4 DEF PlaceInv
  <2>4. StandsStill(l, m, held')
    BY <1>3, <1>6, <2>1, <2>2 DEF StandsStill, OwedInv
  <2>5. GotInv(m) /\ OwedInv(m, held')
    BY <1>1, <1>7, <2>1, <2>4, StandingStill
  <2> QED  BY <1>1, <1>6, <2>3, <2>5 DEF ListingInv, EndInv
<1>9. changes' \in 0..MaxChanges
  BY <1>1
<1> QED  BY <1>1, <1>2, <1>6, <1>7, <1>8, <1>9 DEF PageInv, PageTypeOK, m

-----------------------------------------------------------------------------
(* Listings: the theorems                                                  *)

(* The invariant holds when nobody lists anything yet.                     *)
LEMMA PageInit == PagingInit => PageInv
<1> SUFFICES ASSUME PagingInit PROVE PageInv
  OBVIOUS
<1>1. Unlisted \in Requests
  <2>1. 1 \in Days /\ Fresh \in 0..Fresh  BY DEF Days, Fresh
  <2>2. NewCursor \in [Days -> 0..Fresh]  BY <2>1 DEF NewCursor
  <2>3. <<>> \in Seq(Days) /\ <<>> \in Seq(Days \X Items)  BY EmptySeq
  <2> HIDE DEF NewCursor
  <2> QED  BY <2>1, <2>2, <2>3 DEF Unlisted, Requests, Listings, Orders
<1>2. Unlisted.pc = "idle" /\ Unlisted.got = <<>>
  BY DEF Unlisted
<1>3. FirstToday \in FirstToday..LastDay /\ 0 \in 0..MaxChanges
  OBVIOUS
<1> QED  BY <1>1, <1>2, <1>3 DEF PagingInit, PageInv, PageTypeOK

(* And every step keeps it.                                                *)
LEMMA PageStep == PageInv /\ [PagingNext]_pagingVars => PageInv'
<1> SUFFICES ASSUME PageInv, [PagingNext]_pagingVars PROVE PageInv'
  OBVIOUS
<1>0. lister \in Requests
  BY DEF PageInv, PageTypeOK
<1>1. ASSUME NEW d \in Days, NEW k \in Items, Insert(d, k) \/ Withdraw(d, k) PROVE PageInv'
  BY <1>1, StoreInv
<1>2. CASE Midnight
  BY <1>2 DEF Midnight, PageInv, PageTypeOK
<1>3. ASSUME NEW listing \in Listings, NEW order \in Orders, NEW size \in PageSizes \cup {MetricsSize},
             NEW from \in Days, NEW to \in Days, NEW fixed \in BOOLEAN,
             StartListing(listing, order, size, from, to, fixed)
      PROVE  PageInv'
  <2>1. size \in Nat  OBVIOUS
  <2> QED  BY <1>3, <2>1, StartInv DEF PageInv
<1>4. CASE SkipPartition  BY <1>4, SkipInv
<1>5. CASE ReadFeed
  <2>1. /\ lister.pc = "reading" /\ lister.todo # <<>> /\ lister.listing \in {"feed", "metrics"}
        /\ lister.incoming[Partition] # 0 /\ UNCHANGED <<today, held, changes>>
        /\ Query(lister.left, lister.incoming, <<>>, Tail(lister.todo))
    BY <1>5 DEF ReadFeed, ReadsOn, Exhausted
  <2>2. GoesOnBy(lister) = lister.incoming /\ StopsAt(lister, <<>>)
    BY <2>1 DEF GoesOnBy, StopsAt
  <2>3. lister.left \in Nat
    BY <1>0 DEF Requests
  <2> QED  BY <2>1, <2>2, <2>3, QueryInv
<1>6. CASE ReadPartition
  <2>1. /\ lister.pc = "reading" /\ lister.todo # <<>> /\ lister.listing \in {"partitions", "single"}
        /\ lister.incoming[Partition] # 0 /\ UNCHANGED <<today, held, changes>>
        /\ Query(lister.size, lister.incoming, Tail(lister.todo), Tail(lister.todo))
    BY <1>6 DEF ReadPartition, ReadsOn, Exhausted
  <2>2. GoesOnBy(lister) = lister.incoming /\ StopsAt(lister, Tail(lister.todo))
    BY <2>1 DEF GoesOnBy, StopsAt
  <2>3. lister.size \in Nat
    BY <1>0 DEF Requests
  <2> QED  BY <2>1, <2>2, <2>3, QueryInv
<1>7. CASE ReadCount
  <2>1. /\ lister.pc = "reading" /\ lister.todo # <<>> /\ lister.listing = "count"
        /\ UNCHANGED <<today, held, changes>>
        /\ Query(PerDay + 1, lister.outgoing, lister.todo, Tail(lister.todo))
    BY <1>7 DEF ReadCount, ReadsOn
  <2>2. GoesOnBy(lister) = lister.outgoing /\ StopsAt(lister, lister.todo)
    BY <2>1 DEF GoesOnBy, StopsAt
  <2>3. PerDay + 1 \in Nat
    OBVIOUS
  <2> QED  BY <2>1, <2>2, <2>3, QueryInv
<1>8. CASE EndListing  BY <1>8, EndListingInv
<1>9. CASE FollowToken  BY <1>9, FollowInv
<1>10. CASE UNCHANGED pagingVars
  BY <1>10 DEF pagingVars, PageInv, PageTypeOK
<1> QED  BY <1>1, <1>2, <1>3, <1>4, <1>5, <1>6, <1>7, <1>8, <1>9, <1>10 DEF PagingNext

(* Requests and cursors, and the items stored, are of their types.          *)
THEOREM PagingTypesHold == PagingSpec => []PagingTypeOK
<1> QED  BY PageInit, PageStep, PageInvSuffices, PTL DEF PagingSpec

(* Whoever follows a listing to its end has met every item that was there    *)
(* throughout, and none twice, in the order asked for, whatever came and    *)
(* went in between and however short the pages were (_query_bucketed_range, *)
(* _list_rules_all_partitions, _count_signals_for_day).                     *)
THEOREM ListingsAreWhole == PagingSpec => []ListingIsWhole
<1> QED  BY PageInit, PageStep, PageInvSuffices, PTL DEF PagingSpec
=============================================================================
