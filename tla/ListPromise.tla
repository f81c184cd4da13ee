----------------------------- MODULE ListPromise -----------------------------
(***************************************************************************)
(* What a detection list promises to its editors and its evaluators, until *)
(* somebody deletes it.  It is a register: edits are applied one after the *)
(* other, each to the content that the one before it left, and none to an  *)
(* older one.  A copy follows at a distance; an evaluator takes what the   *)
(* copy shows, whole or not at all, and never goes back to an older        *)
(* revision.  Of a list that a DELETE took something of nothing is said.   *)
(***************************************************************************)
EXTENDS Naturals

CONSTANTS Values, Contents, ListReaders

VARIABLES
  current,   \* the revision and the content of the list
  copy,      \* the one that evaluators are shown
  taken,     \* taken[e]: the one that evaluator e is about to use, if any
  held,      \* held[e]: the one that e uses
  spoiled    \* a DELETE took something of the list

NoList == [rev |-> 0, values |-> {}]

Init ==
  /\ current = NoList
  /\ copy = NoList
  /\ taken = [e \in ListReaders |-> {}]
  /\ held = [e \in ListReaders |-> NoList]
  /\ spoiled = FALSE

Store(values) ==
  /\ ~spoiled
  /\ values # {}
  /\ current' = [rev |-> current.rev + 1, values |-> values]
  /\ UNCHANGED <<copy, taken, held, spoiled>>

(* An addition or a removal is one of a list that is there.                *)
Add(v) == current # NoList /\ v \notin current.values /\ Store(current.values \cup {v})

Remove(v) == v \in current.values /\ Store(current.values \ {v})

Replace(content) == Store(content)

Follow ==
  /\ copy' = current
  /\ UNCHANGED <<current, taken, held, spoiled>>

Take(e) ==
  /\ taken[e] = {}
  /\ taken' = [taken EXCEPT ![e] = {copy}]
  /\ UNCHANGED <<current, copy, held, spoiled>>

Use(e) ==
  /\ \E version \in taken[e] :
       /\ held[e].rev <= version.rev
       /\ held' = [held EXCEPT ![e] = version]
  /\ taken' = [taken EXCEPT ![e] = {}]
  /\ UNCHANGED <<current, copy, spoiled>>

GiveUp(e) ==
  /\ taken' = [taken EXCEPT ![e] = {}]
  /\ UNCHANGED <<current, copy, held, spoiled>>

Spoil == spoiled' = TRUE

Next ==
  \/ \E v \in Values : Add(v) \/ Remove(v)
  \/ \E content \in Contents : Replace(content)
  \/ Follow
  \/ \E e \in ListReaders : Take(e) \/ Use(e) \/ GiveUp(e)
  \/ Spoil

Spec == Init /\ [][Next]_<<current, copy, taken, held, spoiled>>
=============================================================================
