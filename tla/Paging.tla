------------------------------- MODULE Paging -------------------------------
(***************************************************************************)
(* The listings of src/handlers/api.py, and the clients that follow them    *)
(* from page to page while items come and go.                              *)
(*                                                                         *)
(* A listing reads partitions one by one.  Signals and logs are a feed      *)
(* over the days of a date range (_query_bucketed_range): a page ends       *)
(* where a day is not exhausted, and its token says where each day stands.  *)
(* Rules are read from each partition alike (_list_rules_all_partitions).   *)
(* Everything else is a single partition and the store's own key.  Counts   *)
(* read every day to its end; metrics read one page and say whether it was  *)
(* partial.                                                                *)
(*                                                                         *)
(* A partition is a day, or one of the rules' kinds by its number; an item  *)
(* is its place in the sort order of its partition.  A query answers with   *)
(* a key to go on from when Limit or the size of the response stopped it,   *)
(* even at the last item.                                                  *)
(***************************************************************************)
EXTENDS Naturals, Sequences, FiniteSets

CONSTANTS
  LastDay,     \* bound: days, or partitions, are 1..LastDay
  FirstToday,  \* today, as listings begin
  RangeDays,   \* days of the default range
  PerDay,      \* bound: items of a partition
  PageSizes,   \* page sizes that clients ask for
  MetricsSize, \* the page that metrics read
  MaxChanges   \* bound: items that come or go during a listing

ASSUME PagingAssumption ==
  /\ LastDay \in Nat \ {0}
  /\ FirstToday \in 1..LastDay
  /\ RangeDays \in 1..FirstToday
  /\ PerDay \in Nat
  /\ PageSizes \subseteq Nat \ {0}
  /\ MetricsSize \in Nat \ {0}
  /\ MaxChanges \in Nat

VARIABLES
  today,
  held,     \* the items stored in each partition
  changes,  \* number of items that came or went
  lister    \* a client and its request

pagingVars == <<today, held, changes, lister>>

-----------------------------------------------------------------------------
Days == 1..LastDay

Items == 1..PerDay

Listings == {"feed", "partitions", "single", "count", "metrics"}

Orders == {"asc", "desc"}

(* A cursor says of each partition after which item to go on; 0 is one that *)
(* was exhausted on a page before, Fresh one that has not been read yet.    *)
Fresh == PerDay + 1

NewCursor == [d \in Days |-> Fresh]

Unlisted ==
  [pc |-> "idle", listing |-> "single", order |-> "asc", size |-> 1, fixed |-> TRUE,
   from |-> 1, to |-> 1, todo |-> <<>>, left |-> 0, incoming |-> NewCursor,
   outgoing |-> NewCursor, got |-> <<>>, owed |-> {}, moved |-> FALSE, partial |-> FALSE]

PagingTypeOK ==
  /\ today \in Days
  /\ held \in [Days -> SUBSET Items]
  /\ changes \in 0..MaxChanges
  /\ lister.pc \in {"idle", "reading", "done"}
  /\ lister.listing \in Listings
  /\ lister.order \in Orders
  /\ lister.left \in Nat
  /\ lister.from \in Days /\ lister.to \in Days
  /\ {lister.incoming, lister.outgoing} \subseteq [Days -> 0..Fresh]
  /\ \A j \in DOMAIN lister.todo : lister.todo[j] \in Days
  /\ \A j \in DOMAIN lister.got : lister.got[j] \in Days \X Items
  /\ lister.owed \subseteq Days \X Items

PagingInit ==
  /\ today = FirstToday
  /\ held \in [Days -> SUBSET Items]
  /\ \A d \in Days : d > today => held[d] = {}
  /\ changes = 0
  /\ lister = Unlisted

-----------------------------------------------------------------------------
(* The store                                                               *)

Change ==
  /\ lister.pc = "reading"
  /\ changes < MaxChanges
  /\ changes' = changes + 1

(* An item goes to the partition of its own timestamp (day_bucket_key),     *)
(* which may be of any day up to today.                                    *)
Insert(d, k) ==
  /\ Change
  /\ d <= today
  /\ k \notin held[d]
  /\ held' = [held EXCEPT ![d] = @ \cup {k}]
  /\ UNCHANGED <<today, lister>>

(* A rule is deleted, or a row expires: nobody is owed it any more.         *)
Withdraw(d, k) ==
  /\ Change
  /\ k \in held[d]
  /\ held' = [held EXCEPT ![d] = @ \ {k}]
  /\ lister' = [lister EXCEPT !.owed = @ \ {<<d, k>>}]
  /\ UNCHANGED today

Midnight ==
  /\ lister.pc = "reading"
  /\ today < LastDay
  /\ today' = today + 1
  /\ UNCHANGED <<held, changes, lister>>

Before(order, j, k) == IF order = "asc" THEN j < k ELSE j > k

(* The items after key, of which 0 is none, in their order.                 *)
Ahead(d, key, order) ==
  LET rest == {k \in held[d] : key = Fresh \/ Before(order, key, k)}
      Place(k) == Cardinality({j \in rest : Before(order, j, k)}) + 1
  IN [i \in 1..Cardinality(rest) |-> CHOOSE k \in rest : Place(k) = i]

(* What a query may answer: count items, and whether something stopped it.  *)
Answers(d, key, limit) ==
  LET all == Len(Ahead(d, key, lister.order)) IN
  {a \in [count : 0..all, stopped : BOOLEAN] :
     /\ a.count <= limit
     /\ IF a.stopped THEN a.count > 0 ELSE a.count = all /\ a.count < limit}

-----------------------------------------------------------------------------
(* Requests                                                                *)

(* _date_range_days.                                                       *)
DateRange(from, to, order) ==
  [j \in 1..(to + 1 - from) |-> IF order = "asc" THEN from + j - 1 ELSE to + 1 - j]

DefaultFrom == today + 1 - RangeDays

(* _parse_date_range: a range that is given, or the default one, which moves *)
(* with the day.                                                           *)
StartListing(listing, order, size, from, to, fixed) ==
  /\ lister.pc = "idle"
  /\ from <= to
  /\ listing = "single" => from = to
  /\ listing \in {"count", "metrics"} => order = "asc"
  /\ listing = "metrics" => size = MetricsSize
  /\ ~fixed => listing = "feed" /\ from = DefaultFrom /\ to = today
  /\ lister' = [Unlisted EXCEPT
       !.pc = "reading", !.listing = listing, !.order = order, !.size = size,
       !.fixed = fixed, !.from = from, !.to = to, !.todo = DateRange(from, to, order),
       !.left = size, !.owed = {x \in (from..to) \X Items : x[2] \in held[x[1]]}]
  /\ UNCHANGED <<today, held, changes>>

Partition == Head(lister.todo)

ReadsOn(listings) ==
  lister.pc = "reading" /\ lister.todo # <<>> /\ lister.listing \in listings

NeverExhausted(d) == FALSE

(* On a page before.                                                       *)
Exhausted(d) == lister.incoming[d] = 0

SkipPartition ==
  /\ ReadsOn({"feed", "partitions"})
  /\ Exhausted(Partition)
  /\ lister' = [lister EXCEPT !.todo = Tail(@), !.outgoing[Partition] = 0]
  /\ UNCHANGED <<today, held, changes>>

(* The answer is added to the page; the cursor says where its partition     *)
(* stands.  The partition is read from its beginning if its key is none.    *)
(* What is still to read depends on whether the answer was stopped.         *)
Query(limit, cursor, afterStop, afterEnd) ==
  LET d == Partition
      key == IF cursor[d] = 0 THEN Fresh ELSE cursor[d]
      ahead == Ahead(d, key, lister.order)
  IN \E a \in Answers(d, key, limit) :
       LET answer == [j \in 1..a.count |-> <<d, ahead[j]>>] IN
         lister' = [lister EXCEPT
           !.got = @ \o answer,
           !.left = IF lister.listing \in {"feed", "metrics"} THEN @ - a.count ELSE @,
           !.outgoing[d] = IF a.stopped THEN ahead[a.count] ELSE 0,
           !.todo = IF a.stopped THEN afterStop ELSE afterEnd]

(* _query_bucketed_range: a day that is not exhausted ends the page.  With   *)
(* no room left no day is exhausted, so that there is room for each it asks. *)
ReadFeed ==
  /\ ReadsOn({"feed", "metrics"})
  /\ ~Exhausted(Partition)
  /\ Query(lister.left, lister.incoming, <<>>, Tail(lister.todo))
  /\ UNCHANGED <<today, held, changes>>

(* _list_rules_all_partitions: each partition by itself.                    *)
ReadPartition ==
  /\ ReadsOn({"partitions", "single"})
  /\ ~Exhausted(Partition)
  /\ Query(lister.size, lister.incoming, Tail(lister.todo), Tail(lister.todo))
  /\ UNCHANGED <<today, held, changes>>

(* _count_signals_for_day: until there is no key to go on from.             *)
ReadCount ==
  /\ ReadsOn({"count"})
  /\ Query(PerDay + 1, lister.outgoing, lister.todo, Tail(lister.todo))
  /\ UNCHANGED <<today, held, changes>>

-----------------------------------------------------------------------------
(* The end of a page                                                       *)

HasNext == \E d \in Days : lister.outgoing[d] \in Items

(* Metrics stop after the first page.                                      *)
EndListing ==
  /\ lister.pc = "reading"
  /\ lister.todo = <<>>
  /\ ~HasNext \/ lister.listing = "metrics"
  /\ lister' = [lister EXCEPT !.pc = "done", !.partial = HasNext]
  /\ UNCHANGED <<today, held, changes>>

(* The client sends the token back, with the query it had sent.             *)
FollowToken ==
  LET from == IF lister.fixed THEN lister.from ELSE DefaultFrom
      to == IF lister.fixed THEN lister.to ELSE today
  IN /\ lister.pc = "reading"
     /\ lister.todo = <<>>
     /\ HasNext
     /\ lister.listing # "metrics"
     /\ lister' = [lister EXCEPT
          !.todo = DateRange(from, to, lister.order), !.left = lister.size,
          !.incoming = lister.outgoing, !.outgoing = NewCursor,
          !.moved = @ \/ from # lister.from]
     /\ UNCHANGED <<today, held, changes>>

PagingNext ==
  \/ \E d \in Days, k \in Items : Insert(d, k) \/ Withdraw(d, k)
  \/ Midnight
  \/ \E listing \in Listings, order \in Orders, size \in PageSizes \cup {MetricsSize},
        from, to \in Days, fixed \in BOOLEAN :
       StartListing(listing, order, size, from, to, fixed)
  \/ SkipPartition
  \/ ReadFeed
  \/ ReadPartition
  \/ ReadCount
  \/ EndListing
  \/ FollowToken

PagingSpec == PagingInit /\ [][PagingNext]_pagingVars

-----------------------------------------------------------------------------
Earlier(x, y) ==
  IF x[1] = y[1] THEN Before(lister.order, x[2], y[2]) ELSE Before(lister.order, x[1], y[1])

(* Whoever follows a listing to its end has met every item that was there    *)
(* throughout, and none twice, whatever came and went in between, however    *)
(* short the pages were; a feed is in the order asked for from its first     *)
(* item to its last; a count is complete; and metrics that are not complete  *)
(* say so.  A default range that moves at midnight is excepted: a page may   *)
(* then forget the days that were exhausted before.                         *)
ListingIsWhole ==
  lister.moved \/
    /\ lister.pc = "done" /\ ~lister.partial =>
         \A x \in lister.owed : \E j \in DOMAIN lister.got : lister.got[j] = x
    /\ \A i, j \in DOMAIN lister.got :
         i < j => IF lister.listing = "partitions" THEN lister.got[i] # lister.got[j]
                  ELSE Earlier(lister.got[i], lister.got[j])
=============================================================================
