--------------------------- MODULE CircuitBreaker ---------------------------
(***************************************************************************)
(* The brake on automated responses: _recent_action_count of               *)
(* src/handlers/responder.py, which the responder and the rollback handler *)
(* both call.  It counts rows the calling service wrote to the logs table  *)
(* within RESPONDER_RATE_LIMIT_WINDOW_MINUTES.                             *)
(*                                                                         *)
(* "rows" is what the query returns: for each event name, how many rows.   *)
(* Dry-run rows, which the count leaves out, are not modelled: a deployment *)
(* is dry-run as a whole or not at all.                                    *)
(***************************************************************************)
EXTENDS Naturals

CONSTANT MaxActions   \* RESPONDER_RATE_LIMIT_MAX_ACTIONS

ASSUME MaxActionsAssumption == MaxActions \in Nat \ {0}

Events == {"IR_ACTION_SUCCESS", "IR_ACTION_FAILED", "IR_ROLLBACK_SUCCESS", "IR_ROLLBACK_FAILED"}

Rows == [Events -> Nat]

NoRows == [e \in Events |-> 0]

AllRows(rows) ==
  rows["IR_ACTION_SUCCESS"] + rows["IR_ACTION_FAILED"]
    + rows["IR_ROLLBACK_SUCCESS"] + rows["IR_ROLLBACK_FAILED"]

(* The query is not a consistent read: what it sees may miss rows.         *)
Seen(rows) == {s \in [Events -> 0..AllRows(rows)] : \A e \in Events : s[e] <= rows[e]}

FailuresOnly(rows) == rows["IR_ACTION_FAILED"]

(* The rows whose event_name is in _ACTION_EVENT_NAMES.                    *)
RecentActionCount(rows) == rows["IR_ACTION_SUCCESS"] + rows["IR_ACTION_FAILED"]

Tripped(rows) == RecentActionCount(rows) >= MaxActions
=============================================================================
