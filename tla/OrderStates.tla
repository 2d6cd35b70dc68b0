---------------------------- MODULE OrderStates ----------------------------
(***************************************************************************)
(* The order states of the paper and sandbox engines and the table of the  *)
(* moves between them (engine/paper/state_machine.py).  Every status       *)
(* change of an order in the code asks this table first, through           *)
(* validate_order_transition, and raises when the move is not in it.       *)
(***************************************************************************)

(* The keys of VALID_ORDER_TRANSITIONS. *)
OrderStatus ==
    {"CREATED", "PENDING_SUBMISSION", "ACCEPTED", "ACKNOWLEDGED",
     "PARTIALLY_FILLED", "CANCEL_PENDING", "RECONCILIATION_REQUIRED",
     "FILLED", "CANCELLED", "REJECTED", "PROVIDER_REJECTED", "EXPIRED",
     "RISK_REJECTED", "ERROR"}

(* VALID_ORDER_TRANSITIONS: the states each state may move to. *)
NextStates(s) ==
    CASE s = "CREATED" ->
           {"ACCEPTED", "PENDING_SUBMISSION", "RISK_REJECTED", "REJECTED", "ERROR"}
      [] s = "PENDING_SUBMISSION" ->
           {"ACKNOWLEDGED", "PROVIDER_REJECTED", "RECONCILIATION_REQUIRED",
            "CANCEL_PENDING", "CANCELLED", "ERROR"}
      [] s = "ACCEPTED" ->
           {"PARTIALLY_FILLED", "FILLED", "CANCEL_PENDING", "CANCELLED",
            "REJECTED", "EXPIRED", "ERROR"}
      [] s = "ACKNOWLEDGED" ->
           {"PARTIALLY_FILLED", "FILLED", "CANCEL_PENDING", "CANCELLED",
            "RECONCILIATION_REQUIRED", "ERROR"}
      [] s = "PARTIALLY_FILLED" ->
           {"PARTIALLY_FILLED", "FILLED", "CANCEL_PENDING", "CANCELLED",
            "EXPIRED", "ERROR"}
      [] s = "CANCEL_PENDING" ->
           {"ACKNOWLEDGED", "CANCELLED", "PARTIALLY_FILLED", "FILLED",
            "RECONCILIATION_REQUIRED", "ERROR"}
      [] s = "RECONCILIATION_REQUIRED" ->
           {"ACKNOWLEDGED", "PARTIALLY_FILLED", "FILLED", "CANCELLED",
            "PROVIDER_REJECTED", "ERROR"}
      [] OTHER -> {}

(* validate_order_transition does not raise. *)
CanMove(s, t) == t \in NextStates(s)

(* The states the table gives no way out of. *)
Terminal ==
    {"FILLED", "CANCELLED", "REJECTED", "PROVIDER_REJECTED", "EXPIRED",
     "RISK_REJECTED", "ERROR"}
=============================================================================
