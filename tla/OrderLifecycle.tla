-------------------------- MODULE OrderLifecycle ---------------------------
(***************************************************************************)
(* What the order state machine promises of a set of orders, whatever      *)
(* component drives them: each starts at CREATED and every change of its   *)
(* status is a move of VALID_ORDER_TRANSITIONS.  A step may move several    *)
(* orders (one database transaction).                                      *)
(***************************************************************************)
EXTENDS OrderStates

CONSTANT Orders

VARIABLE order      \* order[o] is the status of order o

Init == order = [o \in Orders |-> "CREATED"]

(* One transaction moves the orders of M, each along the table. *)
Move(M) ==
    /\ order' \in [Orders -> OrderStatus]
    /\ \A o \in M : CanMove(order[o], order'[o])
    /\ \A o \in Orders \ M : order'[o] = order[o]

Next == \E M \in SUBSET Orders : Move(M)

Spec == Init /\ [][Next]_order
=============================================================================
