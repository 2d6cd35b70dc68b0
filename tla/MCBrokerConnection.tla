------------------------- MODULE MCBrokerConnection -------------------------
(* Instances of BrokerConnection for TLC. *)
EXTENDS BrokerConnection, TLC

CONSTANTS o1, o2, t1, t2, a1, a2, c1, c2, r1, r2

Symmetric ==
    Permutations(Owners) \cup Permutations(Tokens)
      \cup Permutations(Callbacks) \cup Permutations(Refreshes)
=============================================================================
