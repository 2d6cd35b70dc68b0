-------------------------- MODULE MCSandboxOutbox --------------------------
(* Model values for the runs of SandboxOutbox. *)
EXTENDS SandboxOutbox, TLC

CONSTANTS o1, o2, w1, w2

OneOrder == {o1}
TwoOrders == {o1, o2}
OneWorker == {w1}
TwoWorkers == {w1, w2}
NoGates == {}
=============================================================================
