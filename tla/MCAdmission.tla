----------------------------- MODULE MCAdmission -----------------------------
(* Admission for TLC: rows that tie, dominate and overflow.                *)
EXTENDS Admission, TLC

NodeRow(s, active, max, latency, bandwidth) ==
    [state |-> s, max_connections |-> max, active_connections |-> active,
     latency_ms |-> latency, bandwidth_limit |-> bandwidth]

(* A share that does not divide the limit, a smaller limit, a slow node    *)
(* whose counter can overflow, a limit below the slots, a full node and a  *)
(* draining one.                                                           *)
SomeRows ==
    {NodeRow("healthy", 0, 2, 1, 5), NodeRow("healthy", 1, 2, 1, 2),
     NodeRow("healthy", 0, 2, 3, 7), NodeRow("degraded", 0, 2, 0, 1),
     NodeRow("healthy", 3, 2, 0, 5), NodeRow("draining", 0, 2, 0, 5)}

ConnSymmetry == Permutations(Conns)
=============================================================================
