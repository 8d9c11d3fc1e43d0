---------------------------- MODULE NodeLifecycle ----------------------------
(***************************************************************************)
(* What the control plane promises about the life of a node, one step per  *)
(* change: the state machine of model.rs as the handlers implement it when *)
(* none of them overlaps another.  A draining node stays draining, and an  *)
(* offline node comes back through registration (or is drained).           *)
(***************************************************************************)
EXTENDS Health

CONSTANT Nodes

VARIABLE state

Init == state = [n \in Nodes |-> "absent"]

Moves(n, from, to) == /\ state[n] \in from
                      /\ \E s \in to : state' = [state EXCEPT ![n] = s]

Join(n) == Moves(n, {"absent", "starting", "offline"}, {"starting"})
Beat(n) == Moves(n, {"starting", "healthy", "degraded"}, {"healthy", "degraded"})
Drain(n) == Moves(n, NodeState, {"draining"})
Expire(n) == Moves(n, {"starting", "healthy", "degraded"}, {"offline"})

Next == \E n \in Nodes : Join(n) \/ Beat(n) \/ Drain(n) \/ Expire(n)

Spec == Init /\ [][Next]_state
=============================================================================
