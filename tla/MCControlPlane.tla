--------------------------- MODULE MCControlPlane ---------------------------
(* The control plane for TLC: one or two nodes, two handlers in flight.    *)
EXTENDS ControlPlane, TLC

(* Handlers differ in nothing but their name.                              *)
TaskSymmetry == Permutations(Tasks)
=============================================================================
