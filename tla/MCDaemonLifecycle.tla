-------------------------- MODULE MCDaemonLifecycle --------------------------
(* Two clients of an upgraded binary, an operator, and an older daemon. *)
EXTENDS DaemonLifecycle, TLC

CONSTANTS c1, c2
Upgraded == [c \in Clients |-> "new"]
Symmetry == Permutations(Clients)
=============================================================================
