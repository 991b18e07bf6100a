---------------------------- MODULE MCScopedAgent ----------------------------
(* One scope of two references, and a third that is outside it. *)
EXTENDS ScopedAgent, TLC

CONSTANTS a1, x, y, z
MCAllow == a1 :> {x, y}
=============================================================================
