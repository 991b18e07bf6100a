------------------------------- MODULE MCLink -------------------------------
(* Two phones that want the same nickname, one at a time. *)
EXTENDS Link, TLC

CONSTANTS p1, p2
SameNick == (p1 :> "phone") @@ (p2 :> "phone")

\* The phones differ in nothing but their key, the threads in nothing at all.
Symmetry == Permutations(Phones) \cup Permutations(Threads)
=============================================================================
