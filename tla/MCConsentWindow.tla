--------------------------- MODULE MCConsentWindow ---------------------------
(***************************************************************************)
(* A small instance of ConsentWindow: one command that may ask again and   *)
(* again, and two windows, so that one replaces the other.                 *)
(***************************************************************************)
EXTENDS ConsentWindow

CONSTANTS c1, k1

Shared == [c \in Clients |-> k1]
=============================================================================
