------------------------ MODULE MCSecretResolution ------------------------
(***************************************************************************)
(* A small instance of SecretResolution that mixes the three resolvers and *)
(* names keys in one common order.                                         *)
(***************************************************************************)
EXTENDS SecretResolution

CONSTANTS a, b

\* An ask, a window's union that repeats a pair, and an ssh sign; b expires.
MixedThreads == 1..3
MixedKind == <<"ask", "union", "single">>
MixedRequest == <<<<a, b>>, <<a, b, a>>, <<b>>>>
=============================================================================
