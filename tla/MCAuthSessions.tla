--------------------------- MODULE MCAuthSessions ---------------------------
(***************************************************************************)
(* AuthSessions on a small instance: requests and devices are alike.       *)
(***************************************************************************)
EXTENDS AuthSessions, TLC

Symmetry == Permutations(Requests) \cup Permutations(Devices)
=============================================================================
