---------------------------- MODULE MCChatTurns ----------------------------
(***************************************************************************)
(* ChatTurns on a small instance: its requests and sessions are alike.     *)
(***************************************************************************)
EXTENDS ChatTurns, TLC

Symmetry == Permutations(Requests) \cup Permutations(Sessions)
=============================================================================
