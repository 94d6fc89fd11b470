------------------------------- MODULE MCAuth -------------------------------
(***************************************************************************)
(* Small instances of Auth for TLC.                                        *)
(***************************************************************************)
EXTENDS Auth, TLC

Interchangeable ==
  Permutations(Accounts) \cup Permutations(Tokens) \cup Permutations(Handlers)
=============================================================================
