-------------------------- MODULE MC_AccountSessions --------------------------
(***************************************************************************)
(* Small instances of AccountSessions for TLC.                             *)
(***************************************************************************)
EXTENDS AccountSessions, TLC

Symmetry ==
    Permutations(Tokens) \cup Permutations(Requests) \cup Permutations(Passwords)
=============================================================================
