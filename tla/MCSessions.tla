------------------------------ MODULE MCSessions -------------------------------
(***************************************************************************)
(* Small instances of CustomerSessions: enough tokens for a login to be    *)
(* rotated twice beside another login, enough calls for two rotations to   *)
(* race a revocation.                                                      *)
(***************************************************************************)
EXTENDS CustomerSessions, TLC

Symmetry == Permutations(Call)
===============================================================================
