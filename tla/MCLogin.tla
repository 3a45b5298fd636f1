-------------------------------- MODULE MCLogin --------------------------------
(***************************************************************************)
(* Small instances of CustomerLogin.  The timeouts keep the order of the   *)
(* defaults: a request (8 s) below the resend cooldown (1 min) below a     *)
(* code's life (5 min) and the rate-limit window (1 h).                    *)
(***************************************************************************)
EXTENDS CustomerLogin, TLC

Symmetry == Permutations(Request) \cup Permutations(Verify) \cup Permutations(Phone)
===============================================================================
