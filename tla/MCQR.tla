---------------------------------- MODULE MCQR ---------------------------------
(***************************************************************************)
(* Small instances of QRTokens.  The timeouts keep the order of the code:  *)
(* consume cooldown (1 s) and request (8 s) below a claim's TTL and the    *)
(* issue cooldown (30 s) below the token's TTL (2 min).                    *)
(***************************************************************************)
EXTENDS QRTokens, TLC

Symmetry == Permutations(Till) \cup Permutations(Customer)
===============================================================================
