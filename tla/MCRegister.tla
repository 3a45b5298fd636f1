------------------------------ MODULE MCRegister -------------------------------
\* Small instances of Register: two sales and a refund of the first.
EXTENDS Register, TLC

CONSTANTS sale1, sale2, back1

RefundOf == (back1 :> sale1)
Symmetry == Permutations(Command)
===============================================================================
