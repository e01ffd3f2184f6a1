------------------------------- MODULE MCConsoles -------------------------------
(* TLC instances of Consoles: the policies and the classes of data of the *)
(* recovery page are interchangeable.                                      *)
EXTENDS Consoles, TLC

Interchangeable == Permutations(Policies) \cup Permutations(DataClasses)
=============================================================================
