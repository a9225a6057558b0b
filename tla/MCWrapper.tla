------------------------------- MODULE MCWrapper -------------------------------
(* An instance of Wrapper for TLC: two variables of the application and the    *)
(* temporary of create, and as many structures and callbacks as it takes to    *)
(* move and to replace them.                                                *)
EXTENDS Wrapper, TLC

Symmetry == Permutations(Wrappers) \cup Permutations(Blocks)
===============================================================================
