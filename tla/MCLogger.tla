------------------------------ MODULE MCLogger ------------------------------
(* Two threads that log errors and debug lines of one category.            *)
EXTENDS Logger, TLC
Symmetry == Permutations(Threads)
=============================================================================
