------------------------------ MODULE MCSession ------------------------------
(* Session with a few processes, which are interchangeable.               *)
EXTENDS Session, TLC

Symmetry == Permutations(Procs)
=============================================================================
