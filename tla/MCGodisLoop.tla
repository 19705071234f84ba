------------------------------ MODULE MCGodisLoop ------------------------------
(* Model checking of GodisLoop: connections and descriptors are interchangeable. *)
EXTENDS GodisLoop, TLC

Symmetry == Permutations(Conn) \cup Permutations(FD)
================================================================================
