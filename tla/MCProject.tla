------------------------------ MODULE MCProject ------------------------------
(* Instances of Project for TLC.                                           *)
EXTENDS Project

CONSTANTS m1, m2, m3, m4

Symmetry == Permutations(Model)
=============================================================================
