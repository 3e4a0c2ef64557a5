-------------------------------- MODULE MCLab --------------------------------
(* Instances of Lab for TLC.                                               *)
EXTENDS Lab

CONSTANTS w1, w2
=============================================================================
