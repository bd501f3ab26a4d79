----------------------------- MODULE MCEmailQueue -----------------------------
(* A small instance of EmailQueue for TLC.  No symmetry: a run checks liveness. *)
EXTENDS EmailQueue

CONSTANTS a1, w1, w2
===============================================================================
