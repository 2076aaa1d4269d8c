------------------------------ MODULE MCIngest ------------------------------
(***************************************************************************)
(* A small instance of Ingest for TLC.                                     *)
(***************************************************************************)
EXTENDS Ingest, TLC

(* Jobs and pool threads are interchangeable where no liveness is checked. *)
Symmetry == Permutations(Jobs) \cup Permutations(Workers)

=============================================================================
