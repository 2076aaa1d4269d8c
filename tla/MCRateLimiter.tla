---------------------------- MODULE MCRateLimiter ----------------------------
(***************************************************************************)
(* A small instance of RateLimiter: more clients than buckets, a daily cap *)
(* reached within a minute or across two, and a clock that runs for two    *)
(* days of two minutes.                                                    *)
(***************************************************************************)
EXTENDS RateLimiter, TLC

(* Client ids and callers are only compared. *)
Symmetry == Permutations(Clients) \cup Permutations(Callers)

=============================================================================
