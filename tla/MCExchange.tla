----------------------------- MODULE MCExchange -----------------------------
(* Instances of Exchange for TLC. *)
EXTENDS Exchange, TLC

\* The calls are interchangeable.
CallSymmetry == Permutations(Calls)
=============================================================================
