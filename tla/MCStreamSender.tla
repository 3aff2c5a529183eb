---------------------------- MODULE MCStreamSender ----------------------------
(* StreamSender for TLC: the configurations give every bound.  No operator    *)
(* tells one leg identity from another, so they may be permuted.              *)
EXTENDS StreamSender, TLC

LegSymmetry == Permutations(Legs)
===============================================================================
