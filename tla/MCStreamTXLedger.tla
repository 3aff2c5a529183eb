--------------------------- MODULE MCStreamTXLedger ---------------------------
(* The ledger alone, for TLC.  Leg identities are interchangeable. *)
EXTENDS StreamTXLedgerSpec, TLC

LegSymmetry == Permutations(Legs)
===============================================================================
