-------------------------- MODULE MCStreamLifecycle --------------------------
(* StreamLifecycle for TLC: two failures where the session starts with one    *)
(* leg, one where startup itself has several carriers in flight.              *)
EXTENDS StreamLifecycle

EveryPolicy == [first_ready |-> 2, preferred |-> 1, host_bridge |-> 0]
FirstReady == [first_ready |-> 2]
=============================================================================
