---------------------------- MODULE MCStreamSession ----------------------------
(* Instances of StreamSession for TLC.  Nothing tells two legs, or two chunk  *)
(* values, apart where both legs may fail: that run uses the symmetry.        *)
EXTENDS StreamSession, TLC

CONSTANTS l0, l1

LegAndValueSymmetry == Permutations(Legs) \cup Permutations(Values)

BothFail == [failing |-> {l0, l1}, stalling |-> {}]
OneHangsOrFails == [failing |-> {l1}, stalling |-> {l1}]
OneHangsOneFails == [failing |-> {l0}, stalling |-> {l1}]

FailEnvironment == {BothFail}
LiveEnvironments == {BothFail, OneHangsOrFails}
PinnedEnvironment == {OneHangsOneFails}
================================================================================
