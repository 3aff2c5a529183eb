--------------------------- MODULE MCServerSessions ---------------------------
(* ServerSessions for TLC.  IDs and legs are interchangeable, so the first    *)
(* carrier may be taken to name the first of each; the others say anything.   *)
EXTENDS ServerSessions, TLC

CONSTANTS c1, x

AnyHello == IDs \X Legs \X BOOLEAN
FirstNamed == [c \in Carriers |-> IF c = c1 THEN {x} \X {0} \X BOOLEAN ELSE AnyHello]

(* One leg is enough to contend for, and carriers that may all say the same   *)
(* are interchangeable.                                                       *)
SameLeg == [c \in Carriers |-> IDs \X {0} \X BOOLEAN]
CarrierSymmetry == Permutations(Carriers)
===============================================================================
