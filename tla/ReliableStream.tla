---------------------------- MODULE ReliableStream ----------------------------
(* What one direction of an SMP3 stream promises to the two applications: the *)
(* reader gets what the writer wrote, in order, each chunk once, and          *)
(* eventually, unless the stream fails at the reader's end.  Carriers,        *)
(* frames, acknowledgements and retransmission do not appear here.            *)
EXTENDS Naturals, Sequences

CONSTANT Values      \* the chunks an application may write

VARIABLES
    written,     \* chunks accepted from the writing application
    read,        \* chunks handed to the reading application
    txDone,      \* the writer's engine has failed
    rxDone       \* the reader's engine has failed

vars == <<written, read, txDone, rxDone>>

Init == written = <<>> /\ read = <<>> /\ txDone = FALSE /\ rxDone = FALSE

Write(v) ==
    /\ ~txDone
    /\ written' = Append(written, v)
    /\ UNCHANGED <<read, txDone, rxDone>>

Read ==
    /\ ~rxDone /\ Len(read) < Len(written)
    /\ read' = Append(read, written[Len(read) + 1])
    /\ UNCHANGED <<written, txDone, rxDone>>

FailWriter == ~txDone /\ txDone' = TRUE /\ UNCHANGED <<written, read, rxDone>>
FailReader == ~rxDone /\ rxDone' = TRUE /\ UNCHANGED <<written, read, txDone>>

Next == (\E v \in Values : Write(v)) \/ Read \/ FailWriter \/ FailReader

SafeSpec == Init /\ [][Next]_vars
Spec == SafeSpec /\ WF_vars(Read)
===============================================================================
