--------------------------- MODULE MCStreamReceiver ---------------------------
(* StreamReceiver on two legs: three frames while one identity is in use,     *)
(* with the replacement of its carrier, and one frame over two identities.    *)
EXTENDS StreamReceiver

Arrivals == <<3, 1>>
===============================================================================
