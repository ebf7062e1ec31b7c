--------------------------- MODULE MCStreamProxy ---------------------------
(* Chunks of one and two bytes, and a byte more than one buffer holds.     *)
EXTENDS StreamProxy
=============================================================================
