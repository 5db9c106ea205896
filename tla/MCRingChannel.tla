--------------------------- MODULE MCRingChannel ---------------------------
(* RingChannel for TLC: two texts that fit an 8-byte ring (3 and 5 bytes   *)
(* with their prefix, so frames wrap at every offset and can fill the ring *)
(* exactly) and one that never fits; u32 counters cut down to 16 values.   *)
EXTENDS RingChannel, TLC

CONSTANTS short, long, oversize

MCSize == short :> 1 @@ long :> 3 @@ oversize :> 7
=============================================================================
