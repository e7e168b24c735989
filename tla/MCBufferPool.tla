---------------------------- MODULE MCBufferPool ----------------------------
(* A small pool: three slots, four slot-sized chunks and an oversize one, so *)
(* that hits, evictions, exhaustion and converging leases all happen.       *)
EXTENDS BufferPool, TLC

CONSTANTS c1, c2, c3, c4, big, k1, k2

MCChunk == {c1, c2, c3, c4, big}
MCLarge == {big}
MCClient == {k1, k2}
=============================================================================
