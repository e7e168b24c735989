------------------------------ MODULE MCSwapPool ------------------------------
(* Seven bytes in pairs for three tensors that need four, two and two: not    *)
(* everything fits, the free list fragments, and its last byte is never used.*)
EXTENDS SwapPool, TLC

CONSTANTS t1, t2, t3

MCTensor == {t1, t2, t3}
MCSize == (t1 :> 3) @@ (t2 :> 1) @@ (t3 :> 2)
=============================================================================
