--------------------------- MODULE MCChunkRuntime ---------------------------
(* The layout is the one build_layout gives for a small model: embeddings    *)
(* and head outside the blocks, five blocks, and a parameter larger than a   *)
(* chunk.  Chunks 0 and 6 are persistent, block 1 shares one with the        *)
(* embeddings, chunk 2 belongs to blocks 2 and 3, chunk 3 is frozen and      *)
(* chunk 5 oversize.  Three slots are the floor; four chunks compete for     *)
(* them, so that both directions of the walk evict, and some chunk is always *)
(* found again.                                                              *)
EXTENDS RuntimeOnLayout, TLC

MCModel ==
    [size |-> <<1, 2, 3, 2, 1, 4, 4, 6, 1>>,
     order |-> <<1, 2, 3, 4, 5, 6, 7, 8, 9>>,
     spans |-> <<<<2>>, <<3, 4>>, <<5>>, <<6>>, <<7, 8>>>>]
MCFrozen == {6}

MCChunk == 0..6
MCChunksOf == <<<<0>>, <<1, 2>>, <<2>>, <<3>>, <<4, 5>>>>
MCPersistent == {0, 6}
MCLarge == {5}
MCTrainable == {0, 1, 2, 4, 5, 6}
MCOffload == {1, 3, 5}
BothModes == {TRUE, FALSE}

(* The models the layout is checked on: five parameters, each empty, half a  *)
(* chunk or more than one, blocks, and an execution order that follows the    *)
(* names, visits a shared parameter early, runs backwards, or leaves some    *)
(* parameters out.                                                           *)
Orders == {<<1, 2, 3, 4, 5>>, <<1, 4, 2, 3, 4, 5>>, <<5, 3, 1>>, <<2, 4>>}
Spans == {<<<<1>>, <<2>>, <<4, 5>>>>, <<<<1, 2, 4>>, <<3, 5>>>>, <<<<3>>, <<>>>>, <<<<5, 4, 3, 2, 1>>>>}
MCModels ==
    {[size |-> s, order |-> o, spans |-> b] :
        s \in [1..5 -> {0, 2, 5}], o \in Orders, b \in Spans}
MCCandidates == <<4, 3, 6>>
MCBlockCounts == 0..9
=============================================================================
