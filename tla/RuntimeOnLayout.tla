--------------------------- MODULE RuntimeOnLayout ---------------------------
(***************************************************************************)
(* The chunk runtime on the chunks that build_layout gives it: Model is    *)
(* the model that is trained, SChunk the size the search chose and Frozen  *)
(* its parameters without gradients.  What is stated of one layout is      *)
(* stated of those of all Models.                                          *)
(***************************************************************************)
EXTENDS ChunkRuntime, Layout

CONSTANTS
    Model, SChunk, Frozen,
    Models,        \* models to lay out
    Candidates,    \* S_chunk candidates of the search
    BlockCounts    \* numbers of blocks to assign modes to

ASSUME LayoutAssumption ==
    /\ \A m \in Models \cup {Model} : IsModel(m)
    /\ SChunk \in Nat
    /\ Candidates \in Seq(Nat) /\ Candidates # <<>>
    /\ BlockCounts \subseteq Nat

\* The runtime's chunks and blocks are those of the layout of Model.
RunsOnLayout ==
    LET layout == LayoutChunks(Model, SChunk)
        nOffload == Cardinality(OffloadBlocks)
        modes == AssignModes(0, NBlocks - nOffload, nOffload, NBlocks)
    IN /\ Chunk = 0..(Len(layout) - 1)
       /\ NBlocks = Len(Model.spans)
       /\ ChunksOf = [b \in Block |-> BlockToChunks(Model, SChunk, b)]
       /\ Persistent = MandatoryPersistent(Model, SChunk)
       /\ Large = {c \in Chunk : ~Fits(Model, SChunk, layout[c + 1])}
       /\ Trainable = ChunksWith(layout, Params(Model) \ Frozen)
       /\ OffloadBlocks = {b \in Block : modes[b - 1] = "OFFLOAD"}

\* Every request that assign_modes accepts is met to the number, which it
\* asserts itself ("unique indices guaranteed by input validation"), with the
\* checkpointed blocks evenly spread.
ModesMeetRequest ==
    \A N \in BlockCounts : \A swap \in 0..N : \A ckpt \in 0..(N - swap) :
        \A offload \in 0..(N - swap - ckpt) : ModesAsAsked(swap, ckpt, offload, N)

\* build_layout keeps blocks together: "Assign params to chunks in exec order;
\* block params contiguous, shared params at first occurrence."  So a layout
\* suits the runtime, which assumes that blocks that share a chunk are
\* neighbours, and the one it is run on is such a layout.
LayoutKeepsBlocks ==
    Init => /\ RunsOnLayout
            /\ ModesMeetRequest
            /\ \A m \in Models \cup {Model} : KeepsBlocks(m, SChunk) /\ SuitsRuntime(m, SChunk)

\* The S_chunk of the search is the smallest that wastes least in the layout
\* built with it ("minimising fragmentation under build_layout's exact packing
\* rules"), though the search packs byte counts and not parameters.
LeastWaste == Init => \A m \in Models : WastesLeast(m, Candidates)
=============================================================================
