-------------------------------- MODULE Layout --------------------------------
(***************************************************************************)
(* Which chunk each parameter goes to: build_layout (chunk/layout.py), the *)
(* byte-only packer it shares its rules with, the choice of S_chunk by     *)
(* simulated waste (chunk/sizing.py), and the mode of each block           *)
(* (block/layout_rules.py).                                                *)
(*                                                                         *)
(* A model m is what they are given: size, the bytes of its parameters in  *)
(* named_parameters order; order, the parameters as they were executed;    *)
(* spans, the parameters of each block.  Spans are disjoint and list a     *)
(* parameter once, and order names parameters of the model (anything else  *)
(* raises).  Chunks are numbered from 0.                                   *)
(***************************************************************************)
EXTENDS Integers, Sequences, SequencesExt, FiniteSetsExt, Selections

Params(m) == 1..Len(m.size)
NoBlock == 0

IsModel(m) ==
    /\ m.size \in Seq(Nat)
    /\ m.order \in Seq(Params(m))
    /\ m.spans \in Seq(Seq(Params(m)))

\* _validate_block_spans: no parameter is in two blocks.
SpansApart(m) ==
    \A a, b \in DOMAIN m.spans : a # b => ToSet(m.spans[a]) \cap ToSet(m.spans[b]) = {}

\* pid_owner.
Owner(m, p) ==
    Max({NoBlock} \cup {b \in DOMAIN m.spans : p \in ToSet(m.spans[b])})

Bytes(m, ps) == FoldLeft(LAMBDA n, p : n + m.size[p], 0, ps)

-----------------------------------------------------------------------------
(* The walk both functions make: parameters are visited in execution       *)
(* order, those never executed at the end; the first of a block brings the *)
(* whole block.                                                            *)

Visits(m) == m.order \o [p \in Params(m) |-> p]

Placed(steps) == UNION {ToSet(steps[i].params) : i \in DOMAIN steps}

\* The block's members still to come in execution order, then the others.
Members(m, b, i, placed) ==
    FoldLeft(LAMBDA ps, q : IF q \in ToSet(m.spans[b]) \ (placed \cup ToSet(ps))
                            THEN Append(ps, q) ELSE ps,
             <<>>, SubSeq(m.order, i, Len(m.order)) \o m.spans[b])

Visit(m, steps, i) ==
    LET p == Visits(m)[i]
        b == Owner(m, p)
    IN IF p \in Placed(steps) THEN steps
       ELSE Append(steps, [block |-> b,
                           params |-> IF b = NoBlock THEN <<p>>
                                      ELSE Members(m, b, i, Placed(steps))])

Steps(m) ==
    FoldLeft(LAMBDA steps, i : Visit(m, steps, i), <<>>, [i \in DOMAIN Visits(m) |-> i])

-----------------------------------------------------------------------------
(* build_layout.                                                           *)

\* _place: a parameter opens a chunk when the last one has no room for it.
Place(m, S, chunks, p) ==
    IF Bytes(m, Last(chunks)) > 0 /\ Bytes(m, Last(chunks)) + m.size[p] > S
    THEN Append(chunks, <<p>>)
    ELSE [chunks EXCEPT ![Len(chunks)] = Append(@, p)]

\* A block opens a chunk when not all of it fits the last one; as its mutant,
\* it goes where there is room.
NeverSealed(m, S, chunks, ps) == chunks
SealedBefore(m, S, chunks, ps) ==
    IF Bytes(m, Last(chunks)) > 0 /\ Bytes(m, ps) > S - Bytes(m, Last(chunks))
    THEN Append(chunks, <<>>) ELSE chunks

PlaceStep(m, S, chunks, step) ==
    FoldLeft(LAMBDA cs, p : Place(m, S, cs, p),
             IF step.block = NoBlock THEN chunks ELSE SealedBefore(m, S, chunks, step.params),
             step.params)

LayoutChunks(m, S) ==
    FoldLeft(LAMBDA cs, step : PlaceStep(m, S, cs, step), <<<<>>>>, Steps(m))

\* The ids of the chunks that hold one of ps.
ChunksWith(chunks, ps) == {i - 1 : i \in {j \in DOMAIN chunks : ToSet(chunks[j]) \cap ps # {}}}

\* block_to_chunks and mandatory_persistent.
BlockToChunks(m, S, b) == Sorted(ChunksWith(LayoutChunks(m, S), ToSet(m.spans[b])))
MandatoryPersistent(m, S) ==
    ChunksWith(LayoutChunks(m, S), {p \in Params(m) : Owner(m, p) = NoBlock})

-----------------------------------------------------------------------------
(* _pack_chunks_with_block_rules, _simulate_waste and pick_S_chunk.        *)

PackPlace(S, used, n) ==
    IF Last(used) > 0 /\ Last(used) + n > S
    THEN Append(used, n) ELSE [used EXCEPT ![Len(used)] = @ + n]

\* A step is its block and the sizes of its parameters.
PackStep(S, used, step) ==
    LET total == FoldLeft(+, 0, step.sizes)
        opened == IF step.block # NoBlock /\ Last(used) > 0 /\ total > S - Last(used)
                  THEN Append(used, 0) ELSE used
    IN FoldLeft(LAMBDA u, n : PackPlace(S, u, n), opened, step.sizes)

\* Trailing empty chunks are cut off, not the first.
Trimmed(used) == SubSeq(used, 1, Max({1} \cup {i \in DOMAIN used : used[i] > 0}))

Sized(m, step) ==
    [block |-> step.block, sizes |-> [j \in DOMAIN step.params |-> m.size[step.params[j]]]]

PackChunks(m, S) ==
    Trimmed(FoldLeft(LAMBDA u, step : PackStep(S, u, Sized(m, step)), <<0>>, Steps(m)))

\* The room left in a chunk, none in an oversize one; the mutant forgets that.
SlackBelow(S, n) == S - n
Slack(S, n) == IF n < S THEN S - n ELSE 0

SimulateWaste(m, S) == FoldLeft(LAMBDA w, n : w + Slack(S, n), 0, Front(PackChunks(m, S)))

\* The first candidate, unless a later one wastes less, or as little and is smaller.
PickS(m, candidates) ==
    LET waste == [S \in ToSet(candidates) |-> SimulateWaste(m, S)]
    IN FoldLeft(LAMBDA best, S :
                   IF waste[S] < waste[best] \/ (waste[S] = waste[best] /\ S < best)
                   THEN S ELSE best,
                Head(candidates), Tail(candidates))

-----------------------------------------------------------------------------
(* assign_modes (block/layout_rules.py): what is done with the activations *)
(* of each block.  Blocks are numbered from 0 here, as in the code.        *)

\* CKPT blocks are spread over what SWAP leaves, half a step from its ends.
CheckpointPositions(nSwap, nCheckpoint, N) ==
    {nSwap + ((2 * k + 1) * (N - nSwap)) \div (2 * nCheckpoint) : k \in 0..(nCheckpoint - 1)}

\* SWAP comes first, OFFLOAD takes the first blocks that are left.
AssignModes(nSwap, nCheckpoint, nOffload, N) ==
    LET swap == 0..(nSwap - 1)
        ckpt == CheckpointPositions(nSwap, nCheckpoint, N)
        rest == (0..(N - 1)) \ (swap \cup ckpt)
    IN [i \in (0..(N - 1)) \cup ckpt |->
          IF i \in ckpt THEN "CKPT"
          ELSE IF i \in swap THEN "SWAP"
          ELSE IF Cardinality({j \in rest : j < i}) < nOffload THEN "OFFLOAD"
          ELSE "NONE"]

-----------------------------------------------------------------------------
(* What they promise.                                                      *)

Fits(m, S, ps) == Bytes(m, ps) <= S

\* Every parameter is in one chunk; a chunk larger than S_chunk has one
\* parameter that takes room; a block that fits a chunk is in one, any
\* other in consecutive ones; and a chunk shared by two blocks is the only
\* chunk of each block placed between them.
KeepsBlocks(m, S) ==
    LET chunks == LayoutChunks(m, S)
        steps == Steps(m)
        of == [i \in DOMAIN steps |-> ChunksWith(chunks, ToSet(steps[i].params))]
        blocks == {i \in DOMAIN steps : steps[i].block # NoBlock}
    IN /\ \A p \in Params(m) : Cardinality({c \in DOMAIN chunks : p \in ToSet(chunks[c])}) = 1
       /\ FoldLeft(LAMBDA n, c : n + Len(c), 0, chunks) = Len(m.size)
       /\ \A c \in DOMAIN chunks :
             ~Fits(m, S, chunks[c]) =>
                 Cardinality({p \in ToSet(chunks[c]) : m.size[p] > 0}) = 1
       /\ \A i \in blocks :
             /\ Fits(m, S, steps[i].params) => Cardinality(of[i]) = 1
             /\ of[i] = Min(of[i])..Max(of[i])
       /\ \A i, j, k \in blocks : i < j /\ j < k /\ of[i] \cap of[k] # {} => of[j] = of[i] \cap of[k]

\* Blocks are numbered as they are executed: none before an earlier one.
InOrder(m) ==
    \A i \in DOMAIN Visits(m) : \A b \in DOMAIN m.spans :
       b < Owner(m, Visits(m)[i]) =>
           \E j \in DOMAIN Visits(m) : j < i /\ Visits(m)[j] \in ToSet(m.spans[b])

\* Two blocks that share a chunk share it with the blocks between them, and a
\* chunk of no block is pinned: what a walk over the blocks relies on.
SuitsRuntime(m, S) ==
    SpansApart(m) /\ InOrder(m) =>
        LET held == [b \in DOMAIN m.spans |-> ToSet(BlockToChunks(m, S, b))]
        IN /\ \A a, b, d \in DOMAIN m.spans :
                 a < b /\ b < d => held[a] \cap held[d] \subseteq held[b]
           /\ \A c \in ChunksWith(LayoutChunks(m, S), Params(m)) \ MandatoryPersistent(m, S) :
                 \E b \in DOMAIN m.spans : c \in held[b]

\* The waste of the real layout: the slack of every chunk but the last.
LayoutWaste(m, S) ==
    FoldLeft(LAMBDA w, c : w + Max({0, S - Bytes(m, c)}), 0, Front(LayoutChunks(m, S)))

\* S_chunk wastes least in the layout that build_layout then makes, and is
\* the smallest that does.
WastesLeast(m, candidates) ==
    LET S == PickS(m, candidates)
        waste == [T \in ToSet(candidates) |-> LayoutWaste(m, T)]
    IN \A T \in ToSet(candidates) :
          /\ waste[S] <= waste[T]
          /\ waste[S] = waste[T] => S <= T

\* Each mode has as many blocks as were asked for, the others are NONE, and
\* from one CKPT block to the next it is as far as from any other to its
\* next, give or take one.
ModesAsAsked(nSwap, nCheckpoint, nOffload, N) ==
    LET modes == AssignModes(nSwap, nCheckpoint, nOffload, N)
        of(mode) == {i \in DOMAIN modes : modes[i] = mode}
        gaps == {Min({j \in of("CKPT") : j > i}) - i : i \in of("CKPT") \ {Max(of("CKPT"))}}
    IN /\ DOMAIN modes = 0..(N - 1)
       /\ Cardinality(of("SWAP")) = nSwap
       /\ Cardinality(of("CKPT")) = nCheckpoint
       /\ Cardinality(of("OFFLOAD")) = nOffload
       /\ nCheckpoint > 0 => \A g, h \in gaps : g - h <= 1
=============================================================================
