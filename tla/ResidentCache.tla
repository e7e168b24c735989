---------------------------- MODULE ResidentCache ----------------------------
(***************************************************************************)
(* What the buffer pool promises its callers, without slots, free lists or *)
(* tags: at most NBuffer small chunks are cached, a leased chunk is always *)
(* cached, a hit never costs another chunk its place, and a miss drops at  *)
(* most one chunk: of those nobody leases, the least recently released.    *)
(***************************************************************************)
EXTENDS Integers, FiniteSets

CONSTANTS Chunk, Small, NBuffer

VARIABLES
    cached,     \* the small chunks that can be hit
    lease,      \* the leases on each chunk
    older,      \* <<a, b>>: both are unleased, and a has been for longer
    open

vars == <<cached, lease, older, open>>

Init == cached = {} /\ lease = [c \in Chunk |-> 0] /\ older = {} /\ open = TRUE

AddLease(c) == lease' = [lease EXCEPT ![c] = @ + 1]

Idle == {c \in cached : lease[c] = 0}
Oldest(c) == \A a \in cached : <<a, c>> \notin older
Without(gone) == {p \in older : p[1] \notin gone /\ p[2] \notin gone}

Hit(c) ==
    /\ open
    /\ c \in cached \/ c \notin Small
    /\ AddLease(c)
    /\ older' = Without({c})
    /\ UNCHANGED <<cached, open>>

\* An untagged slot may be taken, or the place of the oldest unleased chunk.
Miss(c) ==
    /\ open
    /\ c \in Small \ cached
    /\ \E gone \in SUBSET {v \in Idle : Oldest(v)} :
          /\ Cardinality(gone) <= 1
          /\ cached' = (cached \ gone) \cup {c}
          /\ older' = Without(gone)
    /\ Cardinality(cached') <= NBuffer
    /\ AddLease(c)
    /\ UNCHANGED open

\* With its last lease a chunk becomes the youngest of the unleased ones.
Drop(c) ==
    /\ lease[c] > 0
    /\ lease' = [lease EXCEPT ![c] = @ - 1]
    /\ older' = IF c \in Small /\ lease[c] = 1 THEN older \cup (Idle \X {c}) ELSE older
    /\ UNCHANGED <<cached, open>>

Forget(c) ==
    /\ lease[c] = 0
    /\ cached' = cached \ {c}
    /\ older' = Without({c})
    /\ UNCHANGED <<lease, open>>

Shut ==
    /\ \A c \in Chunk : lease[c] = 0
    /\ open' = FALSE
    /\ cached' = {} /\ older' = {}
    /\ UNCHANGED lease

Next == (\E c \in Chunk : Hit(c) \/ Miss(c) \/ Drop(c) \/ Forget(c)) \/ Shut

Spec == Init /\ [][Next]_vars
=============================================================================
