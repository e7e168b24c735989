---------------------------- MODULE MCDataReplay ----------------------------
(***************************************************************************)
(* Instance of DataReplay whose epochs are as long as the plans            *)
(* LabelBalance packs, and LabelBalance's promises on its own inputs,      *)
(* which are looked at in one step, the first.                             *)
(***************************************************************************)
EXTENDS DataReplay

LB == INSTANCE LabelBalance

\* Eight samples in four orders: 6, 5, 4 and 5 batches.
Rows == [len |-> <<3, 3, 3, 3, 1, 1, 1, 1>>, strategy |-> "ffd", group |-> 2,
         capacity |-> 4, bin |-> 2, batch |-> 1]
Orders == <<<<1, 2, 3, 4, 5, 6, 7, 8>>, <<1, 2, 3, 5, 4, 6, 7, 8>>,
            <<1, 5, 2, 6, 3, 7, 4, 8>>, <<1, 5, 2, 3, 4, 6, 7, 8>>>>
MCSetup ==
    {[settings |-> <<gas>>, gas |-> gas,
      length |-> [e \in 0..3 |-> Len(LB!Packed(Rows, Orders[e + 1]))]] : gas \in {2, 5}}

\* Nine samples, of a length from 1 to 4 with no more labels, on each seed;
\* the sampler's parameters vary with it too.
Noise(seed, i) == ((seed * 7919 + i * 104729) % 30011) * (seed + 13 * i) % 10007
Input(seed) ==
    LET n(i, k) == (Noise(seed, i) \div k)
        len == [i \in 1..9 |-> 1 + (n(i, 1) % 4)]
        count == [i \in 1..9 |-> n(i, 4) % (len[i] + 1)]
        any(i, f) == f[1 + (n(i, 1) % Len(f))]
    IN [len |-> len, count |-> count,
        start |-> [i \in 1..9 |-> IF count[i] = 0 THEN 0 ELSE n(i, 32) % 2],
        strategy |-> any(10, <<"ffd", "balanced_greedy">>), group |-> any(11, <<4, 9>>),
        capacity |-> any(12, <<4, 5, 6>>), bin |-> any(13, <<2, 3>>), batch |-> any(14, <<1, 2>>),
        width |-> any(15, <<1, 2>>) * any(16, <<1, 2>>), dp |-> any(16, <<1, 2>>),
        multiple |-> any(17, <<1, 2>>),
        steps |-> any(18, <<1, 2>>), labelWindow |-> any(19, <<2, 4>>), updateWindow |-> 2]
\* The shortest epoch of any rank so far, which caps some of the plans.
Shortest(seed) == <<2, 3, 4, 10>>[1 + (Noise(seed, 20) % 4)]
Seeds == 1..1000
Order9 == [i \in 1..9 |-> i]

FirstStep == ReplayInit /\ setup.gas = 2 /\ setup' = setup

\* Every stage of generate_batches keeps each sample once in as many rows of
\* as many batches, within the capacity, leaves the tail alone and masks as
\* many labels by causal shifting; what balance_microbatches keeps up to date
\* of a window is what measuring it again would give.
PlanKeepsSamples ==
    [][FirstStep => \A seed \in Seeds : LB!PlanKeeps(Input(seed), Order9, Shortest(seed))]_replayVars
\* No stage spoils what an earlier one has won: labels per batch and per
\* step, padding, cost spread and the dearest batch only get better, and the
\* rank order takes no longer than the one it was given.
PlanImproves ==
    [][FirstStep => \A seed \in Seeds : LB!PlanImproves(Input(seed), Order9, Shortest(seed))]_replayVars
=============================================================================
