----------------------------- MODULE LabelBalance -----------------------------
(***************************************************************************)
(* What one epoch trains on: MultipackBatchSampler packs the shuffled      *)
(* samples into rows and rows into batches (utils/samplers/multipack.py,   *)
(* balanced.py), and with label counts rearranges them in four stages      *)
(* (label_balance.py, accumulation.py, microbatch_balance.py,              *)
(* rank_balance.py).                                                       *)
(*                                                                         *)
(* A setting m gives the samples' len, count (labels) and start (a label   *)
(* at the sample's first token, which causal shifting drops when it leads  *)
(* a row), and the sampler's parameters: strategy, group, capacity         *)
(* (batch_max_len), bin (bin_size), batch (batch_size), width              *)
(* (batches_per_optimizer_step), dp, multiple (padding_multiple), steps    *)
(* (label_balance_window_optim_steps), labelWindow (64 batches) and        *)
(* updateWindow (16 updates).  A row is a sequence of samples, a batch one *)
(* of rows.  Lengths are positive and no more than the capacity.           *)
(***************************************************************************)
EXTENDS Integers, Sequences, SequencesExt, FiniteSetsExt, TLC

Total(s) == FoldLeft(+, 0, s)
Each(Op(_), s) == FoldLeft(LAMBDA out, x : Append(out, Op(x)), <<>>, s)
TotalOf(Op(_), s) == Total(Each(Op, s))
Squares(s) == TotalOf(LAMBDA x : x * x, s)
Spread(s) == Len(s) * Squares(s) - Total(s) * Total(s)
Indices(s) == [i \in DOMAIN s |-> i]

RowLen(m, row) == TotalOf(LAMBDA i : m.len[i], row)
RowLabels(m, row) ==
    TotalOf(LAMBDA i : m.count[i], row) - (IF row = <<>> THEN 0 ELSE m.start[row[1]])
BatchLen(m, b) == TotalOf(LAMBDA r : RowLen(m, r), b)
BatchLabels(m, b) == TotalOf(LAMBDA r : RowLabels(m, r), b)

Rounded(n, k) == ((n + k - 1) \div k) * k
Padded(m, used) == Len(used) * Rounded(Max({0} \cup ToSet(used)), m.multiple)
Cost(m, b) == Padded(m, Each(LAMBDA r : RowLen(m, r), b))
PaddedSlots(m, bs) == TotalOf(LAMBDA b : Cost(m, b), bs)

\* Python's sorts: equal keys keep their order, also in reverse.
Ascending(key) ==
    SortSeq(Indices(key), LAMBDA i, j : key[i] < key[j] \/ (key[i] = key[j] /\ i < j))
Descending(key) ==
    SortSeq(Indices(key), LAMBDA i, j : key[i] > key[j] \/ (key[i] = key[j] /\ i < j))

\* Tuples compare at their first difference.
Below(s, t) == \E k \in DOMAIN s : s[k] < t[k] /\ \A j \in 1..(k - 1) : s[j] = t[j]
Least(S, key(_)) == CHOOSE x \in S : \A y \in S : ~Below(key(y), key(x))

\* Op on each window of size batches among the first end; the tail is kept.
InWindows(Op(_), bs, end, size) ==
    FlattenSeq([k \in 1..((end + size - 1) \div size) |->
                   Op(SubSeq(bs, (k - 1) * size + 1, Min({k * size, end})))])
    \o SubSeq(bs, end + 1, Len(bs))

-----------------------------------------------------------------------------
(* Packing.                                                                *)

Room(m, row, i) == RowLen(m, row) + m.len[i] <= m.capacity
Roomy(m, row, i) == Room(m, row, i) /\ Len(row) < m.bin

\* pack_group: the first row with room, or a new one.
FirstFit(m, group) ==
    FoldLeft(LAMBDA rows, i :
                LET fits == {r \in DOMAIN rows : Roomy(m, rows[r], i)}
                IN IF fits = {} THEN Append(rows, <<i>>)
                   ELSE [rows EXCEPT ![Min(fits)] = Append(@, i)],
             <<>>, group)

\* balanced_greedy_pack_group: the longest first, into the row least used.
BalancedGreedy(m, group) ==
    LET sorted == Each(LAMBDA k : group[k], Descending(Each(LAMBDA i : m.len[i], group)))
        rows0 == [k \in 1..Max({1, (RowLen(m, group) + m.capacity - 1) \div m.capacity}) |-> <<>>]
        place(rows, i) ==
            LET open == {r \in DOMAIN rows : Len(rows[r]) < m.bin}
                r == Least(open, LAMBDA x : <<RowLen(m, rows[x]), x>>)
            IN IF open # {} /\ Room(m, rows[r], i)
               THEN [rows EXCEPT ![r] = Append(@, i)] ELSE Append(rows, <<i>>)
    IN SelectSeq(FoldLeft(place, rows0, sorted), LAMBDA row : row # <<>>)

PackGroup(m, group) ==
    IF m.strategy = "balanced_greedy" THEN BalancedGreedy(m, group) ELSE FirstFit(m, group)

\* pack_parallel, then batches of rows; the last, if incomplete, is dropped.
Packed(m, order) ==
    LET rows == InWindows(LAMBDA g : PackGroup(m, g), order, Len(order), m.group)
    IN [k \in 1..(Len(rows) \div m.batch) |-> SubSeq(rows, (k - 1) * m.batch + 1, k * m.batch)]

-----------------------------------------------------------------------------
(* balance_labels: batches with much the same number of labels.            *)

\* Items in turn go to the group with the smallest total that has room.
Greedy(items, Value(_), room) ==
    FoldLeft(LAMBDA groups, x :
                LET g == Least({k \in DOMAIN room : Len(groups[k]) < room[k]},
                               LAMBDA k : <<TotalOf(Value, groups[k]), k>>)
                IN [groups EXCEPT ![g] = Append(@, x)],
             [k \in DOMAIN room |-> <<>>], items)

\* _regroup deals whole rows out again, those with most labels first.
Regroup(m, window) ==
    LET rows == FlattenSeq(window)
        sorted == Each(LAMBDA k : rows[k], Descending(Each(LAMBDA r : RowLabels(m, r), rows)))
    IN Greedy(sorted, LAMBDA r : RowLabels(m, r), Each(Len, window))

\* The places of a batch's samples, and the batch with another sample there.
Places(b) == UNION {{r} \X DOMAIN b[r] : r \in DOMAIN b}
At(b, p) == b[p[1]][p[2]]
With(b, p, i) == [b EXCEPT ![p[1]][p[2]] = i]
Leads(p) == p[2] = 1
Exchanged(pair, x) ==
    <<With(pair[1], x[1], At(pair[2], x[2])), With(pair[2], x[2], At(pair[1], x[1]))>>

\* _swap: what a batch gives away counts the leading sample's start.  Both
\* transfers must agree, or the sum of labels would change.
Transfer(m, a, b, p) ==
    m.count[a] - m.count[b] - (IF Leads(p) THEN m.start[a] - m.start[b] ELSE 0)
SameTransfer(m, pair, x) ==
    LET a == At(pair[1], x[1]) b == At(pair[2], x[2])
    IN Transfer(m, a, b, x[1]) = Transfer(m, a, b, x[2])

LabelGain(m, pair, x, difference) ==
    LET t == Transfer(m, At(pair[1], x[1]), At(pair[2], x[2]), x[1])
    IN 2 * t * (difference - t)

LabelSwaps(m, pair, difference) ==
    {x \in Places(pair[1]) \X Places(pair[2]) :
        LET delta == m.len[At(pair[1], x[1])] - m.len[At(pair[2], x[2])]
        IN /\ RowLen(m, pair[1][x[1][1]]) - delta <= m.capacity
           /\ RowLen(m, pair[2][x[2][1]]) + delta <= m.capacity
           /\ SameTransfer(m, pair, x)
           /\ LabelGain(m, pair, x, difference) > 0
           /\ PaddedSlots(m, Exchanged(pair, x)) <= PaddedSlots(m, pair)}

\* _repack deals the samples of two batches out again, the longest first, to
\* the batch with fewer labels and its fullest row that has room; <<>> when
\* that fails or does not help.

Repack(m, pair) ==
    LET items == FlattenSeq(FlattenSeq(pair))
        key(i) == <<-m.len[i], -m.count[i]>>
        sorted == SortSeq(items, LAMBDA i, j : Below(key(i), key(j)))
        place(bs, i) ==
            LET open == {p \in UNION {{k} \X DOMAIN pair[k] : k \in DOMAIN bs} :
                            Roomy(m, bs[p[1]][p[2]], i)}
                p == Least(open, LAMBDA q : <<BatchLabels(m, bs[q[1]]),
                                              -RowLen(m, bs[q[1]][q[2]]), q[1], q[2]>>)
            IN IF bs = <<>> \/ open = {} THEN <<>> ELSE [bs EXCEPT ![p[1]][p[2]] = Append(@, i)]
        result == FoldLeft(place, Each(LAMBDA b : Each(LAMBDA r : <<>>, b), pair), sorted)
        labels(bs) == Each(LAMBDA b : BatchLabels(m, b), bs)
        gap(bs) == LET l == labels(bs) IN IF l[1] > l[2] THEN l[1] - l[2] ELSE l[2] - l[1]
    IN IF /\ result # <<>>
          /\ \A k \in DOMAIN result : <<>> \notin ToSet(result[k])
          /\ PaddedSlots(m, result) <= PaddedSlots(m, pair)
          /\ Total(labels(result)) = Total(labels(pair)) /\ gap(result) < gap(pair)
       THEN result ELSE <<>>

\* The batch with least and the one with most, and so on inwards.
Pairs(key) ==
    LET o == Ascending(key)
    IN [k \in 1..(Len(o) \div 2) |-> [lo |-> o[k], hi |-> o[Len(o) + 1 - k]]]

BalancePair(m, w, p) ==
    LET pair == <<w.window[p.hi], w.window[p.lo]>>
        difference == w.totals[p.hi] - w.totals[p.lo]
        swaps == LabelSwaps(m, pair, difference)
        best == Least(swaps, LAMBDA x : <<-LabelGain(m, pair, x, difference)>>)
        new == IF swaps # {} THEN Exchanged(pair, best) ELSE Repack(m, pair)
    IN IF difference <= 1 \/ new = <<>> THEN w
       ELSE [window |-> [w.window EXCEPT ![p.hi] = new[1], ![p.lo] = new[2]],
             totals |-> [w.totals EXCEPT ![p.hi] = BatchLabels(m, new[1]),
                                         ![p.lo] = BatchLabels(m, new[2])],
             changed |-> TRUE]

\* rng.shuffle(window): one permutation of it, here the reverse.
Shuffled(window) == Reverse(window)

BalanceWindow(m, window) ==
    LET labels(bs) == Each(LAMBDA b : BatchLabels(m, b), bs)
        candidate == Regroup(m, window)
        better == /\ Squares(labels(candidate)) < Squares(labels(window))
                  /\ PaddedSlots(m, candidate) <= PaddedSlots(m, window)
        start == IF better THEN candidate ELSE window
        onePass(w, k) ==
            IF ~w.changed THEN w
            ELSE FoldLeft(LAMBDA v, p : BalancePair(m, v, p),
                          [w EXCEPT !.changed = FALSE], Pairs(w.totals))
    IN Shuffled(FoldLeft(onePass, [window |-> start, totals |-> labels(start), changed |-> TRUE],
                         <<1, 2, 3, 4>>).window)

BalanceLabels(m, bs, end) == InWindows(LAMBDA w : BalanceWindow(m, w), bs, end, m.labelWindow)

-----------------------------------------------------------------------------
(* balance_accumulation: optimizer steps with much the same number of      *)
(* labels, made of the batches as they are.                                *)

Updates(m, bs) ==
    [u \in 1..(Len(bs) \div m.width) |-> SubSeq(bs, (u - 1) * m.width + 1, u * m.width)]
UpdateLabels(m, update) == TotalOf(LAMBDA b : BatchLabels(m, b), update)

AccumulateWindow(m, window) ==
    LET key == Each(LAMBDA b : BatchLabels(m, b), window)
        sorted == Each(LAMBDA k : window[k], Descending(key))
        old == Updates(m, window)
        new == Greedy(sorted, LAMBDA b : BatchLabels(m, b), Each(Len, old))
        labels(us) == Each(LAMBDA u : UpdateLabels(m, u), us)
    IN IF Len(old) >= 2 /\ Squares(labels(new)) < Squares(labels(old))
       THEN FlattenSeq(new) ELSE window

BalanceAccumulation(m, bs, end) ==
    IF m.width = 1 THEN bs
    ELSE InWindows(LAMBDA w : AccumulateWindow(m, w), bs, end, m.width * m.updateWindow)

-----------------------------------------------------------------------------
(* balance_microbatches: samples change places between a long and a short  *)
(* batch.  w holds a window and what is known of it: the length of each    *)
(* row, cost, tokens and labels of each batch and of each step, and the    *)
(* sums of the costs; a swap updates these instead of computing them.      *)

StepOf(m, k) == (k - 1) \div m.width + 1
StepTotals(m, values) == Each(Total, [u \in 1..(Len(values) \div m.width) |->
                                         SubSeq(values, (u - 1) * m.width + 1, u * m.width)])

Measured(m, window, end, all) ==
    LET used == Each(LAMBDA b : Each(LAMBDA r : RowLen(m, r), b), window)
        costs == Each(LAMBDA u : Padded(m, u), used)
        tokens == Each(Total, used)
        labels == Each(LAMBDA b : BatchLabels(m, b), window)
    IN [window |-> window, used |-> used, costs |-> costs, tokens |-> tokens, labels |-> labels,
        stepTokens |-> StepTotals(m, tokens), stepLabels |-> StepTotals(m, labels),
        sum |-> Total(costs), end |-> end, all |-> all, changed |-> TRUE]

\* A supervised start that leads a row leads one afterwards; the mutant lets
\* it move inside.
MaskMoves(m, a, b, x) == TRUE
MaskKept(m, a, b, x) == (Leads(x[1]) = Leads(x[2])) \/ (m.start[a] = 0 /\ m.start[b] = 0)

\* Between batches of different steps, the steps come closer too; the mutant
\* only looks at the batches.
WithinSteps(m, w, p, s) == TRUE
StepsCloser(m, w, p, s) ==
    LET hs == StepOf(m, p.hi) ls == StepOf(m, p.lo)
    IN hs # ls => /\ s.delta * (w.stepTokens[hs] - w.stepTokens[ls] - s.delta) >= 0
                  /\ s.transfer * (w.stepLabels[hs] - w.stepLabels[ls] - s.transfer) >= 0

\* What swapping the samples at x would do.
Swap(m, w, p, x) ==
    LET a == At(w.window[p.hi], x[1])
        b == At(w.window[p.lo], x[2])
        delta == m.len[a] - m.len[b]
        hiUsed == [w.used[p.hi] EXCEPT ![x[1][1]] = @ - delta]
        loUsed == [w.used[p.lo] EXCEPT ![x[2][1]] = @ + delta]
        hc == Padded(m, hiUsed)
        lc == Padded(m, loUsed)
        saved == w.costs[p.hi] + w.costs[p.lo] - hc - lc
        squares == Squares(<<w.costs[p.hi], w.costs[p.lo]>>) - Squares(<<hc, lc>>)
        gain(n, sum) == n * squares + (sum - saved) * (sum - saved) - sum * sum
    IN [hiUsed |-> hiUsed, loUsed |-> loUsed, hc |-> hc, lc |-> lc, saved |-> saved,
        delta |-> delta, mask |-> MaskKept(m, a, b, x),
        transfer |-> m.count[a] - m.count[b]
                       - (IF Leads(x[1]) /\ Leads(x[2]) THEN m.start[a] - m.start[b] ELSE 0),
        tokenGain |-> 2 * delta * (w.tokens[p.hi] - w.tokens[p.lo] - delta),
        costGain |-> gain(Len(w.window), w.sum), allGain |-> gain(w.end, w.all)]

Score(s) == <<Max({s.hc, s.lc}), -s.saved, -s.costGain, -s.tokenGain>>

Helps(m, w, p, s) ==
    /\ s.delta > 0 /\ s.tokenGain >= 0 /\ s.mask
    /\ s.transfer * (w.labels[p.hi] - w.labels[p.lo] - s.transfer) >= 0
    /\ StepsCloser(m, w, p, s)
    /\ Max(ToSet(s.hiUsed) \cup ToSet(s.loUsed)) <= m.capacity
    /\ s.saved >= 0 /\ Max({s.hc, s.lc}) <= Max({w.costs[p.hi], w.costs[p.lo]})
    /\ s.costGain >= 0 /\ s.allGain >= 0
    /\ Below(Score(s), <<Max({w.costs[p.hi], w.costs[p.lo]}), 0, 0, 0>>)

Moved(f, from, to, n) == [f EXCEPT ![from] = @ - n, ![to] = @ + n]
\* Two batches of one step leave its totals as they are.
MovedStep(m, f, p, n) ==
    LET hs == StepOf(m, p.hi) ls == StepOf(m, p.lo)
    IN IF hs = ls THEN f ELSE Moved(f, hs, ls, n)

RefinePair(m, w, p) ==
    LET swaps == {[x |-> x, does |-> Swap(m, w, p, x)] :
                     x \in Places(w.window[p.hi]) \X Places(w.window[p.lo])}
        good == {s \in swaps : Helps(m, w, p, s.does)}
        best == Least(good, LAMBDA s : Score(s.does))
        new == Exchanged(<<w.window[p.hi], w.window[p.lo]>>, best.x)
        s == best.does
    IN IF good = {} \/ (w.costs[p.hi] = w.costs[p.lo] /\ w.tokens[p.hi] = w.tokens[p.lo]) THEN w
       ELSE [w EXCEPT !.window = [@ EXCEPT ![p.hi] = new[1], ![p.lo] = new[2]],
                      !.used = [@ EXCEPT ![p.hi] = s.hiUsed, ![p.lo] = s.loUsed],
                      !.costs = [@ EXCEPT ![p.hi] = s.hc, ![p.lo] = s.lc],
                      !.tokens = Moved(@, p.hi, p.lo, s.delta),
                      !.labels = Moved(@, p.hi, p.lo, s.transfer),
                      !.stepTokens = MovedStep(m, @, p, s.delta),
                      !.stepLabels = MovedStep(m, @, p, s.transfer),
                      !.sum = @ - s.saved, !.all = @ - s.saved, !.changed = TRUE]

\* By cost and by tokens, and once more unless the second finds nothing.
RefineWindow(m, w0) ==
    LET onePass(w, key) ==
            FoldLeft(LAMBDA v, p : RefinePair(m, v, p), [w EXCEPT !.changed = FALSE], Pairs(key))
        byCost(w) == onePass(w, w.costs)
        byTokens(w) == onePass(w, w.tokens)
        w1 == byTokens(byCost(w0))
    IN IF w1.changed THEN byTokens(byCost(w1)) ELSE w1

\* The windows when they are done, each of some whole steps.
Refined(m, bs, limit, steps) ==
    LET size == m.width * steps
        end == (limit \div size) * size
        each(ws, k) ==
            LET all == IF ws = <<>> THEN PaddedSlots(m, SubSeq(bs, 1, end)) ELSE Last(ws).all
                window == SubSeq(bs, (k - 1) * size + 1, k * size)
            IN Append(ws, RefineWindow(m, Measured(m, window, end, all)))
    IN IF size = 1 THEN <<>> ELSE FoldLeft(each, <<>>, [k \in 1..(end \div size) |-> k])

BalanceMicrobatches(m, bs, limit, steps) ==
    LET new == FlattenSeq(Each(LAMBDA w : w.window, Refined(m, bs, limit, steps)))
    IN new \o SubSeq(bs, Len(new) + 1, Len(bs))

-----------------------------------------------------------------------------
(* order_batches_by_rank: which rank takes which batch of a step.  A       *)
(* layout has a row for each microstep and a column for each rank.         *)

Layouts(m, costs) ==
    LET gas == m.width \div m.dp
        sorted == Ascending(costs)
        cell(Op(_, _)) == [g \in 1..gas |-> [r \in 1..m.dp |-> Op(g, r)]]
        bases == {cell(LAMBDA g, r : (g - 1) * m.dp + r),
                  cell(LAMBDA g, r : sorted[(g - 1) * m.dp + r]),
                  cell(LAMBDA g, r : sorted[(r - 1) * gas + g]),
                  cell(LAMBDA g, r : sorted[IF g % 2 = 1 THEN (g - 1) * m.dp + r ELSE g * m.dp + 1 - r])}
    IN {[g \in 1..gas |-> [r \in 1..m.dp |-> base[g][perm[r]]]] :
           base \in bases \cup {Reverse(b) : b \in bases}, perm \in Permutations(1..m.dp)}

\* A microstep lasts as long as its dearest batch.
StepTime(layout, costs) ==
    TotalOf(LAMBDA row : Max({costs[i] : i \in ToSet(row)}), layout)

\* The layouts the beam search chooses from, to keep the ranks' work even.
ValidLayouts(m, update) ==
    LET costs == Each(LAMBDA b : Cost(m, b), update)
        given == [g \in 1..(m.width \div m.dp) |-> [r \in 1..m.dp |-> (g - 1) * m.dp + r]]
        spread(layout) == TotalOf(LAMBDA row : Spread(Each(LAMBDA i : costs[i], row)), layout)
    IN {layout \in Layouts(m, costs) :
           /\ spread(layout) <= spread(given)
              /\ StepTime(layout, costs) <= StepTime(given, costs)}

\* The batches of a step in the order of a layout.
Laid(update, layout) == Each(LAMBDA i : update[i], FlattenSeq(layout))

-----------------------------------------------------------------------------
(* generate_batches, stage by stage.  Epochs are of different lengths, and *)
(* no more than most (_len_across_ranks) of one is trained on.             *)

Limit(m, bs, most) == LET n == Min({Len(bs), most}) IN (n \div m.width) * m.width

Stages(m, order, most) ==
    LET packed == Packed(m, order)
        limit == Limit(m, packed, most)
        labels == BalanceLabels(m, packed, limit)
        steps == BalanceAccumulation(m, labels, limit)
        wide == IF m.steps > 1 THEN BalanceMicrobatches(m, steps, limit, m.steps) ELSE steps
    IN [packed |-> packed, limit |-> limit, labels |-> labels, steps |-> steps, wide |-> wide,
        refined |-> BalanceMicrobatches(m, wide, limit, 1)]

-----------------------------------------------------------------------------
(* What they promise.                                                      *)

Samples(bs) == FlattenSeq(FlattenSeq(bs))

\* The same samples in as many rows of as many batches, every row within its
\* capacity, the tail untouched, and labels lost to causal shifting the same.
SameSamples(m, limit, old, new) ==
    /\ IsInjective(Samples(new)) /\ ToSet(Samples(new)) = ToSet(Samples(old))
    /\ Each(Len, new) = Each(Len, old)
    /\ SubSeq(new, limit + 1, Len(new)) = SubSeq(old, limit + 1, Len(old))
    /\ \A r \in ToSet(FlattenSeq(new)) : RowLen(m, r) <= m.capacity /\ Len(r) \in 1..m.bin
    /\ TotalOf(LAMBDA b : BatchLabels(m, b), new) = TotalOf(LAMBDA b : BatchLabels(m, b), old)

\* What a refined window says of itself is true.
TrueMeasures(m, w) ==
    Measured(m, w.window, w.end, w.all) = [w EXCEPT !.changed = TRUE]

PlanKeeps(m, order, most) ==
    LET s == Stages(m, order, most)
    IN /\ SameSamples(m, s.limit, s.packed, s.packed)
       /\ Cardinality(ToSet(order) \ ToSet(Samples(s.packed))) <= (m.batch - 1) * m.bin
       /\ SameSamples(m, s.limit, s.packed, s.labels)
       /\ SameSamples(m, s.limit, s.labels, s.steps)
       /\ SameSamples(m, s.limit, s.steps, s.wide)
       /\ SameSamples(m, s.limit, s.wide, s.refined)
       /\ \A w \in ToSet(Refined(m, s.steps, s.limit, m.steps)) : TrueMeasures(m, w)

\* A step's batches in the order of a layout, dealt to the ranks in turn, are
\* the same batches and take no longer.
RanksAgree(m, update) ==
    LET cost(bs) == Each(LAMBDA b : Cost(m, b), bs)
        time(bs) == TotalOf(LAMBDA g : Max(ToSet(SubSeq(cost(bs), g, g + m.dp - 1))),
                            [g \in 1..(m.width \div m.dp) |-> (g - 1) * m.dp + 1])
    IN \A layout \in ValidLayouts(m, update) :
          LET laid == Laid(update, layout)
          IN ToBag(laid) = ToBag(update) /\ time(laid) <= time(update)

\* Each stage improves what it is there for and spoils nothing the stages
\* before it have won.
PlanImproves(m, order, most) ==
    LET s == Stages(m, order, most)
        head(bs) == SubSeq(bs, 1, s.limit)
        labels(bs) == Each(LAMBDA b : BatchLabels(m, b), head(bs))
        costs(bs) == Each(LAMBDA b : Cost(m, b), head(bs))
        stepLabels(bs) == StepTotals(m, labels(bs))
        stepTokens(bs) == StepTotals(m, Each(LAMBDA b : BatchLen(m, b), head(bs)))
        no_worse(old, new) ==
            /\ Squares(labels(new)) <= Squares(labels(old))
            /\ Total(costs(new)) <= Total(costs(old))
        kept(old, new, size) ==
            /\ no_worse(old, new)
            /\ LET whole(f) == SubSeq(f, 1, (s.limit \div size) * size)
               IN Spread(whole(costs(new))) <= Spread(whole(costs(old)))
            /\ Max({0} \cup ToSet(costs(new))) <= Max({0} \cup ToSet(costs(old)))
            /\ Squares(stepLabels(new)) <= Squares(stepLabels(old))
            /\ Squares(stepTokens(new)) <= Squares(stepTokens(old))
    IN /\ no_worse(s.packed, s.labels)
       /\ Squares(stepLabels(s.steps)) <= Squares(stepLabels(s.labels))
       /\ ToBag(head(s.steps)) = ToBag(head(s.labels))
       /\ kept(s.steps, s.wide, m.width * m.steps) /\ kept(s.wide, s.refined, m.width)
       /\ \A update \in ToSet(Updates(m, head(s.refined))) : RanksAgree(m, update)
=============================================================================
