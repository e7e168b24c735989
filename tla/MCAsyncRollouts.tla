--------------------------- MODULE MCAsyncRollouts ---------------------------
(* Both paths and the three ways to sync.  Short rollouts, synced at every   *)
(* step, with one and two of them ahead; two-step rollouts with an interval  *)
(* of three, long enough for the oldest rollout the bound allows; and a run  *)
(* that resumes.                                                             *)
EXTENDS AsyncRollouts

Choices(depths, rollout, interval, start, steps) ==
    [path : {"producer", "legacy"}, sync : {"stock", "nomerge", "lora"},
     ranks : {"one", "many"}, depth : depths, rollout : {rollout},
     interval : {interval}, start : {start}, steps : {steps}]

MCSetting ==
    {s \in Choices({1, 2}, 1, 1, 0, 4) : s.sync = "nomerge" => s.ranks = "one"}
    \cup {s \in Choices({2}, 2, 3, 0, 15) : s.sync = "lora" /\ s.ranks = "many"}
    \cup {s \in Choices({1}, 1, 2, 2, 5) : s.sync # "nomerge" /\ s.ranks = "one"}
=============================================================================
