------------------------------ MODULE DataReplay ------------------------------
(***************************************************************************)
(* Exact data replay of label-balanced training (core/trainers/base.py): a *)
(* run that resumes from a checkpoint goes on with the very batches the    *)
(* run before it would have trained on.                                    *)
(*                                                                         *)
(* The plan of an epoch is a function of the settings and the epoch        *)
(* (LabelBalance); plans differ in length, and the first one, measured by  *)
(* len(), says how many batches every epoch has for the Trainer.  A batch  *)
(* is named by the epoch of its plan and its number.                       *)
(*                                                                         *)
(* A setup is a configuration of the trainer with its data: settings, what *)
(* _balanced_sampler_settings records of it; gas, the gradient             *)
(* accumulation steps; length, the batches a rank gets from each plan.     *)
(***************************************************************************)
EXTENDS Integers, Sequences, FiniteSets

CONSTANTS
    Setup,
    Epochs,     \* num_train_epochs
    MaxStarts   \* bound: processes started

\* Setups that differ in what decides a plan differ in their settings.  This
\* leaves out a change of packing_strategy alone, which is not recorded.
ASSUME ReplayAssumption ==
    /\ Epochs \in Nat \ {0} /\ MaxStarts \in Nat
    /\ \A s \in Setup : s.gas \in Nat \ {0} /\ s.length \in [0..(Epochs - 1) -> Nat \ {0}]
    /\ \A s, t \in Setup : s.settings = t.settings => s = t

VARIABLES
    run,         \* what the process does, "off" when there is none
    setup,
    ignore,      \* ignore_data_skip
    resumed,     \* the checkpoint it resumes from, as a set of at most one
    epoch,       \* the epoch it is in, or goes to
    step,        \* batches of the epoch behind it
    plan,        \* the epoch whose plan the sampler has cached
    held,        \* batches whose gradients wait for the optimizer's step
    globalStep,  \* state.global_step
    at,          \* state.epoch: epoch + step / of
    sampler,     \* _balanced_sampler_state
    checkpoint,  \* the last one saved, as a set of at most one
    starts,
    trained,     \* the batches of each optimizer step, when it was first made
    exact        \* no run was told to ignore the data, or began Misplaced

process == <<setup, ignore, resumed>>
progress == <<step, held, globalStep, at>>
history == <<trained, exact>>
replayVars == <<run, process, epoch, progress, plan, sampler, checkpoint, starts, history>>

\* steps_in_epoch, and the batches an epoch really has (the sampler cuts a
\* longer plan to the length of the first).
StepsInEpoch(s) == s.length[0]
BatchesOf(s, e) == IF s.length[e] < s.length[0] THEN s.length[e] ELSE s.length[0]
UpdatesPerEpoch(s) == (StepsInEpoch(s) + s.gas - 1) \div s.gas

ReplayInit ==
    /\ run = "off" /\ setup \in Setup /\ ignore = FALSE /\ resumed = {}
    /\ epoch = 0 /\ step = 0 /\ plan = 0 /\ held = <<>> /\ globalStep = 0
    /\ at = [epoch |-> 0, step |-> 0, of |-> 1]
    /\ sampler = [settings |-> <<>>, steps |-> 0, epoch |-> 0]
    /\ checkpoint = {} /\ starts = 0 /\ trained = <<>> /\ exact = TRUE

-----------------------------------------------------------------------------
\* The epoch a resumed run begins in: int(state.epoch); as its mutant, what
\* the Trainer computes for epochs of one length.
EpochByStep(s, c) == c.globalStep \div UpdatesPerEpoch(s)
EpochTrained(s, c) == c.at.epoch

\* Saved at the end of an epoch in which the optimizer never stepped, after an
\* epoch that was cut short: state.epoch still tells of that epoch, whose
\* batches _save_checkpoint then counts as not consumed (see Offset).
Misplaced(c) == c.at.epoch < c.sampler.epoch /\ c.at.step > 0

\* A process starts from the last checkpoint, or anew.  len() of the sampler
\* caches the plan of epoch 0.
Start ==
    /\ run \in {"off", "refused"} /\ starts < MaxStarts
    /\ starts' = starts + 1
    /\ setup' \in Setup /\ ignore' \in (IF checkpoint = {} THEN {FALSE} ELSE BOOLEAN)
    /\ plan' = 0 /\ step' = 0 /\ held' = <<>>
    /\ resumed' = checkpoint
    /\ \/ /\ checkpoint = {}
          /\ epoch' = 0 /\ globalStep' = 0 /\ at' = [epoch |-> 0, step |-> 0, of |-> 1]
          /\ trained' = <<>> /\ exact' = TRUE /\ run' = "epoch"
       \/ \E c \in checkpoint :
             /\ epoch' = EpochTrained(setup', c)
             /\ globalStep' = c.globalStep /\ at' = c.at
             /\ exact' = (exact /\ ~ignore' /\ ~Misplaced(c))
             /\ run' = IF epoch' < Epochs THEN "epoch" ELSE "done"
             /\ trained' = IF exact' THEN trained ELSE <<>>
    /\ UNCHANGED <<sampler, checkpoint>>

Crash ==
    /\ run \in {"epoch", "batches", "synced", "ended"}
    /\ run' = "off"
    /\ UNCHANGED <<process, epoch, progress, plan, sampler, checkpoint, starts, history>>

\* set_epoch discards a cached plan; the mutant leaves it to Accelerate, which
\* does not reach the sampler of a resumed epoch.
HiddenSampler(e) == IF \E c \in resumed : e = EpochTrained(setup, c) THEN plan ELSE e
SetEpoch(e) == e

\* _run_epoch of the epoch a checkpoint was saved in: it is refused when it
\* says so itself, when the settings changed or when the epoch is another.
Replays(c) ==
    /\ ~c.error
    /\ c.sampler.settings = setup.settings
    /\ c.resumeEpoch = epoch
    /\ c.consumed # 0 => c.sampler.steps = StepsInEpoch(setup)

BeginEpoch ==
    /\ run = "epoch" /\ epoch < Epochs
    /\ plan' = SetEpoch(epoch)
    /\ sampler' = [settings |-> setup.settings, steps |-> StepsInEpoch(setup), epoch |-> epoch]
    /\ LET resumes == {c \in resumed : epoch = EpochTrained(setup, c) /\ ~ignore}
       IN \/ resumes = {} /\ run' = "batches" /\ step' = 0
          \/ \E c \in resumes :
                IF Replays(c) THEN run' = "batches" /\ step' = c.consumed
                ELSE run' = "refused" /\ UNCHANGED step
    /\ UNCHANGED <<process, epoch, held, globalStep, at, checkpoint, starts, history>>

\* state.epoch after n batches of epoch e.
Position(e, n, of) ==
    IF n = of THEN [epoch |-> e + 1, step |-> 0, of |-> 1] ELSE [epoch |-> e, step |-> n, of |-> of]

\* A batch is run forward and backward; at the end of an accumulation, or of
\* a full epoch, the optimizer steps.
Train ==
    /\ run = "batches" /\ step < BatchesOf(setup, epoch)
    /\ step' = step + 1
    /\ LET now == Append(held, <<plan, step'>>)
       IN IF step' % setup.gas = 0 \/ step' = StepsInEpoch(setup)
          THEN /\ globalStep' = globalStep + 1
               /\ at' = Position(epoch, step', StepsInEpoch(setup))
               /\ held' = <<>>
               /\ trained' = IF globalStep' \in DOMAIN trained \/ ~exact THEN trained
                             ELSE Append(trained, now)
               /\ run' = "synced"
          ELSE held' = now /\ UNCHANGED <<globalStep, at, trained, run>>
    /\ UNCHANGED <<process, epoch, plan, sampler, checkpoint, starts, exact>>

\* batches of the epoch behind a checkpoint: those state.epoch tells, or none
\* when it tells of another epoch.
Offset == IF at.epoch = sampler.epoch THEN at.step * sampler.steps ELSE 0

\* _validated_balanced_offset: a whole number, at the end of an accumulation.
OnBoundary(n) == n % at.of = 0 /\ (n \div at.of) % setup.gas = 0

\* on_step_end: the Trainer stops at max_steps.
Enough == globalStep >= Epochs * UpdatesPerEpoch(setup)

\* After a step and at the end of an epoch a checkpoint is saved, or not.
GoOn == run' = CASE run = "ended" -> "next" [] Enough -> "ended" [] OTHER -> "batches"

Save ==
    /\ run \in {"synced", "ended"} /\ GoOn
    /\ checkpoint' = {[globalStep |-> globalStep, at |-> at, sampler |-> sampler,
                       resumeEpoch |-> at.epoch, consumed |-> Offset \div at.of,
                       error |-> ~OnBoundary(Offset)]}
    /\ UNCHANGED <<process, epoch, progress, plan, sampler, starts, history>>

SkipSave ==
    /\ run \in {"synced", "ended"} /\ GoOn
    /\ UNCHANGED <<process, epoch, progress, plan, sampler, checkpoint, starts, history>>

EndEpoch ==
    /\ run = "batches" /\ step = BatchesOf(setup, epoch)
    /\ run' = "ended"
    /\ UNCHANGED <<process, epoch, progress, plan, sampler, checkpoint, starts, history>>

NextEpoch ==
    /\ run = "next"
    /\ epoch' = epoch + 1
    /\ run' = IF epoch' = Epochs \/ Enough THEN "done" ELSE "epoch"
    /\ UNCHANGED <<process, progress, plan, sampler, checkpoint, starts, history>>

\* Training is over, or the bound is reached.
ReplayStopped ==
    /\ run = "done" \/ (run \in {"off", "refused"} /\ starts = MaxStarts)
    /\ UNCHANGED replayVars

ReplayNext ==
    \/ Start \/ Crash \/ BeginEpoch \/ Train \/ Save \/ SkipSave
    \/ EndEpoch \/ NextEpoch \/ ReplayStopped

ReplaySpec == ReplayInit /\ [][ReplayNext]_replayVars

-----------------------------------------------------------------------------
Position_ == [epoch : 0..Epochs, step : Nat, of : Nat \ {0}]
Sampler_ == [settings : {<<>>} \cup {s.settings : s \in Setup}, steps : Nat, epoch : 0..Epochs]
Checkpoint_ ==
    [globalStep : Nat, at : Position_, sampler : Sampler_, resumeEpoch : 0..Epochs,
     consumed : Nat, error : BOOLEAN]

ReplayTypeOK ==
    /\ run \in {"off", "epoch", "batches", "synced", "ended", "next", "done", "refused"}
    /\ setup \in Setup /\ ignore \in BOOLEAN /\ exact \in BOOLEAN
    /\ epoch \in 0..Epochs /\ plan \in 0..Epochs /\ step \in Nat /\ globalStep \in Nat
    /\ held \in Seq((0..Epochs) \X Nat) /\ at \in Position_ /\ sampler \in Sampler_
    /\ \A S \in {checkpoint, resumed} : Cardinality(S) <= 1 /\ S \subseteq Checkpoint_
    /\ starts \in 0..MaxStarts

\* Exact replay is refused only when the settings are not the checkpoint's,
\* or when an earlier run gave exactness up.
RefusesOnlyForCause ==
    run = "refused" => ~exact \/ \E c \in resumed : c.sampler.settings # setup.settings

\* Types, and RefusesOnlyForCause: a crash alone never makes a checkpoint
\* that cannot be replayed, wherever in an epoch of whatever length it was
\* saved.
ReplayInv == ReplayTypeOK /\ RefusesOnlyForCause

\* However often training crashes and resumes, an optimizer step made again
\* is made of the batches it was first made of: the skip in _run_epoch, the
\* position in balanced_sampler.json and the epoch in _init_training_state
\* agree.  Not so after a Misplaced checkpoint.
ReplaysSame ==
    [][(Train /\ run' = "synced" /\ exact /\ globalStep' \in DOMAIN trained)
           => Append(held, <<plan, step'>>) = trained[globalStep']]_replayVars
=============================================================================
