------------------------------ MODULE Platform ------------------------------
(* Pipelines and Training together: a call of a plugin that trains does not *)
(* return before the training it started is over, and raises if that does. *)
EXTENDS Pipelines

CONSTANTS EpisodeLength, Strides, BarCounts, Volatilities, Curricula, FoldCounts, MinFolds,
          Variants, RolloutSteps, Target, CacheSize, Prefetch,
          TrainedBars,       \* bounds on the bars whose trainer is modelled and on the
          TrainedDepartures  \* names configured away then; beyond them a call just
                             \* returns or raises

VARIABLES work, task, trial, seen, timesteps, stage, stageSteps, chosen,
          cache, futures, loads, dropped, report

RL == INSTANCE Training

ASSUME PlatformAssumption == {TrainedBars, TrainedDepartures} \subseteq Nat /\ RL!Parameters

rlVars == <<work, task, trial, seen, timesteps, stage, stageSteps, chosen,
            cache, futures, loads, dropped, report>>

\* What OnlineTrainingPlugin, WalkForwardRLEvalPlugin and AblationEvalPlugin run.
KindOf == [online_training |-> "online", walk_forward_rl_eval |-> "walk_forward",
           ablation_eval |-> "ablation"]

Calling ==
  /\ phase = "running" /\ Script[position].plugin.name \in DOMAIN KindOf
  /\ bar <= TrainedBars /\ Cardinality(disabled \cup excluded) <= TrainedDepartures
  /\ Available(Script[position])

PlatformInit == Init /\ RL!Init

\* The plugin starts to train.
CallTrainer == Calling /\ RL!Start(KindOf[Script[position].plugin.name]) /\ UNCHANGED vars

Train == Calling /\ RL!Step /\ UNCHANGED vars

TrainerReturns ==
  /\ Calling /\ RL!Return /\ Step
  /\ error' = IF work = "raised" THEN "raised" ELSE "none"

Elsewhere == ~Calling /\ Next /\ UNCHANGED rlVars

PlatformNext == CallTrainer \/ Train \/ TrainerReturns \/ Elsewhere

PlatformSpec == PlatformInit /\ [][PlatformNext]_<<vars, rlVars>>

-----------------------------------------------------------------------------

\* Every variable of both parts holds a value of its kind, and a bar that runs
\* has met no error: what a handler raises ends the run of the graph.
PlatformTypeOK == TypeOK /\ RL!TypeOK

\* A fold of a walk-forward evaluation is measured on bars after those its policy
\* was trained on, but for what neighbouring windows share (Training).
OverlapIsBounded == RL!OverlapIsBounded

\* An episode is loaded once for every time it was dropped from the cache, and
\* once more (Training).
LoadedOnce == RL!LoadedOnce
=============================================================================
