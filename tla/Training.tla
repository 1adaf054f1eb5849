------------------------------ MODULE Training ------------------------------
(***************************************************************************)
(* The training loop of the RL product and what calls it: one loop over    *)
(* all episodes (online_training, quant-train), one loop for every fold of *)
(* a walk-forward evaluation, and the ablation study. Episodes are windows *)
(* over one series of bars and known by the index they start at. Of a      *)
(* policy the model keeps the bars it was trained on. The episodes come    *)
(* through an EpisodeCache whose pool threads load them in advance.        *)
(***************************************************************************)
EXTENDS Integers, SequencesExt, FiniteSetsExt

CONSTANTS
  EpisodeLength,  \* episode_length
  Strides,        \* episode_stride
  BarCounts,      \* lengths of the series the storage may return
  Volatilities,   \* functions from episodes to their volatility
  Curricula,      \* sequences of stages; the empty one is a disabled curriculum
  FoldCounts,     \* walk_forward_folds
  MinFolds,       \* min_folds
  Variants,       \* how many variants of the ablation are walk-forward runs
  RolloutSteps,   \* rollout_steps
  Target,         \* total_timesteps
  CacheSize,      \* maxsize of the episode cache
  Prefetch        \* prefetch of the episode cache

\* What the constants are (assumed where the module is instantiated).
Parameters ==
  /\ EpisodeLength \in Nat \ {0, 1} /\ Strides \subseteq Nat \ {0}
  /\ BarCounts \subseteq Nat /\ FoldCounts \subseteq Nat
  /\ Curricula \subseteq Seq([percentile : 0 .. 100, timesteps : Nat])
  /\ {RolloutSteps, Target, CacheSize} \subseteq Nat \ {0}
  /\ Variants \in Nat \ {0} /\ {MinFolds, Prefetch} \subseteq Nat

VARIABLES
  work,       \* idle, loop, get, collect, done or raised
  task,       \* what was asked for
  trial,      \* the loop that runs
  seen,       \* the bars the policy was trained on
  timesteps,
  stage, stageSteps, \* CurriculumScheduler
  chosen,     \* the episode of the next rollout
  cache,      \* the episodes of the cache, the one used last at the end
  futures,    \* episode -> none, queued or loaded
  loads, dropped, \* how often an episode was loaded, and dropped from the cache
  report      \* the last evaluation

loopVars == <<timesteps, stage, stageSteps, chosen>>
cacheVars == <<cache, futures, loads, dropped>>
vars == <<work, task, trial, seen, loopVars, cacheVars, report>>

-----------------------------------------------------------------------------
(* Episodes, folds and trials.                                             *)

\* EpisodeBuilder.build; nothing reads the split of an episode.
Windows(bars, stride) ==
  IF bars < EpisodeLength THEN <<>>
  ELSE [i \in 1 .. (bars - EpisodeLength) \div stride + 1 |-> (i - 1) * stride]
BarsOf(e, n) == e + 1 .. e + Min({n, EpisodeLength})
AllBars(eps) == UNION {BarsOf(e, EpisodeLength) : e \in Range(eps)}

Trial(train, test, as) == [train |-> train, test |-> test, as |-> as]

\* Mutant: the first episode of the test is still in the training set.
FoldTouching(eps, first, last) ==
  Trial(SubSeq(eps, 1, first + 1), SubSeq(eps, first + 1, last), "fold")

Fold(eps, first, last) == Trial(SubSeq(eps, 1, first), SubSeq(eps, first + 1, last), "fold")

\* build_episode_folds
EpisodeFolds(eps, k) ==
  LET n == Len(eps)
      chunk == Max({1, n \div (k + 1)})
      tested == {i \in 1 .. k : i * chunk < n}
  IN  IF tested = {} THEN <<Fold(eps, Max({1, n \div 2}), n)>>
      ELSE [i \in tested |-> Fold(eps, i * chunk, Min({(i + 1) * chunk, n}))]

\* AblationRunner.run: the variants differ in what the policy may look at.
\* The last two loops run on all episodes and look at some of them again.
AblationTrials(eps, k, leakage) ==
  LET n == Len(eps)
      folds == EpisodeFolds(eps, k)
  IN  [t \in 1 .. Variants * Len(folds) |-> folds[((t - 1) % Len(folds)) + 1]]
        \o <<Trial(eps, SubSeq(eps, n - Max({1, n \div 4}) + 1, n), "context_only")>>
        \o IF leakage THEN <<Trial(eps, SubSeq(eps, 1, Min({2, n})), "leakage")>> ELSE <<>>

Trials ==
  CASE task.kind = "online" -> <<Trial(task.episodes, <<>>, "training")>>
    [] task.kind = "walk_forward" -> EpisodeFolds(task.episodes, task.folds)
    [] task.kind = "ablation" -> AblationTrials(task.episodes, task.folds, task.leakage)

\* The checks of build_episode_folds, of evaluate and of random.choice.
Refused(kind, eps, k) ==
  IF kind = "online" THEN eps = <<>>
  ELSE Len(eps) < 2 \/ Len(EpisodeFolds(eps, k)) < MinFolds

TrainSet == Trials[trial].train

-----------------------------------------------------------------------------
(* CurriculumScheduler                                                     *)

Stages == task.curriculum

\* filter_episodes, _select_episodes
Pool ==
  LET vols == SortSeq([i \in DOMAIN TrainSet |-> task.volatility[TrainSet[i]]], <)
      cutoff == vols[(Stages[stage].percentile * (Len(vols) - 1)) \div 100 + 1]
  IN  IF Stages = <<>> THEN Range(TrainSet)
      ELSE {e \in Range(TrainSet) : task.volatility[e] <= cutoff}

Advance(n) ==
  LET steps == stageSteps + n
      over == /\ Stages # <<>> /\ stage < Len(Stages)
              /\ Stages[stage].timesteps > 0 /\ steps >= Stages[stage].timesteps
  IN  /\ stage' = IF over THEN stage + 1 ELSE stage
      /\ stageSteps' = IF over \/ Stages = <<>> THEN 0 ELSE steps

-----------------------------------------------------------------------------
(* EpisodeCache                                                            *)

\* The cache with its episode e moved to the end.
Touched(e) ==
  LET i == CHOOSE i \in DOMAIN cache : cache[i] = e IN Append(RemoveAt(cache, i), e)

\* _store of an episode that is not in the cache
Stored(e) ==
  LET kept == Append(cache, e)
      extra == Max({0, Len(kept) - CacheSize})
  IN  /\ cache' = SubSeq(kept, extra + 1, Len(kept))
      /\ dropped' = [d \in DOMAIN dropped |->
                       dropped[d] + IF d \in Range(SubSeq(kept, 1, extra)) THEN 1 ELSE 0]

Loaded(e) == [loads EXCEPT ![e] = @ + 1]

\* Mutant: prefetch does not look for an episode that is being fetched.
WantedAgain(e) == e \notin Range(cache)

Wanted(e) == e \notin Range(cache) /\ futures[e] = "none"

EmptyCache(eps) ==
  /\ cache' = <<>> /\ futures' = [e \in Range(eps) |-> "none"]
  /\ loads' = [e \in Range(eps) |-> 0] /\ dropped' = loads'

\* OnlineTrainingLoop.compile: a scheduler, a collector and a cache of its own.
NewLoop(eps) ==
  /\ timesteps' = 0 /\ stage' = 1 /\ stageSteps' = 0 /\ chosen' = -1
  /\ EmptyCache(eps)

NoReport == [trained |-> {}, tested |-> {}, as |-> "none"]
NoTask ==
  [kind |-> "none", episodes |-> <<>>, stride |-> 0, curriculum |-> <<>>,
   volatility |-> <<>>, folds |-> 0, leakage |-> FALSE, given |-> FALSE]

Init ==
  /\ work = "idle" /\ task = NoTask /\ trial = 0 /\ seen = {}
  /\ timesteps = 0 /\ stage = 1 /\ stageSteps = 0 /\ chosen = -1
  /\ cache = <<>> /\ futures = <<>> /\ loads = <<>> /\ dropped = <<>>
  /\ report = NoReport

-----------------------------------------------------------------------------

\* TrainingDatasetPlugin.load_episodes, then run or evaluate. A walk-forward
\* evaluation may be given the trainer all its folds train.
Start(kind) ==
  /\ work = "idle"
  /\ \E bars \in BarCounts, stride \in Strides, curriculum \in Curricula, k \in FoldCounts,
        volatility \in Volatilities, leakage, given \in BOOLEAN :
       LET eps == Windows(bars, stride)
       IN  /\ kind # "ablation" => ~leakage
           /\ kind # "walk_forward" => ~given
           /\ task' = [kind |-> kind, episodes |-> eps, stride |-> stride,
                       curriculum |-> curriculum, folds |-> k, leakage |-> leakage,
                       given |-> given, volatility |-> [e \in Range(eps) |-> volatility[e]]]
           /\ work' = IF Refused(kind, eps, k) THEN "raised" ELSE "loop"
           /\ NewLoop(eps)
  /\ trial' = 1 /\ seen' = {}
  /\ UNCHANGED report

\* random.choice, then prefetch of two other episodes
Choose(e) ==
  /\ work = "loop" /\ timesteps < Target /\ e \in Pool
  /\ LET others == SelectSeq(TrainSet, LAMBDA o : o # e)
         asked == Range(SubSeq(others, 1, Min({2, Prefetch, Len(others)})))
     IN  futures' = [f \in DOMAIN futures |->
                       IF f \in asked /\ Wanted(f) THEN "queued" ELSE futures[f]]
  /\ chosen' = e /\ work' = "get"
  /\ UNCHANGED <<task, trial, seen, timesteps, stage, stageSteps, cache, loads, dropped, report>>

\* A thread of the pool runs the loader, at any time.
LoadAhead(e) ==
  /\ futures[e] = "queued"
  /\ futures' = [futures EXCEPT ![e] = "loaded"]
  /\ loads' = Loaded(e)
  /\ UNCHANGED <<work, task, trial, seen, loopVars, cache, dropped, report>>

\* EpisodeCache.get: from the cache, from the future once it is done, or from
\* the loader.
Get ==
  /\ work = "get" /\ work' = "collect"
  /\ \/ /\ chosen \in Range(cache)
        /\ cache' = Touched(chosen)
        /\ UNCHANGED <<futures, loads, dropped>>
     \/ /\ chosen \notin Range(cache) /\ futures[chosen] = "loaded"
        /\ futures' = [futures EXCEPT ![chosen] = "none"]
        /\ Stored(chosen) /\ UNCHANGED loads
     \/ /\ chosen \notin Range(cache) /\ futures[chosen] = "none"
        /\ Stored(chosen) /\ loads' = Loaded(chosen) /\ UNCHANGED futures
  /\ UNCHANGED <<task, trial, seen, loopVars, report>>

\* RolloutCollector.collect from the start of the episode, again and again if
\* it is short, then the update
Collect ==
  LET n == Min({RolloutSteps, Target - timesteps})
  IN  /\ work = "collect" /\ work' = "loop"
      /\ seen' = seen \cup BarsOf(chosen, n + 1)
      /\ timesteps' = timesteps + n
      /\ Advance(n)
      /\ UNCHANGED <<task, trial, chosen, cacheVars, report>>

\* The loop has ended: evaluate_episodes, and the next fold or variant with a
\* new policy unless one was given.
Evaluate ==
  /\ work = "loop" /\ timesteps >= Target
  /\ report' = IF Trials[trial].test = <<>> THEN report
               ELSE [trained |-> seen, tested |-> AllBars(Trials[trial].test),
                     as |-> Trials[trial].as]
  /\ IF trial < Len(Trials)
       THEN /\ trial' = trial + 1
            /\ seen' = IF task.given THEN seen ELSE {}
            /\ NewLoop(task.episodes) /\ UNCHANGED <<work, task>>
       ELSE work' = "done" /\ UNCHANGED <<task, trial, seen, loopVars, cacheVars>>

\* The call returns or raises.
Return ==
  /\ work \in {"done", "raised"}
  /\ work' = "idle" /\ task' = NoTask /\ trial' = 0 /\ seen' = {}
  /\ NewLoop(<<>>)
  /\ report' = NoReport

Step ==
  \/ \E e \in DOMAIN futures : Choose(e) \/ LoadAhead(e)
  \/ Get
  \/ Collect
  \/ Evaluate

-----------------------------------------------------------------------------
(* Correctness.                                                            *)

TypeOK ==
  /\ work \in {"idle", "loop", "get", "collect", "done", "raised"}
  /\ task.kind \in {"none", "online", "walk_forward", "ablation"}
  /\ trial \in Nat /\ timesteps \in 0 .. Target
  /\ stage \in 1 .. Max({1, Len(Stages)}) /\ stageSteps \in Nat
  /\ chosen \in DOMAIN futures \cup {-1}
  /\ \A e \in DOMAIN futures : futures[e] \in {"none", "queued", "loaded"}
  /\ IsInjective(cache) /\ Len(cache) <= CacheSize /\ Range(cache) \subseteq DOMAIN futures
  /\ seen \subseteq AllBars(task.episodes)

\* How far the metrics of a fold are out of sample: a bar it is measured on
\* comes after every bar its policy was trained on, but for the bars that the
\* windows of neighbouring episodes share, EpisodeLength - stride at most
\* (none if the stride is an episode), whatever the curriculum picked, whoever
\* made the trainer and however far a rollout got. EpisodeBuilder.build,
\* build_episode_folds, WalkForwardRLEvaluator.evaluate and
\* AblationRunner.run. With the strides of config/training/clickhouse.yaml and
\* template.yaml half an episode of what the code calls out-of-sample was
\* trained on. The context-only variant, which returns an oos_sharpe too, is
\* measured on episodes it was trained on.
OverlapIsBounded ==
  report.as = "fold" =>
    \A b \in report.trained, c \in report.tested : b + task.stride < c + EpisodeLength

\* "Episodes loaded once and reused across rollouts" (EpisodeCache): however
\* the pool threads, the choices of the loop and the eviction interleave, an
\* episode is loaded again only after it was dropped from the cache. It is
\* about prefetch, get and _store together.
LoadedOnce == \A e \in DOMAIN loads : loads[e] <= 1 + dropped[e]

-----------------------------------------------------------------------------
(* The inductive invariant behind them.                                    *)

InLoop == work \in {"loop", "get", "collect"}

\* What a call works on: windows that start a stride apart.
TaskInv ==
  /\ task.episodes \in Seq(Nat) /\ task.folds \in Nat
  /\ task.curriculum \in Curricula \cup {<<>>}
  /\ {task.given, task.leakage} \subseteq BOOLEAN /\ task.stride \in Nat
  /\ task.given => task.kind = "walk_forward"
  /\ \A i, j \in DOMAIN task.episodes :
       i < j => task.episodes[i] + task.stride <= task.episodes[j]
  /\ work = "idle" => task = NoTask /\ report = NoReport
  /\ InLoop => task.kind # "none" /\ ~Refused(task.kind, task.episodes, task.folds)

\* An episode is loaded once for every time it was dropped, and once more if it
\* is in the cache or waits in a future: never in both.
CacheInv ==
  /\ cache \in Seq(DOMAIN futures)
  /\ futures \in [DOMAIN futures -> {"none", "queued", "loaded"}]
  /\ {loads, dropped} \subseteq [DOMAIN futures -> Nat]
  /\ \A e \in DOMAIN futures :
       /\ e \in Range(cache) => futures[e] = "none"
       /\ loads[e] = dropped[e]
            + IF e \in Range(cache) \/ futures[e] = "loaded" THEN 1 ELSE 0

\* A policy has seen bars of its training set only, also when it is the one
\* the folds before trained.
LearntInv ==
  InLoop =>
    /\ trial \in 1 .. Len(Trials)
    /\ DOMAIN futures = Range(task.episodes)
    /\ seen \subseteq AllBars(TrainSet)
    /\ work # "loop" => chosen \in Range(TrainSet)

TInv == TypeOK /\ TaskInv /\ CacheInv /\ LearntInv /\ OverlapIsBounded
=============================================================================
