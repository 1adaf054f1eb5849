------------------------------ MODULE Builders ------------------------------
(* The graphs the pipeline builders compile (features/pipeline.py,          *)
(* strategies/pipeline.py and so on) and the sets of plugins the functions  *)
(* beside them register. A graph is a sequence of moves: a plugin "bound"   *)
(* when the graph was built, a plugin "called" through the manager while it *)
(* runs ("maybe": if there is something to call it for), the builder's      *)
(* "own" reading and emitting, or a "check" that may end the graph.         *)
EXTENDS Catalog, SequencesExt

Moves == [kind : {"bound", "called", "maybe", "own", "check"}, plugin : Described]
Move(kind, p) == [kind |-> kind, plugin |-> p]
Bound(p) == Move("bound", p)
Call(p) == Move("called", p)

\* What a builder does itself: nothing of it is declared, so all of it counts.
Own(reads, emits) ==
  Move("own", Reading(Called("", "builder", UNION {UNION {Range(a) : a \in Range(r)} : r \in reads}, emits),
                      reads, emits))

\* A request in the context, without which the handler raises.
Request(t) == Own({Required(t)}, {})

Bindings(ps) == [i \in DOMAIN ps |-> Bound(ps[i])]
Calls(ps) == [i \in DOMAIN ps |-> Call(ps[i])]

\* build_graph of these resolves every plugin, and the handlers keep them.
FeatureGraph(ps) == Bindings(ps)
NormalizationGraph(ps) == Bindings(ps)
IndicatorGraph(ps) == Bindings(ps)
MarketStructureGraph(ps) == Bindings(ps)
LabelGraph(ps) == Bindings(ps)
ObservationGraph(ps) == Bindings(ps)

\* The handlers of these resolve their plugins when they run.
StrategyGraph(ps) == Append(Calls(ps), Own({}, {"strategy_signals"}))
RewardGraph(ps) == Append(Calls(ps), Own({}, {"reward"}))
ActionGraph(p) == <<Call(p)>>
EnvironmentGraph(p) == <<Call(p)>>

MarketGraph(exchange, broker) ==
  <<Request("market_request"), Call(exchange), Own({}, {"price", "ticker", "klines"}),
    Own({Price, Equity}, {}), Call(broker)>>

\* A check that fails emits a rejected execution_result and nothing follows.
Checked(emits) ==
  Move("check", [Reading(Called("", "builder", {}, emits), {}, emits)
                  EXCEPT !.may = {"execution_result"}])
OrderGraph(execution, risk, portfolio) ==
  <<Request("order"), Call(risk), Checked({"order"}), Call(execution),
    Own({}, {"execution_result"}), Call(portfolio)>>

BacktestGraph(p) ==
  <<Request("backtest_request"), Call(p), Own({}, {"backtest_result", "equity_curve"})>>
PaperTradingGraph(p) ==
  <<Request("paper_trading_request"), Call(p),
    Own({}, {"paper_trading_result", "equity_curve", "portfolio_state"})>>

\* The last of no tickers raises after everything else was emitted.
LastTicker ==
  Move("own", [Reading(Called("", "builder", {}, {"ticker"}), {}, {"ticker"})
                EXCEPT !.raises = BOOLEAN])
LiveTradingGraph(p) ==
  <<Request("live_trading_request"), Call(p),
    Own({}, {"live_trading_result", "equity_curve", "portfolio_state"}), LastTicker>>

EvaluationGraph(ps) ==
  <<Request("evaluation_request")>> \o Append(Calls(ps), Own({}, {"evaluation_results"}))
ConfigurationGraph(p) ==
  <<Request("configuration_request"), Call(p), Own({}, {"validated_config"})>>
TrainingGraph(buffer, algorithm) ==
  <<Request("training_request"), Call(buffer), Call(algorithm), Own({}, {"training_result"})>>

\* extract_metrics_from_context
Metrics == {Optional("equity_curve"), Optional("paper_trading_result"),
            Optional("live_trading_result"), Optional("backtest_result"), Optional("step_pnl")}
ObservabilityGraph(visualization, notifier, monitor) ==
  <<Request("observability_request"), Call(visualization), Move("maybe", notifier),
    Call(monitor), Own(Metrics, {"observability_result"})>>

-----------------------------------------------------------------------------
(* register_feature_plugins and its siblings                               *)

FeaturePlugins == {OhlcFeature, VolumeFeature, AtrFeature, VwapFeature}
NormalizationPlugins == {SymbolNormalizer, ZScoreNormalizer}
IndicatorPlugins == {EmaIndicator, RsiIndicator, MacdIndicator}
MarketStructurePlugins == {BosChoChAnalyzer, FvgAnalyzer, OrderBlockAnalyzer}
LabelPlugins == {DirectionLabel, RegimeLabel}
ObservationPlugins == {CandleObservation, PortfolioObservation, RiskObservation}
RewardPlugins == {ProfitReward, SharpeReward, DrawdownPenalty}
ActionPlugins == {DiscreteAction, ContinuousAction, HybridAction}
EnvironmentPlugins == {SpotEnvironment, FuturesEnvironment}
StrategyPlugins == {RuleBasedStrategy, SmcIctStrategy}
OrderFlowPlugins == {SimulationExecution, FixedRisk, KellyRisk, SingleAssetPortfolio,
                     MultiAssetPortfolio}
MarketPlugins == {BinanceExchange, PaperBroker}
RLCorePlugins == {UniformReplayBuffer, PpoAlgorithm, SacAlgorithm, StandardRlTraining}
EvaluationPlugins == {WalkForwardEval, HoldoutEval}
BacktestingPlugins == {EventDrivenBacktest, VectorizedBacktest}
PaperTradingPlugins == {PaperTradingEngine}
LiveTradingPlugins == {LiveTradingEngine}
ObservabilityPlugins == {EquityCurveViz, SlackNotification, StructlogMonitoring,
                         PrometheusMetrics}
ConfigurationPlugins == {SchemaConfiguration}
PipelineParts == <<BinanceVision, ClickHouse, KlineParser>>
PipelinePlugins == Range(PipelineParts) \cup {KlinesMonthly}

\* DOMAIN_PLUGINS
DomainPlugins ==
  UNION {NormalizationPlugins, IndicatorPlugins, MarketStructurePlugins, LabelPlugins,
         ObservationPlugins, RewardPlugins, ActionPlugins, EnvironmentPlugins, StrategyPlugins,
         OrderFlowPlugins, MarketPlugins, RLCorePlugins, EvaluationPlugins, BacktestingPlugins,
         PaperTradingPlugins, LiveTradingPlugins, ObservabilityPlugins, ConfigurationPlugins}

\* RL_PLUGINS
RLPlugins ==
  {TrainingDataset, EpisodeCachePlugin, SmcBosProb, SmcChochProb, SmcObValidityProb,
   SmcFvgFillProb, RtmSdStrength, RtmSweepProb, RtmCompressionProb, RtmFlipProb,
   IctSessionProb, IctKillzoneProb, IctPremiumDiscountProb, PerceptionCompressorPlugin,
   FeatureGatePlugin, PriceActionObservation, ExecutionModel, RlEnvSpot, RlEnvFutures,
   PpoTorch, OnlineTraining, CurriculumSchedulerPlugin, WalkForwardRLEval, AblationEval,
   PolicyInference, ModelRegistryPlugin, PolicyStrategy}

RegisterFunctions ==
  {FeaturePlugins, NormalizationPlugins, IndicatorPlugins, MarketStructurePlugins, LabelPlugins,
   ObservationPlugins, RewardPlugins, ActionPlugins, EnvironmentPlugins, StrategyPlugins,
   OrderFlowPlugins, MarketPlugins, RLCorePlugins, EvaluationPlugins, BacktestingPlugins,
   PaperTradingPlugins, LiveTradingPlugins, ObservabilityPlugins, ConfigurationPlugins}
=============================================================================
