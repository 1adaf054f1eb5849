------------------------------ MODULE Catalog ------------------------------
(* The plugins of quant_platform/plugins: what the metadata of each says it *)
(* reads and emits (input_types, output_types), and what its handler does   *)
(* read from and emit into the PipelineContext. Where a handler accepts one *)
(* of several envelopes, the resolve_* functions decide which: a resolver   *)
(* is the sequence of its alternatives, each a sequence of types whose      *)
(* first one decides that the alternative is taken. The empty alternative   *)
(* is a default that reads nothing. An envelope whose payload has nothing   *)
(* to say (an empty list of signals, a state that is no dictionary) is an   *)
(* absent one.                                                              *)
EXTENDS Sequences

Required(t) == << <<t>> >>
Optional(t) == << <<t>>, <<>> >>

\* resolve_klines: a query is answered by the storage, or else fails.
Klines == << <<"indicator_query", "storage_backend">>, <<"klines">> >>
\* resolve_closes and resolve_bars prefer the bars a feature derived.
Closes == << <<"ohlc">> >> \o Klines
Bars == << <<"ohlc">> >> \o Klines
Price == << <<"price">>, <<"ohlc">> >> \o Klines
Equity == << <<"portfolio_state">>, <<"equity">>, <<>> >>
Exposure == Optional("portfolio_state")
TradeStats == Optional("trade_stats")
Returns == << <<"returns">>, <<"equity_curve">> >> \o Klines
EquitySeries == << <<"equity_curve">>, <<"portfolio_state">>, <<>> >>
EnvironmentPrices == << <<"klines">> >> \o Klines
StepPnl == << <<"step_pnl">>, <<"pnl">>, <<"portfolio_state">>, <<>> >>
Side == << <<"policy_probs">>, <<"strategy_signals">>, <<"action_override">>, <<>> >>
Size == << <<"policy_mean">>, <<"action_override">>, <<>> >>
\* resolve_price(self._prices): the broker of several symbols' prices.
FillPrice == << <<"prices">> >> \o Price

\* What is said of a plugin.
Described ==
  [name : STRING, group : STRING, inputs : SUBSET STRING, outputs : SUBSET STRING,
   reads : SUBSET Seq(Seq(STRING)), emits : SUBSET STRING, may : SUBSET STRING,
   after : SUBSET STRING, raises : SUBSET BOOLEAN]

\* A plugin that is called with arguments: its handler leaves the context alone.
Called(name, group, inputs, outputs) ==
  [name |-> name, group |-> group, inputs |-> inputs, outputs |-> outputs,
   reads |-> {}, emits |-> {}, may |-> {}, after |-> {}, raises |-> {FALSE}]

\* A plugin whose handler works on the context.
Reading(p, reads, emits) == [p EXCEPT !.reads = reads, !.emits = emits]

-----------------------------------------------------------------------------
(* platform.features, platform.normalizations                              *)

OhlcFeature == Reading(Called("ohlc_feature", "features", {"klines"}, {"ohlc"}),
                       {Required("klines")}, {"ohlc"})
VolumeFeature == Reading(Called("volume_feature", "features", {"klines"}, {"volume"}),
                         {Required("klines")}, {"volume"})
AtrFeature == Reading(Called("atr_feature", "features", {"klines"}, {"atr"}),
                      {Required("klines")}, {"atr"})
VwapFeature == Reading(Called("vwap_feature", "features", {"klines"}, {"vwap"}),
                       {Required("klines")}, {"vwap"})

SymbolNormalizer == Reading(Called("symbol_normalizer", "normalizations", {"klines"}, {"klines"}),
                            {Required("klines")}, {"klines"})
ZScoreNormalizer == Reading(Called("z_score", "normalizations", {"klines"}, {"z_score"}),
                            {Required("klines")}, {"z_score"})

(* platform.indicators, platform.market_structures, platform.labels        *)

EmaIndicator == Reading(Called("ema_indicator", "indicators", {"klines", "ohlc"}, {"ema"}),
                        {Closes}, {"ema"})
RsiIndicator == Reading(Called("rsi_indicator", "indicators", {"klines", "ohlc"}, {"rsi"}),
                        {Closes}, {"rsi"})
MacdIndicator == Reading(Called("macd_indicator", "indicators", {"klines", "ohlc"}, {"macd"}),
                         {Closes}, {"macd"})

BosChoChAnalyzer ==
  Reading(Called("bos_choch", "market_structures", {"klines", "ohlc"}, {"market_structure"}),
          {Bars}, {"market_structure"})
FvgAnalyzer == Reading(Called("fvg", "market_structures", {"klines", "ohlc"}, {"fvg"}),
                       {Bars}, {"fvg"})
OrderBlockAnalyzer ==
  Reading(Called("order_blocks", "market_structures", {"klines", "ohlc"}, {"order_blocks"}),
          {Bars}, {"order_blocks"})

DirectionLabel ==
  Reading(Called("direction_label", "labels", {"klines", "ohlc"}, {"direction_labels"}),
          {Closes}, {"direction_labels"})
RegimeLabel == Reading(Called("regime_label", "labels", {"klines", "ohlc"}, {"regime_labels"}),
                       {Closes}, {"regime_labels"})

(* platform.observations, platform.rewards, platform.actions               *)

CandleObservation ==
  Reading(Called("candle_observation", "observations", {"klines", "ohlc"}, {"candle_observation"}),
          {Bars}, {"candle_observation"})
PortfolioObservation ==
  Reading(Called("portfolio_observation", "observations", {"portfolio_state"},
                 {"portfolio_observation"}),
          {Optional("portfolio_state")}, {"portfolio_observation"})
\* A risk_state in the context is passed on and nothing else is looked at.
RiskFigures == << <<"risk_state">>, <<"portfolio_state">>, <<>> >>
Volatility == << <<"risk_state">>, <<"atr">>, <<>> >>
RiskObservation ==
  Reading(Called("risk_observation", "observations", {"portfolio_state", "atr", "risk_state"},
                 {"risk_observation"}),
          {RiskFigures, Volatility}, {"risk_observation"})

ProfitReward == Reading(Called("profit_reward", "rewards", {"pnl", "step_pnl", "portfolio_state"},
                               {"reward"}), {StepPnl}, {})
SharpeReward == Reading(Called("sharpe_reward", "rewards", {"returns", "equity_curve", "klines"},
                               {"reward"}), {Returns}, {})
DrawdownPenalty == Reading(Called("drawdown_penalty", "rewards",
                                  {"equity_curve", "portfolio_state"}, {"reward"}),
                           {EquitySeries}, {})

DiscreteAction ==
  Reading(Called("discrete_action", "actions",
                 {"policy_probs", "strategy_signals", "action_override"}, {"action"}),
          {Side}, {"action"})
ContinuousAction ==
  Reading(Called("continuous_action", "actions", {"policy_mean", "action_override"}, {"action"}),
          {Size}, {"action"})
HybridAction ==
  Reading(Called("hybrid_action", "actions",
                 {"policy_probs", "policy_mean", "strategy_signals", "action_override"},
                 {"action"}),
          {Side, Size}, {"action"})

(* platform.environments: the factory looks for prices; nothing is emitted *)

SpotEnvironment == Reading(Called("spot_env", "environments", {"klines"},
                                  {"observation", "reward"}), {EnvironmentPrices}, {})
FuturesEnvironment == Reading(Called("futures_env", "environments", {"klines"},
                                     {"observation", "reward"}), {EnvironmentPrices}, {})

(* platform.strategies                                                     *)

RuleBasedStrategy ==
  Reading(Called("rule_based", "strategies", {"klines", "ohlc", "ema", "rsi"},
                 {"strategy_signals"}),
          {Closes, Optional("ema"), Optional("rsi")}, {"strategy_signals"})
\* current_bar_index counts closes, which the metadata does not mention.
SmcIctStrategy ==
  Reading(Called("smc_ict", "strategies", {"market_structure", "fvg", "order_blocks"},
                 {"strategy_signals"}),
          {Optional("market_structure"), Optional("fvg"), Optional("order_blocks"), Closes},
          {"strategy_signals"})
\* The hook of the RL product. Its factory loads a policy only from a keyword
\* a registry never passes, and a new instance is made for every get: what
\* the manager hands out is never loaded, and on_bar raises.
PolicyStrategyHook ==
  [Called("policy_strategy", "strategies", {"checkpoint_path", "training_config", "klines"},
          {"strategy_signals"}) EXCEPT !.raises = {TRUE}]

(* platform.executions, platform.risks, platform.portfolios                *)

SimulationExecution ==
  Reading(Called("simulation_execution", "executions",
                 {"order", "klines", "ohlc", "price", "portfolio_state"}, {"execution_result"}),
          {Price, Equity}, {"execution_result"})

FixedRisk == Reading(Called("fixed_risk", "risks", {"portfolio_state", "order"}, {"risk_state"}),
                     {Equity, Exposure}, {})
KellyRisk == Reading(Called("kelly_risk", "risks", {"portfolio_state", "trade_stats", "order"},
                            {"risk_state"}), {TradeStats, Exposure}, {})

\* Nothing happens before there is an execution_result.
SingleAssetPortfolio ==
  [Reading(Called("single_asset", "portfolios",
                  {"execution_result", "portfolio_state", "klines", "price"},
                  {"portfolio_state", "step_pnl"}),
           {Required("execution_result"), Price}, {"portfolio_state", "step_pnl"})
    EXCEPT !.after = {"execution_result"}]
MultiAssetPortfolio ==
  [Reading(Called("multi_asset", "portfolios",
                  {"execution_result", "portfolio_state", "klines", "price", "prices"},
                  {"portfolio_state", "step_pnl"}),
           {Required("execution_result"), FillPrice}, {"portfolio_state", "step_pnl"})
    EXCEPT !.after = {"execution_result"}]

(* platform.exchanges, platform.brokers                                    *)

\* Requests over the network, which may fail.
BinanceExchange ==
  [Called("binance_exchange", "exchanges", {"symbol", "timeframe"}, {"ticker", "klines", "price"})
    EXCEPT !.raises = BOOLEAN]
\* The defaults of get() are evaluated even when the order carries a price.
\* An order to hold is skipped, and there is no execution_result.
PaperBroker ==
  [Reading(Called("paper_broker", "brokers", {"order", "price", "portfolio_state", "equity"},
                  {"broker_result", "execution_result"}),
           {Price, Equity}, {"broker_result"})
    EXCEPT !.may = {"execution_result"}]

(* platform.replay_buffers, platform.rl_algorithms, platform.training_pipelines *)

UniformReplayBuffer == Called("uniform_buffer", "replay_buffers", {"transition"}, {"replay_batch"})
PpoAlgorithm == Called("ppo", "rl_algorithms", {"replay_batch"}, {"training_metrics"})
SacAlgorithm == Called("sac", "rl_algorithms", {"replay_batch"}, {"training_metrics"})
StandardRlTraining == Called("standard_rl_train", "training_pipelines",
                             {"transitions", "training_config"}, {"training_result"})

(* platform.evaluation_pipelines, platform.backtesting, sessions           *)

WalkForwardEval == Called("walk_forward", "evaluation_pipelines", {"model", "returns", "series"},
                          {"evaluation_results"})
HoldoutEval == Called("holdout_eval", "evaluation_pipelines", {"model", "returns", "series"},
                      {"evaluation_results"})
EventDrivenBacktest == Called("event_driven", "backtesting", {"strategy", "klines", "bars"},
                              {"backtest_result", "equity_curve"})
VectorizedBacktest == Called("vectorized", "backtesting", {"strategy", "klines", "bars"},
                             {"backtest_result", "equity_curve"})
PaperTradingEngine ==
  Called("paper_engine", "paper_trading", {"strategy", "klines", "bars", "portfolio_state"},
         {"paper_trading_result", "equity_curve", "portfolio_state"})
LiveTradingEngine ==
  [Called("live_engine", "live_trading", {"strategy", "exchange", "ticker", "klines"},
          {"live_trading_result", "equity_curve", "portfolio_state"}) EXCEPT !.raises = BOOLEAN]

(* platform.visualizations, notifications, monitoring and configurations   *)

EquityCurveViz ==
  Reading(Called("equity_curve", "visualizations",
                 {"equity_curve", "backtest_result", "paper_trading_result"}, {"visualization"}),
          {Optional("equity_curve")}, {"visualization"})
SlackNotification == Called("slack_notifier", "notifications", {"message"}, {"notification_result"})
StructlogMonitoring == Called("structlog_monitoring", "monitoring", {"metrics"},
                              {"monitoring_events"})
PrometheusMetrics == Called("prometheus_metrics", "monitoring", {"metrics"},
                            {"prometheus_metrics"})
SchemaConfiguration == Called("schema_config", "configurations", {"configuration_request"},
                              {"validated_config"})

-----------------------------------------------------------------------------
(* platform.rl: everything takes arguments                                 *)

TrainingDataset == Called("training_dataset", "rl", {"training_config", "storage_backend"},
                          {"episodes"})
EpisodeCachePlugin == Called("episode_cache", "rl", {"episodes"}, {"episode"})

\* build_hint_plugin
Hint(name) == Called(name, "rl", {"klines", "bars"}, {"perception_hint"})
SmcBosProb == Hint("smc_bos_prob")
SmcChochProb == Hint("smc_choch_prob")
SmcObValidityProb == Hint("smc_ob_validity_prob")
SmcFvgFillProb == Hint("smc_fvg_fill_prob")
RtmSdStrength == Hint("rtm_sd_strength")
RtmSweepProb == Hint("rtm_sweep_prob")
RtmCompressionProb == Hint("rtm_compression_prob")
RtmFlipProb == Hint("rtm_flip_prob")
IctSessionProb == Hint("ict_session_prob")
IctKillzoneProb == Hint("ict_killzone_prob")
IctPremiumDiscountProb == Hint("ict_premium_discount_prob")

PerceptionCompressorPlugin == Called("perception_compressor", "rl",
                                     {"perception_hints", "klines"}, {"context_vector"})
FeatureGatePlugin == Called("feature_gate", "rl", {"context_vector"}, {"gated_context"})
PriceActionObservation == Called("price_action_observation", "rl", {"klines", "portfolio_state"},
                                 {"observation_vector"})
ExecutionModel == Called("execution_model", "rl", {"order", "market_state"}, {"fill_result"})
RlEnvSpot == Called("rl_env_spot", "rl", {"episode", "training_config"}, {"rl_env"})
RlEnvFutures == Called("rl_env_futures", "rl", {"episode", "training_config"}, {"rl_env"})
PpoTorch == Called("ppo_torch", "rl", {"rollout_batch", "training_config"},
                   {"training_metrics", "policy_checkpoint"})
\* These train, and raise on too few episodes.
OnlineTraining == [Called("online_training", "rl", {"training_config", "episodes"},
                          {"training_metrics"}) EXCEPT !.raises = BOOLEAN]
CurriculumSchedulerPlugin == Called("curriculum_scheduler", "rl", {"episodes", "training_config"},
                                    {"filtered_episodes"})
WalkForwardRLEval == [Called("walk_forward_rl_eval", "rl", {"training_config", "episodes"},
                             {"evaluation_results"}) EXCEPT !.raises = BOOLEAN]
AblationEval == [Called("ablation_eval", "rl", {"training_config", "episodes"},
                        {"ablation_results", "leakage_results"}) EXCEPT !.raises = BOOLEAN]
PolicyInference == Called("policy_inference", "rl", {"checkpoint_path", "training_config"},
                          {"policy_engine"})
ModelRegistryPlugin == Called("model_registry", "rl", {"checkpoint_path", "model_id"},
                              {"model_record"})
PolicyStrategy == Called("policy_strategy", "rl",
                         {"checkpoint_path", "training_config", "klines"}, {"strategy_signals"})

(* The platform.* groups of the import pipeline declare no envelopes.      *)

BinanceVision == Called("binance_vision", "data_providers", {}, {})
ClickHouse == Called("clickhouse", "storage_backends", {}, {})
KlineParser == Called("binance_kline_csv", "parsers", {}, {})
KlinesMonthly == Called("binance_klines_monthly", "dataset_builders", {}, {})
=============================================================================
