----------------------------- MODULE MCPlatform -----------------------------
(* Every builder with every plugin it can be given, every plugin of the    *)
(* RL product and of the import pipeline alone, and the programs of several *)
(* graphs that hand envelopes on to one another.                           *)
EXTENDS Platform

Alone(Graph(_), ps) == {<<Graph(p)>> : p \in ps}
Single(Graph(_), ps) == {<<Graph(<<p>>)>> : p \in ps}

OneGraph ==
  UNION {Single(FeatureGraph, FeaturePlugins), Single(NormalizationGraph, NormalizationPlugins),
         Single(IndicatorGraph, IndicatorPlugins),
         Single(MarketStructureGraph, MarketStructurePlugins),
         Single(LabelGraph, LabelPlugins), Single(ObservationGraph, ObservationPlugins),
         Single(StrategyGraph, StrategyPlugins \cup {PolicyStrategyHook}),
         Single(RewardGraph, RewardPlugins), Single(EvaluationGraph, EvaluationPlugins),
         Alone(ActionGraph, ActionPlugins), Alone(EnvironmentGraph, EnvironmentPlugins),
         Alone(BacktestGraph, BacktestingPlugins), Alone(PaperTradingGraph, PaperTradingPlugins),
         Alone(LiveTradingGraph, LiveTradingPlugins),
         Alone(ConfigurationGraph, ConfigurationPlugins),
         {<<OrderGraph(SimulationExecution, r, p)>> :
            r \in {FixedRisk, KellyRisk}, p \in {SingleAssetPortfolio, MultiAssetPortfolio}},
         {<<MarketGraph(BinanceExchange, PaperBroker)>>},
         {<<TrainingGraph(UniformReplayBuffer, a)>> : a \in {PpoAlgorithm, SacAlgorithm}},
         {<<ObservabilityGraph(EquityCurveViz, SlackNotification, m)>> :
            m \in {StructlogMonitoring, PrometheusMetrics}},
         {<< <<Call(p)>> >> : p \in RLPlugins \cup {StandardRlTraining}},
         {<<Append(Calls(PipelineParts), Call(KlinesMonthly))>>}}

SeveralGraphs ==
  { <<FeatureGraph(<<OhlcFeature, AtrFeature>>), IndicatorGraph(<<EmaIndicator, RsiIndicator>>),
      StrategyGraph(<<RuleBasedStrategy>>), ActionGraph(DiscreteAction)>>,
    <<NormalizationGraph(<<SymbolNormalizer>>),
      MarketStructureGraph(<<BosChoChAnalyzer, FvgAnalyzer, OrderBlockAnalyzer>>),
      StrategyGraph(<<SmcIctStrategy, RuleBasedStrategy>>)>>,
    <<OrderGraph(SimulationExecution, FixedRisk, SingleAssetPortfolio),
      RewardGraph(<<ProfitReward>>), ObservationGraph(<<PortfolioObservation, RiskObservation>>)>>,
    <<PaperTradingGraph(PaperTradingEngine),
      ObservabilityGraph(EquityCurveViz, SlackNotification, StructlogMonitoring)>>,
    <<BacktestGraph(EventDrivenBacktest), RewardGraph(<<SharpeReward, DrawdownPenalty>>)>> }

MCPrograms == FoldSet(LAMBDA p, seq : Append(seq, p), <<>>, OneGraph \cup SeveralGraphs)

\* With these plugins what the theorem RunsAreFresh asks of the metadata, the
\* handlers and the graphs is so.
ASSUME Declared == \A j \in DOMAIN Scripts : WellDeclared(Scripts[j])

\* The first episode is a wild one, later ones are quiet.
MCVolatilities == {[e \in 0 .. 6 |-> IF e \in {1, 2, 4} THEN 1 ELSE 2]}
MCCurricula ==
  {<<>>, <<[percentile |-> 40, timesteps |-> 2], [percentile |-> 100, timesteps |-> 0]>>}
=============================================================================
