-------------------------- MODULE MCPluginManager --------------------------
(* Instances of PluginManager for TLC: three plugins of one group, that of *)
(* the dataset builders, under every dependency graph; the first of them   *)
(* may not suit the platform, and the last may accept no builder but the   *)
(* first and no feature.                                                   *)
EXTENDS PluginManager

CONSTANTS pa, pb, pc, g1, g2

MCOrder == <<pa, pb, pc>>
MCGroupOf == [p \in Plugins |-> g1]
MCGroupOrder == <<g1, g2>>

\* Every graph without self-dependencies, circles included.
MCDepGraphs == {d \in [Plugins -> SUBSET Plugins] : \A p \in Plugins : p \notin d[p]}

CONSTANTS feature, platform

MCMatrix == [p \in Plugins |-> {platform, feature} \cup Plugins]
MCUniform == {MCMatrix}
MCMatrices == {MCMatrix, [MCMatrix EXCEPT ![pa] = @ \ {platform},
                                          ![pc] = {platform, pa}]}
=============================================================================
