--------------------------- MODULE MCMarketplace ---------------------------
(* The plugins of MCPluginManager, the two that are not built in coming    *)
(* with one package, and the command line beside the platform.             *)
EXTENDS MCPluginManager, Marketplace

CONSTANT kit

MCPackageOf == [p \in {pa, pc} |-> kit]

\* The commands look neither at dependencies nor, but to fail, at versions: one
\* chain of plugins that suit each other stands for all.
MCChain == [p \in Plugins |-> CASE p = pa -> {pb} [] p = pb -> {pc} [] OTHER -> {}]
MCSurroundings == {<<MCChain, MCMatrix>>}
=============================================================================
