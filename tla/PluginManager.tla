--------------------------- MODULE PluginManager ---------------------------
(***************************************************************************)
(* The plugin platform: PluginManager, BaseRegistry, DependencyResolver    *)
(* and CompatibilityChecker (quant_platform/core), the bootstrap and       *)
(* materialisation of the pipeline (bootstrap.py, runtime.py), and hot     *)
(* reload, enable and disable (quant_platform/marketplace).  All of it     *)
(* runs on the caller's thread: what can go wrong is the order of calls    *)
(* and plugins whose factory raises.                                       *)
(***************************************************************************)
EXTENDS Integers, Sequences, SequencesExt, FiniteSets

CONSTANTS
  Order,       \* the plugins, in the order the registries list them
  GroupOf,     \* Plugins -> registry group
  GroupOrder,  \* PIPELINE_GROUPS
  DepGraphs,   \* the dependency declarations to consider
  BuilderGroup,  \* DATASET_BUILDER_GROUP
  Features,    \* the plugins of FEATURE_GROUP, which is no pipeline group
  Platform,    \* stands for PLATFORM_VERSION
  Matrices,    \* the version matrices to consider
  Builtin,     \* plugins register_pipeline_plugins adds if they are missing
  Required,    \* plugins materialize_runtime resolves
  Cached,      \* plugins with a singleton or scoped life cycle
  Fragile,     \* plugins whose factory may raise
  SafeMode, ResolveGraph,
  MaxCrashes,  \* bound on factories that raise
  MaxEdits,    \* bound on changes to the configuration or to a status
  MaxLoads     \* bound on bootstraps and reloads

Plugins == ToSet(Order)
PipelineGroups == ToSet(GroupOrder)

ASSUME PluginAssumption ==
  /\ Order \in Seq(Plugins) /\ GroupOrder \in Seq(PipelineGroups)
  /\ DepGraphs \subseteq [Plugins -> SUBSET Plugins]
  /\ Matrices \subseteq [Plugins -> SUBSET ({Platform} \cup Plugins \cup Features)]
  /\ Builtin \subseteq Plugins /\ Cached \subseteq Plugins
  /\ Fragile \subseteq Plugins
  /\ Required \subseteq Builtin
  /\ \A p \in Plugins : GroupOf[p] \in PipelineGroups
  /\ {SafeMode, ResolveGraph} \subseteq BOOLEAN
  /\ {MaxCrashes, MaxEdits, MaxLoads} \subseteq Nat

VARIABLES
  deps,        \* PluginMetadata.dependencies
  accepts,     \* of each plugin: whose versions its specifiers match, of the
               \* platform, the dataset builders and the features
  found,       \* plugins discovery finds: what they come with is installed
  context,     \* the builder whose version the last resolution compared with,
               \* and the features that are enabled
  record,      \* of each plugin: absent, enabled, or why it is disabled
  listed,      \* does the configuration give plugins.enabled?
  disabled,    \* plugins.disabled of the configuration file
  allowed,     \* plugins.enabled; every plugin if it is not given
  phase,
  groups,      \* the groups load_pipeline_plugins has not reached
  nodes,       \* the resolver of batch_load: its copy of record
  todo,        \* plugins the current loop has not reached
  instances,   \* the caches of InstanceManager
  handed,      \* plugins handed out by the current load
  loads, crashes, edits

metaVars == <<deps, accepts, found, listed>>
configVars == <<disabled, allowed>>
loopVars == <<phase, groups, nodes, todo>>
vars == <<metaVars, configVars, loopVars, context, record, instances, handed,
          loads, crashes, edits>>

DisableReason ==
  {"user_config", "incompatible_version", "load_crash", "dependency_unmet"}
Record == {"absent", "enabled"} \cup DisableReason

TypeOK ==
  /\ deps \in DepGraphs /\ accepts \in Matrices
  /\ context \in [builder : SUBSET Plugins, features : SUBSET Features]
  /\ found \subseteq Plugins /\ listed \in BOOLEAN
  /\ record \in [Plugins -> Record] /\ nodes \in [Plugins -> Record]
  /\ disabled \subseteq Plugins /\ allowed \subseteq Plugins
  /\ phase \in {"off", "load", "materialize", "running", "failed"}
  /\ groups \in Seq(PipelineGroups)
  /\ todo \subseteq Plugins
  /\ instances \subseteq Cached /\ handed \subseteq Plugins
  /\ loads \in 0 .. MaxLoads /\ crashes \in 0 .. MaxCrashes
  /\ edits \in 0 .. MaxEdits

Init ==
  /\ deps \in DepGraphs /\ accepts \in Matrices
  /\ context = [builder |-> {}, features |-> {}]
  /\ found \in {F \in SUBSET Plugins : Builtin \subseteq F}
  /\ record = [p \in Plugins |-> "absent"] /\ nodes = record
  /\ listed \in BOOLEAN
  /\ disabled \in SUBSET Plugins
  /\ allowed = IF listed THEN Builtin ELSE Plugins
  /\ phase = "off" /\ groups = <<>> /\ todo = {}
  /\ instances = {} /\ handed = {}
  /\ loads = 0 /\ crashes = 0 /\ edits = 0

-----------------------------------------------------------------------------
(* Registration, compatibility and the dependency graph.                   *)

Unwanted == disabled \cup (Plugins \ allowed)

\* PluginManager.discover, and register_pipeline_plugins for what it left
\* out.  A registry outlives its manager, but this is its first bootstrap.
Registered ==
  LET refused == found \cap disabled
  IN  [p \in Plugins |->
         CASE p \in refused -> "user_config"
           [] p \in ((found \cap allowed) \cup Builtin) \ refused -> "enabled"
           [] OTHER -> "absent"]

ActiveBuilder(i, r) ==
  GroupOf[Order[i]] = BuilderGroup /\ r[Order[i]] = "enabled"

\* The first enabled dataset builder of the registry, if there is one.
Lead(r) ==
  {Order[i] : i \in {j \in 1 .. Len(Order) :
                       /\ ActiveBuilder(j, r)
                       /\ \A k \in 1 .. j - 1 : ~ActiveBuilder(k, r)}}

\* build_compatibility_context: nothing a load does changes the features.
ContextOf(r, features) == [builder |-> Lead(r), features |-> features]

\* CompatibilityChecker.is_compatible
Suits(p, c) == {Platform} \cup c.builder \cup c.features \subseteq accepts[p]

\* CompatibilityChecker.enforce_registry
Enforced(r, c) ==
  [p \in Plugins |->
     IF r[p] # "absent" /\ ~Suits(p, c) THEN "incompatible_version" ELSE r[p]]

\* The dependencies of p that are nodes of its group's resolver; the others
\* are ignored.
Known(p, r) == {q \in deps[p] : GroupOf[q] = GroupOf[p] /\ r[q] # "absent"}

\* Mutant: a dependency that is not registered counts as disabled.
UnmetIfAbsent(p, r) ==
  r[p] = "enabled" /\ \E q \in deps[p] : r[q] # "enabled"

Unmet(p, r) ==
  r[p] = "enabled" /\ \E q \in Known(p, r) : r[q] # "enabled"

\* A node's turn, which sees what the turns before it did.
Turn(p, r) ==
  IF Unmet(p, r) THEN [r EXCEPT ![p] = "dependency_unmet"] ELSE r

\* The statuses after each turn of a pass over the nodes.
PassTurns(r) ==
  LET after[i \in 0 .. Len(Order)] ==
        IF i = 0 THEN r ELSE Turn(Order[i], after[i - 1])
  IN  after

CascadePass(r) == PassTurns(r)[Len(Order)]

\* The statuses after each pass.
Passes(r) ==
  LET after[i \in 0 .. Len(Order)] ==
        IF i = 0 THEN r ELSE CascadePass(after[i - 1])
  IN  after

\* Mutant: the dependents of a dependent are not reached.
CascadedOnce(r) == CascadePass(r)

\* DependencyResolver.cascade_disabled: as many passes as there are nodes.
Cascaded(r) == Passes(r)[Len(Order)]

\* Mutant: circles are not detected.
CyclicUnseen(g, r) == FALSE

\* topological_sort raises.
Cyclic(g, r) ==
  \E S \in SUBSET {p \in Plugins : GroupOf[p] = g /\ r[p] # "absent"} :
    S # {} /\ \A p \in S : Known(p, r) \cap S # {}

-----------------------------------------------------------------------------
(* Bootstrap, reload and the loops they end with.                          *)

BeginLoads ==
  /\ phase' = "load" /\ groups' = GroupOrder /\ todo' = {}
  /\ handed' = {} /\ loads' = loads + 1

\* resolve_dependency_graph: one context for all groups, made before the first
\* plugin is disabled, which may be the builder it is taken from.
Resolved(r, features) == Cascaded(Enforced(r, ContextOf(r, features)))

\* Which features are enabled depends on what was registered and enabled
\* outside of the pipeline.
Bootstrap ==
  /\ phase = "off" /\ loads < MaxLoads
  /\ \E F \in SUBSET Features :
       /\ context' = ContextOf(Registered, F)
       /\ record' = IF ResolveGraph THEN Resolved(Registered, F) ELSE Registered
  /\ BeginLoads
  /\ UNCHANGED <<metaVars, configVars, nodes, instances, crashes, edits>>

\* sync_plugin_status_from_config: only what the user disabled is enabled.
Synced ==
  [p \in Plugins |->
     IF record[p] = "absent" THEN "absent"
     ELSE IF p \in Unwanted THEN "user_config"
     ELSE IF record[p] = "user_config" THEN "enabled"
     ELSE record[p]]

\* A reload resolves whatever plugins.resolve_graph says, and once more as a
\* part of the load if it is set.
Reresolve ==
  \E F \in SUBSET Features :
    LET first == Resolved(Synced, F)
    IN  IF ResolveGraph
          THEN context' = ContextOf(first, F) /\ record' = Resolved(first, F)
          ELSE context' = ContextOf(Synced, F) /\ record' = first

\* Mutant: the instances of the old runtime are kept.
ReloadKeepingInstances ==
  /\ phase = "running" /\ loads < MaxLoads
  /\ Reresolve
  /\ BeginLoads
  /\ UNCHANGED <<metaVars, configVars, nodes, instances, crashes, edits>>

\* reload_pipeline_runtime: shutdown of the manager, sync, resolution and a
\* new load.
Reload ==
  /\ phase = "running" /\ loads < MaxLoads
  /\ instances' = {}
  /\ Reresolve
  /\ BeginLoads
  /\ UNCHANGED <<metaVars, configVars, nodes, crashes, edits>>

\* What batch_load leaves of the statuses of its group: the context is made
\* anew, so that a plugin that suited the last resolution may be disabled.
Recheck(r, g) ==
  LET now == Enforced(r, ContextOf(r, context.features))
  IN  [p \in Plugins |-> IF GroupOf[p] = g THEN now[p] ELSE r[p]]

\* batch_load of the next group, up to its loop; a cycle raises to the caller.
BeginGroup ==
  /\ phase = "load" /\ todo = {} /\ groups # <<>>
  /\ LET g == Head(groups)
         r == Recheck(record, g)
     IN  /\ record' = r /\ nodes' = r
         /\ IF Cyclic(g, r)
              THEN phase' = "failed" /\ UNCHANGED todo
              ELSE /\ todo' =
                        {p \in Plugins : GroupOf[p] = g /\ r[p] # "absent"}
                   /\ UNCHANGED phase
  /\ groups' = Tail(groups)
  /\ UNCHANGED <<metaVars, context, configVars, instances, handed, loads,
                 crashes, edits>>

\* Mutant: the life cycle is ignored, every instance is cached.
HandCached(p) ==
  /\ instances' = instances \cup {p}
  /\ handed' = handed \cup {p}
  /\ UNCHANGED <<record, crashes>>

\* PluginManager.get hands out p, creating or reusing its instance.
Hand(p) ==
  /\ instances' = IF p \in Cached THEN instances \cup {p} ELSE instances
  /\ handed' = handed \cup {p}
  /\ UNCHANGED <<record, crashes>>

CanCrash(p) == p \in Fragile \ instances /\ crashes < MaxCrashes

\* The factory of p, or its configuration check, raises in get.
CrashOf(p) ==
  /\ CanCrash(p)
  /\ crashes' = crashes + 1
  /\ record' = IF SafeMode THEN [record EXCEPT ![p] = "load_crash"] ELSE record
  /\ UNCHANGED <<instances, handed>>

\* The load order: any order that puts dependencies first.
Ready(p) == p \in todo /\ Known(p, nodes) \cap todo = {}

SkipDisabled(p) ==
  /\ phase = "load" /\ Ready(p)
  /\ nodes[p] # "enabled"
  /\ todo' = todo \ {p}
  /\ UNCHANGED <<metaVars, context, configVars, phase, groups, nodes, record,
                 instances, handed, loads, crashes, edits>>

LoadPlugin(p) ==
  /\ phase = "load" /\ Ready(p)
  /\ nodes[p] = "enabled"
  /\ Hand(p)
  /\ todo' = todo \ {p}
  /\ UNCHANGED <<metaVars, context, configVars, phase, groups, nodes, loads,
                 edits>>

\* Mutant: a plugin that raises ends the load in safe mode as well.
LoadCrashesAlways(p) ==
  /\ phase = "load" /\ Ready(p)
  /\ nodes[p] = "enabled"
  /\ CrashOf(p)
  /\ phase' = "failed" /\ todo' = {} /\ UNCHANGED nodes
  /\ UNCHANGED <<metaVars, context, configVars, groups, loads, edits>>

\* The handler of batch_load calls cascade_disabled twice on the copy, which
\* has not seen this crash, and applies what the second call returns: nothing,
\* the first has left no node to change.
LoadCrashes(p) ==
  /\ phase = "load" /\ Ready(p)
  /\ nodes[p] = "enabled"
  /\ CrashOf(p)
  /\ IF SafeMode
       THEN /\ todo' = todo \ {p}
            /\ nodes' = IF ResolveGraph THEN Cascaded(nodes) ELSE nodes
            /\ UNCHANGED phase
       ELSE phase' = "failed" /\ todo' = {} /\ UNCHANGED nodes
  /\ UNCHANGED <<metaVars, context, configVars, groups, loads, edits>>

BeginMaterialize ==
  /\ phase = "load" /\ todo = {} /\ groups = <<>>
  /\ phase' = "materialize" /\ todo' = Required
  /\ UNCHANGED <<metaVars, context, configVars, groups, nodes, record,
                 instances, handed, loads, crashes, edits>>

\* materialize_runtime resolves each pipeline plugin; an exception ends the
\* bootstrap or the reload, and the runtime before it is already shut down.
Resolve(p) ==
  /\ phase = "materialize" /\ p \in todo
  /\ record[p] = "enabled"
  /\ Hand(p)
  /\ todo' = todo \ {p}
  /\ UNCHANGED <<metaVars, context, configVars, phase, groups, nodes, loads,
                 edits>>

ResolveRaises(p) ==
  /\ phase = "materialize" /\ p \in todo
  /\ IF record[p] = "enabled"
       THEN CrashOf(p)
       ELSE UNCHANGED <<record, instances, handed, crashes>>
  /\ phase' = "failed" /\ todo' = {}
  /\ UNCHANGED <<metaVars, context, configVars, groups, nodes, loads, edits>>

RuntimeReady ==
  /\ phase = "materialize" /\ todo = {}
  /\ phase' = "running"
  /\ UNCHANGED <<metaVars, context, configVars, groups, nodes, todo, record,
                 instances, handed, loads, crashes, edits>>

-----------------------------------------------------------------------------
(* The application, the marketplace and the operator, between two loads.   *)

Edit == phase = "running" /\ edits < MaxEdits /\ edits' = edits + 1

editVars == <<metaVars, context, loopVars, instances, handed, loads, crashes>>

\* PluginConfigStore.enable_plugin
ConfigEnables(p) ==
  disabled' = disabled \ {p} /\ allowed' = allowed \cup {p}

\* PluginConfigStore.disable_plugin: plugins.enabled is changed if it is given.
ConfigDisables(p) ==
  /\ disabled' = disabled \cup {p}
  /\ allowed' = IF listed THEN allowed \ {p} ELSE allowed

\* MarketplaceService.enable: neither compatibility nor dependencies are
\* looked at; the configuration is written if the caller asks for it.
EnablePlugin(p) ==
  /\ Edit
  /\ record[p] # "absent"
  /\ record' = [record EXCEPT ![p] = "enabled"]
  /\ ConfigEnables(p) \/ UNCHANGED configVars
  /\ UNCHANGED editVars

\* MarketplaceService.disable
DisablePlugin(p) ==
  /\ Edit
  /\ record[p] # "absent"
  /\ record' = [record EXCEPT ![p] = "user_config"]
  /\ ConfigDisables(p) \/ UNCHANGED configVars
  /\ UNCHANGED editVars

\* The operator edits plugins.disabled.
EditConfig ==
  /\ Edit
  /\ disabled' \in SUBSET Plugins
  /\ UNCHANGED <<allowed, record, editVars>>

\* Application code asks for a plugin.
GetPlugin(p) ==
  /\ phase = "running" /\ record[p] = "enabled"
  /\ Hand(p)
  /\ UNCHANGED <<metaVars, context, configVars, loopVars, loads, edits>>

GetCrashes(p) ==
  /\ phase = "running" /\ record[p] = "enabled"
  /\ CrashOf(p)
  /\ UNCHANGED <<metaVars, context, configVars, loopVars, loads, edits>>

LoadStep ==
  \/ BeginGroup \/ BeginMaterialize \/ RuntimeReady
  \/ \E p \in Plugins :
       SkipDisabled(p) \/ LoadPlugin(p) \/ LoadCrashes(p) \/ Resolve(p)
         \/ ResolveRaises(p)

Next ==
  \/ Bootstrap \/ Reload \/ EditConfig \/ LoadStep
  \/ \E p \in Plugins :
       EnablePlugin(p) \/ DisablePlugin(p) \/ GetPlugin(p) \/ GetCrashes(p)

Spec == Init /\ [][Next]_vars

\* A call that has begun runs to its end.
FairSpec == Spec /\ WF_vars(LoadStep)

-----------------------------------------------------------------------------
(* Properties.                                                             *)

Loading == phase \in {"load", "materialize"}

\* An enabled plugin has no disabled dependency in its group.
Closed == \A p \in Plugins : ~Unmet(p, record)

\* The dataset builder is no longer the one the resolution compared with.
BuilderChanged == Lead(record) # context.builder

\* While plugins are loaded, and as long as none of them raises, no enabled
\* plugin depends on a disabled one, through any chain of dependencies, but
\* for what batch_load disables after the cascade: a plugin that suited the
\* builder of the resolution, once that builder is itself disabled.
ResolvedIsClosed ==
  ResolveGraph /\ Loading /\ crashes = 0 =>
    \A p \in Plugins :
      Unmet(p, record)
        => /\ BuilderChanged
           /\ \E q \in Known(p, record) :
                record[q] = "incompatible_version" /\ Suits(q, context)

\* The same without the proviso: "Mark dependents of disabled/failed plugins
\* as dependency_unmet" (cascade_disabled).
FailedIsCascaded == ResolveGraph /\ phase = "materialize" => Closed

\* The first resolution blames a dependency only if there is one to blame.
OnlyDependentsAreUnmet ==
  Loading /\ loads = 1 =>
    \A p \in Plugins :
      record[p] = "dependency_unmet"
        => \E q \in Known(p, record) : record[q] # "enabled"

\* The plugins a load may hand out: not forbidden, and compatible with the
\* platform, the features and the builder of the resolution.
Permitted == {p \in Plugins \ Unwanted : Suits(p, context)}

\* After a reload the running pipeline holds no plugin, handed out or cached,
\* that the configuration it was given forbids or that does not suit the
\* context it was resolved in, in spite of what was enabled, cached and
\* disabled before.
ReloadRespectsConfig ==
  [][RuntimeReady /\ loads > 1 =>
       handed \cup instances \subseteq Permitted]_vars

\* "Load failures disable plugin, platform continues" (README, Safe-mode):
\* the platform does not come up only if one of its own pipeline plugins is
\* not available, or dependencies are declared in a circle.
SafeModeContinues ==
  SafeMode /\ phase = "failed" =>
    \/ \E p \in Required : record[p] # "enabled"
    \/ \E g \in PipelineGroups : Cyclic(g, record)

\* A bootstrap or a reload ends, whatever the dependency graph looks like.
LoadEnds == Loading ~> ~Loading

-----------------------------------------------------------------------------
(* The inductive invariant behind them.                                    *)

\* A reload has closed every door to a forbidden plugin when its load begins:
\* the statuses, the copy the current group is loaded from and the caches.
ReloadIsHonest ==
  Loading /\ loads > 1 =>
    /\ \A p \in Plugins : record[p] = "enabled" => p \in Permitted
    /\ phase = "load" => \A p \in todo : nodes[p] = "enabled" => p \in Permitted
    /\ handed \cup instances \subseteq Permitted

\* As long as no factory raises, whatever does not suit the builder of the
\* resolution is disabled for it, and that builder is still the first one
\* unless it is disabled itself.
EnforcedAlready ==
  ResolveGraph /\ Loading /\ crashes = 0 =>
    /\ Enforced(record, context) = record
    /\ BuilderChanged => \E b \in context.builder : record[b] # "enabled"

LoadsAreOrdered ==
  /\ phase = "off" <=> loads = 0
  /\ phase = "load" => \A p \in todo : record[p] # "absent"
  /\ phase = "materialize" => todo \subseteq Required

PInv ==
  /\ TypeOK
  /\ LoadsAreOrdered
  /\ ReloadIsHonest
  /\ EnforcedAlready
  /\ ResolvedIsClosed
  /\ OnlyDependentsAreUnmet
  /\ SafeModeContinues
=============================================================================
