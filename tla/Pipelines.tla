------------------------------ MODULE Pipelines ------------------------------
(***************************************************************************)
(* Running the graphs of the pipeline builders on one PipelineContext, bar *)
(* after bar, with a PluginManager whose registries discovery and the      *)
(* register functions filled in any order.  A program is the sequence of   *)
(* graphs an application runs for every bar.  Of a payload the model keeps *)
(* the age of the data it was made of: the bar of the oldest envelope it   *)
(* depends on.  An envelope that is not there has age 0.                   *)
(***************************************************************************)
EXTENDS Builders, Integers

CONSTANTS
  Programs,     \* a sequence of programs: sequences of graphs
  MaxBars,      \* bound on the bars an application runs its program for
  MaxDepartures \* bound on the names the configuration excludes and the
                \* envelopes the application leaves out of a bar

\* A program has graphs, and a graph has moves.
ASSUME PipelinesAssumption ==
  /\ MaxBars \in Nat /\ MaxDepartures \in Nat
  /\ Programs \in Seq(Seq(Seq(Moves)))
  /\ \A program \in Range(Programs) : program # <<>> /\ <<>> \notin Range(program)

\* A sequence of what Op makes of the elements of s (a tuple, so that TLC
\* evaluates it once).
OfEach(Op(_), s) == [i \in DOMAIN s |-> Op(s[i])] \o <<>>

\* The moves of the g-th graph of a program.
Placed(moves, g) == OfEach(LAMBDA m : [kind |-> m.kind, plugin |-> m.plugin, graph |-> g], moves)

\* The moves of the first graphs of a program in a row.
Rows(program) ==
  LET row[g \in 0 .. Len(program)] ==
        IF g = 0 THEN <<>> ELSE row[g - 1] \o Placed(program[g], g)
  IN  row

InARow(program) == Rows(program)[Len(program)]
Scripts == OfEach(InARow, Programs)

Key(p) == <<p.group, p.name>>
KeysIn(script) ==
  {Key(m.plugin) : m \in {n \in Range(script) : n.kind \in {"bound", "called", "maybe"}}}
KeysOf == OfEach(KeysIn, Scripts)

TypesRead(p) == UNION {UNION {Range(a) : a \in Range(r)} : r \in p.reads}
TypesIn(script) ==
  UNION {TypesRead(m.plugin) \cup m.plugin.emits \cup m.plugin.may : m \in Range(script)}
TypesOf == OfEach(TypesIn, Scripts)

\* What the application itself has to put into the context.
ExternalIn(script) ==
  UNION {TypesRead(script[i].plugin) \ UNION {script[k].plugin.emits : k \in 1 .. i - 1} :
           i \in DOMAIN script}
ExternalOf == OfEach(ExternalIn, Scripts)

VARIABLES
  job,        \* the program the application runs
  installed,  \* is the distribution installed, so that it has entry points?
  disabled,   \* plugins.disabled
  excluded,   \* the names a list in plugins.enabled leaves out
  record,     \* of each plugin of the program: absent, enabled or why not
  overridden, \* the disabled plugins a register function enabled
  handed,     \* the plugins handed out in the last build and the runs since
  phase, bar,
  omitted,    \* the envelopes the application left out of some bar
  ctx,        \* PipelineContext: type -> age
  start,      \* what ctx was when the bar began
  position,   \* the next move
  carried,    \* the age of the oldest thing the calls of this graph returned
  ran,        \* the moves made for this bar
  emitted,    \* the types emitted for this bar
  error       \* what ended the bar

setupVars == <<job, installed, disabled, excluded>>
registryVars == <<record, overridden, handed>>
runVars == <<ctx, position, carried, ran, emitted, error>>
barVars == <<bar, omitted, start>>
vars == <<setupVars, registryVars, runVars, barVars, phase>>

Script == Scripts[job]
Keys == KeysOf[job]
Names == {k[2] : k \in Keys}
Types == TypesOf[job]
Few(S) == {{}} \cup {Range(f) : f \in [1 .. MaxDepartures -> S]}

TypeOK ==
  /\ job \in DOMAIN Scripts /\ installed \in BOOLEAN
  /\ disabled \subseteq Names /\ excluded \subseteq Names
  /\ record \in [Keys -> {"absent", "enabled", "user_config", "load_crash"}]
  /\ overridden \subseteq Keys /\ handed \subseteq Keys
  /\ phase \in {"setup", "idle", "running", "failed"} /\ bar \in 0 .. MaxBars
  /\ omitted \subseteq ExternalOf[job]
  /\ ctx \in [Types -> 0 .. bar] /\ start \in [Types -> 0 .. bar] /\ carried \in 0 .. bar
  /\ position \in 0 .. Len(Script) /\ (position = 0 <=> phase # "running")
  /\ ran \subseteq DOMAIN Script /\ emitted \subseteq Types
  /\ error \in {"none", "unavailable", "envelope", "raised"}
  /\ phase = "running" => error = "none"

Init ==
  /\ job \in DOMAIN Scripts /\ installed \in BOOLEAN
  /\ disabled \in Few(Names) /\ excluded \in Few(Names)
  /\ Cardinality(disabled) + Cardinality(excluded) <= MaxDepartures
  /\ record = [k \in Keys |-> "absent"] /\ overridden = {} /\ handed = {}
  /\ phase = "setup" /\ bar = 0 /\ omitted = {}
  /\ ctx = [t \in Types |-> 0] /\ start = ctx
  /\ position = 0 /\ carried = 0 /\ ran = {} /\ emitted = {} /\ error = "none"

-----------------------------------------------------------------------------
(* Filling the registries.                                                 *)

\* The packages a scan of quant_platform.plugins finds; the ones below
\* domain and rl are not modules of that package.
TopLevel == {Key(p) : p \in FeaturePlugins \cup PipelinePlugins}

\* The entry point of policy_strategy names a factory whose metadata is of
\* another group, and is passed over.
Found(groups, scanned) ==
  {k \in Keys \ {Key(PolicyStrategyHook)} :
     k[1] \in groups /\ (installed \/ (scanned /\ k \in TopLevel))}

\* Mutant: discovery does not look at plugins.disabled.
AdmittedAnyway(name) == IF name \in excluded THEN "absent" ELSE "enabled"

\* _should_register and _safe_register
Admitted(name) ==
  CASE name \in disabled -> "user_config"
    [] name \in excluded \ disabled -> "absent"
    [] OTHER -> "enabled"

Discovered(groups, scanned) ==
  [k \in Keys |-> IF record[k] = "absent" /\ k \in Found(groups, scanned)
                    THEN Admitted(k[2]) ELSE record[k]]

\* A register function adds what is missing, whatever the configuration says.
Fill(r, ps) ==
  LET added == {k \in Keys : r[k] = "absent" /\ k \in {Key(p) : p \in ps}}
  IN  /\ record' = [k \in Keys |-> IF k \in added THEN "enabled" ELSE r[k]]
      /\ overridden' = overridden \cup {k \in added : k[2] \in disabled}

Discover(group, scanned) ==
  /\ phase = "setup"
  /\ record' = Discovered({group}, scanned)
  /\ UNCHANGED <<setupVars, overridden, handed, runVars, barVars, phase>>

Register(ps) ==
  /\ phase = "setup" /\ Fill(record, ps)
  /\ UNCHANGED <<setupVars, handed, runVars, barVars, phase>>

\* register_pipeline_plugins: the dataset builder is made of the other three,
\* which the manager has to hand out for it.
RegisterPipelinePlugins ==
  LET Refused(p) == Key(p) \in Keys /\ record[Key(p)] \notin {"absent", "enabled"}
      given == {Key(PipelineParts[i]) : i \in {n \in DOMAIN PipelineParts :
                  \A k \in 1 .. n : ~Refused(PipelineParts[k])}}
      broken == \E p \in Range(PipelineParts) : Refused(p)
      needed == Key(KlinesMonthly) \in Keys /\ record[Key(KlinesMonthly)] = "absent"
  IN  /\ phase = "setup"
      /\ Fill(record, Range(PipelineParts) \cup (IF broken THEN {} ELSE {KlinesMonthly}))
      /\ handed' = handed \cup (IF needed THEN given \cap Keys ELSE {})
      /\ phase' = IF needed /\ broken THEN "failed" ELSE phase
      /\ error' = IF needed /\ broken THEN "unavailable" ELSE error
      /\ UNCHANGED <<setupVars, ctx, position, carried, ran, emitted, barVars>>

RegisterDomainPlugins ==
  /\ phase = "setup"
  /\ Fill(Discovered({p.group : p \in DomainPlugins}, FALSE), DomainPlugins)
  /\ UNCHANGED <<setupVars, handed, runVars, barVars, phase>>

RegisterRLProductPlugins ==
  /\ phase = "setup"
  /\ Fill(Discovered({"rl"}, FALSE), RLPlugins \cup {PolicyStrategyHook})
  /\ UNCHANGED <<setupVars, handed, runVars, barVars, phase>>

\* build_graph of every builder of the program: the plugins it binds are
\* taken from the manager one after the other.
Build ==
  LET bound == {i \in DOMAIN Script : Script[i].kind = "bound"}
      refused == {i \in bound : record[Key(Script[i].plugin)] # "enabled"}
  IN  /\ phase = "setup"
      /\ handed' = {Key(Script[i].plugin) : i \in {b \in bound \ refused : \A n \in refused : b < n}}
      /\ phase' = IF refused = {} THEN "idle" ELSE "failed"
      /\ error' = IF refused = {} THEN "none" ELSE "unavailable"
      /\ UNCHANGED <<setupVars, record, overridden, ctx, position, carried, ran, emitted, barVars>>

-----------------------------------------------------------------------------
(* A bar: the application emits what it has and executes its graphs.       *)

NewBar(left) ==
  /\ phase = "idle" /\ bar < MaxBars
  /\ omitted' = omitted \cup left
  /\ Cardinality(disabled) + Cardinality(excluded) + Cardinality(omitted') <= MaxDepartures
  /\ bar' = bar + 1 /\ carried' = bar'
  /\ ctx' = [t \in Types |-> IF t \in ExternalOf[job] \ left THEN bar' ELSE ctx[t]]
  /\ start' = ctx'
  /\ position' = 1 /\ ran' = {} /\ emitted' = {} /\ error' = "none" /\ phase' = "running"
  /\ UNCHANGED <<setupVars, registryVars>>

Present(t) == ctx[t] > 0

\* The storage answers a query when it is asked.
Live == {"indicator_query", "storage_backend"}
Age(t) == IF t \in Live THEN bar ELSE ctx[t]

\* The alternatives of r a handler does not pass over; it takes the first.
Taken(r) == {i \in DOMAIN r : r[i] = <<>> \/ Present(r[i][1])}
ReadFrom(r) == Range(r[Min(Taken(r))])
Readable(r) == Taken(r) # {} /\ \A t \in ReadFrom(r) : Present(t)
Reads(p) == IF \A t \in p.after : Present(t) THEN p.reads ELSE {}
Emits(p) == IF \A t \in p.after : Present(t) THEN p.emits ELSE {}
AllReadable(p) == \A r \in Reads(p) : Readable(r)
Oldest(p) ==
  Min({bar} \cup UNION {{Age(t) : t \in ReadFrom(r)} : r \in Reads(p)})

Builder(m) == m.kind \in {"own", "check"}
Asked(m) == m.kind \in {"called", "maybe"}
Available(m) == Asked(m) => record[Key(m.plugin)] = "enabled"
HandedFor(m) == IF Asked(m) THEN {Key(m.plugin)} ELSE {}

\* CompiledExecutionGraph.execute goes on with move n.
GoOn(n, age) ==
  IF n > Len(Script)
    THEN phase' = "idle" /\ position' = 0 /\ carried' = bar
    ELSE /\ position' = n /\ UNCHANGED phase
         /\ carried' = IF Script[n].graph = Script[position].graph THEN age ELSE bar

\* Mutant: an envelope that is there is not replaced.
EmitAllKept(types, age) ==
  /\ ctx' = [t \in Types |-> IF t \in types /\ ctx[t] = 0 THEN age ELSE ctx[t]]
  /\ emitted' = emitted \cup types
  /\ ran' = ran \cup {position}

EmitAll(types, age) ==
  /\ ctx' = [t \in Types |-> IF t \in types THEN age ELSE ctx[t]]
  /\ emitted' = emitted \cup types
  /\ ran' = ran \cup {position}

Perform(m, more) ==
  LET seen == Min({carried, Oldest(m.plugin)})
  IN  /\ Available(m) /\ AllReadable(m.plugin) /\ FALSE \in m.plugin.raises
      /\ m.kind = "check" => more = {}
      /\ EmitAll(Emits(m.plugin) \cup more, IF Builder(m) THEN seen ELSE Oldest(m.plugin))
      /\ handed' = handed \cup HandedFor(m)
      /\ GoOn(position + 1, IF m.kind = "bound" THEN carried ELSE seen)
      /\ UNCHANGED <<record, error>>

\* There is no message to notify anyone of.
Skip(m) ==
  /\ m.kind = "maybe"
  /\ GoOn(position + 1, carried)
  /\ UNCHANGED <<record, handed, ctx, emitted, ran, error>>

\* The risk plugin says no: nothing else of this graph happens.
Reject(m) ==
  /\ m.kind = "check"
  /\ EmitAll(m.plugin.may, carried)
  /\ GoOn(Min({i \in position + 1 .. Len(Script) + 1 :
                 i \in DOMAIN Script => Script[i].graph # m.graph}), carried)
  /\ UNCHANGED <<record, handed, error>>

\* Mutant: a handler that raises is passed over.
BreakOffIgnored(reason) == error' = reason /\ UNCHANGED <<phase, position, carried>>

\* What raises ends the run; what was emitted stays in the context.
BreakOff(reason) == error' = reason /\ phase' = "idle" /\ position' = 0 /\ carried' = bar

\* The factory of an environment looks for prices: if there are none it is
\* the plugin that failed to load, and the manager disables it for good.
LoadCrash(m) ==
  /\ m.plugin.group = "environments" /\ Available(m) /\ ~AllReadable(m.plugin)
  /\ record' = [record EXCEPT ![Key(m.plugin)] = "load_crash"]
  /\ BreakOff("unavailable")
  /\ UNCHANGED <<handed, ctx, ran, emitted>>

Fail(m) ==
  /\ \/ ~Available(m) /\ BreakOff("unavailable") /\ UNCHANGED handed
     \/ /\ Available(m) /\ ~AllReadable(m.plugin) /\ m.plugin.group # "environments"
        /\ BreakOff("envelope") /\ handed' = handed \cup HandedFor(m)
     \/ /\ Available(m) /\ AllReadable(m.plugin) /\ TRUE \in m.plugin.raises
        /\ BreakOff("raised") /\ handed' = handed \cup HandedFor(m)
  /\ UNCHANGED <<record, ctx, ran, emitted>>

Step ==
  /\ phase = "running"
  /\ LET m == Script[position]
     IN  \/ \E more \in SUBSET m.plugin.may : Perform(m, more)
         \/ Skip(m)
         \/ Reject(m)
         \/ LoadCrash(m)
         \/ Fail(m)
  /\ UNCHANGED <<setupVars, overridden, barVars>>

Next ==
  \/ \E group \in {k[1] : k \in Keys}, scanned \in BOOLEAN : Discover(group, scanned)
  \/ \E ps \in RegisterFunctions : Register(ps)
  \/ RegisterPipelinePlugins
  \/ RegisterDomainPlugins
  \/ RegisterRLProductPlugins
  \/ Build
  \/ \E left \in Few(ExternalOf[job]) : NewBar(left)
  \/ Step

Spec == Init /\ [][Next]_vars

-----------------------------------------------------------------------------
(* Correctness.                                                            *)

\* A plugin named in plugins.disabled is never handed out, whatever is
\* discovered, registered and run in which order, unless a register function
\* got to its registry before discovery did (or discovery, without entry
\* points, never finds it): PluginManager.discover, _safe_register, get and
\* the register functions of every builder. README.md: "Disabled plugins
\* stay registered for DAG visibility but are never instantiated."
DisabledNeverRuns == \A k \in handed : k[2] \in disabled => k \in overridden

\* What the handlers read without their metadata saying so.
Undeclared(p) ==
  CASE p.name = "smc_ict" -> {"ohlc", "klines"}
    [] p.name = "simulation_execution" -> {"equity"}
    [] p.name = "fixed_risk" -> {"equity"}
    [] OTHER -> {}

\* Groups whose plugins return their results instead of emitting what their
\* metadata declares.
Returning == {"risks", "environments", "replay_buffers", "rl_algorithms", "training_pipelines",
              "notifications", "monitoring", "rl"}
Outputs(m) ==
  LET p == m.plugin
  IN  CASE m.kind = "own" -> p.emits
        [] m.kind # "own" /\ (m.kind = "check" \/ p.group \in Returning) -> {}
        [] OTHER -> p.outputs \ p.may

Completed == phase = "idle" /\ bar > 0 /\ error = "none"

\* The declared inputs of this bar's moves that no earlier move produced.
Needed ==
  UNION {(Script[i].plugin.inputs \cup Undeclared(Script[i].plugin))
           \ UNION {Outputs(Script[k]) : k \in {r \in ran : r < i}} : i \in ran}

\* Each of them was of this bar when the bar began, or absent.
Foreseen == \A t \in Needed \cap Types : t \in Live \/ start[t] \in {0, bar}

\* The metadata of the plugins is enough to schedule them: when every
\* declared input that the moves of a bar did not produce themselves was of
\* this bar or absent, then everything emitted is made of this bar's data
\* alone, through any number of plugins and graphs, and what the plugins
\* declare to emit was emitted. It is about every handler together with its
\* PLUGIN_METADATA, the resolve_* functions and the order of the builders'
\* graphs; Undeclared and Returning are the plugins whose metadata is wrong.
FreshRun ==
  Completed /\ Foreseen => /\ \A t \in emitted : ctx[t] = bar
                           /\ \A i \in ran : Outputs(Script[i]) \subseteq emitted

-----------------------------------------------------------------------------
(* A condition on a script s, that is on metadata, handlers and graphs, under *)
(* which its runs are fresh.                                                *)

\* The moves of its graph that have been made when it is the turn of move n,
\* and what they have emitted at any rate.
Before(s, n) == {k \in 1 .. n - 1 : s[k].graph = s[n].graph /\ s[k].kind # "maybe"}
Certain(s, n) ==
  UNION {s[k].plugin.emits : k \in {i \in Before(s, n) : s[i].plugin.after = {}}}

\* The moves from the n-th on that emit, after move k and without a check in
\* between that could end the graph, and what of it move k has declared.
Payers(s, k, n) ==
  {j \in n .. Len(s) : /\ k <= j /\ s[j].graph = s[k].graph
                       /\ j = k \/ s[j].kind # "maybe"
                       /\ s[j].plugin.after \subseteq Certain(s, j)
                       /\ \A i \in k + 1 .. j : s[i].kind # "check"}
Due(s, k, n) == Outputs(s[k]) \cap UNION {s[j].plugin.emits : j \in Payers(s, k, n)}

\* Whatever a harmless move reads gets nowhere.
Harmless(s, n) ==
  /\ s[n].plugin.emits \cup s[n].plugin.may = {}
  /\ \A j \in n + 1 .. Len(s) : s[j].graph = s[n].graph => ~Builder(s[j])

\* What a move reads was emitted before it or is declared by a move that has
\* been made, and is not what the graph has still to emit.
ReadsDeclared(s, n) ==
  LET unsure == TypesRead(s[n].plugin) \ (Certain(s, n) \cup Live)
  IN  /\ unsure \subseteq UNION {s[k].plugin.inputs \cup Undeclared(s[k].plugin) :
                                k \in Before(s, n) \cup {n}}
      /\ \A k \in 1 .. n - 1 : unsure \cap Due(s, k, n) = {}

WellDeclared(s) ==
  \A n \in DOMAIN s :
    /\ Outputs(s[n]) \subseteq Due(s, n, n)
    /\ Harmless(s, n) \/ ReadsDeclared(s, n)

-----------------------------------------------------------------------------
(* The inductive invariant behind DisabledNeverRuns: not only what was      *)
(* handed out but what could be.                                            *)

EnabledIsAllowed ==
  \A k \in Keys : record[k] = "enabled" /\ k[2] \in disabled => k \in overridden

PipeInv == TypeOK /\ EnabledIsAllowed /\ DisabledNeverRuns

-----------------------------------------------------------------------------
(* The inductive invariant behind FreshRun: what is known while a bar runs.  *)

\* Which moves have been made for sure, and where every envelope came from.
Settled ==
  /\ ran \subseteq 1 .. position - 1
  /\ \A k \in Before(Script, position) :
       k \in ran /\ (Script[k].plugin.after = {} => Script[k].plugin.emits \subseteq emitted)
  /\ \A t \in Types \ emitted : ctx[t] = start[t]

\* Everything emitted is fresh, what the graph still makes of the results it
\* was given will be, and what was declared has been emitted or will be.
FreshSoFar ==
  /\ \A t \in emitted : ctx[t] = bar
  /\ \/ carried = bar
     \/ \A j \in position .. Len(Script) :
          Script[j].graph = Script[position].graph => ~Builder(Script[j])
  /\ \A k \in ran : Outputs(Script[k]) \subseteq emitted \cup Due(Script, k, position)

FlowInv ==
  /\ phase = "setup" => bar = 0
  /\ phase = "running" => bar > 0 /\ Settled /\ (Foreseen => FreshSoFar)
  /\ FreshRun
=============================================================================
