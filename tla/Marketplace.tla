---------------------------- MODULE Marketplace ----------------------------
(***************************************************************************)
(* The quant-plugins command line (quant_platform/marketplace) beside a    *)
(* platform that is started, runs and reloads.  A command is a process of  *)
(* its own: pip changes the packages, the registry of the process learns   *)
(* what they bring, and the record file is rewritten, one after the other  *)
(* and none of them undone.  The two processes meet in the packages, which *)
(* the platform discovers when it is started, and in the configuration,    *)
(* which it reads again at a reload.  Every version of a package brings    *)
(* the same plugins; commands do not overlap.                              *)
(***************************************************************************)
EXTENDS PluginManager

CONSTANTS
  PackageOf,     \* the plugins that come with a package -> that package
  Surroundings,  \* bound: the dependency graphs and version matrices commands
                 \* are run with
  MaxCommands    \* bound on the install, update and remove commands

VARIABLES
  tracked,   \* the record file: the plugins it lists as installed
  command,   \* what runs, and the steps it still has to do
  widowed,   \* history: listed plugins that lost their package to the removal
             \* of another plugin of it
  commands

marketVars == <<tracked, command, widowed, commands>>

Packaged == DOMAIN PackageOf
BroughtBy(k) == {p \in Packaged : PackageOf[p] = k}

ASSUME MarketAssumption ==
  /\ Packaged \subseteq Plugins \ Builtin
  /\ Surroundings \subseteq DepGraphs \X Matrices /\ MaxCommands \in Nat

Scopes == {PipelineGroups} \cup {{g} : g \in PipelineGroups}

Idle == [op |-> "idle"]

\* Mutant: remove uninstalls the package before it forgets the plugin.
StepsUninstallFirst ==
  [install |-> <<"pip", "register", "record">>,
   update  |-> <<"pip", "register", "record">>,
   remove  |-> <<"pip", "unrecord">>]

\* The order of MarketplaceService.install, update and remove.
Steps == [install |-> <<"pip", "register", "record">>,
          update  |-> <<"pip", "register", "record">>,
          remove  |-> <<"unrecord", "pip">>]

StepNames == {"pip", "register", "record", "unrecord"}

Commands ==
  [op : DOMAIN Steps, package : {PackageOf[p] : p \in Packaged}, scope : Scopes,
   before : SUBSET Plugins, left : SUBSET Packaged, steps : Seq(StepNames)]

MarketTypeOK ==
  /\ TypeOK
  /\ tracked \subseteq Packaged /\ widowed \subseteq tracked
  /\ commands \in 0 .. MaxCommands
  /\ command # Idle => command \in Commands /\ command.steps # <<>>

\* Packages may have been installed by hand.
MarketInit ==
  /\ Init
  /\ \A p \in Packaged : p \in found <=> BroughtBy(PackageOf[p]) \subseteq found
  /\ Plugins \ Packaged \subseteq found
  /\ <<deps, accepts>> \notin Surroundings => found = Plugins
  /\ tracked = {} /\ widowed = {} /\ command = Idle /\ commands = 0

-----------------------------------------------------------------------------
(* Commands.  build_service has discovered every plugin that is found.     *)

Begin(op, k, scope, left, steps) ==
  /\ <<deps, accepts>> \in Surroundings
  /\ command = Idle /\ commands < MaxCommands
  /\ commands' = commands + 1
  /\ command' = [op |-> op, package |-> k, scope |-> scope, before |-> found,
                 left |-> left, steps |-> steps]
  /\ UNCHANGED <<vars, tracked, widowed>>

InstallPackage(k, scope) == Begin("install", k, scope, {}, Steps.install)

UpdatePlugin(p) ==
  /\ p \in found \cap tracked
  /\ Begin("update", PackageOf[p], {GroupOf[p]}, {p}, Steps.update)

\* With --keep-package nothing is uninstalled.
RemovePlugin(p, keep) ==
  /\ p \in found
  /\ Begin("remove", PackageOf[p], {GroupOf[p]}, {p},
           IF keep THEN <<"unrecord">> ELSE Steps.remove)

AtStep(s) == command # Idle /\ Head(command.steps) = s

\* The command goes on with its next step, or ends.
Proceed(c) ==
  command' = IF Tail(c.steps) = <<>> THEN Idle
                                     ELSE [c EXCEPT !.steps = Tail(c.steps)]

\* PipRunner: the plugins a package brings come and go together.
Pip ==
  /\ AtStep("pip")
  /\ LET brought == BroughtBy(command.package)
     IN  IF command.op = "remove"
           THEN /\ found' = found \ brought
                /\ widowed' = widowed \cup ((tracked \cap brought) \ command.left)
           ELSE found' = found \cup brought /\ UNCHANGED widowed
  /\ Proceed(command)
  /\ UNCHANGED <<deps, accepts, listed, context, configVars, loopVars,
                 record, instances, handed, loads, crashes, edits, tracked,
                 commands>>

\* What discovery registers: every plugin found, in the groups of the command.
InScope == {p \in found : GroupOf[p] \in command.scope}

\* Discovery and the compatibility check.  An install is about the plugins
\* that were not there when it began; if there are none it is an error.
Register ==
  /\ AtStep("register")
  /\ LET left == IF command.op = "install" THEN InScope \ command.before
                                            ELSE command.left
     IN  IF left = {} THEN command' = Idle
                      ELSE Proceed([command EXCEPT !.left = left])
  /\ UNCHANGED <<vars, tracked, widowed, commands>>

\* InstalledPluginStore.add, once for each plugin.
RecordPlugin(p) ==
  /\ AtStep("record") /\ p \in command.left
  /\ tracked' = tracked \cup {p} /\ widowed' = widowed \ {p}
  /\ IF command.left = {p} THEN Proceed(command)
                           ELSE command' = [command EXCEPT !.left = @ \ {p}]
  /\ UNCHANGED <<vars, commands>>

\* InstalledPluginStore.remove; a plugin that was not listed keeps its package.
Unrecord ==
  /\ AtStep("unrecord")
  /\ tracked' = tracked \ command.left /\ widowed' = widowed \ command.left
  /\ IF command.left \subseteq tracked THEN Proceed(command) ELSE command' = Idle
  /\ UNCHANGED <<vars, commands>>

\* pip fails, a manifest does not fit, or the process is killed.  The record
\* file is emptied before it is written: a kill in between leaves it so.
Broken ==
  /\ command # Idle
  /\ command' = Idle
  /\ \/ UNCHANGED <<tracked, widowed>>
     \/ /\ AtStep("record") \/ AtStep("unrecord")
        /\ tracked' = {} /\ widowed' = {}
  /\ UNCHANGED <<vars, commands>>

\* quant-plugins enable and disable: the platform that runs is not told, only
\* the file is changed.
EnableCommand(p) ==
  /\ Edit /\ p \in found
  /\ ConfigEnables(p)
  /\ UNCHANGED <<record, editVars, marketVars>>

DisableCommand(p) ==
  /\ Edit /\ p \in found
  /\ ConfigDisables(p)
  /\ UNCHANGED <<record, editVars, marketVars>>

Command ==
  \/ Pip \/ Register \/ Unrecord \/ Broken
  \/ \E k \in {PackageOf[p] : p \in Packaged}, s \in Scopes : InstallPackage(k, s)
  \/ \E p \in Packaged : \/ UpdatePlugin(p) \/ RecordPlugin(p)
                         \/ \E keep \in BOOLEAN : RemovePlugin(p, keep)
  \/ \E p \in Plugins : EnableCommand(p) \/ DisableCommand(p)

MarketNext == Command \/ (Next /\ UNCHANGED marketVars)

marketAll == <<vars, marketVars>>

\* A call of the platform that has begun runs to its end.
MarketSpec ==
  /\ MarketInit /\ [][MarketNext]_marketAll
  /\ WF_marketAll(LoadStep /\ UNCHANGED marketVars)

-----------------------------------------------------------------------------
(* Properties.                                                             *)

\* Whatever fails, is killed or is installed by hand in between, a plugin the
\* record file lists has its package, so that update and remove find it; the
\* exception is a plugin whose package went when another plugin of the same
\* package was removed.
TrackedIsInstalled == tracked \ widowed \subseteq found

-----------------------------------------------------------------------------
(* The inductive invariant behind it.                                      *)

\* What a command has in hand: only plugins of packages that are there, once
\* an install or an update has got them, and none that is still listed, once
\* a remove has reached pip.
CommandInv ==
  command # Idle =>
    /\ Plugins \ Packaged \subseteq command.before
    /\ command.op = "remove"
         => /\ command.steps \in {<<"unrecord", "pip">>, <<"unrecord">>, <<"pip">>}
            /\ AtStep("pip") => command.left \cap tracked = {}
    /\ command.op # "remove"
         => /\ command.steps \in {<<"pip", "register", "record">>,
                                  <<"register", "record">>, <<"record">>}
            /\ command.left \subseteq found

MInv ==
  /\ PInv /\ MarketTypeOK /\ TrackedIsInstalled /\ CommandInv
  /\ Plugins \ Packaged \subseteq found
=============================================================================
