------------------------- MODULE Marketplace_proofs -------------------------
(***************************************************************************)
(* Proofs about the plugin manager and the quant-plugins command line, for *)
(* any number of plugins and groups, any dependency graph (circles         *)
(* included), any configuration and any factories that raise: first what   *)
(* holds of the platform alone, then whatever the commands do to the       *)
(* packages and to the configuration under it.                             *)
(***************************************************************************)
EXTENDS Marketplace, Iteration_proofs, FiniteSetTheorems

-----------------------------------------------------------------------------
(* The cascade of disabled dependencies.                                   *)

Statuses == [Plugins -> Record]

\* s is r with some of the enabled plugins called unmet.
Below(s, r) ==
  \A p \in Plugins :
    s[p] = r[p] \/ (r[p] = "enabled" /\ s[p] = "dependency_unmet")

ClosedIn(r) == \A p \in Plugins : ~Unmet(p, r)

\* Whoever is called unmet has a dependency that is not enabled.
Blamed(r) ==
  \A p \in Plugins :
    r[p] = "dependency_unmet" => \E q \in Known(p, r) : r[q] # "enabled"

LEMMA OrderTypes ==
  /\ Len(Order) \in Nat
  /\ \A i \in 1 .. Len(Order) : Order[i] \in Plugins
  /\ \A p \in Plugins : \E i \in 1 .. Len(Order) : Order[i] = p
BY PluginAssumption DEF PluginAssumption, Plugins, ToSet

LEMMA KnownArePlugins ==
  ASSUME deps \in DepGraphs, NEW p \in Plugins, NEW r
  PROVE  Known(p, r) \subseteq Plugins
BY PluginAssumption DEF PluginAssumption, Known

\* Disabling more plugins changes neither what a plugin depends on nor the
\* reason why a dependency is unmet.
LEMMA BelowKeepsUnmet ==
  ASSUME deps \in DepGraphs, NEW r \in Statuses, NEW s \in Statuses,
         Below(s, r), NEW p \in Plugins
  PROVE  /\ Known(p, s) = Known(p, r)
         /\ Unmet(p, r) /\ s[p] = "enabled" => Unmet(p, s)
<1>1. deps[p] \subseteq Plugins
  BY PluginAssumption DEF PluginAssumption
<1>2. Known(p, s) = Known(p, r)
  BY <1>1 DEF Known, Below
<1>3. \A q \in Known(p, r) : r[q] # "enabled" => s[q] # "enabled"
  BY <1>1 DEF Known, Below
<1>4. QED
  BY <1>2, <1>3 DEF Unmet

LEMMA BelowIsTransitive ==
  ASSUME NEW r, NEW s, NEW t, Below(s, r), Below(t, s)
  PROVE  Below(t, r)
BY DEF Below

LEMMA TurnFacts ==
  ASSUME deps \in DepGraphs, NEW r \in Statuses, NEW p \in Plugins
  PROVE  /\ Turn(p, r) \in Statuses
         /\ Below(Turn(p, r), r)
         /\ Unmet(p, r) => Turn(p, r)[p] # "enabled"
         /\ ~Unmet(p, r) => Turn(p, r) = r
         /\ Blamed(r) => Blamed(Turn(p, r))
<1> DEFINE s == Turn(p, r)
<1>1. CASE ~Unmet(p, r)
  BY <1>1 DEF Turn, Below
<1>2. CASE Unmet(p, r)
  <2>1. s = [r EXCEPT ![p] = "dependency_unmet"] /\ r[p] = "enabled"
    BY <1>2 DEF Turn, Unmet
  <2> HIDE DEF s
  <2>2. s \in Statuses /\ Below(s, r) /\ s[p] # "enabled"
    BY <2>1 DEF Statuses, Record, DisableReason, Below
  <2>3. ASSUME Blamed(r), NEW q \in Plugins, s[q] = "dependency_unmet"
        PROVE  \E d \in Known(q, s) : s[d] # "enabled"
    <3>1. PICK d \in Known(q, r) : r[d] # "enabled"
      BY <1>2, <2>1, <2>3 DEF Blamed, Unmet, Statuses
    <3>2. d \in Plugins
      BY KnownArePlugins
    <3>3. d \in Known(q, s) /\ s[d] # "enabled"
      BY <2>2, <3>1, <3>2, BelowKeepsUnmet DEF Below
    <3>4. QED
      BY <3>3
  <2>4. QED
    BY <1>2, <2>2, <2>3 DEF Blamed, s
<1>3. QED
  BY <1>1, <1>2

\* The turns of a pass follow one another.
LEMMA PassTurnsDef ==
  ASSUME deps \in DepGraphs, NEW r \in Statuses
  PROVE  /\ PassTurns(r)[0] = r
         /\ \A i \in 1 .. Len(Order) :
              PassTurns(r)[i] = Turn(Order[i], PassTurns(r)[i - 1])
<1> DEFINE n == Len(Order)
           step == [x \in (1 .. n) \X Statuses |-> Turn(Order[x[1]], x[2])]
           IsPass(f) == f = [i \in 0 .. n |->
                               IF i = 0 THEN r ELSE Turn(Order[i], f[i - 1])]
<1>1. n \in Nat /\ step \in [(1 .. n) \X Statuses -> Statuses]
  BY OrderTypes, TurnFacts
<1>2. PICK f : LoopsTo(n, f, Statuses, r, step)
  <2> HIDE DEF n, step
  <2>1. QED
    BY <1>1, LoopExists
<1>3. IsPass(f)
  <2>1. /\ f \in [0 .. n -> Statuses] /\ f[0] = r
        /\ \A i \in 1 .. n : f[i] = step[<<i, f[i - 1]>>]
    BY <1>2 DEF LoopsTo
  <2>2. ASSUME NEW i \in 1 .. n PROVE f[i] = Turn(Order[i], f[i - 1])
    <3>1. f[i - 1] \in Statuses
      BY <1>1, <2>1
    <3>2. <<i, f[i - 1]>> \in (1 .. n) \X Statuses
      BY <3>1
    <3>3. QED
      BY <2>1, <3>2
  <2> HIDE DEF n, step
  <2>3. QED
    BY <1>1, <2>1, <2>2
<1>4. PassTurns(r) = CHOOSE g : IsPass(g)
  BY DEF PassTurns
<1>5. IsPass(PassTurns(r))
  <2> HIDE DEF IsPass
  <2>1. QED
    BY <1>3, <1>4
<1> HIDE DEF step
<1>6. QED
  BY <1>1, <1>5

\* After each turn: a pass disables, re-enables nothing, blames correctly, and
\* has disabled every node it has passed that was unmet at the beginning.
TurnOK(i, r) ==
  LET s == PassTurns(r)[i]
  IN  /\ s \in Statuses /\ Below(s, r)
      /\ Blamed(r) => Blamed(s)
      /\ \A j \in 1 .. i : Unmet(Order[j], r) => s[Order[j]] # "enabled"
      /\ ClosedIn(r) => s = r

LEMMA TurnsAreOK ==
  ASSUME deps \in DepGraphs, NEW r \in Statuses
  PROVE  \A i \in 0 .. Len(Order) : TurnOK(i, r)
<1> DEFINE T == {i \in 0 .. Len(Order) : TurnOK(i, r)}
<1>1. 0 \in T
  <2>1. TurnOK(0, r)
    BY PassTurnsDef DEF TurnOK, Below
  <2>2. QED
    BY <2>1, OrderTypes
<1>2. ASSUME NEW i \in 0 .. Len(Order), i < Len(Order), i \in T
      PROVE  i + 1 \in T
  <2> DEFINE s == PassTurns(r)[i]
             t == PassTurns(r)[i + 1]
  <2>1. /\ s \in Statuses /\ Below(s, r) /\ (Blamed(r) => Blamed(s))
        /\ \A j \in 1 .. i : Unmet(Order[j], r) => s[Order[j]] # "enabled"
        /\ ClosedIn(r) => s = r
    BY <1>2 DEF TurnOK
  <2>2. i + 1 \in 1 .. Len(Order) /\ Order[i + 1] \in Plugins
    BY <1>2, OrderTypes
  <2>3. t = Turn(Order[i + 1], s)
    BY <1>2, <2>2, PassTurnsDef
  <2> HIDE DEF s, t
  <2>4. /\ t \in Statuses /\ Below(t, s) /\ Below(t, r)
        /\ Blamed(r) => Blamed(t)
    BY <2>1, <2>2, <2>3, TurnFacts, BelowIsTransitive
  <2>5. ASSUME NEW j \in 1 .. (i + 1), Unmet(Order[j], r)
        PROVE  t[Order[j]] # "enabled"
    <3>1. CASE j \in 1 .. i
      <4>1. Order[j] \in Plugins
        BY <1>2, <3>1, OrderTypes
      <4>2. QED
        BY <2>1, <2>4, <2>5, <3>1, <4>1 DEF Below
    <3>2. CASE j = i + 1
      <4>1. CASE s[Order[j]] = "enabled"
        BY <2>1, <2>2, <2>3, <2>5, <3>2, <4>1, BelowKeepsUnmet, TurnFacts
      <4>2. CASE s[Order[j]] # "enabled"
        BY <2>2, <2>4, <3>2, <4>2 DEF Below
      <4>3. QED
        BY <4>1, <4>2
    <3>3. QED
      BY <1>2, <3>1, <3>2
  <2>6. ClosedIn(r) => t = r
    BY <2>1, <2>2, <2>3, TurnFacts DEF ClosedIn
  <2>7. TurnOK(i + 1, r)
    BY <2>4, <2>5, <2>6 DEF TurnOK, t
  <2>8. QED
    BY <1>2, <2>2, <2>7
<1>3. \A i \in 0 .. Len(Order) : i \in T
  <2> HIDE DEF T
  <2>1. QED
    BY <1>1, <1>2, UpTo, OrderTypes
<1>4. QED
  BY <1>3

\* One pass of cascade_disabled.
LEMMA CascadePassFacts ==
  ASSUME deps \in DepGraphs, NEW r \in Statuses
  PROVE  /\ CascadePass(r) \in Statuses
         /\ Below(CascadePass(r), r)
         /\ Blamed(r) => Blamed(CascadePass(r))
         /\ \A p \in Plugins : Unmet(p, r) => CascadePass(r)[p] # "enabled"
         /\ ClosedIn(r) => CascadePass(r) = r
<1>1. Len(Order) \in 0 .. Len(Order)
  BY OrderTypes
<1>2. TurnOK(Len(Order), r)
  BY <1>1, TurnsAreOK
<1>3. QED
  BY <1>2, OrderTypes DEF TurnOK, CascadePass

LEMMA PassesDef ==
  ASSUME deps \in DepGraphs, NEW r \in Statuses
  PROVE  /\ Passes(r)[0] = r
         /\ \A i \in 1 .. Len(Order) :
              Passes(r)[i] = CascadePass(Passes(r)[i - 1])
<1> DEFINE n == Len(Order)
           step == [x \in (1 .. n) \X Statuses |-> CascadePass(x[2])]
           IsRun(f) == f = [i \in 0 .. n |->
                              IF i = 0 THEN r ELSE CascadePass(f[i - 1])]
<1>1. n \in Nat /\ step \in [(1 .. n) \X Statuses -> Statuses]
  BY OrderTypes, CascadePassFacts
<1>2. PICK f : LoopsTo(n, f, Statuses, r, step)
  <2> HIDE DEF n, step
  <2>1. QED
    BY <1>1, LoopExists
<1>3. IsRun(f)
  <2>1. /\ f \in [0 .. n -> Statuses] /\ f[0] = r
        /\ \A i \in 1 .. n : f[i] = step[<<i, f[i - 1]>>]
    BY <1>2 DEF LoopsTo
  <2>2. ASSUME NEW i \in 1 .. n PROVE f[i] = CascadePass(f[i - 1])
    <3>1. f[i - 1] \in Statuses
      BY <1>1, <2>1
    <3>2. <<i, f[i - 1]>> \in (1 .. n) \X Statuses
      BY <3>1
    <3>3. QED
      BY <2>1, <3>2
  <2> HIDE DEF n, step
  <2>3. QED
    BY <1>1, <2>1, <2>2
<1>4. Passes(r) = CHOOSE g : IsRun(g)
  BY DEF Passes
<1>5. IsRun(Passes(r))
  <2> HIDE DEF IsRun
  <2>1. QED
    BY <1>3, <1>4
<1> HIDE DEF step
<1>6. QED
  BY <1>1, <1>5

EnabledIn(r) == {p \in Plugins : r[p] = "enabled"}

LEMMA PluginsAreFinite ==
  IsFiniteSet(Plugins) /\ Cardinality(Plugins) <= Len(Order)
<1> DEFINE f == [i \in 1 .. Len(Order) |-> Order[i]]
<1>1. f \in Surjection(1 .. Len(Order), Plugins)
  BY OrderTypes DEF Surjection
<1>2. IsFiniteSet(1 .. Len(Order)) /\ Cardinality(1 .. Len(Order)) = Len(Order)
  BY OrderTypes, FS_Interval
<1> HIDE DEF f
<1>3. QED
  BY <1>1, <1>2, FS_Surjection

\* Unless nothing is unmet any more, a pass leaves fewer plugins enabled.
LEMMA PassDisables ==
  ASSUME deps \in DepGraphs, NEW r \in Statuses, ~ClosedIn(r)
  PROVE  Cardinality(EnabledIn(CascadePass(r))) < Cardinality(EnabledIn(r))
<1> DEFINE s == CascadePass(r)
<1>1. PICK p \in Plugins : Unmet(p, r)
  BY DEF ClosedIn
<1>2. p \in EnabledIn(r) /\ p \notin EnabledIn(s)
  BY <1>1, CascadePassFacts DEF EnabledIn, Unmet
<1>3. EnabledIn(s) \subseteq EnabledIn(r)
  BY CascadePassFacts DEF EnabledIn, Below
<1>4. IsFiniteSet(EnabledIn(r)) /\ EnabledIn(s) \in SUBSET (EnabledIn(r) \ {p})
  BY <1>2, <1>3, PluginsAreFinite, FS_Subset DEF EnabledIn
<1> HIDE DEF s
<1>5. /\ Cardinality(EnabledIn(s)) <= Cardinality(EnabledIn(r) \ {p})
      /\ Cardinality(EnabledIn(r) \ {p}) = Cardinality(EnabledIn(r)) - 1
      /\ IsFiniteSet(EnabledIn(s))
  BY <1>2, <1>4, FS_RemoveElement, FS_Subset
<1>6. Cardinality(EnabledIn(r)) \in Nat /\ Cardinality(EnabledIn(s)) \in Nat
  BY <1>4, <1>5, FS_CardinalityType
<1>7. QED
  BY <1>5, <1>6 DEF s

\* After k passes either nothing is unmet or k plugins have been disabled.
PassOK(k, r) ==
  LET s == Passes(r)[k]
  IN  /\ s \in Statuses /\ Below(s, r)
      /\ Blamed(r) => Blamed(s)
      /\ ClosedIn(s) \/ Cardinality(EnabledIn(s)) <= Len(Order) - k

LEMMA PassesAreOK ==
  ASSUME deps \in DepGraphs, NEW r \in Statuses
  PROVE  \A k \in 0 .. Len(Order) : PassOK(k, r)
<1> DEFINE T == {k \in 0 .. Len(Order) : PassOK(k, r)}
<1>1. 0 \in T
  <2>1. Cardinality(EnabledIn(r)) <= Len(Order)
    <3>1. EnabledIn(r) \in SUBSET Plugins
      BY DEF EnabledIn
    <3>2. /\ Cardinality(EnabledIn(r)) <= Cardinality(Plugins)
          /\ Cardinality(EnabledIn(r)) \in Nat /\ Cardinality(Plugins) \in Nat
      BY <3>1, PluginsAreFinite, FS_Subset, FS_CardinalityType
    <3>3. QED
      BY <3>2, PluginsAreFinite, OrderTypes
  <2>2. PassOK(0, r)
    BY <2>1, PassesDef, OrderTypes DEF PassOK, Below
  <2>3. QED
    BY <2>2, OrderTypes
<1>2. ASSUME NEW k \in 0 .. Len(Order), k < Len(Order), k \in T
      PROVE  k + 1 \in T
  <2> DEFINE s == Passes(r)[k]
             t == Passes(r)[k + 1]
  <2>1. /\ s \in Statuses /\ Below(s, r) /\ (Blamed(r) => Blamed(s))
        /\ ClosedIn(s) \/ Cardinality(EnabledIn(s)) <= Len(Order) - k
    BY <1>2 DEF PassOK
  <2>2. k + 1 \in 1 .. Len(Order) /\ k \in Nat /\ Len(Order) \in Nat
    BY <1>2, OrderTypes
  <2>3. t = CascadePass(s)
    BY <1>2, <2>2, PassesDef
  <2> HIDE DEF s, t
  <2>4. /\ t \in Statuses /\ Below(t, r) /\ (Blamed(r) => Blamed(t))
    BY <2>1, <2>3, CascadePassFacts, BelowIsTransitive
  <2>5. ClosedIn(t) \/ Cardinality(EnabledIn(t)) <= Len(Order) - (k + 1)
    <3>1. CASE ClosedIn(s)
      BY <2>1, <2>3, <3>1, CascadePassFacts
    <3>2. CASE ~ClosedIn(s)
      <4>1. Cardinality(EnabledIn(t)) < Cardinality(EnabledIn(s))
        BY <2>1, <2>3, <3>2, PassDisables
      <4>2. /\ EnabledIn(s) \in SUBSET Plugins
            /\ EnabledIn(t) \in SUBSET Plugins
        BY DEF EnabledIn
      <4>3. /\ Cardinality(EnabledIn(s)) \in Nat
            /\ Cardinality(EnabledIn(t)) \in Nat
        BY <4>2, PluginsAreFinite, FS_Subset, FS_CardinalityType
      <4>4. QED
        BY <2>1, <2>2, <3>2, <4>1, <4>3
    <3>3. QED
      BY <3>1, <3>2
  <2>6. PassOK(k + 1, r)
    BY <2>4, <2>5 DEF PassOK, t
  <2>7. QED
    BY <1>2, <2>2, <2>6
<1>3. \A k \in 0 .. Len(Order) : k \in T
  <2> HIDE DEF T
  <2>1. QED
    BY <1>1, <1>2, UpTo, OrderTypes
<1>4. QED
  BY <1>3

\* cascade_disabled, whatever the dependencies look like, circles included:
\* as many passes as there are nodes are enough, so that no enabled plugin is
\* left with a disabled dependency; nothing is re-enabled, and nothing is
\* called unmet that has all its dependencies.
THEOREM CascadeCloses ==
  ASSUME deps \in DepGraphs, NEW r \in Statuses
  PROVE  /\ Cascaded(r) \in Statuses
         /\ Below(Cascaded(r), r)
         /\ ClosedIn(Cascaded(r))
         /\ Blamed(r) => Blamed(Cascaded(r))
<1> DEFINE s == Cascaded(r)
<1>1. Len(Order) \in 0 .. Len(Order)
  BY OrderTypes
<1>2. PassOK(Len(Order), r)
  BY <1>1, PassesAreOK
<1>3. /\ s \in Statuses /\ Below(s, r) /\ (Blamed(r) => Blamed(s))
      /\ ClosedIn(s) \/ Cardinality(EnabledIn(s)) <= 0
  BY <1>2, OrderTypes DEF PassOK, Cascaded
<1> HIDE DEF s
<1>4. ASSUME Cardinality(EnabledIn(s)) <= 0 PROVE ClosedIn(s)
  <2>1. EnabledIn(s) \in SUBSET Plugins
    BY DEF EnabledIn
  <2>2. IsFiniteSet(EnabledIn(s))
    BY <2>1, PluginsAreFinite, FS_Subset
  <2>3. Cardinality(EnabledIn(s)) \in Nat
    BY <2>2, FS_CardinalityType
  <2>4. Cardinality(EnabledIn(s)) = 0
    BY <1>4, <2>3
  <2>5. EnabledIn(s) = {}
    BY <2>2, <2>4, FS_EmptySet
  <2>6. QED
    BY <2>5 DEF EnabledIn, ClosedIn, Unmet
<1>5. QED
  BY <1>3, <1>4 DEF s

-----------------------------------------------------------------------------
(* Registration, synchronisation and compatibility.                        *)

\* s enables nothing r does not, registers what r does, blames no more.
Weaker(s, r) ==
  \A p \in Plugins :
    /\ s[p] = "absent" <=> r[p] = "absent"
    /\ s[p] = "enabled" => r[p] = "enabled"
    /\ s[p] = "dependency_unmet" => r[p] = "dependency_unmet"

LEMMA WeakerKeepsBlame ==
  ASSUME deps \in DepGraphs, NEW r, NEW s, Weaker(s, r), Blamed(r)
  PROVE  Blamed(s)
<1> SUFFICES ASSUME NEW p \in Plugins, s[p] = "dependency_unmet"
             PROVE  \E q \in Known(p, s) : s[q] # "enabled"
  BY DEF Blamed
<1>1. PICK q \in Known(p, r) : r[q] # "enabled"
  BY DEF Weaker, Blamed
<1>2. q \in Plugins
  BY KnownArePlugins
<1>3. QED
  BY <1>1, <1>2 DEF Weaker, Known

LEMMA EnforcedFacts ==
  ASSUME NEW r \in Statuses, NEW c
  PROVE  /\ Enforced(r, c) \in Statuses
         /\ Weaker(Enforced(r, c), r)
         /\ \A p \in Plugins : Enforced(r, c)[p] = "enabled" => Suits(p, c)
BY DEF Enforced, Statuses, Record, DisableReason, Weaker

Fewer(s, r) == \A p \in Plugins : s[p] = "enabled" => r[p] = "enabled"

\* Disabling plugins changes the leading builder only if it is one of them.
LEMMA LeadStays ==
  ASSUME NEW r, NEW s, Fewer(s, r), \A b \in Lead(r) : s[b] = "enabled"
  PROVE  Lead(s) = Lead(r)
<1> DEFINE n == Len(Order)
           First(t, i) == /\ i \in 1 .. n /\ ActiveBuilder(i, t)
                          /\ \A k \in 1 .. i - 1 : ~ActiveBuilder(k, t)
<1>1. n \in Nat
  BY OrderTypes
<1>2. \A t : Lead(t) = {Order[i] : i \in {j \in 1 .. n : First(t, j)}}
  BY DEF Lead
<1>3. \A i \in 1 .. n : ActiveBuilder(i, s) => ActiveBuilder(i, r)
  BY OrderTypes DEF ActiveBuilder, Fewer
<1>4. ASSUME NEW i \in 1 .. n, First(r, i) PROVE First(s, i)
  <2>1. s[Order[i]] = "enabled"
    BY <1>2, <1>4
  <2>2. ActiveBuilder(i, s)
    BY <1>4, <2>1 DEF ActiveBuilder
  <2>3. \A k \in 1 .. i - 1 : ~ActiveBuilder(k, s)
    BY <1>1, <1>3, <1>4
  <2> QED
    BY <2>2, <2>3
<1>5. ASSUME NEW i \in 1 .. n, First(s, i) PROVE First(r, i)
  <2> DEFINE T == {k \in 0 .. n : k < i => \A j \in 1 .. k : ~ActiveBuilder(j, r)}
  <2>1. 0 \in T
    BY <1>1
  <2>2. ASSUME NEW k \in 0 .. n, k < n, k \in T PROVE k + 1 \in T
    <3> SUFFICES ASSUME k + 1 < i, ActiveBuilder(k + 1, r) PROVE FALSE
      BY <1>1, <2>2
    <3>1. k + 1 \in 1 .. n /\ First(r, k + 1)
      BY <1>1, <2>2
    <3>2. First(s, k + 1)
      <4> HIDE DEF First, T
      <4>1. QED
        BY <1>4, <3>1
    <3> QED
      BY <1>5, <3>1, <3>2
  <2>3. \A k \in 0 .. n : k \in T
    <3> HIDE DEF T, n
    <3> QED
      BY <1>1, <2>1, <2>2, UpTo
  <2>4. i - 1 \in T /\ i - 1 < i
    BY <1>1, <2>3
  <2> QED
    BY <1>1, <1>3, <1>5, <2>4
<1> HIDE DEF First
<1> QED
  BY <1>2, <1>4, <1>5

\* The leading builder is the one of the context, or that one is disabled.
Kept(r, c) == Lead(r) # c.builder => \E b \in c.builder : r[b] # "enabled"

LEMMA LeadArePlugins ==
  ASSUME NEW r
  PROVE  Lead(r) \subseteq Plugins
BY OrderTypes DEF Lead

LEMMA FewerKeeps ==
  ASSUME NEW r, NEW s, Fewer(s, r), NEW c, c.builder \subseteq Plugins, Kept(r, c)
  PROVE  Kept(s, c)
<1> SUFFICES ASSUME \A b \in c.builder : s[b] = "enabled"
             PROVE  Lead(s) = c.builder
  BY DEF Kept
<1>1. Lead(r) = c.builder
  BY DEF Kept, Fewer
<1> QED
  BY <1>1, LeadStays

LEMMA StartingStatuses ==
  ASSUME TypeOK
  PROVE  /\ Registered \in Statuses
         /\ \A p \in Plugins : Registered[p] # "dependency_unmet"
         /\ Synced \in Statuses
         /\ \A p \in Plugins : Synced[p] = "enabled" => p \notin Unwanted
BY DEF TypeOK, Registered, Synced, Statuses, Record, DisableReason

LEMMA ContextFacts ==
  ASSUME NEW r, NEW F \in SUBSET Features
  PROVE  /\ ContextOf(r, F) \in [builder : SUBSET Plugins, features : SUBSET Features]
         /\ ContextOf(r, F).builder = Lead(r) /\ ContextOf(r, F).features = F
BY LeadArePlugins DEF ContextOf

\* What a resolution leaves, whatever the builder it compared with became.
ResolvedWith(s, r, c) ==
  /\ s \in Statuses /\ ClosedIn(s) /\ Enforced(s, c) = s /\ Kept(s, c)
  /\ \A p \in Plugins : s[p] = "enabled" => r[p] = "enabled" /\ Suits(p, c)
  /\ (\A p \in Plugins : r[p] # "dependency_unmet") => Blamed(s)

LEMMA ResolvedFacts ==
  ASSUME deps \in DepGraphs, NEW r \in Statuses, NEW F \in SUBSET Features
  PROVE  ResolvedWith(Resolved(r, F), r, ContextOf(r, F))
<1> DEFINE c == ContextOf(r, F)
           e == Enforced(r, c)
           s == Cascaded(e)
<1>0. c.builder = Lead(r) /\ c.builder \subseteq Plugins
  BY ContextFacts, LeadArePlugins
<1> HIDE DEF c
<1>1. /\ e \in Statuses /\ Weaker(e, r)
      /\ \A p \in Plugins : e[p] = "enabled" => Suits(p, c)
  BY EnforcedFacts
<1>2. \A p \in Plugins : e[p] = "absent" \/ Suits(p, c)
                           \/ e[p] = "incompatible_version"
  BY DEF Enforced, Statuses
<1> HIDE DEF e
<1>3. /\ s \in Statuses /\ Below(s, e) /\ ClosedIn(s)
      /\ Blamed(e) => Blamed(s)
  BY <1>1, CascadeCloses
<1> HIDE DEF s
<1>4. \A p \in Plugins : s[p] = "absent" \/ Suits(p, c)
                           \/ s[p] = "incompatible_version"
  BY <1>2, <1>3 DEF Below
<1>5. Enforced(s, c) = s
  BY <1>3, <1>4 DEF Enforced, Statuses
<1>6. \A p \in Plugins : s[p] = "enabled" => r[p] = "enabled" /\ Suits(p, c)
  BY <1>1, <1>3 DEF Below, Weaker
<1>7. (\A p \in Plugins : r[p] # "dependency_unmet") => Blamed(e)
  BY <1>1 DEF Weaker, Blamed
<1>8. Kept(s, c)
  BY <1>0, <1>6, FewerKeeps DEF Kept, Fewer
<1>9. Resolved(r, F) = s
  BY DEF Resolved, s, e, c
<1> QED
  BY <1>3, <1>5, <1>6, <1>7, <1>8, <1>9 DEF ResolvedWith, c

\* What a reload begins to load with: once or twice resolved.
LEMMA ReresolveFacts ==
  ASSUME TypeOK, Reresolve
  PROVE  /\ context' \in [builder : SUBSET Plugins, features : SUBSET Features]
         /\ \E r \in Statuses : /\ Fewer(r, Synced)
                                /\ ResolvedWith(record', r, context')
<1>1. PICK F \in SUBSET Features :
        LET first == Resolved(Synced, F)
        IN  IF ResolveGraph
              THEN context' = ContextOf(first, F) /\ record' = Resolved(first, F)
              ELSE context' = ContextOf(Synced, F) /\ record' = first
  BY DEF Reresolve
<1>2. ResolvedWith(Resolved(Synced, F), Synced, ContextOf(Synced, F))
      /\ Synced \in Statuses
  BY StartingStatuses, ResolvedFacts DEF TypeOK
<1>3. CASE ~ResolveGraph
  BY <1>1, <1>2, <1>3, ContextFacts DEF Fewer
<1>4. CASE ResolveGraph
  <2> DEFINE first == Resolved(Synced, F)
  <2>1. first \in Statuses /\ Fewer(first, Synced)
    BY <1>2 DEF ResolvedWith, Fewer
  <2>2. context' = ContextOf(first, F) /\ record' = Resolved(first, F)
    BY <1>1, <1>4
  <2> HIDE DEF first
  <2>3. ResolvedWith(record', first, context')
    BY <2>1, <2>2, ResolvedFacts DEF TypeOK
  <2> QED
    BY <2>1, <2>2, <2>3, ContextFacts
<1> QED
  BY <1>3, <1>4

\* What a bootstrap begins to load with.
LEMMA BootstrapFacts ==
  ASSUME TypeOK, Bootstrap
  PROVE  /\ context' \in [builder : SUBSET Plugins, features : SUBSET Features]
         /\ record' \in Statuses /\ Blamed(record')
         /\ ResolveGraph => ResolvedWith(record', Registered, context')
<1>1. PICK F \in SUBSET Features :
        /\ context' = ContextOf(Registered, F)
        /\ record' = IF ResolveGraph THEN Resolved(Registered, F) ELSE Registered
  BY DEF Bootstrap
<1>2. ResolvedWith(Resolved(Registered, F), Registered, ContextOf(Registered, F))
  BY StartingStatuses, ResolvedFacts DEF TypeOK
<1>3. Blamed(Registered) /\ Blamed(Resolved(Registered, F))
  BY <1>2, StartingStatuses DEF Blamed, ResolvedWith
<1> QED
  BY <1>1, <1>2, <1>3, ContextFacts, StartingStatuses DEF ResolvedWith

\* What batch_load does to its group before it loads it.
LEMMA RecheckFacts ==
  ASSUME NEW r \in Statuses, NEW g
  PROVE  /\ Recheck(r, g) \in Statuses
         /\ Weaker(Recheck(r, g), r)
         /\ \A p \in Plugins :
              \/ Recheck(r, g)[p] = r[p]
              \/ /\ Recheck(r, g)[p] = "incompatible_version"
                 /\ r[p] # "absent"
                 /\ ~Suits(p, ContextOf(r, context.features))
<1> DEFINE c == ContextOf(r, context.features)
<1>1. Enforced(r, c) \in Statuses /\ Weaker(Enforced(r, c), r)
  BY EnforcedFacts
<1>2. \A p \in Plugins :
        \/ Enforced(r, c)[p] = r[p]
        \/ /\ Enforced(r, c)[p] = "incompatible_version" /\ r[p] # "absent"
           /\ ~Suits(p, c)
  BY DEF Enforced
<1>3. Recheck(r, g) = [p \in Plugins |-> IF GroupOf[p] = g THEN Enforced(r, c)[p]
                                                           ELSE r[p]]
  BY DEF Recheck
<1> HIDE DEF c
<1> QED
  BY <1>1, <1>2, <1>3 DEF Statuses, Weaker, c

-----------------------------------------------------------------------------
(* Type correctness.                                                       *)

LEMMA PluginTypeInit == Init => TypeOK
<1> SUFFICES ASSUME Init PROVE TypeOK
  OBVIOUS
<1> USE PluginAssumption DEF PluginAssumption, Init
<1>1. allowed \subseteq Plugins
  OBVIOUS
<1>2. /\ record \in [Plugins -> Record] /\ nodes \in [Plugins -> Record]
  BY DEF Record
<1>3. groups \in Seq(PipelineGroups)
  OBVIOUS
<1>4. loads \in 0 .. MaxLoads /\ crashes \in 0 .. MaxCrashes /\ edits \in 0 .. MaxEdits
  OBVIOUS
<1>5. QED
  BY <1>1, <1>2, <1>3, <1>4 DEF TypeOK

\* The effect of handing a plugin out, and of a factory that raises.
LEMMA HandOrCrashTypes ==
  ASSUME TypeOK, NEW p \in Plugins, Hand(p) \/ CrashOf(p)
  PROVE  /\ record' \in [Plugins -> Record]
         /\ instances' \subseteq Cached /\ handed' \subseteq Plugins
         /\ crashes' \in 0 .. MaxCrashes
<1>1. CASE Hand(p)
  BY <1>1 DEF Hand, TypeOK
<1>2. CASE CrashOf(p)
  BY <1>2, PluginAssumption
     DEF CrashOf, CanCrash, TypeOK, PluginAssumption, Record, DisableReason
<1>3. QED
  BY <1>1, <1>2

LEMMA PluginTypeStep == TypeOK /\ [Next]_vars => TypeOK'
<1> SUFFICES ASSUME TypeOK, [Next]_vars PROVE TypeOK'
  OBVIOUS
<1> USE PluginAssumption
    DEF PluginAssumption, TypeOK, metaVars, configVars, loopVars, editVars
<1>1. CASE Bootstrap
  BY <1>1, BootstrapFacts DEF Bootstrap, BeginLoads, Statuses
<1>2. CASE Reload
  <2>1. record' \in [Plugins -> Record]
        /\ context' \in [builder : SUBSET Plugins, features : SUBSET Features]
    BY <1>2, ReresolveFacts DEF Reload, ResolvedWith, Statuses
  <2>2. QED
    BY <1>2, <2>1 DEF Reload, BeginLoads
<1>3. CASE BeginGroup
  <2> DEFINE r == Recheck(record, Head(groups))
  <2>1. r \in [Plugins -> Record]
    BY RecheckFacts DEF Statuses
  <2>2. record' = r /\ nodes' = r /\ groups' = Tail(groups) /\ groups # <<>>
    BY <1>3 DEF BeginGroup
  <2>3. /\ phase' \in {"failed", phase}
        /\ todo' \subseteq Plugins
        /\ UNCHANGED <<metaVars, context, configVars, instances, handed, loads,
                       crashes, edits>>
    BY <1>3 DEF BeginGroup
  <2>4. groups' \in Seq(PipelineGroups)
    BY <2>2
  <2> HIDE DEF r
  <2>5. QED
    BY <2>1, <2>2, <2>3, <2>4
<1>4. ASSUME NEW p \in Plugins, SkipDisabled(p) PROVE TypeOK'
  BY <1>4 DEF SkipDisabled
<1>5. ASSUME NEW p \in Plugins, LoadPlugin(p) \/ Resolve(p) PROVE TypeOK'
  BY <1>5, HandOrCrashTypes DEF LoadPlugin, Resolve
<1>6. ASSUME NEW p \in Plugins, LoadCrashes(p) PROVE TypeOK'
  <2>1. nodes' \in [Plugins -> Record]
    BY <1>6, CascadeCloses DEF LoadCrashes, Statuses
  <2>2. phase' \in {phase, "failed"} /\ todo' \subseteq Plugins
    BY <1>6 DEF LoadCrashes
  <2>3. QED
    BY <1>6, <2>1, <2>2, HandOrCrashTypes DEF LoadCrashes
<1>7. ASSUME NEW p \in Plugins, ResolveRaises(p) PROVE TypeOK'
  <2>1. /\ record' \in [Plugins -> Record]
        /\ instances' \subseteq Cached /\ handed' \subseteq Plugins
        /\ crashes' \in 0 .. MaxCrashes
    BY <1>7, HandOrCrashTypes DEF ResolveRaises
  <2>2. QED
    BY <1>7, <2>1 DEF ResolveRaises
<1>8. CASE BeginMaterialize \/ RuntimeReady
  BY <1>8 DEF BeginMaterialize, RuntimeReady
<1>9. ASSUME NEW p \in Plugins, EnablePlugin(p) \/ DisablePlugin(p)
      PROVE  TypeOK'
  <2>1. disabled' \subseteq Plugins /\ allowed' \subseteq Plugins
    BY <1>9 DEF EnablePlugin, DisablePlugin, ConfigEnables, ConfigDisables
  <2>2. record' \in [Plugins -> Record]
    BY <1>9 DEF EnablePlugin, DisablePlugin, Record, DisableReason
  <2>3. QED
    BY <1>9, <2>1, <2>2 DEF EnablePlugin, DisablePlugin, Edit
<1>10. CASE EditConfig
  BY <1>10 DEF EditConfig, Edit
<1>11. ASSUME NEW p \in Plugins, GetPlugin(p) \/ GetCrashes(p) PROVE TypeOK'
  BY <1>11, HandOrCrashTypes DEF GetPlugin, GetCrashes
<1>12. CASE UNCHANGED vars
  BY <1>12 DEF vars
<1>13. QED
  BY <1>1, <1>2, <1>3, <1>4, <1>5, <1>6, <1>7, <1>8, <1>9, <1>10, <1>11,
     <1>12 DEF Next, LoadStep

-----------------------------------------------------------------------------
(* The inductive invariant PInv, one conjunct at a time.                   *)

\* Whatever is done while the platform runs leaves it running.
LEMMA RunningGoesOn ==
  ASSUME EditConfig \/ UNCHANGED vars
           \/ \E p \in Plugins : \/ EnablePlugin(p) \/ DisablePlugin(p)
                                 \/ GetPlugin(p) \/ GetCrashes(p)
  PROVE  \/ phase = "running" /\ phase' = "running" /\ UNCHANGED <<loads, todo>>
         \/ UNCHANGED vars
BY DEF EditConfig, EnablePlugin, DisablePlugin, GetPlugin, GetCrashes, Edit,
       editVars, loopVars

\* A failed load stays as it is, so that the reason can still be seen.
LEMMA SafeModeStep ==
  ASSUME TypeOK, LoadsAreOrdered, SafeModeContinues, [Next]_vars
  PROVE  SafeModeContinues'
<1> USE DEF SafeModeContinues, metaVars, configVars, loopVars
<1>1. CASE Bootstrap \/ Reload
  BY <1>1 DEF Bootstrap, Reload, BeginLoads
<1>2. CASE BeginGroup
  <2> DEFINE g == Head(groups)
             r == Recheck(record, g)
  <2>1. /\ phase = "load" /\ groups # <<>> /\ record' = r /\ UNCHANGED deps
        /\ ~Cyclic(g, r) => UNCHANGED phase
    BY <1>2 DEF BeginGroup
  <2>2. g \in PipelineGroups
    BY <2>1 DEF TypeOK
  <2>3. CASE Cyclic(g, r)
    <3>1. PICK h \in PipelineGroups : h = g
      BY <2>2
    <3>2. Cyclic(h, record)'
      <4> HIDE DEF r
      <4>1. QED
        BY <2>1, <2>3, <3>1 DEF Cyclic, Known
    <3> HIDE DEF g, r
    <3>3. QED
      BY <3>2
  <2>4. CASE ~Cyclic(g, r)
    BY <2>1, <2>4
  <2>5. QED
    BY <2>3, <2>4
<1>3. CASE BeginMaterialize \/ RuntimeReady
  BY <1>3 DEF BeginMaterialize, RuntimeReady
<1>4. ASSUME NEW p \in Plugins,
             SkipDisabled(p) \/ LoadPlugin(p) \/ LoadCrashes(p) \/ Resolve(p)
      PROVE  SafeModeContinues'
  BY <1>4 DEF SkipDisabled, LoadPlugin, LoadCrashes, Resolve
<1>5. ASSUME NEW p \in Plugins, ResolveRaises(p) PROVE SafeModeContinues'
  <2>1. p \in Required
    BY <1>5 DEF ResolveRaises, LoadsAreOrdered
  <2>2. SafeMode => record'[p] # "enabled"
    BY <1>5 DEF ResolveRaises, CrashOf, TypeOK
  <2>3. QED
    BY <2>1, <2>2
<1>6. CASE phase = "running" /\ phase' = "running"
  BY <1>6
<1>7. CASE UNCHANGED vars
  BY <1>7 DEF vars, Cyclic, Known
<1>8. QED
  BY <1>1, <1>2, <1>3, <1>4, <1>5, <1>6, <1>7, RunningGoesOn DEF Next, LoadStep

\* The statuses batch_load goes on with when it comes to a group.
LEMMA GroupFacts ==
  ASSUME TypeOK, BeginGroup
  PROVE  /\ record' \in Statuses /\ nodes' = record'
         /\ Weaker(record', record)
         /\ \A p \in Plugins :
              \/ record'[p] = record[p]
              \/ /\ record'[p] = "incompatible_version" /\ record[p] # "absent"
                 /\ ~Suits(p, ContextOf(record, context.features))
         /\ \A p \in todo' : record'[p] # "absent"
         /\ phase = "load" /\ phase' \in {"load", "failed"}
         /\ todo' \subseteq Plugins
         /\ UNCHANGED <<metaVars, context, configVars, instances, handed, loads,
                        crashes, edits>>
<1> DEFINE g == Head(groups)
           r == Recheck(record, g)
<1>1. /\ phase = "load" /\ record' = r /\ nodes' = r /\ todo = {}
      /\ UNCHANGED <<metaVars, context, configVars, instances, handed, loads,
                     crashes, edits>>
      /\ \/ phase' = "failed" /\ UNCHANGED todo
         \/ /\ todo' = {p \in Plugins : GroupOf[p] = g /\ r[p] # "absent"}
            /\ UNCHANGED phase
  BY DEF BeginGroup
<1>2. record \in Statuses
  BY DEF TypeOK, Statuses
<1> HIDE DEF r
<1>3. \A p \in todo' : r[p] # "absent"
  BY <1>1
<1> QED
  BY <1>1, <1>2, <1>3, RecheckFacts DEF r

\* A factory that raises disables its plugin at most.
LEMMA CrashWeakens ==
  ASSUME TypeOK, NEW p \in Plugins, CrashOf(p), record[p] = "enabled"
  PROVE  /\ Weaker(record', record) /\ crashes' > 0
         /\ UNCHANGED <<instances, handed>>
<1>1. record' \in {record, [record EXCEPT ![p] = "load_crash"]}
      /\ crashes' = crashes + 1 /\ UNCHANGED <<instances, handed>>
  BY DEF CrashOf
<1>2. Weaker(record', record)
  BY <1>1 DEF Weaker, TypeOK
<1>3. QED
  BY <1>1, <1>2, PluginAssumption DEF TypeOK, PluginAssumption

\* The order of the phases.
LEMMA OrderedStep ==
  ASSUME TypeOK, LoadsAreOrdered, [Next]_vars
  PROVE  LoadsAreOrdered'
<1> USE DEF LoadsAreOrdered, metaVars, configVars, loopVars
<1>1. CASE Bootstrap \/ Reload
  <2>1. loads \in Nat /\ loads' = loads + 1 /\ phase' = "load" /\ todo' = {}
    BY <1>1, PluginAssumption
       DEF Bootstrap, Reload, BeginLoads, TypeOK, PluginAssumption
  <2>2. QED
    BY <2>1
<1>2. CASE BeginGroup
  BY <1>2, GroupFacts
<1>3. CASE BeginMaterialize \/ RuntimeReady
          \/ \E p \in Plugins : \/ SkipDisabled(p) \/ LoadPlugin(p)
                                \/ Resolve(p) \/ ResolveRaises(p)
  BY <1>3 DEF BeginMaterialize, RuntimeReady, SkipDisabled, LoadPlugin, Hand,
              Resolve, ResolveRaises
<1>4. CASE phase = "running" /\ phase' = "running" /\ UNCHANGED <<loads, todo>>
  BY <1>4
<1>5. CASE UNCHANGED vars
  BY <1>5 DEF vars
<1>6. ASSUME NEW p \in Plugins, LoadCrashes(p) PROVE LoadsAreOrdered'
  BY <1>6 DEF LoadCrashes, CrashOf, TypeOK
<1>7. QED
  BY <1>1, <1>2, <1>3, <1>4, <1>5, <1>6, RunningGoesOn DEF Next, LoadStep

\* What a reload may not hand out stays out of reach while it loads.
LEMMA HonestStep ==
  ASSUME TypeOK, LoadsAreOrdered, ReloadIsHonest, [Next]_vars
  PROVE  ReloadIsHonest'
<1> USE DEF ReloadIsHonest, Loading
<1>1. CASE Bootstrap
  <2>1. loads' = 1
    BY <1>1 DEF Bootstrap, BeginLoads, LoadsAreOrdered
  <2>2. QED
    BY <2>1
<1>2. CASE Reload
  <2>1. /\ todo' = {} /\ instances' = {} /\ handed' = {}
        /\ UNCHANGED <<accepts, Unwanted>>
    BY <1>2 DEF Reload, BeginLoads, metaVars, configVars,
              Unwanted, Permitted, Suits
  <2>2. \A p \in Plugins : record'[p] = "enabled" =>
          p \notin Unwanted /\ Suits(p, context')
    BY <1>2, StartingStatuses, ReresolveFacts DEF Reload, ResolvedWith, Fewer
  <2>3. \A p \in Plugins : record'[p] = "enabled" => p \in Permitted'
    BY <2>1, <2>2 DEF Permitted, Suits
  <2>4. QED
    BY <2>1, <2>3
<1>3. CASE BeginGroup
  <2>1. /\ phase = "load" /\ nodes' = record'
        /\ \A p \in Plugins : record'[p] = "enabled" => record[p] = "enabled"
        /\ todo' \subseteq Plugins
        /\ UNCHANGED <<Permitted, instances, handed, loads>>
    BY <1>3, GroupFacts DEF Weaker, metaVars, configVars,
              Unwanted, Permitted, Suits
  <2>2. QED
    BY <2>1
<1>4. ASSUME NEW p \in Plugins, SkipDisabled(p) PROVE ReloadIsHonest'
  BY <1>4 DEF SkipDisabled, metaVars, configVars,
              Unwanted, Permitted, Suits
<1>5. CASE BeginMaterialize \/ RuntimeReady
  BY <1>5 DEF BeginMaterialize, RuntimeReady, metaVars, configVars,
              Unwanted, Permitted, Suits
<1>6. ASSUME NEW p \in Plugins, LoadPlugin(p) PROVE ReloadIsHonest'
  <2>1. /\ phase = "load" /\ p \in todo /\ nodes[p] = "enabled"
        /\ todo' \subseteq todo
        /\ instances' \subseteq instances \cup {p}
        /\ handed' = handed \cup {p}
        /\ UNCHANGED <<Permitted, loads, record, nodes, phase>>
    BY <1>6 DEF LoadPlugin, Ready, Hand, metaVars, configVars,
              Unwanted, Permitted, Suits
  <2>2. QED
    BY <2>1
<1>7. ASSUME NEW p \in Plugins, Resolve(p) PROVE ReloadIsHonest'
  <2>1. /\ phase = "materialize" /\ record[p] = "enabled"
        /\ instances' \subseteq instances \cup {p}
        /\ handed' = handed \cup {p}
        /\ UNCHANGED <<Permitted, loads, record, phase>>
    BY <1>7 DEF Resolve, Hand, metaVars, configVars,
              Unwanted, Permitted, Suits
  <2>2. QED
    BY <2>1
<1>8. ASSUME NEW p \in Plugins, LoadCrashes(p) PROVE ReloadIsHonest'
  <2>1. /\ phase = "load" /\ todo' \subseteq todo
        /\ record' \in {record, [record EXCEPT ![p] = "load_crash"]}
        /\ nodes' \in {nodes, Cascaded(nodes)}
        /\ UNCHANGED <<Permitted, loads, instances, handed>>
    BY <1>8 DEF LoadCrashes, CrashOf, metaVars, configVars,
              Unwanted, Permitted, Suits
  <2>2. \A q \in Plugins : record'[q] = "enabled" => record[q] = "enabled"
    BY <2>1 DEF TypeOK
  <2>3. \A q \in Plugins : nodes'[q] = "enabled" => nodes[q] = "enabled"
    BY <2>1, CascadeCloses DEF TypeOK, Statuses, Below
  <2>4. todo \subseteq Plugins
    BY DEF TypeOK
  <2>5. QED
    BY <2>1, <2>2, <2>3, <2>4
<1>9. ASSUME NEW p \in Plugins, ResolveRaises(p) PROVE ReloadIsHonest'
  BY <1>9 DEF ResolveRaises
<1>10. CASE phase = "running" /\ phase' = "running"
  BY <1>10
<1>11. CASE UNCHANGED vars
  BY <1>11 DEF vars, loopVars, metaVars, configVars,
              Unwanted, Permitted, Suits
<1>12. QED
  BY <1>1, <1>2, <1>3, <1>4, <1>5, <1>6, <1>7, <1>8, <1>9, <1>10, <1>11,
     RunningGoesOn DEF Next, LoadStep

\* As long as no factory has raised, what the resolution left is what is
\* loaded, but for what suits the builder of the resolution and no longer the
\* one there is.
LEMMA ClosedStep ==
  ASSUME TypeOK, EnforcedAlready, ResolvedIsClosed, [Next]_vars
  PROVE  EnforcedAlready' /\ ResolvedIsClosed'
<1> USE DEF Loading
<1>1. CASE Bootstrap \/ Reload
  <2>1. CASE ResolveGraph
    <3>1. PICK r : ResolvedWith(record', r, context')
      BY <1>1, <2>1, BootstrapFacts, ReresolveFacts DEF Reload
    <3>2. UNCHANGED <<deps, accepts>>
      BY <1>1 DEF Bootstrap, Reload, metaVars
    <3>3. \A p \in Plugins : ~Unmet(p, record)'
      BY <3>1, <3>2 DEF ResolvedWith, ClosedIn, Unmet, Known
    <3>4. Enforced(record, context)' = record'
      BY <3>1, <3>2 DEF ResolvedWith, Enforced, Suits
    <3>5. BuilderChanged' => \E b \in context'.builder : record'[b] # "enabled"
      BY <3>1 DEF ResolvedWith, Kept, BuilderChanged, Lead, ActiveBuilder
    <3> QED
      BY <3>3, <3>4, <3>5 DEF EnforcedAlready, ResolvedIsClosed
  <2>2. QED
    BY <2>1 DEF EnforcedAlready, ResolvedIsClosed
<1>2. CASE ResolveGraph /\ BeginGroup /\ crashes' = 0
  <2> DEFINE c == ContextOf(record, context.features)
  <2>1. /\ record \in Statuses /\ record' \in Statuses
        /\ context.builder \subseteq Plugins
        /\ context \in [builder : SUBSET Plugins, features : SUBSET Features]
    BY <1>2, GroupFacts DEF TypeOK, Statuses
  <2>2. /\ Loading /\ UNCHANGED <<deps, accepts, context, crashes>>
        /\ Weaker(record', record)
        /\ \A p \in Plugins :
             \/ record'[p] = record[p]
             \/ /\ record'[p] = "incompatible_version" /\ record[p] # "absent"
                /\ ~Suits(p, c)
    BY <1>2, GroupFacts DEF metaVars
  <2>3. Fewer(record', record)
    BY <2>2 DEF Weaker, Fewer
  <2>4. Enforced(record, context) = record /\ Kept(record, context)
    BY <1>2, <2>2 DEF EnforcedAlready, BuilderChanged, Kept
  <2>5. \A p \in Plugins :
          record[p] \in {"absent", "incompatible_version"} \/ Suits(p, context)
    BY <2>1, <2>4 DEF Enforced, Statuses
  <2>6. Enforced(record', context) = record'
    BY <2>1, <2>2, <2>5 DEF Enforced, Statuses
  <2>7. Kept(record', context)
    BY <2>1, <2>3, <2>4, FewerKeeps
  <2>8. EnforcedAlready'
    <3>1. Enforced(record, context)' = Enforced(record', context)
      BY <2>2 DEF Enforced, Suits
    <3>2. BuilderChanged' <=> Lead(record') # context.builder
      BY <2>2 DEF BuilderChanged, Lead, ActiveBuilder
    <3> QED
      BY <2>2, <2>6, <2>7, <3>1, <3>2 DEF EnforcedAlready, Kept
  <2>9. ASSUME BuilderChanged PROVE Lead(record') # context.builder
    <3>1. PICK b \in context.builder : record[b] # "enabled"
      BY <2>4, <2>9 DEF Kept, BuilderChanged
    <3>2. b \notin Lead(record')
      <4>1. record'[b] # "enabled"
        BY <2>1, <2>3, <3>1 DEF Fewer
      <4>2. QED
        BY <4>1 DEF Lead, ActiveBuilder
    <3> QED
      BY <3>1, <3>2
  <2>10. ASSUME crashes = 0, NEW p \in Plugins, Unmet(p, record')
         PROVE  /\ Lead(record') # context.builder
                /\ \E q \in Known(p, record') :
                     record'[q] = "incompatible_version" /\ Suits(q, context)
    <3>1. PICK d \in Known(p, record') : record'[d] # "enabled"
      BY <2>10 DEF Unmet
    <3>2. /\ Known(p, record') = Known(p, record) /\ Known(p, record) \subseteq Plugins
          /\ record[p] = "enabled"
      <4>1. deps[p] \subseteq Plugins
        BY PluginAssumption DEF PluginAssumption, TypeOK
      <4>2. Unmet(p, record') => record'[p] = "enabled"
        BY DEF Unmet
      <4> QED
        BY <2>2, <2>10, <4>1, <4>2 DEF Known, Weaker
    <3>3. CASE record[d] = "enabled"
      <4>1. record'[d] = "incompatible_version" /\ ~Suits(d, c)
        BY <2>2, <3>1, <3>2, <3>3
      <4>2. Suits(d, context)
        BY <2>5, <3>1, <3>2, <3>3
      <4>3. Lead(record) # context.builder
        BY <2>1, <4>1, <4>2 DEF Suits, ContextOf
      <4> QED
        BY <2>9, <3>1, <4>1, <4>2, <4>3 DEF BuilderChanged
    <3>4. CASE record[d] # "enabled"
      <4>1. Unmet(p, record)
        BY <3>1, <3>2, <3>4 DEF Unmet
      <4>2. PICK q \in Known(p, record) :
              record[q] = "incompatible_version" /\ Suits(q, context)
        BY <1>2, <2>2, <2>10, <4>1 DEF ResolvedIsClosed
      <4>3. BuilderChanged
        BY <1>2, <2>2, <2>10, <4>1 DEF ResolvedIsClosed
      <4>4. record'[q] = "incompatible_version"
        BY <2>2, <3>2, <4>2
      <4> QED
        BY <2>9, <3>2, <4>2, <4>3, <4>4
    <3> QED
      BY <3>3, <3>4
  <2>11. ResolvedIsClosed'
    <3>1. \A p \in Plugins : Unmet(p, record)' <=> Unmet(p, record')
      BY <2>2 DEF Unmet, Known
    <3>2. \A p \in Plugins : Known(p, record)' = Known(p, record')
      BY <2>2 DEF Known
    <3>3. \A q \in Plugins : Suits(q, context)' <=> Suits(q, context)
      BY <2>2 DEF Suits
    <3>4. \A p \in Plugins : Known(p, record') \subseteq Plugins
      BY PluginAssumption DEF PluginAssumption, TypeOK, Known
    <3>5. BuilderChanged' <=> Lead(record') # context.builder
      BY <2>2 DEF BuilderChanged, Lead, ActiveBuilder
    <3> QED
      BY <2>2, <2>10, <3>1, <3>2, <3>3, <3>4, <3>5 DEF ResolvedIsClosed
  <2> QED
    BY <2>8, <2>11
<1>3. CASE Loading /\ UNCHANGED <<record, context, deps, accepts, crashes>>
  BY <1>3 DEF EnforcedAlready, ResolvedIsClosed, Enforced, Suits, BuilderChanged,
              Lead, ActiveBuilder, Unmet, Known
<1>4. CASE \/ BeginMaterialize \/ RuntimeReady
           \/ \E p \in Plugins : SkipDisabled(p) \/ LoadPlugin(p) \/ Resolve(p)
  <2>1. Loading /\ UNCHANGED <<record, context, deps, accepts, crashes>>
    BY <1>4 DEF BeginMaterialize, RuntimeReady, SkipDisabled, LoadPlugin,
                Resolve, Hand, metaVars
  <2>2. QED
    BY <1>3, <2>1
<1>5. ASSUME NEW p \in Plugins, LoadCrashes(p)
      PROVE  EnforcedAlready' /\ ResolvedIsClosed'
  <2>1. crashes' # 0
    BY <1>5, PluginAssumption DEF LoadCrashes, CrashOf, TypeOK, PluginAssumption
  <2>2. QED
    BY <2>1 DEF EnforcedAlready, ResolvedIsClosed
<1>6. ASSUME NEW p \in Plugins, ResolveRaises(p)
      PROVE  EnforcedAlready' /\ ResolvedIsClosed'
  BY <1>6 DEF ResolveRaises, EnforcedAlready, ResolvedIsClosed
<1>7. CASE \/ phase = "running" /\ phase' = "running"
           \/ ~ResolveGraph \/ crashes' # 0
  BY <1>7 DEF EnforcedAlready, ResolvedIsClosed
<1>8. CASE UNCHANGED vars
  <2>1. UNCHANGED <<phase, record, context, deps, accepts, crashes>>
    BY <1>8 DEF vars, loopVars, metaVars
  <2> QED
    BY <2>1 DEF EnforcedAlready, ResolvedIsClosed, Enforced, Suits,
                BuilderChanged, Lead, ActiveBuilder, Unmet, Known
<1> QED
  BY <1>1, <1>2, <1>4, <1>5, <1>6, <1>7, <1>8, RunningGoesOn DEF Next, LoadStep

\* After the first resolution statuses only get weaker until the first load
\* is over, which never frees a dependency of a plugin that is unmet.
LEMMA UnmetStep ==
  ASSUME TypeOK, LoadsAreOrdered, OnlyDependentsAreUnmet, [Next]_vars
  PROVE  OnlyDependentsAreUnmet'
<1> USE DEF OnlyDependentsAreUnmet, Loading
<1>1. CASE Bootstrap
  <2>1. Blamed(record') /\ UNCHANGED deps
    BY <1>1, BootstrapFacts DEF Bootstrap, metaVars
  <2>2. QED
    BY <2>1 DEF Blamed, Known
<1>2. CASE Reload
  <2>1. loads' # 1
    BY <1>2, PluginAssumption
       DEF Reload, BeginLoads, LoadsAreOrdered, TypeOK, PluginAssumption
  <2>2. QED
    BY <2>1
<1>3. ASSUME Loading, UNCHANGED <<deps, loads>>, Weaker(record', record)
      PROVE  OnlyDependentsAreUnmet'
  <2>1. CASE loads = 1
    <3>1. Blamed(record)
      BY <1>3, <2>1 DEF Blamed
    <3>2. Blamed(record')
      BY <1>3, <3>1, WeakerKeepsBlame DEF TypeOK
    <3>3. QED
      BY <1>3, <3>2 DEF Blamed, Known
  <2>2. CASE loads # 1
    BY <1>3, <2>2
  <2>3. QED
    BY <2>1, <2>2
<1>4. CASE BeginGroup
  BY <1>3, <1>4, GroupFacts DEF metaVars
<1>5. CASE BeginMaterialize \/ RuntimeReady
          \/ \E p \in Plugins : SkipDisabled(p) \/ LoadPlugin(p) \/ Resolve(p)
  <2>1. Loading /\ UNCHANGED <<record, deps, loads>>
    BY <1>5 DEF BeginMaterialize, RuntimeReady, SkipDisabled, LoadPlugin,
                Resolve, Hand, metaVars
  <2>2. Weaker(record', record)
    BY <2>1 DEF Weaker
  <2>3. QED
    BY <1>3, <2>1, <2>2
<1>6. ASSUME NEW p \in Plugins, LoadCrashes(p) PROVE OnlyDependentsAreUnmet'
  <2>1. /\ phase = "load" /\ CrashOf(p) /\ UNCHANGED <<deps, loads>>
        /\ record' \in {record, [record EXCEPT ![p] = "load_crash"]}
    BY <1>6 DEF LoadCrashes, CrashOf, metaVars
  <2>2. Weaker(record', record) \/ record[p] = "absent"
    BY <2>1 DEF Weaker, TypeOK
  <2>3. record[p] # "absent"
    BY <1>6 DEF LoadCrashes, Ready, LoadsAreOrdered
  <2>4. QED
    BY <1>3, <2>1, <2>2, <2>3
<1>7. ASSUME NEW p \in Plugins, ResolveRaises(p) PROVE OnlyDependentsAreUnmet'
  BY <1>7 DEF ResolveRaises
<1>8. CASE phase = "running" /\ phase' = "running"
  BY <1>8
<1>9. CASE UNCHANGED vars
  BY <1>9 DEF vars, metaVars, loopVars, Known
<1>10. QED
  BY <1>1, <1>2, <1>4, <1>5, <1>6, <1>7, <1>8, <1>9, RunningGoesOn
     DEF Next, LoadStep

LEMMA PluginInit == Init => PInv
<1> SUFFICES ASSUME Init PROVE PInv
  OBVIOUS
<1>1. TypeOK
  BY PluginTypeInit
<1>2. phase = "off" /\ loads = 0
  BY DEF Init
<1>3. QED
  BY <1>1, <1>2
     DEF PInv, LoadsAreOrdered, ReloadIsHonest, EnforcedAlready,
         ResolvedIsClosed, OnlyDependentsAreUnmet, SafeModeContinues, Loading

LEMMA PluginStep == PInv /\ [Next]_vars => PInv'
<1> SUFFICES ASSUME PInv, [Next]_vars PROVE PInv'
  OBVIOUS
<1>1. /\ TypeOK /\ LoadsAreOrdered /\ ReloadIsHonest /\ EnforcedAlready
      /\ ResolvedIsClosed /\ OnlyDependentsAreUnmet /\ SafeModeContinues
  BY DEF PInv
<1>2. TypeOK' /\ LoadsAreOrdered' /\ ReloadIsHonest' /\ SafeModeContinues'
  BY <1>1, PluginTypeStep, OrderedStep, HonestStep, SafeModeStep
<1>3. EnforcedAlready' /\ ResolvedIsClosed' /\ OnlyDependentsAreUnmet'
  BY <1>1, ClosedStep, UnmetStep
<1>4. QED
  BY <1>2, <1>3 DEF PInv

\* What RuntimeReady puts into service after a reload.
LEMMA ReadyIsHonest ==
  ASSUME PInv
  PROVE  RuntimeReady /\ loads > 1 =>
           handed \cup instances \subseteq Permitted
BY DEF PInv, ReloadIsHonest, Loading, RuntimeReady

-----------------------------------------------------------------------------
(* The platform beside the commands, and the record file of the marketplace.*)

LEMMA StepsAre ==
  /\ DOMAIN Steps = {"install", "update", "remove"}
  /\ Steps.install = <<"pip", "register", "record">>
  /\ Steps.update = <<"pip", "register", "record">>
  /\ Steps.remove = <<"unrecord", "pip">>
BY DEF Steps

\* A command is not idle, and its fields have their types.
LEMMA CommandFields ==
  ASSUME NEW c \in Commands
  PROVE  /\ c # Idle /\ c.op \in DOMAIN Steps
         /\ c.before \subseteq Plugins /\ c.left \subseteq Packaged
         /\ c.steps \in Seq(StepNames)
BY StepsAre DEF Commands, Idle

LEMMA WithSteps ==
  ASSUME NEW c \in Commands, NEW s \in Seq(StepNames)
  PROVE  LET d == [c EXCEPT !.steps = s]
         IN  /\ d \in Commands /\ d.steps = s /\ d.op = c.op
             /\ d.before = c.before /\ d.left = c.left
BY DEF Commands

LEMMA WithLeft ==
  ASSUME NEW c \in Commands, NEW L \in SUBSET Packaged
  PROVE  LET d == [c EXCEPT !.left = L]
         IN  /\ d \in Commands /\ d.left = L /\ d.op = c.op
             /\ d.before = c.before /\ d.steps = c.steps
BY DEF Commands

\* A command that goes on has one step less and is otherwise the same.
LEMMA ProceedFacts ==
  ASSUME NEW c \in Commands, c.steps # <<>>, Proceed(c), command' # Idle
  PROVE  /\ command' \in Commands /\ command'.steps = Tail(c.steps)
         /\ Tail(c.steps) # <<>>
         /\ command'.op = c.op /\ command'.before = c.before
         /\ command'.left = c.left
<1>1. Tail(c.steps) # <<>> /\ command' = [c EXCEPT !.steps = Tail(c.steps)]
  BY DEF Proceed
<1>2. Tail(c.steps) \in Seq(StepNames)
  BY CommandFields
<1>3. QED
  BY <1>1, <1>2, WithSteps

\* The plans of a command and what is left of them, step by step.
LEMMA Plans ==
  LET long == <<"pip", "register", "record">>
      both == <<"unrecord", "pip">>
  IN  /\ long \in Seq(StepNames) /\ both \in Seq(StepNames)
      /\ <<"unrecord">> \in Seq(StepNames)
      /\ long # <<>> /\ both # <<>> /\ <<"unrecord">> # <<>>
      /\ Head(long) = "pip" /\ Tail(long) = <<"register", "record">>
      /\ Head(<<"register", "record">>) = "register"
      /\ Tail(<<"register", "record">>) = <<"record">>
      /\ Head(both) = "unrecord" /\ Tail(both) = <<"pip">>
      /\ \A s \in StepNames : Head(<<s>>) = s /\ Tail(<<s>>) = <<>>
<1>1. \A s \in StepNames : Head(<<s>>) = s /\ Tail(<<s>>) = <<>>
  OBVIOUS
<1>2. /\ Head(<<"pip", "register", "record">>) = "pip"
      /\ Tail(<<"pip", "register", "record">>) = <<"register", "record">>
  OBVIOUS
<1>3. /\ Head(<<"register", "record">>) = "register"
      /\ Tail(<<"register", "record">>) = <<"record">>
      /\ Head(<<"unrecord", "pip">>) = "unrecord"
      /\ Tail(<<"unrecord", "pip">>) = <<"pip">>
  OBVIOUS
<1>4. /\ <<"pip", "register", "record">> \in Seq(StepNames)
      /\ <<"unrecord", "pip">> \in Seq(StepNames)
      /\ <<"unrecord">> \in Seq(StepNames)
  BY DEF StepNames
<1>5. /\ <<"pip", "register", "record">> # <<>> /\ <<"unrecord", "pip">> # <<>>
      /\ <<"unrecord">> # <<>>
  OBVIOUS
<1>6. QED
  BY <1>1, <1>2, <1>3, <1>4, <1>5

\* The steps a command may still have to do, by the step it is at.
LEMMA StepsByHead ==
  ASSUME MarketTypeOK, CommandInv, command # Idle
  PROVE  /\ command \in Commands /\ command.steps # <<>>
         /\ AtStep("unrecord") => command.op = "remove"
              /\ Tail(command.steps) \in {<<>>, <<"pip">>}
         /\ AtStep("register") => command.op # "remove"
              /\ Tail(command.steps) = <<"record">>
         /\ AtStep("record") => command.op # "remove"
              /\ Tail(command.steps) = <<>>
         /\ AtStep("pip") /\ command.op = "remove"
              => Tail(command.steps) = <<>>
         /\ AtStep("pip") /\ command.op # "remove"
              => Tail(command.steps) = <<"register", "record">>
<1> DEFINE s == command.steps
<1>1. command \in Commands /\ s # <<>>
  BY DEF MarketTypeOK
<1>2. \A h : AtStep(h) <=> Head(s) = h
  BY DEF AtStep
<1>3. CASE command.op = "remove"
  <2>1. \/ Head(s) = "unrecord" /\ Tail(s) \in {<<>>, <<"pip">>}
        \/ Head(s) = "pip" /\ Tail(s) = <<>>
    <3>1. s \in {<<"unrecord", "pip">>, <<"unrecord">>, <<"pip">>}
      BY <1>3 DEF CommandInv
    <3> HIDE DEF s
    <3>2. QED
      BY <3>1, Plans DEF StepNames
  <2> HIDE DEF s
  <2>2. QED
    BY <1>1, <1>2, <1>3, <2>1 DEF s
<1>4. CASE command.op # "remove"
  <2>1. \/ Head(s) = "pip" /\ Tail(s) = <<"register", "record">>
        \/ Head(s) = "register" /\ Tail(s) = <<"record">>
        \/ Head(s) = "record" /\ Tail(s) = <<>>
    <3>1. s \in {<<"pip", "register", "record">>, <<"register", "record">>,
                 <<"record">>}
      BY <1>4 DEF CommandInv
    <3> HIDE DEF s
    <3>2. QED
      BY <3>1, Plans DEF StepNames
  <2> HIDE DEF s
  <2>2. QED
    BY <1>1, <1>2, <1>4, <2>1 DEF s
<1>5. QED
  BY <1>3, <1>4

-----------------------------------------------------------------------------
(* The platform does not notice the commands.                              *)

LEMMA PlatformUntouched ==
  ASSUME PInv, UNCHANGED vars
  PROVE  PInv'
BY PluginStep

\* What discovery finds does not matter to a platform that has been started.
LEMMA PackagesChange ==
  ASSUME PInv, found' \subseteq Plugins,
         UNCHANGED <<deps, accepts, listed, context, configVars, loopVars, record,
                     instances, handed, loads, crashes, edits>>
  PROVE  PInv'
BY DEF PInv, TypeOK, LoadsAreOrdered, ReloadIsHonest, EnforcedAlready,
       ResolvedIsClosed, OnlyDependentsAreUnmet, SafeModeContinues, Loading,
       Unmet, Known, Enforced, Suits, BuilderChanged, Lead, ActiveBuilder,
       Permitted, Cyclic, Unwanted, configVars, loopVars

\* The configuration is only read again at the next reload.
LEMMA ConfigChanges ==
  ASSUME PInv, NEW p \in Plugins, Edit, ConfigEnables(p) \/ ConfigDisables(p),
         UNCHANGED <<record, editVars>>
  PROVE  PInv'
<1>1. TypeOK'
  BY PluginAssumption
     DEF PluginAssumption, PInv, TypeOK, Edit, ConfigEnables, ConfigDisables,
         editVars, metaVars, loopVars
<1>2. phase' = "running" /\ LoadsAreOrdered'
  BY DEF PInv, LoadsAreOrdered, Edit, editVars, loopVars
<1>3. QED
  BY <1>1, <1>2 DEF PInv, ReloadIsHonest, EnforcedAlready, ResolvedIsClosed,
                    OnlyDependentsAreUnmet, SafeModeContinues, Loading

-----------------------------------------------------------------------------
(* The inductive invariant MInv.                                           *)

LEMMA MarketStarts == MarketInit => MInv
<1> SUFFICES ASSUME MarketInit PROVE MInv
  OBVIOUS
<1>1. PInv /\ TypeOK
  BY PluginInit DEF MarketInit, PInv
<1>2. QED
  BY <1>1, MarketAssumption
     DEF MarketInit, MInv, MarketTypeOK, TrackedIsInstalled, CommandInv,
         MarketAssumption

LEMMA BeginStep ==
  ASSUME MInv, NEW op \in {"install", "update", "remove"},
         NEW k \in {PackageOf[p] : p \in Packaged}, NEW scope \in Scopes,
         NEW left \in SUBSET Packaged, NEW steps,
         Begin(op, k, scope, left, steps),
         left \subseteq found,
         op = "remove" => steps \in {<<"unrecord", "pip">>, <<"unrecord">>},
         op # "remove" => steps = <<"pip", "register", "record">>
  PROVE  MInv'
<1>1. /\ command' = [op |-> op, package |-> k, scope |-> scope,
                     before |-> found, left |-> left, steps |-> steps]
      /\ commands' = commands + 1 /\ commands < MaxCommands
      /\ UNCHANGED <<vars, tracked, widowed>>
  BY DEF Begin
<1>2. PInv' /\ UNCHANGED found
  BY <1>1, PlatformUntouched DEF MInv, vars, metaVars
<1>3. /\ steps \in Seq(StepNames) /\ steps # <<>>
      /\ op = "remove" => Head(steps) = "unrecord"
  <2>1. CASE op = "remove"
    BY <2>1, Plans DEF StepNames
  <2>2. CASE op # "remove"
    BY <2>2, Plans
  <2>3. QED
    BY <2>1, <2>2
<1>4. command' \in Commands /\ command'.steps # <<>>
  BY <1>1, <1>3, StepsAre DEF Commands, MInv, MarketTypeOK, TypeOK
<1>5. MarketTypeOK'
  BY <1>1, <1>2, <1>4, MarketAssumption
     DEF MInv, PInv, MarketTypeOK, MarketAssumption
<1>6. CommandInv'
  BY <1>1, <1>2, <1>3 DEF MInv, CommandInv, AtStep
<1>7. QED
  BY <1>1, <1>2, <1>5, <1>6 DEF MInv, TrackedIsInstalled

LEMMA PipStep ==
  ASSUME MInv, Pip
  PROVE  MInv'
<1> DEFINE brought == BroughtBy(command.package)
<1>1. /\ command # Idle /\ AtStep("pip") /\ MarketTypeOK /\ CommandInv
      /\ TrackedIsInstalled
  BY DEF Pip, AtStep, MInv
<1>2. /\ command \in Commands /\ command.steps # <<>>
      /\ command.op = "remove" => Tail(command.steps) = <<>>
      /\ command.op # "remove" => Tail(command.steps) = <<"register", "record">>
  BY <1>1, StepsByHead
<1>3. brought \subseteq Packaged /\ Packaged \subseteq Plugins
  BY MarketAssumption DEF MarketAssumption, BroughtBy
<1>4. /\ command.op = "remove"
           => /\ found' = found \ brought
              /\ widowed' = widowed \cup ((tracked \cap brought) \ command.left)
      /\ command.op # "remove" => found' = found \cup brought /\ UNCHANGED widowed
      /\ Proceed(command) /\ UNCHANGED <<tracked, commands>>
  BY DEF Pip
<1> HIDE DEF brought
<1>5. PInv'
  <2>1. found' \subseteq Plugins
    BY <1>3, <1>4 DEF MInv, PInv, TypeOK
  <2>2. QED
    BY <2>1, PackagesChange DEF MInv, Pip
<1>6. CASE command.op = "remove"
  <2>1. command' = Idle
    BY <1>2, <1>6 DEF Pip, Proceed
  <2>2. command.left \cap tracked = {}
    BY <1>1, <1>6 DEF CommandInv
  <2>3. /\ tracked' \ widowed' \subseteq found' /\ widowed' \subseteq tracked'
        /\ Plugins \ Packaged \subseteq found'
    BY <1>1, <1>3, <1>4, <1>6, <2>2
       DEF TrackedIsInstalled, MarketTypeOK, MInv
  <2>4. QED
    BY <1>1, <1>4, <1>5, <2>1, <2>3
       DEF MInv, PInv, MarketTypeOK, TrackedIsInstalled, CommandInv
<1>7. CASE command.op # "remove"
  <2>1. command' # Idle => /\ command' \in Commands
                           /\ command'.steps = <<"register", "record">>
                           /\ command'.op = command.op
                           /\ command'.before = command.before
                           /\ command'.left = command.left
    BY <1>2, <1>4, <1>7, ProceedFacts
  <2>2. /\ tracked' \ widowed' \subseteq found' /\ widowed' \subseteq tracked'
        /\ Plugins \ Packaged \subseteq found'
    BY <1>1, <1>4, <1>7 DEF TrackedIsInstalled, MarketTypeOK, MInv
  <2>3. CommandInv'
    BY <1>1, <1>4, <1>7, <2>1 DEF CommandInv
  <2>4. MarketTypeOK'
    <3>1. <<"register", "record">> # <<>>
      OBVIOUS
    <3>2. QED
      BY <1>1, <1>4, <1>5, <2>1, <2>2, <3>1 DEF MarketTypeOK, PInv
  <2>5. QED
    BY <1>5, <2>2, <2>3, <2>4 DEF MInv, TrackedIsInstalled
<1>8. QED
  BY <1>6, <1>7

\* The steps that leave the packages alone.
LEMMA RegisterStep ==
  ASSUME MInv, Register
  PROVE  MInv'
<1> DEFINE left == IF command.op = "install" THEN InScope \ command.before
                                             ELSE command.left
           c == [command EXCEPT !.left = left]
<1>1. /\ command # Idle /\ AtStep("register") /\ MarketTypeOK /\ CommandInv
  BY DEF Register, AtStep, MInv
<1>2. /\ command \in Commands /\ command.steps # <<>>
      /\ command.op # "remove" /\ Tail(command.steps) = <<"record">>
  BY <1>1, StepsByHead
<1>3. PInv' /\ UNCHANGED <<found, tracked, widowed, commands>>
  BY PlatformUntouched DEF Register, MInv, vars, metaVars
<1>4. left \subseteq Packaged /\ left \subseteq found
  <2>1. Plugins \ Packaged \subseteq command.before
    BY <1>1 DEF CommandInv
  <2>2. found \subseteq Plugins
    BY <1>1 DEF MarketTypeOK, TypeOK
  <2>3. command.left \subseteq Packaged /\ command.left \subseteq found
    BY <1>1, <1>2, CommandFields DEF CommandInv
  <2>4. QED
    BY <2>1, <2>2, <2>3 DEF InScope
<1>5. command' # Idle => Proceed(c)
  BY DEF Register
<1> HIDE DEF left
<1>6. /\ c \in Commands /\ c.left = left /\ c.op = command.op
      /\ c.before = command.before /\ c.steps = command.steps
  BY <1>2, <1>4, WithLeft
<1> HIDE DEF c
<1>7. command' # Idle => /\ command' \in Commands
                         /\ command'.steps = <<"record">>
                         /\ command'.op = command.op
                         /\ command'.before = command.before
                         /\ command'.left = left
  BY <1>2, <1>5, <1>6, ProceedFacts
<1>8. CommandInv'
  BY <1>1, <1>2, <1>3, <1>4, <1>7 DEF CommandInv
<1>9. MarketTypeOK'
  BY <1>1, <1>3, <1>7 DEF MarketTypeOK, PInv
<1>10. QED
  BY <1>3, <1>8, <1>9 DEF MInv, TrackedIsInstalled

LEMMA RecordStep ==
  ASSUME MInv, NEW p \in Packaged, RecordPlugin(p)
  PROVE  MInv'
<1> DEFINE rest == command.left \ {p}
           c == [command EXCEPT !.left = @ \ {p}]
<1>1. /\ command # Idle /\ AtStep("record") /\ MarketTypeOK /\ CommandInv
      /\ p \in command.left
  BY DEF RecordPlugin, AtStep, MInv
<1>2. /\ command \in Commands /\ command.steps # <<>>
      /\ command.op # "remove" /\ Tail(command.steps) = <<>>
  BY <1>1, StepsByHead
<1>3. PInv' /\ UNCHANGED <<found, commands>>
  BY PlatformUntouched DEF RecordPlugin, MInv, vars, metaVars
<1>4. tracked' = tracked \cup {p} /\ widowed' = widowed \ {p} /\ p \in found
  BY <1>1, <1>2 DEF RecordPlugin, CommandInv
<1>5. rest \in SUBSET Packaged /\ c = [command EXCEPT !.left = rest]
  BY <1>1, <1>2, CommandFields
<1> HIDE DEF rest, c
<1>6. /\ c \in Commands /\ c.left = rest /\ c.op = command.op
      /\ c.before = command.before /\ c.steps = command.steps
  BY <1>2, <1>5, WithLeft
<1>7. command' \in {Idle, c}
  BY <1>2 DEF RecordPlugin, Proceed, c
<1>8. CommandInv'
  <2>1. CASE command' = c
    <3>1. rest \subseteq command.left
      BY DEF rest
    <3>2. QED
      BY <1>1, <1>2, <1>3, <1>6, <2>1, <3>1 DEF CommandInv
  <2>2. QED
    BY <1>7, <2>1 DEF CommandInv
<1>9. MarketTypeOK'
  BY <1>1, <1>2, <1>3, <1>4, <1>6, <1>7 DEF MarketTypeOK, PInv
<1>10. QED
  BY <1>3, <1>4, <1>8, <1>9 DEF MInv, TrackedIsInstalled

LEMMA UnrecordStep ==
  ASSUME MInv, Unrecord
  PROVE  MInv'
<1>1. /\ command # Idle /\ AtStep("unrecord") /\ MarketTypeOK /\ CommandInv
  BY DEF Unrecord, AtStep, MInv
<1>2. /\ command \in Commands /\ command.steps # <<>>
      /\ command.op = "remove" /\ Tail(command.steps) \in {<<>>, <<"pip">>}
  BY <1>1, StepsByHead
<1>3. PInv' /\ UNCHANGED <<found, commands>>
  BY PlatformUntouched DEF Unrecord, MInv, vars, metaVars
<1>4. /\ tracked' = tracked \ command.left /\ widowed' = widowed \ command.left
      /\ command' # Idle => Proceed(command)
  BY DEF Unrecord
<1>5. command' # Idle => /\ command' \in Commands
                         /\ command'.steps = <<"pip">>
                         /\ command'.op = command.op
                         /\ command'.before = command.before
                         /\ command'.left = command.left
  BY <1>2, <1>4, ProceedFacts
<1>6. CommandInv'
  BY <1>1, <1>2, <1>3, <1>4, <1>5 DEF CommandInv
<1>7. MarketTypeOK'
  <2>1. tracked' \subseteq Packaged /\ widowed' \subseteq tracked'
    BY <1>1, <1>4 DEF MarketTypeOK
  <2>2. <<"pip">> # <<>>
    OBVIOUS
  <2>3. QED
    BY <1>1, <1>3, <1>5, <2>1, <2>2 DEF MarketTypeOK, PInv
<1>8. QED
  BY <1>3, <1>4, <1>6, <1>7 DEF MInv, TrackedIsInstalled

LEMMA BrokenStep ==
  ASSUME MInv, Broken
  PROVE  MInv'
<1>1. /\ command' = Idle /\ UNCHANGED <<vars, commands>>
      /\ \/ UNCHANGED <<tracked, widowed>>
         \/ tracked' = {} /\ widowed' = {}
  BY DEF Broken
<1>2. PInv' /\ UNCHANGED found
  BY <1>1, PlatformUntouched DEF MInv, vars, metaVars
<1>3. QED
  BY <1>1, <1>2 DEF MInv, PInv, MarketTypeOK, TrackedIsInstalled, CommandInv

\* Steps that neither a command takes nor the packages or the record file see.
LEMMA ElsewhereStep ==
  ASSUME MInv, PInv', UNCHANGED <<found, marketVars>>
  PROVE  MInv'
BY DEF MInv, PInv, MarketTypeOK, TrackedIsInstalled, CommandInv, AtStep,
       marketVars

LEMMA MarketStep == MInv /\ [MarketNext]_marketAll => MInv'
<1> SUFFICES ASSUME MInv, [MarketNext]_marketAll PROVE MInv'
  OBVIOUS
<1>1. CASE Pip \/ Register \/ Unrecord \/ Broken
  BY <1>1, PipStep, RegisterStep, UnrecordStep, BrokenStep
<1>2. ASSUME NEW k \in {PackageOf[p] : p \in Packaged}, NEW s \in Scopes,
             InstallPackage(k, s)
      PROVE  MInv'
  BY <1>2, StepsAre, BeginStep DEF InstallPackage
<1>3. ASSUME NEW p \in Packaged,
             UpdatePlugin(p) \/ \E keep \in BOOLEAN : RemovePlugin(p, keep)
      PROVE  MInv'
  <2>1. /\ p \in found /\ {p} \in SUBSET Packaged /\ {p} \subseteq found
        /\ PackageOf[p] \in {PackageOf[q] : q \in Packaged}
    BY <1>3 DEF UpdatePlugin, RemovePlugin
  <2>2. {GroupOf[p]} \in Scopes
    BY <1>3, PluginAssumption, MarketAssumption
       DEF PluginAssumption, MarketAssumption, Scopes
  <2>3. CASE UpdatePlugin(p)
    <3>1. Begin("update", PackageOf[p], {GroupOf[p]}, {p},
                <<"pip", "register", "record">>)
      BY <2>3, StepsAre DEF UpdatePlugin
    <3>2. QED
      BY <2>1, <2>2, <3>1, BeginStep
  <2>4. ASSUME NEW keep \in BOOLEAN, RemovePlugin(p, keep) PROVE MInv'
    <3>1. PICK steps \in {<<"unrecord", "pip">>, <<"unrecord">>} :
            Begin("remove", PackageOf[p], {GroupOf[p]}, {p}, steps)
      BY <2>4, StepsAre DEF RemovePlugin
    <3>2. QED
      BY <2>1, <2>2, <3>1, BeginStep
  <2>5. QED
    BY <1>3, <2>3, <2>4
<1>4. ASSUME NEW p \in Packaged, RecordPlugin(p) PROVE MInv'
  BY <1>4, RecordStep
<1>5. ASSUME NEW p \in Plugins, EnableCommand(p) \/ DisableCommand(p)
      PROVE  MInv'
  <2>1. PInv'
    BY <1>5, ConfigChanges DEF EnableCommand, DisableCommand, MInv
  <2>2. UNCHANGED <<found, marketVars>>
    BY <1>5 DEF EnableCommand, DisableCommand, editVars, metaVars
  <2>3. QED
    BY <2>1, <2>2, ElsewhereStep
<1>6. CASE (Next /\ UNCHANGED marketVars) \/ UNCHANGED marketAll
  <2>1. [Next]_vars /\ UNCHANGED marketVars
    BY <1>6 DEF marketAll
  <2>2. PInv'
    BY <2>1, PluginStep DEF MInv
  <2>3. UNCHANGED found
    BY <2>1 DEF Next, LoadStep, Bootstrap, Reload, EditConfig, BeginGroup,
                BeginMaterialize, RuntimeReady, SkipDisabled, LoadPlugin,
                LoadCrashes, Resolve, ResolveRaises, EnablePlugin,
                DisablePlugin, GetPlugin, GetCrashes, editVars, metaVars, vars
  <2>4. QED
    BY <2>1, <2>2, <2>3, ElsewhereStep
<1>7. QED
  BY <1>1, <1>2, <1>3, <1>4, <1>5, <1>6 DEF MarketNext, Command

-----------------------------------------------------------------------------
(* What the runs check, for every platform and every package.              *)

THEOREM MarketInvariant == MarketSpec => []MInv
<1>1. MarketInit => MInv
  BY MarketStarts
<1>2. MInv /\ [MarketNext]_marketAll => MInv'
  BY MarketStep
<1>3. QED
  BY <1>1, <1>2, PTL DEF MarketSpec

\* Types, and that a command in progress always has a step to do.
THEOREM MarketTypeCorrect == MarketSpec => []MarketTypeOK
<1>1. MInv => MarketTypeOK
  BY DEF MInv
<1>2. QED
  BY <1>1, MarketInvariant, PTL

\* InstalledPluginStore: whatever fails or is killed, a plugin the record file
\* lists has its package, unless another plugin of the package was removed.
THEOREM RecordFileIsRight == MarketSpec => []TrackedIsInstalled
<1>1. MInv => TrackedIsInstalled
  BY DEF MInv
<1>2. QED
  BY <1>1, MarketInvariant, PTL

\* DependencyResolver: as long as no factory raises, no plugin is loaded with
\* a disabled dependency, for any graph, version matrix, status and
\* configuration, but for what batch_load finds incompatible after the cascade
\* because the builder the resolution compared with is disabled.
THEOREM LoadsAreResolved == MarketSpec => []ResolvedIsClosed
<1>1. MInv => ResolvedIsClosed
  BY DEF MInv, PInv
<1>2. QED
  BY <1>1, MarketInvariant, PTL

\* The first resolution calls no plugin dependency_unmet without a reason.
THEOREM UnmetHasAReason == MarketSpec => []OnlyDependentsAreUnmet
<1>1. MInv => OnlyDependentsAreUnmet
  BY DEF MInv, PInv
<1>2. QED
  BY <1>1, MarketInvariant, PTL

\* Safe mode: a load fails for a pipeline plugin or for a circle only.
THEOREM SafeModeHolds == MarketSpec => []SafeModeContinues
<1>1. MInv => SafeModeContinues
  BY DEF MInv, PInv
<1>2. QED
  BY <1>1, MarketInvariant, PTL

\* Hot reload: what comes into service is allowed and suits the platform, the
\* features and the builder of its resolution, whatever the
\* commands and the operator have done to the configuration and the caches.
THEOREM ReloadIsRespectful == MarketSpec => ReloadRespectsConfig
<1>1. MInv => [RuntimeReady /\ loads > 1 =>
                 handed \cup instances \subseteq Permitted]_vars
  BY ReadyIsHonest DEF MInv
<1>2. QED
  BY <1>1, MarketInvariant, PTL DEF ReloadRespectsConfig

-----------------------------------------------------------------------------
(* Why a load ends, but for the scheduling: the order in which a group is   *)
(* loaded never runs into a circle, and every step of a load shortens it.   *)

\* The group that is being loaded was found free of circles, and a factory
\* that raises leaves it so.
GroupIsAcyclic ==
  phase = "load" /\ todo # {} =>
    \E g \in PipelineGroups :
      /\ ~Cyclic(g, nodes)
      /\ todo \subseteq {p \in Plugins : GroupOf[p] = g /\ nodes[p] # "absent"}

\* A circle depends on what is registered, not on what is enabled.
LEMMA CirclesStay ==
  ASSUME deps \in DepGraphs, NEW g, NEW r, NEW s,
         \A p \in Plugins : r[p] = "absent" <=> s[p] = "absent"
  PROVE  Cyclic(g, s) <=> Cyclic(g, r)
<1>1. \A p \in Plugins : Known(p, s) = Known(p, r)
  BY KnownArePlugins, PluginAssumption DEF Known, PluginAssumption
<1>2. {p \in Plugins : GroupOf[p] = g /\ s[p] # "absent"}
        = {p \in Plugins : GroupOf[p] = g /\ r[p] # "absent"}
  OBVIOUS
<1> QED
  BY <1>1, <1>2 DEF Cyclic

\* In a group without circles somebody's dependencies are all loaded.
LEMMA SomebodyIsReady ==
  ASSUME TypeOK, GroupIsAcyclic, phase = "load", todo # {}
  PROVE  \E p \in Plugins : Ready(p)
<1>1. PICK g \in PipelineGroups :
        /\ ~Cyclic(g, nodes)
        /\ todo \subseteq {p \in Plugins : GroupOf[p] = g /\ nodes[p] # "absent"}
  BY DEF GroupIsAcyclic
<1>2. PICK p \in todo : Known(p, nodes) \cap todo = {}
  BY <1>1 DEF Cyclic
<1> QED
  BY <1>2 DEF TypeOK, Ready

LEMMA AcyclicStep ==
  ASSUME TypeOK, GroupIsAcyclic, [Next]_vars
  PROVE  GroupIsAcyclic'
<1> USE DEF metaVars, configVars, loopVars
<1>1. CASE Bootstrap \/ Reload
  BY <1>1 DEF Bootstrap, Reload, BeginLoads, GroupIsAcyclic
<1>2. CASE BeginGroup
  <2> DEFINE g == Head(groups)
             r == Recheck(record, g)
  <2>1. /\ nodes' = r /\ groups # <<>>
        /\ IF Cyclic(g, r)
             THEN phase' = "failed" /\ UNCHANGED todo
             ELSE /\ todo' = {p \in Plugins : GroupOf[p] = g /\ r[p] # "absent"}
                  /\ UNCHANGED phase
    BY <1>2 DEF BeginGroup
  <2> HIDE DEF r
  <2>2. phase' = "load" =>
          /\ ~Cyclic(g, nodes')
          /\ todo' = {p \in Plugins : GroupOf[p] = g /\ nodes'[p] # "absent"}
    BY <2>1
  <2>3. g \in PipelineGroups
    <3>1. groups \in Seq(PipelineGroups) /\ groups # <<>>
      BY <2>1 DEF TypeOK
    <3> QED
      BY <3>1
  <2> HIDE DEF g
  <2>4. \A h \in PipelineGroups : Cyclic(h, nodes)' <=> Cyclic(h, nodes')
    BY <1>2 DEF BeginGroup, Cyclic, Known
  <2> QED
    BY <2>2, <2>3, <2>4 DEF GroupIsAcyclic
<1>3. ASSUME phase = "load", deps' = deps, todo' \subseteq todo,
             \A p \in Plugins : nodes'[p] = "absent" <=> nodes[p] = "absent"
      PROVE  GroupIsAcyclic'
  <2> SUFFICES ASSUME todo' # {} PROVE GroupIsAcyclic'
    BY DEF GroupIsAcyclic
  <2>1. PICK g \in PipelineGroups :
          /\ ~Cyclic(g, nodes)
          /\ todo \subseteq {p \in Plugins : GroupOf[p] = g /\ nodes[p] # "absent"}
    BY <1>3 DEF GroupIsAcyclic
  <2>2. Cyclic(g, nodes') <=> Cyclic(g, nodes)
    BY <1>3, CirclesStay DEF TypeOK
  <2>3. Cyclic(g, nodes)' <=> Cyclic(g, nodes')
    BY <1>3 DEF Cyclic, Known
  <2>4. todo' \subseteq {p \in Plugins : GroupOf[p] = g /\ nodes'[p] # "absent"}
    BY <1>3, <2>1
  <2> QED
    BY <2>1, <2>2, <2>3, <2>4 DEF GroupIsAcyclic
<1>4. ASSUME NEW p \in Plugins, SkipDisabled(p) \/ LoadPlugin(p)
      PROVE  GroupIsAcyclic'
  BY <1>3, <1>4 DEF SkipDisabled, LoadPlugin
<1>5. ASSUME NEW p \in Plugins, LoadCrashes(p) PROVE GroupIsAcyclic'
  <2>1. /\ phase = "load" /\ deps' = deps /\ todo' \subseteq todo
        /\ nodes' \in {nodes, Cascaded(nodes)}
    BY <1>5 DEF LoadCrashes
  <2>2. \A q \in Plugins : nodes'[q] = "absent" <=> nodes[q] = "absent"
    BY <2>1, CascadeCloses DEF TypeOK, Statuses, Below
  <2> QED
    BY <1>3, <2>1, <2>2
<1>6. CASE BeginMaterialize \/ RuntimeReady
          \/ \E p \in Plugins : Resolve(p) \/ ResolveRaises(p)
  BY <1>6 DEF BeginMaterialize, RuntimeReady, Resolve, ResolveRaises, GroupIsAcyclic
<1>7. CASE phase = "running" /\ phase' = "running"
  BY <1>7 DEF GroupIsAcyclic
<1>8. CASE UNCHANGED vars
  BY <1>8 DEF vars, GroupIsAcyclic, Cyclic, Known
<1> QED
  BY <1>1, <1>2, <1>4, <1>5, <1>6, <1>7, <1>8, RunningGoesOn DEF Next, LoadStep

\* A step of a load ends a phase of it, a group, or a plugin of the group.
Shortens ==
  \/ phase = "load" /\ phase' \in {"materialize", "failed"}
  \/ phase = "materialize" /\ phase' \in {"running", "failed"}
  \/ /\ phase = "load" /\ phase' = "load"
     /\ groups # <<>> /\ groups' = Tail(groups)
  \/ /\ phase' = phase /\ groups' = groups
     /\ \E p \in todo : todo' = todo \ {p}

LEMMA StepsShorten == LoadStep => Shortens
<1> USE DEF metaVars, configVars, loopVars, Shortens
<1>1. CASE BeginGroup \/ BeginMaterialize \/ RuntimeReady
  BY <1>1 DEF BeginGroup, BeginMaterialize, RuntimeReady
<1>2. ASSUME NEW p \in Plugins,
             \/ SkipDisabled(p) \/ LoadPlugin(p) \/ LoadCrashes(p)
             \/ Resolve(p) \/ ResolveRaises(p)
      PROVE  Shortens
  BY <1>2 DEF SkipDisabled, LoadPlugin, LoadCrashes, Resolve, ResolveRaises,
              Ready
<1> QED
  BY <1>1, <1>2 DEF LoadStep

LEMMA LoadShortens ==
  ASSUME [Next]_vars
  PROVE  /\ LoadStep => Shortens
         /\ Loading => Shortens \/ UNCHANGED <<phase, groups, todo>>
<1> USE DEF metaVars, configVars, loopVars
<1>1. CASE LoadStep
  BY <1>1, StepsShorten
<1>2. CASE ~LoadStep
  <2>1. CASE Bootstrap \/ Reload
    BY <1>2, <2>1 DEF Bootstrap, Reload, Loading
  <2>2. CASE EditConfig \/ UNCHANGED vars
          \/ \E p \in Plugins : \/ EnablePlugin(p) \/ DisablePlugin(p)
                                \/ GetPlugin(p) \/ GetCrashes(p)
    BY <1>2, <2>2 DEF EditConfig, EnablePlugin, DisablePlugin, GetPlugin,
                      GetCrashes, Edit, editVars, vars, Loading
  <2> QED
    BY <1>2, <2>1, <2>2 DEF Next
<1> QED
  BY <1>1, <1>2

\* A command of quant-plugins leaves a load alone.
LEMMA CommandsKeepOut == Command => UNCHANGED <<deps, loopVars>>
BY DEF Command, Pip, Register, Unrecord, Broken, InstallPackage, UpdatePlugin,
       RecordPlugin, RemovePlugin, EnableCommand, DisableCommand, Begin,
       editVars, metaVars, vars

\* A load never stalls: as long as a group has plugins that have not had their
\* turn, one has all its dependencies behind it, in every graph that
\* topological_sort accepts and although factories raise and the cascade
\* changes the statuses it is loaded from.
THEOREM LoadsNeverStall ==
  MarketSpec =>
    [](phase = "load" /\ todo # {} => \E p \in Plugins : Ready(p))
<1>1. MarketInit => GroupIsAcyclic
  BY DEF MarketInit, Init, GroupIsAcyclic
<1>2. MInv /\ GroupIsAcyclic /\ [MarketNext]_marketAll => GroupIsAcyclic'
  <2> SUFFICES ASSUME MInv, GroupIsAcyclic, [MarketNext]_marketAll
               PROVE  GroupIsAcyclic'
    OBVIOUS
  <2>1. CASE [Next]_vars
    BY <2>1, AcyclicStep DEF MInv, PInv
  <2>2. CASE Command
    BY <2>2, CommandsKeepOut DEF loopVars, GroupIsAcyclic, Cyclic, Known
  <2> QED
    BY <2>1, <2>2 DEF MarketNext, marketAll
<1>3. MInv /\ GroupIsAcyclic =>
        (phase = "load" /\ todo # {} => \E p \in Plugins : Ready(p))
  BY SomebodyIsReady DEF MInv, PInv
<1> QED
  BY <1>1, <1>2, <1>3, MarketInvariant, PTL DEF MarketSpec

\* Every step of a load shortens what is left of it, and nothing that happens
\* during it, in the platform or in a command, makes it longer.
THEOREM LoadsGetShorter ==
  MarketSpec =>
    [][/\ LoadStep => Shortens
       /\ Loading => Shortens \/ UNCHANGED <<phase, groups, todo>>]_vars
<1>1. [MarketNext]_marketAll =>
        [/\ LoadStep => Shortens
         /\ Loading => Shortens \/ UNCHANGED <<phase, groups, todo>>]_vars
  <2> SUFFICES ASSUME [MarketNext]_marketAll, vars' # vars
               PROVE  /\ LoadStep => Shortens
                      /\ Loading => Shortens \/ UNCHANGED <<phase, groups, todo>>
    OBVIOUS
  <2>1. CASE [Next]_vars
    BY <2>1, LoadShortens
  <2>2. CASE Command
    <3>1. UNCHANGED <<deps, loopVars>>
      BY <2>2, CommandsKeepOut
    <3> QED
      BY <3>1, StepsShorten DEF loopVars
  <2> QED
    BY <2>1, <2>2 DEF MarketNext, marketAll
<1> QED
  BY <1>1, PTL DEF MarketSpec
=============================================================================
