-------------------------- MODULE Platform_proofs --------------------------
(***************************************************************************)
(* Proofs about the platform.  First the graphs: running programs of them  *)
(* on one context, for any number of programs, graphs, plugins and bars,   *)
(* any configuration, and discovery and registration in any order.  Then   *)
(* training as its plugins call it (the episode cache, the folds and what  *)
(* a policy has seen, for any number of episodes, folds and variants, any  *)
(* cache size and rollout length, any curriculum), and both together.      *)
(***************************************************************************)
EXTENDS Platform, Iteration_proofs, SequenceTheorems

-----------------------------------------------------------------------------
(* The scripts.                                                            *)

PlacedMoves ==
  [kind : {"bound", "called", "maybe", "own", "check"}, plugin : Described, graph : Nat]

LEMMA PlacedFacts ==
  ASSUME NEW moves \in Seq(Moves), NEW g \in Nat
  PROVE  /\ Placed(moves, g) \in Seq(PlacedMoves) /\ Len(Placed(moves, g)) = Len(moves)
         /\ \A i \in 1 .. Len(moves) : Placed(moves, g)[i].graph = g
<1> DEFINE p == [i \in DOMAIN moves |->
                   [kind |-> moves[i].kind, plugin |-> moves[i].plugin, graph |-> g]]
<1>1. Placed(moves, g) = p \o <<>>
  BY DEF Placed, OfEach
<1>2. p \in Seq(PlacedMoves) /\ Len(p) = Len(moves)
  <2>1. DOMAIN moves = 1 .. Len(moves) /\ Len(moves) \in Nat
    OBVIOUS
  <2>2. ASSUME NEW i \in 1 .. Len(moves) PROVE p[i] \in PlacedMoves
    <3>1. moves[i] \in Moves /\ i \in DOMAIN moves
      BY <2>1
    <3>2. QED
      BY <3>1 DEF Moves, PlacedMoves
  <2> DEFINE n == Len(moves)
  <2>3. p = [i \in 1 .. n |-> p[i]] /\ n \in Nat /\ \A i \in 1 .. n : p[i] \in PlacedMoves
    BY <2>1, <2>2
  <2> HIDE DEF p, n
  <2>4. p \in Seq(PlacedMoves) /\ Len(p) = n
    BY <2>3
  <2>5. QED
    BY <2>4 DEF n
<1>3. \A i \in 1 .. Len(moves) : p[i].graph = g
  OBVIOUS
<1> HIDE DEF p
<1>4. p \o <<>> = p
  BY <1>2, ConcatEmptySeq
<1>5. QED
  BY <1>1, <1>2, <1>3, <1>4

LEMMA RowsDef ==
  ASSUME NEW program \in Seq(Seq(Moves))
  PROVE  /\ Rows(program) \in [0 .. Len(program) -> Seq(PlacedMoves)]
         /\ Rows(program)[0] = <<>>
         /\ \A g \in 1 .. Len(program) :
              Rows(program)[g] = Rows(program)[g - 1] \o Placed(program[g], g)
<1> DEFINE n == Len(program)
           S == Seq(PlacedMoves)
           step == [x \in (1 .. n) \X S |-> x[2] \o Placed(program[x[1]], x[1])]
           IsRow(f) == f = [g \in 0 .. n |->
                              IF g = 0 THEN <<>> ELSE f[g - 1] \o Placed(program[g], g)]
<1>1. n \in Nat /\ <<>> \in S
  OBVIOUS
<1>2. step \in [(1 .. n) \X S -> S]
  <2>1. ASSUME NEW g \in 1 .. n, NEW row \in S
        PROVE  row \o Placed(program[g], g) \in S
    <3>1. program[g] \in Seq(Moves) /\ g \in Nat
      OBVIOUS
    <3>2. Placed(program[g], g) \in Seq(PlacedMoves)
      BY <3>1, PlacedFacts
    <3>3. QED
      BY <3>2, ConcatProperties
  <2>2. ASSUME NEW x \in (1 .. n) \X S
        PROVE  x[2] \o Placed(program[x[1]], x[1]) \in S
    <3>1. x[1] \in 1 .. n /\ x[2] \in S
      OBVIOUS
    <3> HIDE DEF n, S
    <3>2. QED
      BY <2>1, <3>1
  <2> HIDE DEF n, S
  <2>3. QED
    BY <2>2
<1>3. PICK f : LoopsTo(n, f, S, <<>>, step)
  <2> HIDE DEF n, S, step
  <2>1. QED
    BY <1>1, <1>2, LoopExists
<1>4. /\ f \in [0 .. n -> S] /\ f[0] = <<>>
      /\ \A g \in 1 .. n : f[g] = f[g - 1] \o Placed(program[g], g)
  <2>1. /\ f \in [0 .. n -> S] /\ f[0] = <<>>
        /\ \A g \in 1 .. n : f[g] = step[<<g, f[g - 1]>>]
    BY <1>3 DEF LoopsTo
  <2> HIDE DEF n, S
  <2>2. ASSUME NEW g \in 1 .. n PROVE f[g] = f[g - 1] \o Placed(program[g], g)
    <3>1. f[g - 1] \in S
      BY <1>1, <2>1
    <3>2. <<g, f[g - 1]>> \in (1 .. n) \X S
      BY <3>1
    <3>3. QED
      BY <2>1, <3>2
  <2> HIDE DEF step
  <2>3. QED
    BY <2>1, <2>2
<1> HIDE DEF S, step
<1>5. IsRow(f)
  <2> HIDE DEF n
  <2>1. QED
    BY <1>1, <1>4
<1>6. Rows(program) = CHOOSE r : IsRow(r)
  BY DEF Rows
<1>7. IsRow(Rows(program))
  <2> HIDE DEF IsRow
  <2>1. QED
    BY <1>5, <1>6
<1> DEFINE r == Rows(program)
<1> HIDE DEF r
<1>8. IsRow(r)
  BY <1>7 DEF r
<1>9. \A g \in 0 .. n : r[g] \in S
  <2> DEFINE T == {g \in 0 .. n : r[g] \in S}
  <2>1. 0 \in T
    <3> HIDE DEF n
    <3>1. QED
      BY <1>1, <1>8
  <2>2. ASSUME NEW g \in 0 .. n, g < n, g \in T PROVE g + 1 \in T
    <3>1. g + 1 \in 1 .. n /\ g + 1 \in 0 .. n /\ (g + 1) - 1 = g /\ g + 1 \in Nat
      BY <1>1, <2>2
    <3>2. r[g + 1] = r[g] \o Placed(program[g + 1], g + 1)
      <4> DEFINE h == g + 1
      <4>1. h \in 0 .. n /\ h # 0 /\ h - 1 = g
        BY <3>1
      <4> HIDE DEF n, h
      <4>2. r[h] = r[h - 1] \o Placed(program[h], h)
        BY <1>8, <4>1
      <4>3. r[h] = r[g] \o Placed(program[h], h)
        BY <4>1, <4>2
      <4>4. QED
        BY <4>3 DEF h
    <3>3. program[g + 1] \in Seq(Moves)
      BY <3>1
    <3>4. Placed(program[g + 1], g + 1) \in Seq(PlacedMoves)
      BY <3>1, <3>3, PlacedFacts
    <3>5. r[g] \in Seq(PlacedMoves)
      BY <2>2 DEF S
    <3>6. r[g + 1] \in S
      BY <3>2, <3>4, <3>5, ConcatProperties DEF S
    <3>7. QED
      BY <3>1, <3>6
  <2>3. \A g \in 0 .. n : g \in T
    <3> HIDE DEF T, n
    <3>1. QED
      BY <1>1, <2>1, <2>2, UpTo
  <2>4. QED
    BY <2>3
<1>10. /\ r \in [0 .. n -> S]
       /\ \A g \in 1 .. n : r[g] = r[g - 1] \o Placed(program[g], g)
  <2> HIDE DEF n
  <2>1. DOMAIN r = 0 .. n /\ r = [g \in 0 .. n |-> r[g]]
    BY <1>8
  <2>2. ASSUME NEW g \in 1 .. n PROVE r[g] = r[g - 1] \o Placed(program[g], g)
    <3>1. g \in 0 .. n /\ g # 0
      BY <1>1
    <3>2. QED
      BY <1>8, <3>1
  <2>3. QED
    BY <1>9, <2>1, <2>2
<1>11. r[0] = <<>>
  <2> HIDE DEF n
  <2>1. QED
    BY <1>1, <1>8
<1>12. QED
  BY <1>10, <1>11 DEF r, S

\* A script is a non-empty sequence of moves, each with its graph.
LEMMA ScriptFacts ==
  ASSUME NEW j \in DOMAIN Scripts
  PROVE  /\ Scripts[j] \in Seq(PlacedMoves) /\ Len(Scripts[j]) \in Nat \ {0}
         /\ DOMAIN Scripts[j] = 1 .. Len(Scripts[j])
         /\ KeysOf[j] = KeysIn(Scripts[j]) /\ TypesOf[j] = TypesIn(Scripts[j])
         /\ ExternalOf[j] = ExternalIn(Scripts[j])
         /\ Scripts[j] = InARow(Programs[j]) /\ Programs[j] \in Seq(Seq(Moves))
<1> DEFINE n == Len(Programs)
<1>1. /\ Programs \in Seq(Seq(Seq(Moves))) /\ n \in Nat /\ DOMAIN Programs = 1 .. n
      /\ \A i \in 1 .. n : Programs[i] \in Seq(Seq(Moves)) /\ Len(Programs[i]) > 0
           /\ \A g \in 1 .. Len(Programs[i]) : Len(Programs[i][g]) > 0
  <2>1. Programs \in Seq(Seq(Seq(Moves)))
    BY PipelinesAssumption
  <2>2. ASSUME NEW i \in 1 .. n
        PROVE  Programs[i] \in Seq(Seq(Moves)) /\ Len(Programs[i]) > 0
           /\ \A g \in 1 .. Len(Programs[i]) : Len(Programs[i][g]) > 0
    <3>1. Programs[i] \in Seq(Seq(Moves)) /\ Programs[i] \in Range(Programs)
      BY <2>1 DEF Range
    <3> DEFINE program == Programs[i]
    <3>2. program \in Seq(Seq(Moves)) /\ program # <<>> /\ <<>> \notin Range(program)
      BY <3>1, PipelinesAssumption
    <3> HIDE DEF program
    <3>3. Len(program) > 0
      BY <3>2
    <3>4. ASSUME NEW g \in 1 .. Len(program) PROVE Len(program[g]) > 0
      <4>1. program[g] \in Seq(Moves) /\ program[g] # <<>>
        BY <3>2 DEF Range
      <4>2. QED
        BY <4>1
    <3>5. QED
      BY <3>2, <3>3, <3>4 DEF program
  <2>3. QED
    BY <2>1, <2>2
<1>2. ASSUME NEW i \in 1 .. n
      PROVE  InARow(Programs[i]) \in Seq(PlacedMoves) /\ Len(InARow(Programs[i])) \in Nat \ {0}
  <2> DEFINE program == Programs[i]
             g == Len(program)
  <2>0. /\ program \in Seq(Seq(Moves)) /\ g > 0
        /\ \A k \in 1 .. g : Len(program[k]) > 0
    BY <1>1
  <2> HIDE DEF program
  <2>1. program \in Seq(Seq(Moves)) /\ g \in Nat /\ g > 0 /\ Len(program[g]) > 0
    <3>1. g \in Nat
      BY <2>0
    <3> HIDE DEF g
    <3>2. g \in 1 .. g
      BY <2>0, <3>1
    <3>3. QED
      BY <2>0, <3>1, <3>2
  <2>2. /\ Rows(program) \in [0 .. g -> Seq(PlacedMoves)]
        /\ Rows(program)[g] = Rows(program)[g - 1] \o Placed(program[g], g)
    <3>1. g \in 1 .. Len(program)
      BY <2>1
    <3>2. QED
      BY <2>1, <3>1, RowsDef
  <2> DEFINE r == Rows(program)
             before == r[g - 1]
             last == Placed(program[g], g)
  <2>3. program[g] \in Seq(Moves)
    BY <2>1
  <2>4. last \in Seq(PlacedMoves) /\ Len(last) = Len(program[g]) /\ Len(program[g]) \in Nat
    BY <2>1, <2>3, PlacedFacts
  <2>5. r \in [0 .. g -> Seq(PlacedMoves)] /\ g - 1 \in 0 .. g /\ g \in 0 .. g
    BY <2>1, <2>2
  <2>6. before \in Seq(PlacedMoves) /\ Len(before) \in Nat
    <3> HIDE DEF r, g
    <3>1. QED
      BY <2>5
  <2> HIDE DEF before, last, g
  <2>7. Len(before \o last) = Len(before) + Len(last) /\ before \o last \in Seq(PlacedMoves)
    BY <2>4, <2>6, ConcatProperties
  <2>8. InARow(program) = before \o last
    BY <2>2 DEF InARow, before, last, g
  <2>9. QED
    BY <2>1, <2>4, <2>6, <2>7, <2>8 DEF program
<1> DEFINE s == [i \in DOMAIN Programs |-> InARow(Programs[i])]
<1>3. Scripts = s /\ DOMAIN s = 1 .. n
  <2>1. s \in Seq(Seq(PlacedMoves))
    <3>1. s = [i \in 1 .. n |-> InARow(Programs[i])]
      BY <1>1
    <3> HIDE DEF s, n
    <3>2. QED
      BY <1>1, <1>2, <3>1
  <2>2. Scripts = s \o <<>>
    BY DEF Scripts, OfEach
  <2> HIDE DEF s
  <2>3. s \o <<>> = s
    BY <2>1, ConcatEmptySeq
  <2>4. DOMAIN s = 1 .. n
    BY <1>1 DEF s
  <2>5. QED
    BY <2>2, <2>3, <2>4
<1>4. j \in 1 .. n /\ Scripts[j] = InARow(Programs[j])
  BY <1>1, <1>3
<1>5. Scripts[j] \in Seq(PlacedMoves) /\ Len(Scripts[j]) \in Nat \ {0}
  BY <1>2, <1>4
<1>6. DOMAIN Scripts[j] = 1 .. Len(Scripts[j])
  BY <1>5
<1>7. DOMAIN Scripts = 1 .. n /\ n \in Nat
  BY <1>1, <1>3
<1> HIDE DEF n, s
<1>8. KeysOf[j] = KeysIn(Scripts[j])
  <2> DEFINE f == [i \in 1 .. n |-> KeysIn(Scripts[i])]
             A == {KeysIn(Scripts[i]) : i \in 1 .. n}
  <2>1. f \in Seq(A)
    BY <1>7
  <2>2. KeysOf = f \o <<>>
    BY <1>7 DEF KeysOf, OfEach
  <2>3. f \o <<>> = f
    <3> HIDE DEF f, A
    <3>1. QED
      BY <2>1, ConcatEmptySeq
  <2>4. QED
    BY <1>4, <2>2, <2>3
<1>9. TypesOf[j] = TypesIn(Scripts[j])
  <2> DEFINE f == [i \in 1 .. n |-> TypesIn(Scripts[i])]
             A == {TypesIn(Scripts[i]) : i \in 1 .. n}
  <2>1. f \in Seq(A)
    BY <1>7
  <2>2. TypesOf = f \o <<>>
    BY <1>7 DEF TypesOf, OfEach
  <2>3. f \o <<>> = f
    <3> HIDE DEF f, A
    <3>1. QED
      BY <2>1, ConcatEmptySeq
  <2>4. QED
    BY <1>4, <2>2, <2>3
<1>10. ExternalOf[j] = ExternalIn(Scripts[j])
  <2> DEFINE f == [i \in 1 .. n |-> ExternalIn(Scripts[i])]
             A == {ExternalIn(Scripts[i]) : i \in 1 .. n}
  <2>1. f \in Seq(A)
    BY <1>7
  <2>2. ExternalOf = f \o <<>>
    BY <1>7 DEF ExternalOf, OfEach
  <2>3. f \o <<>> = f
    <3> HIDE DEF f, A
    <3>1. QED
      BY <2>1, ConcatEmptySeq
  <2>4. QED
    BY <1>4, <2>2, <2>3
<1>11. Programs[j] \in Seq(Seq(Moves))
  <2>1. n \in Nat /\ \A i \in 1 .. n : Programs[i] \in Seq(Seq(Moves))
    BY <1>1 DEF n
  <2>2. QED
    BY <1>4, <2>1
<1>12. QED
  BY <1>4, <1>5, <1>6, <1>8, <1>9, <1>10, <1>11

-----------------------------------------------------------------------------
(* What a move reads.                                                      *)

LEMMA Smallest ==
  ASSUME NEW S \in SUBSET Nat, S # {}
  PROVE  Min(S) \in S /\ \A x \in S : Min(S) <= x
<1> DEFINE IsMin(x) == x \in S /\ \A y \in S : x <= y
<1>1. \E x : IsMin(x)
  BY LeastNumber
<1>2. Min(S) = CHOOSE x : IsMin(x)
  BY DEF Min
<1>3. IsMin(Min(S))
  <2> HIDE DEF IsMin
  <2>1. QED
    BY <1>1, <1>2
<1>4. QED
  BY <1>3

\* The script of the program that runs.
LEMMA TheScript ==
  ASSUME TypeOK
  PROVE  /\ Script \in Seq(PlacedMoves) /\ Len(Script) \in Nat \ {0}
         /\ DOMAIN Script = 1 .. Len(Script)
         /\ Keys = KeysIn(Script) /\ Types = TypesIn(Script)
         /\ bar \in Nat
         /\ \A i \in DOMAIN Script :
              /\ Script[i] \in PlacedMoves
              /\ Script[i].kind \in {"bound", "called", "maybe"} => Key(Script[i].plugin) \in Keys
              /\ Script[i].plugin.emits \cup Script[i].plugin.may
                   \cup TypesRead(Script[i].plugin) \subseteq Types
<1>1. job \in DOMAIN Scripts /\ bar \in Nat
  BY PipelinesAssumption DEF TypeOK
<1>2. /\ Script \in Seq(PlacedMoves) /\ Len(Script) \in Nat \ {0}
      /\ DOMAIN Script = 1 .. Len(Script)
      /\ Keys = KeysIn(Script) /\ Types = TypesIn(Script)
  BY <1>1, ScriptFacts DEF Script, Keys, Types
<1>3. ASSUME NEW i \in DOMAIN Script
      PROVE  /\ Script[i] \in PlacedMoves
             /\ Script[i].kind \in {"bound", "called", "maybe"} => Key(Script[i].plugin) \in Keys
             /\ Script[i].plugin.emits \cup Script[i].plugin.may
                  \cup TypesRead(Script[i].plugin) \subseteq Types
  <2>1. Script[i] \in PlacedMoves /\ Script[i] \in Range(Script)
    BY <1>2 DEF Range
  <2>2. Script[i].kind \in {"bound", "called", "maybe"} => Key(Script[i].plugin) \in Keys
    BY <1>2, <2>1 DEF KeysIn
  <2>3. Script[i].plugin.emits \cup Script[i].plugin.may
          \cup TypesRead(Script[i].plugin) \subseteq Types
    BY <1>2, <2>1 DEF TypesIn
  <2>4. QED
    BY <2>1, <2>2, <2>3
<1>4. QED
  BY <1>1, <1>2, <1>3

\* Nothing is younger than the bar.
LEMMA OldestFacts ==
  ASSUME TypeOK, NEW i \in DOMAIN Script, AllReadable(Script[i].plugin)
  PROVE  Oldest(Script[i].plugin) \in 0 .. bar
<1> DEFINE p == Script[i].plugin
           ages == {bar} \cup UNION {{Age(t) : t \in ReadFrom(r)} : r \in Reads(p)}
<1>1. p \in Described /\ TypesRead(p) \subseteq Types /\ bar \in Nat
  BY TheScript DEF PlacedMoves
<1>2. ctx \in [Types -> 0 .. bar]
  BY DEF TypeOK
<1>3. ASSUME NEW r \in Reads(p), NEW t \in ReadFrom(r) PROVE Age(t) \in 0 .. bar
  <2>1. r \in p.reads /\ Readable(r)
    BY <1>3 DEF Reads, AllReadable
  <2>2. r \in Seq(Seq(STRING))
    BY <1>1, <2>1 DEF Described
  <2>3. Taken(r) \in SUBSET Nat /\ Taken(r) \subseteq DOMAIN r /\ Taken(r) # {}
    BY <2>1, <2>2 DEF Taken, Readable
  <2>4. Min(Taken(r)) \in DOMAIN r
    BY <2>3, Smallest
  <2>5. r[Min(Taken(r))] \in Range(r)
    BY <2>4 DEF Range
  <2>6. t \in TypesRead(p)
    BY <2>1, <2>5, <1>3 DEF ReadFrom, TypesRead
  <2>7. t \in Types
    BY <1>1, <2>6
  <2>8. QED
    BY <1>1, <1>2, <2>7 DEF Age
<1>4. ages \in SUBSET Nat /\ bar \in ages /\ ages \subseteq 0 .. bar
  <2> HIDE DEF p
  <2>1. QED
    BY <1>1, <1>3
<1>5. Oldest(p) = Min(ages)
  BY DEF Oldest
<1> HIDE DEF ages
<1>6. Min(ages) \in ages
  BY <1>4, Smallest
<1>7. QED
  BY <1>4, <1>5, <1>6

-----------------------------------------------------------------------------
(* Filling the registries and building the graphs.                         *)

Statuses == {"absent", "enabled", "user_config", "load_crash"}

LEMMA InitInv == Init => PipeInv
<1> SUFFICES ASSUME Init PROVE PipeInv
  OBVIOUS
<1>1. ASSUME NEW S PROVE Few(S) \subseteq SUBSET S
  <2>1. \A f \in [1 .. MaxDepartures -> S] : Range(f) \subseteq S
    BY DEF Range
  <2>2. QED
    BY <2>1 DEF Few
<1>2. TypeOK
  <2>1. disabled \subseteq Names /\ excluded \subseteq Names
    BY <1>1 DEF Init
  <2>2. /\ ctx \in [Types -> 0 .. bar] /\ start \in [Types -> 0 .. bar]
        /\ bar \in 0 .. MaxBars /\ carried \in 0 .. bar
    BY PipelinesAssumption DEF Init
  <2>3. Len(Script) \in Nat \ {0}
    BY ScriptFacts DEF Init, Script
  <2>4. QED
    BY <2>1, <2>2, <2>3 DEF Init, TypeOK
<1>3. EnabledIsAllowed /\ DisabledNeverRuns
  BY DEF Init, EnabledIsAllowed, DisabledNeverRuns
<1>4. QED
  BY <1>2, <1>3 DEF PipeInv

\* Discovery enables nothing that is disabled.
LEMMA DiscoveredFacts ==
  ASSUME PipeInv, NEW groups, NEW scanned
  PROVE  /\ Discovered(groups, scanned) \in [Keys -> Statuses]
         /\ \A k \in Keys :
              Discovered(groups, scanned)[k] = "enabled" /\ k[2] \in disabled
                => k \in overridden
<1>1. \A name : Admitted(name) \in Statuses /\ (name \in disabled => Admitted(name) = "user_config")
  BY DEF Admitted, Statuses
<1>2. record \in [Keys -> Statuses]
  BY DEF PipeInv, TypeOK, Statuses
<1>3. QED
  BY <1>1, <1>2 DEF Discovered, PipeInv, EnabledIsAllowed

\* A register function says whom it enabled against the configuration.
LEMMA FillFacts ==
  ASSUME NEW r \in [Keys -> Statuses], NEW ps, overridden \subseteq Keys,
         \A k \in Keys : r[k] = "enabled" /\ k[2] \in disabled => k \in overridden,
         Fill(r, ps)
  PROVE  /\ record' \in [Keys -> Statuses] /\ overridden' \subseteq Keys
         /\ overridden \subseteq overridden'
         /\ \A k \in Keys : record'[k] = "enabled" /\ k[2] \in disabled => k \in overridden'
         /\ \A k \in Keys : k \in {Key(p) : p \in ps} /\ r[k] \in {"absent", "enabled"}
              => record'[k] = "enabled"
<1> DEFINE added == {k \in Keys : r[k] = "absent" /\ k \in {Key(p) : p \in ps}}
<1>1. /\ record' = [k \in Keys |-> IF k \in added THEN "enabled" ELSE r[k]]
      /\ overridden' = overridden \cup {k \in added : k[2] \in disabled}
  BY DEF Fill
<1>2. "enabled" \in Statuses
  BY DEF Statuses
<1>3. QED
  BY <1>1, <1>2

\* What a step before the first bar leaves alone.
LEMMA SetupStep ==
  ASSUME PipeInv, phase = "setup", UNCHANGED setupVars, UNCHANGED barVars,
         UNCHANGED <<ctx, position, carried, ran, emitted>>,
         phase' \in {"setup", "idle", "failed"},
         error' \in {"none", "unavailable"} \cup {error},
         record' \in [Keys -> Statuses], overridden' \subseteq Keys, handed' \subseteq Keys,
         \A k \in Keys : record'[k] = "enabled" /\ k[2] \in disabled => k \in overridden',
         \A k \in handed' : k[2] \in disabled => k \in overridden'
  PROVE  PipeInv'
<1>1. /\ job' = job /\ installed' = installed /\ disabled' = disabled
      /\ excluded' = excluded /\ bar' = bar /\ omitted' = omitted /\ start' = start
  BY DEF setupVars, barVars
<1>2. Keys' = Keys /\ Names' = Names /\ Types' = Types /\ Script' = Script
  BY <1>1 DEF Keys, Names, Types, Script
<1>3. TypeOK'
  <2>1. phase' # "running" /\ position = 0
    BY DEF PipeInv, TypeOK
  <2>2. QED
    BY <1>1, <1>2, <2>1 DEF PipeInv, TypeOK, Statuses
<1>4. EnabledIsAllowed' /\ DisabledNeverRuns'
  BY <1>1, <1>2 DEF EnabledIsAllowed, DisabledNeverRuns
<1>5. QED
  BY <1>3, <1>4 DEF PipeInv

LEMMA FillStep ==
  ASSUME PipeInv, phase = "setup", NEW r \in [Keys -> Statuses], NEW ps,
         \A k \in Keys : r[k] = "enabled" /\ k[2] \in disabled => k \in overridden,
         Fill(r, ps), UNCHANGED <<setupVars, handed, runVars, barVars, phase>>
  PROVE  PipeInv'
<1>1. overridden \subseteq Keys /\ handed \subseteq Keys /\ DisabledNeverRuns
  BY DEF PipeInv, TypeOK
<1>2. /\ record' \in [Keys -> Statuses] /\ overridden' \subseteq Keys
      /\ overridden \subseteq overridden'
      /\ \A k \in Keys : record'[k] = "enabled" /\ k[2] \in disabled => k \in overridden'
  BY <1>1, FillFacts
<1>3. UNCHANGED <<ctx, position, carried, ran, emitted, error>>
  BY DEF runVars
<1>4. UNCHANGED setupVars /\ UNCHANGED barVars /\ handed' = handed /\ phase' = phase
  OBVIOUS
<1>5. \A k \in handed' : k[2] \in disabled => k \in overridden'
  BY <1>1, <1>2, <1>4 DEF DisabledNeverRuns
<1>6. QED
  BY <1>1, <1>2, <1>3, <1>4, <1>5, SetupStep

LEMMA RegisterPipelineStep == ASSUME PipeInv, RegisterPipelinePlugins PROVE PipeInv'
<1> DEFINE Bad(p) == Key(p) \in Keys /\ record[Key(p)] \notin {"absent", "enabled"}
           given == {Key(PipelineParts[i]) : i \in {n \in DOMAIN PipelineParts :
                       \A k \in 1 .. n : ~Bad(PipelineParts[k])}}
           broken == \E p \in Range(PipelineParts) : Bad(p)
           needed == Key(KlinesMonthly) \in Keys /\ record[Key(KlinesMonthly)] = "absent"
           ps == Range(PipelineParts) \cup (IF broken THEN {} ELSE {KlinesMonthly})
<1>1. /\ phase = "setup" /\ Fill(record, ps)
      /\ handed' = handed \cup (IF needed THEN given \cap Keys ELSE {})
      /\ phase' = (IF needed /\ broken THEN "failed" ELSE phase)
      /\ error' = (IF needed /\ broken THEN "unavailable" ELSE error)
      /\ UNCHANGED <<ctx, position, carried, ran, emitted>>
  BY DEF RegisterPipelinePlugins
<1>2. UNCHANGED setupVars /\ UNCHANGED barVars
  BY DEF RegisterPipelinePlugins
<1>3. /\ record \in [Keys -> Statuses] /\ overridden \subseteq Keys /\ handed \subseteq Keys
      /\ \A k \in Keys : record[k] = "enabled" /\ k[2] \in disabled => k \in overridden
      /\ DisabledNeverRuns
  BY DEF PipeInv, TypeOK, Statuses, EnabledIsAllowed
<1>4. ASSUME NEW k \in given
      PROVE  /\ k \in {Key(p) : p \in ps}
             /\ k \in Keys => record[k] \in {"absent", "enabled"}
  <2>1. PICK n \in DOMAIN PipelineParts :
          k = Key(PipelineParts[n]) /\ \A i \in 1 .. n : ~Bad(PipelineParts[i])
    BY <1>4
  <2>2. n \in 1 .. n
    BY DEF PipelineParts
  <2>3. ~Bad(PipelineParts[n]) /\ PipelineParts[n] \in Range(PipelineParts)
    BY <2>1, <2>2 DEF Range
  <2>4. QED
    BY <2>1, <2>3
<1> HIDE DEF ps, given, needed, broken
<1>5. /\ record' \in [Keys -> Statuses] /\ overridden' \subseteq Keys
      /\ overridden \subseteq overridden'
      /\ \A k \in Keys : record'[k] = "enabled" /\ k[2] \in disabled => k \in overridden'
      /\ \A k \in Keys : k \in {Key(p) : p \in ps} /\ record[k] \in {"absent", "enabled"}
           => record'[k] = "enabled"
  BY <1>1, <1>3, FillFacts
<1>6. ASSUME NEW k \in handed' PROVE k \in Keys /\ (k[2] \in disabled => k \in overridden')
  <2>1. CASE k \in handed
    BY <1>3, <1>5, <2>1 DEF DisabledNeverRuns
  <2>2. CASE k \in given \cap Keys
    BY <1>4, <1>5, <2>2
  <2>3. QED
    BY <1>1, <2>1, <2>2
<1>7. phase' \in {"setup", "idle", "failed"} /\ error' \in {"none", "unavailable"} \cup {error}
  BY <1>1
<1>8. handed' \subseteq Keys /\ \A k \in handed' : k[2] \in disabled => k \in overridden'
  BY <1>6
<1>9. QED
  BY <1>1, <1>2, <1>5, <1>7, <1>8, SetupStep

\* The builders are handed what they bind, up to the first plugin that is not
\* enabled.
LEMMA BuildStep == ASSUME PipeInv, Build PROVE PipeInv'
<1> DEFINE bound == {i \in DOMAIN Script : Script[i].kind = "bound"}
           refused == {i \in bound : record[Key(Script[i].plugin)] # "enabled"}
<1>1. /\ phase = "setup"
      /\ handed' = {Key(Script[i].plugin) : i \in {b \in bound \ refused :
                                                      \A n \in refused : b < n}}
      /\ phase' = (IF refused = {} THEN "idle" ELSE "failed")
      /\ error' = (IF refused = {} THEN "none" ELSE "unavailable")
      /\ UNCHANGED <<record, overridden, ctx, position, carried, ran, emitted>>
  BY DEF Build
<1>2. UNCHANGED setupVars /\ UNCHANGED barVars
  BY DEF Build
<1>3. /\ record \in [Keys -> Statuses] /\ overridden \subseteq Keys
      /\ \A k \in Keys : record[k] = "enabled" /\ k[2] \in disabled => k \in overridden
      /\ TypeOK
  BY DEF PipeInv, TypeOK, Statuses, EnabledIsAllowed
<1>4. ASSUME NEW k \in handed' PROVE k \in Keys /\ (k[2] \in disabled => k \in overridden')
  <2>1. PICK b \in bound \ refused : k = Key(Script[b].plugin)
    BY <1>1
  <2>2. k \in Keys /\ record[k] = "enabled"
    BY <1>3, <2>1, TheScript
  <2>3. QED
    BY <1>1, <1>3, <2>2
<1> HIDE DEF refused
<1>5. phase' \in {"setup", "idle", "failed"} /\ error' \in {"none", "unavailable"} \cup {error}
  BY <1>1
<1>6. /\ handed' \subseteq Keys /\ \A k \in handed' : k[2] \in disabled => k \in overridden'
      /\ record' \in [Keys -> Statuses] /\ overridden' \subseteq Keys
      /\ \A k \in Keys : record'[k] = "enabled" /\ k[2] \in disabled => k \in overridden'
      /\ UNCHANGED <<ctx, position, carried, ran, emitted>>
  BY <1>1, <1>3, <1>4
<1>7. QED
  BY <1>1, <1>2, <1>5, <1>6, SetupStep

LEMMA DiscoverStep ==
  ASSUME PipeInv, NEW group, NEW scanned, Discover(group, scanned)
  PROVE  PipeInv'
<1>1. /\ record' = Discovered({group}, scanned) /\ phase = "setup"
      /\ UNCHANGED <<overridden, handed, phase>>
      /\ UNCHANGED <<ctx, position, carried, ran, emitted, error>>
  BY DEF Discover, runVars
<1>2. UNCHANGED setupVars /\ UNCHANGED barVars
  BY DEF Discover
<1>3. /\ record' \in [Keys -> Statuses]
      /\ \A k \in Keys : record'[k] = "enabled" /\ k[2] \in disabled => k \in overridden'
  BY <1>1, DiscoveredFacts
<1>4. /\ overridden' \subseteq Keys /\ handed' \subseteq Keys
      /\ \A k \in handed' : k[2] \in disabled => k \in overridden'
  BY <1>1 DEF PipeInv, TypeOK, DisabledNeverRuns
<1>5. QED
  BY <1>1, <1>2, <1>3, <1>4, SetupStep

LEMMA RegisterStep ==
  ASSUME PipeInv,
         \/ \E ps \in RegisterFunctions : Register(ps)
         \/ RegisterDomainPlugins \/ RegisterRLProductPlugins
  PROVE  PipeInv'
<1>1. ASSUME NEW ps, Register(ps) PROVE PipeInv'
  <2>1. /\ record \in [Keys -> Statuses] /\ phase = "setup" /\ Fill(record, ps)
        /\ \A k \in Keys : record[k] = "enabled" /\ k[2] \in disabled => k \in overridden
        /\ UNCHANGED <<setupVars, handed, runVars, barVars, phase>>
    BY <1>1 DEF PipeInv, TypeOK, Statuses, EnabledIsAllowed, Register
  <2>2. QED
    BY <2>1, FillStep
<1>2. ASSUME NEW groups, NEW ps, Fill(Discovered(groups, FALSE), ps), phase = "setup",
             UNCHANGED <<setupVars, handed, runVars, barVars, phase>>
      PROVE  PipeInv'
  <2> DEFINE r == Discovered(groups, FALSE)
  <2>1. /\ r \in [Keys -> Statuses]
        /\ \A k \in Keys : r[k] = "enabled" /\ k[2] \in disabled => k \in overridden
    BY DiscoveredFacts
  <2>2. Fill(r, ps)
    BY <1>2
  <2> HIDE DEF r
  <2>3. QED
    BY <1>2, <2>1, <2>2, FillStep
<1>3. CASE RegisterDomainPlugins
  BY <1>2, <1>3 DEF RegisterDomainPlugins
<1>4. CASE RegisterRLProductPlugins
  BY <1>2, <1>4 DEF RegisterRLProductPlugins
<1>5. QED
  BY <1>1, <1>3, <1>4

-----------------------------------------------------------------------------
(* Running a bar.                                                          *)

\* What the registries, the configuration and the scripts promise does not
\* depend on the rest.
LEMMA SameRegistries ==
  ASSUME PipeInv, UNCHANGED setupVars, UNCHANGED overridden
  PROVE  /\ UNCHANGED <<job, installed, disabled, excluded>>
         /\ Keys' = Keys /\ Names' = Names /\ Types' = Types /\ Script' = Script
         /\ ExternalOf[job]' = ExternalOf[job]
<1>1. UNCHANGED <<job, installed, disabled, excluded>>
  BY DEF setupVars
<1>2. QED
  BY <1>1 DEF Keys, Names, Types, Script

LEMMA NewBarStep ==
  ASSUME PipeInv, NEW left \in Few(ExternalOf[job]), NewBar(left)
  PROVE  PipeInv'
<1>1. /\ phase = "idle" /\ bar < MaxBars /\ omitted' = omitted \cup left
      /\ bar' = bar + 1 /\ carried' = bar'
      /\ ctx' = [t \in Types |-> IF t \in ExternalOf[job] \ left THEN bar' ELSE ctx[t]]
      /\ start' = ctx'
      /\ position' = 1 /\ ran' = {} /\ emitted' = {} /\ error' = "none" /\ phase' = "running"
      /\ UNCHANGED <<record, overridden, handed>>
  BY DEF NewBar, registryVars
<1>2. UNCHANGED setupVars /\ UNCHANGED overridden
  BY <1>1 DEF NewBar
<1>3. /\ UNCHANGED <<job, installed, disabled, excluded>>
      /\ Keys' = Keys /\ Names' = Names /\ Types' = Types /\ Script' = Script
      /\ ExternalOf[job]' = ExternalOf[job]
  BY <1>2, SameRegistries
<1>4. TypeOK /\ bar \in Nat /\ Len(Script) \in Nat \ {0}
  BY TheScript DEF PipeInv
<1>5. TypeOK'
  <2>1. bar' \in 0 .. MaxBars /\ bar' \in Nat /\ bar' >= bar
    BY <1>1, <1>4, PipelinesAssumption
  <2>2. ctx' \in [Types -> 0 .. bar']
    <3>1. ctx \in [Types -> 0 .. bar]
      BY <1>4 DEF TypeOK
    <3>2. ASSUME NEW t \in Types
          PROVE  (IF t \in ExternalOf[job] \ left THEN bar' ELSE ctx[t]) \in 0 .. bar'
      <4>1. ctx[t] \in 0 .. bar
        BY <3>1
      <4>2. QED
        BY <1>4, <2>1, <4>1
    <3>3. QED
      BY <1>1, <3>2
  <2>3. omitted' \subseteq ExternalOf[job]
    <3>1. \A f \in [1 .. MaxDepartures -> ExternalOf[job]] : Range(f) \subseteq ExternalOf[job]
      BY DEF Range
    <3>2. left \subseteq ExternalOf[job]
      BY <3>1 DEF Few
    <3>3. QED
      BY <1>1, <1>4, <3>2 DEF TypeOK
  <2>4. position' \in 0 .. Len(Script) /\ carried' \in 0 .. bar'
    BY <1>1, <1>4, <2>1
  <2>5. job' \in DOMAIN Scripts /\ installed' \in BOOLEAN /\ disabled' \subseteq Names'
        /\ excluded' \subseteq Names' /\ record' \in [Keys' -> Statuses]
        /\ overridden' \subseteq Keys' /\ handed' \subseteq Keys'
    BY <1>1, <1>3, <1>4 DEF TypeOK, Statuses
  <2>6. QED
    BY <1>1, <1>3, <2>1, <2>2, <2>3, <2>4, <2>5 DEF TypeOK, Statuses
<1>6. EnabledIsAllowed' /\ DisabledNeverRuns'
  BY <1>1, <1>3 DEF PipeInv, EnabledIsAllowed, DisabledNeverRuns
<1>7. QED
  BY <1>5, <1>6 DEF PipeInv

\* What a move of a running graph may do.
LEMMA MoveStep ==
  ASSUME PipeInv, phase = "running", UNCHANGED setupVars, UNCHANGED overridden,
         UNCHANGED barVars,
         record' \in [Keys -> Statuses],
         \A k \in Keys : record'[k] = "enabled" => record[k] = "enabled",
         handed' \subseteq handed \cup HandedFor(Script[position]),
         handed' # handed => Available(Script[position]),
         ctx' \in [Types -> 0 .. bar], carried' \in 0 .. bar,
         position' \in 0 .. Len(Script), phase' \in {"idle", "running"},
         position' = 0 <=> phase' # "running",
         ran' \subseteq DOMAIN Script, emitted' \subseteq Types,
         error' \in {"none", "unavailable", "envelope", "raised"},
         phase' = "running" => error' = "none"
  PROVE  PipeInv'
<1>1. /\ UNCHANGED <<job, installed, disabled, excluded>>
      /\ Keys' = Keys /\ Names' = Names /\ Types' = Types /\ Script' = Script
      /\ ExternalOf[job]' = ExternalOf[job]
  BY SameRegistries
<1>2. /\ UNCHANGED <<bar, omitted, start>> /\ overridden' = overridden
      /\ TypeOK /\ EnabledIsAllowed /\ DisabledNeverRuns
  BY DEF barVars, PipeInv
<1>3. position \in DOMAIN Script
  BY <1>2, TheScript DEF TypeOK
<1>4. ASSUME NEW k \in handed' PROVE k \in Keys /\ (k[2] \in disabled => k \in overridden)
  <2>1. CASE k \in handed
    BY <1>2, <2>1 DEF TypeOK, DisabledNeverRuns
  <2>2. CASE k \notin handed
    <3>1. k \in HandedFor(Script[position]) /\ Available(Script[position])
      BY <1>4, <2>2
    <3>2. Asked(Script[position]) /\ k = Key(Script[position].plugin)
      BY <3>1 DEF HandedFor
    <3>3. k \in Keys
      BY <1>2, <1>3, <3>2, TheScript DEF Asked
    <3>4. record[k] = "enabled"
      BY <3>1, <3>2 DEF Available
    <3>5. QED
      BY <1>2, <3>3, <3>4 DEF EnabledIsAllowed
  <2>3. QED
    BY <2>1, <2>2
<1>5. TypeOK'
  BY <1>1, <1>2, <1>4 DEF TypeOK, Statuses
<1>6. EnabledIsAllowed'
  BY <1>1, <1>2 DEF EnabledIsAllowed
<1>7. DisabledNeverRuns'
  BY <1>1, <1>2, <1>4 DEF DisabledNeverRuns
<1>8. QED
  BY <1>5, <1>6, <1>7 DEF PipeInv

LEMMA GoOnFacts ==
  ASSUME PipeInv, phase = "running", NEW n \in Nat \ {0}, NEW age \in 0 .. bar, GoOn(n, age)
  PROVE  /\ position' \in 0 .. Len(Script) /\ phase' \in {"idle", "running"}
         /\ position' = 0 <=> phase' # "running"
         /\ carried' \in 0 .. bar
<1>1. bar \in Nat /\ Len(Script) \in Nat
  BY TheScript DEF PipeInv
<1>2. CASE n > Len(Script)
  BY <1>1, <1>2 DEF GoOn
<1>3. CASE ~(n > Len(Script))
  BY <1>1, <1>3 DEF GoOn
<1>4. QED
  BY <1>2, <1>3

LEMMA EmitFacts ==
  ASSUME PipeInv, phase = "running", NEW types \in SUBSET Types, NEW age \in 0 .. bar,
         EmitAll(types, age)
  PROVE  /\ ctx' \in [Types -> 0 .. bar] /\ emitted' \subseteq Types
         /\ ran' \subseteq DOMAIN Script
<1>1. TypeOK
  BY DEF PipeInv
<1>2. position \in DOMAIN Script
  BY <1>1, TheScript DEF TypeOK
<1>3. QED
  BY <1>1, <1>2 DEF EmitAll, TypeOK

LEMMA PerformStep ==
  ASSUME PipeInv, phase = "running", UNCHANGED setupVars, UNCHANGED overridden,
         UNCHANGED barVars, NEW more \in SUBSET Script[position].plugin.may,
         Perform(Script[position], more)
  PROVE  PipeInv'
<1> DEFINE m == Script[position]
           old == Oldest(m.plugin)
           offered == Min({carried, old})
<1>0. TypeOK /\ position \in DOMAIN Script
  BY TheScript DEF PipeInv, TypeOK
<1>1. /\ Available(m) /\ AllReadable(m.plugin)
      /\ EmitAll(Emits(m.plugin) \cup more, IF Builder(m) THEN offered ELSE old)
      /\ handed' = handed \cup HandedFor(m)
      /\ GoOn(position + 1, IF m.kind = "bound" THEN carried ELSE offered)
      /\ record' = record /\ error' = error
  BY DEF Perform
<1>2. old \in 0 .. bar /\ carried \in 0 .. bar /\ bar \in Nat
  BY <1>0, <1>1, OldestFacts, TheScript DEF TypeOK
<1>3. offered \in 0 .. bar
  <2> HIDE DEF old
  <2>1. {carried, old} \in SUBSET Nat
    BY <1>2
  <2>2. Min({carried, old}) \in {carried, old}
    BY <2>1, Smallest
  <2>3. QED
    BY <1>2, <2>2
<1>4. Emits(m.plugin) \cup more \subseteq Types
  BY <1>0, TheScript DEF Emits
<1> HIDE DEF offered, old
<1> DEFINE age1 == IF Builder(m) THEN offered ELSE old
           age2 == IF m.kind = "bound" THEN carried ELSE offered
<1>5. age1 \in 0 .. bar /\ age2 \in 0 .. bar
  BY <1>2, <1>3
<1>6. /\ EmitAll(Emits(m.plugin) \cup more, age1) /\ GoOn(position + 1, age2)
  BY <1>1
<1>7. position + 1 \in Nat \ {0}
  BY <1>0, TheScript
<1> HIDE DEF age1, age2
<1>8. /\ ctx' \in [Types -> 0 .. bar] /\ emitted' \subseteq Types
      /\ ran' \subseteq DOMAIN Script
  BY <1>4, <1>5, <1>6, EmitFacts
<1>9. /\ position' \in 0 .. Len(Script) /\ phase' \in {"idle", "running"}
      /\ position' = 0 <=> phase' # "running"
      /\ carried' \in 0 .. bar
  BY <1>5, <1>6, <1>7, GoOnFacts
<1>10. /\ record' \in [Keys -> Statuses] /\ error' = "none"
       /\ \A k \in Keys : record'[k] = "enabled" => record[k] = "enabled"
  BY <1>0, <1>1 DEF TypeOK, Statuses
<1>11. QED
  BY <1>1, <1>8, <1>9, <1>10, MoveStep

LEMMA SkipRejectStep ==
  ASSUME PipeInv, phase = "running", UNCHANGED setupVars, UNCHANGED overridden,
         UNCHANGED barVars, Skip(Script[position]) \/ Reject(Script[position])
  PROVE  PipeInv'
<1> DEFINE m == Script[position]
<1>0. /\ TypeOK /\ position \in DOMAIN Script /\ position \in Nat /\ position + 1 \in Nat \ {0}
      /\ carried \in 0 .. bar /\ Len(Script) \in Nat /\ position <= Len(Script)
  BY TheScript DEF PipeInv, TypeOK
<1>1. /\ record' = record /\ handed' = handed /\ error' = error
  BY DEF Skip, Reject
<1>2. /\ record' \in [Keys -> Statuses] /\ error' = "none"
      /\ \A k \in Keys : record'[k] = "enabled" => record[k] = "enabled"
  BY <1>0, <1>1 DEF TypeOK, Statuses
<1>3. CASE Skip(m)
  <2>1. GoOn(position + 1, carried) /\ UNCHANGED <<ctx, emitted, ran>>
    BY <1>3 DEF Skip
  <2>2. /\ position' \in 0 .. Len(Script) /\ phase' \in {"idle", "running"}
        /\ position' = 0 <=> phase' # "running"
        /\ carried' \in 0 .. bar
    BY <1>0, <2>1, GoOnFacts
  <2>3. ctx' \in [Types -> 0 .. bar] /\ emitted' \subseteq Types /\ ran' \subseteq DOMAIN Script
    BY <1>0, <2>1 DEF TypeOK
  <2>4. QED
    BY <1>1, <1>2, <2>2, <2>3, MoveStep
<1>4. CASE Reject(m)
  <2> DEFINE ends == {i \in position + 1 .. Len(Script) + 1 :
                        i \in DOMAIN Script => Script[i].graph # m.graph}
             n == Min(ends)
  <2>1. EmitAll(m.plugin.may, carried) /\ GoOn(n, carried)
    BY <1>4 DEF Reject
  <2>2. n \in Nat \ {0}
    <3>1. Len(Script) + 1 \in ends /\ ends \in SUBSET Nat /\ 0 \notin ends
      BY <1>0, TheScript
    <3> HIDE DEF ends
    <3>2. QED
      BY <3>1, Smallest
  <2>3. m.plugin.may \in SUBSET Types
    BY <1>0, TheScript
  <2> HIDE DEF n
  <2>4. /\ position' \in 0 .. Len(Script) /\ phase' \in {"idle", "running"}
        /\ position' = 0 <=> phase' # "running"
        /\ carried' \in 0 .. bar
    BY <1>0, <2>1, <2>2, GoOnFacts
  <2>5. ctx' \in [Types -> 0 .. bar] /\ emitted' \subseteq Types /\ ran' \subseteq DOMAIN Script
    BY <1>0, <2>1, <2>3, EmitFacts
  <2>6. QED
    BY <1>1, <1>2, <2>4, <2>5, MoveStep
<1>5. QED
  BY <1>3, <1>4

LEMMA FailStep ==
  ASSUME PipeInv, phase = "running", UNCHANGED setupVars, UNCHANGED overridden,
         UNCHANGED barVars, LoadCrash(Script[position]) \/ Fail(Script[position])
  PROVE  PipeInv'
<1> DEFINE m == Script[position]
<1>0. /\ TypeOK /\ bar \in 0 .. bar /\ Len(Script) \in Nat
      /\ record \in [Keys -> Statuses]
  BY TheScript DEF PipeInv, TypeOK, Statuses
<1>1. \E reason \in {"unavailable", "envelope", "raised"} : BreakOff(reason)
  BY DEF LoadCrash, Fail
<1>2. /\ error' \in {"unavailable", "envelope", "raised"} /\ phase' = "idle"
      /\ position' = 0 /\ carried' = bar
  BY <1>1 DEF BreakOff
<1>3. UNCHANGED <<ctx, ran, emitted>>
  BY DEF LoadCrash, Fail
<1>4. /\ record' \in [Keys -> Statuses]
      /\ \A k \in Keys : record'[k] = "enabled" => record[k] = "enabled"
  <2>1. record' = record \/ record' = [record EXCEPT ![Key(m.plugin)] = "load_crash"]
    BY DEF LoadCrash, Fail
  <2> HIDE DEF m
  <2>2. QED
    BY <1>0, <2>1 DEF Statuses
<1>5. handed' = handed \/ (handed' = handed \cup HandedFor(m) /\ Available(m))
  BY DEF LoadCrash, Fail
<1>6. ctx' \in [Types -> 0 .. bar] /\ emitted' \subseteq Types /\ ran' \subseteq DOMAIN Script
  BY <1>0, <1>3 DEF TypeOK
<1>7. /\ handed' \subseteq handed \cup HandedFor(m)
      /\ handed' # handed => Available(m)
  BY <1>5
<1>8. /\ position' \in 0 .. Len(Script) /\ phase' \in {"idle", "running"}
      /\ position' = 0 <=> phase' # "running"
      /\ carried' \in 0 .. bar
      /\ error' \in {"none", "unavailable", "envelope", "raised"}
      /\ phase' = "running" => error' = "none"
  BY <1>0, <1>2
<1>9. QED
  BY <1>4, <1>6, <1>7, <1>8, MoveStep

LEMMA StepStep == ASSUME PipeInv, Step PROVE PipeInv'
<1>1. /\ phase = "running" /\ UNCHANGED setupVars /\ UNCHANGED overridden
      /\ UNCHANGED barVars
  BY DEF Step
<1>2. \/ \E more \in SUBSET Script[position].plugin.may : Perform(Script[position], more)
      \/ Skip(Script[position]) \/ Reject(Script[position])
      \/ LoadCrash(Script[position]) \/ Fail(Script[position])
  BY DEF Step
<1>3. QED
  BY <1>1, <1>2, PerformStep, SkipRejectStep, FailStep

LEMMA PipeRests == ASSUME PipeInv, UNCHANGED vars PROVE PipeInv'
<1>1. /\ UNCHANGED <<job, installed, disabled, excluded, record, overridden, handed>>
      /\ UNCHANGED <<ctx, position, carried, ran, emitted, error, bar, omitted, start, phase>>
  BY DEF vars, setupVars, registryVars, runVars, barVars
<1>2. Keys' = Keys /\ Names' = Names /\ Types' = Types /\ Script' = Script
  BY <1>1 DEF Keys, Names, Types, Script
<1>3. QED
  BY <1>1, <1>2 DEF PipeInv, TypeOK, EnabledIsAllowed, DisabledNeverRuns

LEMMA PipeStep == ASSUME PipeInv, [Next]_vars PROVE PipeInv'
<1>1. CASE \E group \in {k[1] : k \in Keys}, scanned \in BOOLEAN : Discover(group, scanned)
  BY <1>1, DiscoverStep
<1>2. CASE \/ \E ps \in RegisterFunctions : Register(ps)
           \/ RegisterDomainPlugins \/ RegisterRLProductPlugins
  BY <1>2, RegisterStep
<1>3. CASE RegisterPipelinePlugins
  BY <1>3, RegisterPipelineStep
<1>4. CASE Build
  BY <1>4, BuildStep
<1>5. CASE \E left \in Few(ExternalOf[job]) : NewBar(left)
  BY <1>5, NewBarStep
<1>6. CASE Step
  BY <1>6, StepStep
<1>7. CASE UNCHANGED vars
  BY <1>7, PipeRests
<1>8. QED
  BY <1>1, <1>2, <1>3, <1>4, <1>5, <1>6, <1>7 DEF Next

-----------------------------------------------------------------------------
(* Fresh data.                                                             *)

\* The graphs of a script follow one another.
LEMMA RowGraphs ==
  ASSUME NEW program \in Seq(Seq(Moves))
  PROVE  \A i, k \in DOMAIN InARow(program) :
           i <= k => InARow(program)[i].graph <= InARow(program)[k].graph
<1> DEFINE n == Len(program)
           r == Rows(program)
           Ordered(g) ==
             /\ \A i \in 1 .. Len(r[g]) : r[g][i].graph \in 0 .. g
             /\ \A i, k \in 1 .. Len(r[g]) : i <= k => r[g][i].graph <= r[g][k].graph
           T == {g \in 0 .. n : Ordered(g)}
<1>1. /\ n \in Nat /\ r \in [0 .. n -> Seq(PlacedMoves)] /\ r[0] = <<>>
      /\ \A g \in 1 .. n : r[g] = r[g - 1] \o Placed(program[g], g)
  <2>1. n \in Nat
    OBVIOUS
  <2>2. /\ r \in [0 .. n -> Seq(PlacedMoves)] /\ r[0] = <<>>
        /\ \A g \in 1 .. n : r[g] = r[g - 1] \o Placed(program[g], g)
    BY RowsDef, Zenon
  <2>3. QED
    BY <2>1, <2>2
<1> HIDE DEF r
<1>2. 0 \in T
  BY <1>1
<1>3. ASSUME NEW g \in 0 .. n, g < n, g \in T PROVE g + 1 \in T
  <2> DEFINE h == g + 1
             a == r[g]
             b == Placed(program[h], h)
  <2>1. h \in 1 .. n /\ h \in 0 .. n /\ h - 1 = g /\ h \in Nat /\ g \in Nat
    BY <1>1, <1>3
  <2>2. program[h] \in Seq(Moves)
    BY <2>1
  <2>3. b \in Seq(PlacedMoves) /\ \A i \in 1 .. Len(b) : b[i].graph = h
    BY <2>1, <2>2, PlacedFacts
  <2>4. a \in Seq(PlacedMoves) /\ Ordered(g)
    BY <1>1, <1>3
  <2>5. r[h] = a \o b
    BY <1>1, <2>1
  <2> HIDE DEF a, b, n
  <2>6. /\ Len(a) \in Nat /\ Len(b) \in Nat /\ Len(a \o b) = Len(a) + Len(b)
        /\ \A i \in 1 .. Len(a \o b) :
             (a \o b)[i] = IF i <= Len(a) THEN a[i] ELSE b[i - Len(a)]
    BY <2>3, <2>4, ConcatProperties
  <2>7. /\ \A i \in 1 .. Len(a) : a[i].graph \in 0 .. g
        /\ \A i, k \in 1 .. Len(a) : i <= k => a[i].graph <= a[k].graph
    BY <2>4 DEF a
  <2>8. ASSUME NEW i \in 1 .. Len(a \o b)
        PROVE  (a \o b)[i].graph \in 0 .. h
    <3>1. CASE i <= Len(a)
      <4>1. i \in 1 .. Len(a)
        BY <2>6, <3>1
      <4>2. QED
        BY <2>1, <2>6, <2>7, <3>1, <4>1
    <3>2. CASE ~(i <= Len(a))
      <4>1. i - Len(a) \in 1 .. Len(b)
        BY <2>6, <3>2
      <4>2. (a \o b)[i] = b[i - Len(a)]
        BY <2>6, <3>2
      <4>3. (a \o b)[i].graph = h
        BY <2>3, <4>1, <4>2
      <4>4. QED
        BY <2>1, <4>3
    <3>3. QED
      BY <3>1, <3>2
  <2>9. ASSUME NEW i \in 1 .. Len(a \o b), NEW k \in 1 .. Len(a \o b), i <= k
        PROVE  (a \o b)[i].graph <= (a \o b)[k].graph
    <3>1. CASE k <= Len(a)
      <4>1. i \in 1 .. Len(a) /\ k \in 1 .. Len(a) /\ i <= Len(a)
        BY <2>6, <2>9, <3>1
      <4>2. (a \o b)[i] = a[i] /\ (a \o b)[k] = a[k]
        BY <2>6, <3>1, <4>1
      <4>3. QED
        BY <2>7, <2>9, <4>1, <4>2
    <3>2. CASE ~(k <= Len(a))
      <4>1. k - Len(a) \in 1 .. Len(b)
        BY <2>6, <3>2
      <4>2. (a \o b)[k] = b[k - Len(a)]
        BY <2>6, <3>2
      <4>3. (a \o b)[k].graph = h
        BY <2>3, <4>1, <4>2
      <4>4. QED
        BY <2>1, <2>8, <4>3
    <3>3. QED
      BY <3>1, <3>2
  <2> DEFINE c == a \o b
  <2>10. /\ \A i \in 1 .. Len(c) : c[i].graph \in 0 .. h
         /\ \A i, k \in 1 .. Len(c) : i <= k => c[i].graph <= c[k].graph
    BY <2>8, <2>9
  <2>11. r[h] = c
    BY <2>5
  <2> HIDE DEF c
  <2>12. Ordered(h)
    BY <2>10, <2>11
  <2>13. QED
    BY <2>1, <2>12
<1>4. \A g \in 0 .. n : g \in T
  <2> HIDE DEF T, n
  <2>1. QED
    BY <1>1, <1>2, <1>3, UpTo
<1>5. InARow(program) = r[n] /\ Ordered(n) /\ r[n] \in Seq(PlacedMoves)
  <2>1. n \in 0 .. n
    BY <1>1
  <2>2. InARow(program) = r[n]
    BY DEF InARow, r
  <2> HIDE DEF Ordered, n
  <2>3. Ordered(n)
    BY <1>4, <2>1
  <2>4. QED
    BY <1>1, <2>1, <2>2, <2>3
<1>6. DOMAIN r[n] = 1 .. Len(r[n])
  BY <1>5
<1>7. \A i, k \in 1 .. Len(r[n]) : i <= k => r[n][i].graph <= r[n][k].graph
  BY <1>5
<1> HIDE DEF n, T, Ordered
<1>8. QED
  BY <1>5, <1>6, <1>7

\* The moves that have been made for sure: when the next one of the same graph
\* follows, and when the rest of the graph is left out.
LEMMA BeforeFacts ==
  ASSUME TypeOK, NEW n \in DOMAIN Script
  PROVE  /\ Before(Script, n) \subseteq 1 .. n - 1
         /\ n + 1 \in DOMAIN Script
              => Before(Script, n + 1) \subseteq
                   Before(Script, n) \cup {i \in {n} : Script[i].kind # "maybe"}
         /\ \A m \in DOMAIN Script :
              /\ n < m /\ Script[m].graph # Script[n].graph
              /\ \A i \in n + 1 .. m - 1 : Script[i].graph = Script[n].graph
              => Before(Script, m) = {}
<1>1. /\ DOMAIN Script = 1 .. Len(Script) /\ Len(Script) \in Nat
      /\ \A i \in DOMAIN Script : Script[i].graph \in Nat
  BY TheScript DEF PlacedMoves
<1>2. \A i, k \in DOMAIN Script : i <= k => Script[i].graph <= Script[k].graph
  <2>1. job \in DOMAIN Scripts
    BY DEF TypeOK
  <2>2. Script = InARow(Programs[job]) /\ Programs[job] \in Seq(Seq(Moves))
    BY <2>1, ScriptFacts DEF Script
  <2>3. QED
    BY <2>2, RowGraphs
<1> DEFINE s == Script
           graph(i) == s[i].graph
<1>3. Before(Script, n) \subseteq 1 .. n - 1
  BY DEF Before
<1>4. ASSUME n + 1 \in DOMAIN s, NEW k \in Before(s, n + 1)
      PROVE  k \in Before(s, n) \/ (k = n /\ s[k].kind # "maybe")
  <2>1. k \in 1 .. (n + 1) - 1 /\ s[k].graph = s[n + 1].graph /\ s[k].kind # "maybe"
    BY <1>4 DEF Before
  <2>2. CASE k = n
    BY <2>1, <2>2
  <2>3. CASE k # n
    <3>1. k \in 1 .. n - 1 /\ k \in DOMAIN s /\ k <= n /\ n <= n + 1
      BY <1>1, <2>1, <2>3
    <3>2. s[k].graph <= s[n].graph /\ s[n].graph <= s[n + 1].graph
      BY <1>2, <1>4, <3>1
    <3>3. s[k].graph = s[n].graph
      BY <1>1, <1>4, <2>1, <3>1, <3>2
    <3>4. QED
      BY <2>1, <3>1, <3>3 DEF Before
  <2>4. QED
    BY <2>2, <2>3
<1>5. ASSUME NEW m \in DOMAIN s, n < m, s[m].graph # s[n].graph,
             \A i \in n + 1 .. m - 1 : s[i].graph = s[n].graph, NEW k \in Before(s, m)
      PROVE  FALSE
  <2>1. k \in 1 .. m - 1 /\ s[k].graph = s[m].graph
    BY <1>5 DEF Before
  <2>2. CASE k <= n
    <3>1. k \in DOMAIN s /\ n <= m
      BY <1>1, <1>5, <2>1, <2>2
    <3>2. s[k].graph <= s[n].graph /\ s[n].graph <= s[m].graph
      BY <1>2, <2>2, <3>1
    <3>3. QED
      BY <1>1, <1>5, <2>1, <3>1, <3>2
  <2>3. CASE ~(k <= n)
    <3>1. k \in n + 1 .. m - 1
      BY <1>1, <2>1, <2>3
    <3>2. QED
      BY <1>5, <2>1, <3>1
  <2>4. QED
    BY <2>2, <2>3
<1>6. QED
  BY <1>3, <1>4, <1>5

\* What move k has declared and the rest of its graph has still to emit.
LEMMA DueFacts ==
  ASSUME NEW s \in Seq(PlacedMoves), NEW n \in DOMAIN s, NEW k \in 1 .. n, NEW t \in Due(s, k, n)
  PROVE  /\ t \in Outputs(s[k])
         /\ \/ t \in Due(s, k, n + 1)
            \/ /\ t \in s[n].plugin.emits /\ s[n].plugin.after \subseteq Certain(s, n)
               /\ k = n \/ s[n].kind # "maybe"
         /\ k < n => s[n].kind # "check"
<1>1. Len(s) \in Nat /\ n \in 1 .. Len(s)
  OBVIOUS
<1>2. PICK j \in Payers(s, k, n) : t \in s[j].plugin.emits
  BY DEF Due
<1>3. t \in Outputs(s[k])
  BY DEF Due
<1>4. /\ j \in n .. Len(s) /\ k <= j /\ s[j].graph = s[k].graph
      /\ j = k \/ s[j].kind # "maybe"
      /\ s[j].plugin.after \subseteq Certain(s, j)
      /\ \A i \in k + 1 .. j : s[i].kind # "check"
  BY <1>2 DEF Payers
<1>5. CASE j = n
  BY <1>1, <1>2, <1>3, <1>4, <1>5
<1>6. CASE j # n
  <2>1. j \in n + 1 .. Len(s) /\ (k < n => n \in k + 1 .. j)
    BY <1>1, <1>4, <1>6
  <2>2. j \in Payers(s, k, n + 1)
    BY <1>4, <2>1 DEF Payers
  <2>3. t \in Due(s, k, n + 1)
    BY <1>2, <1>3, <2>2 DEF Due
  <2>4. QED
    BY <1>3, <1>4, <2>1, <2>3
<1>7. QED
  BY <1>5, <1>6

\* Whatever is needed of a bar stays needed.
LEMMA ForeseenBefore ==
  ASSUME PipeInv, phase = "running", ran \subseteq 1 .. position - 1,
         UNCHANGED setupVars, UNCHANGED barVars,
         ran' = ran \/ ran' = ran \cup {position}, Foreseen'
  PROVE  Foreseen
<1> DEFINE Asks(i) == Script[i].plugin.inputs \cup Undeclared(Script[i].plugin)
           Made(R, i) == UNION {Outputs(Script[k]) : k \in {r \in R : r < i}}
           N(R) == UNION {Asks(i) \ Made(R, i) : i \in R}
<1>1. UNCHANGED <<bar, start>> /\ Script' = Script /\ Types' = Types
  BY DEF barVars, setupVars, Script, Types
<1>2. Needed = N(ran) /\ Needed' = N(ran')
  BY <1>1 DEF Needed
<1>3. position \in Nat
  BY TheScript DEF PipeInv, TypeOK
<1>4. ASSUME NEW i \in ran PROVE i \in ran' /\ Made(ran, i) = Made(ran', i)
  <2>1. i \in 1 .. position - 1 /\ ~(position < i)
    BY <1>3
  <2>2. {r \in ran : r < i} = {r \in ran' : r < i}
    BY <2>1
  <2>3. QED
    BY <2>2
<1> HIDE DEF Asks, Made
<1>5. N(ran) \subseteq N(ran')
  BY <1>4
<1>6. Needed \subseteq Needed'
  BY <1>2, <1>5
<1>7. QED
  BY <1>1, <1>6 DEF Foreseen

\* What a handler that does not raise reads.
LEMMA ReadFacts ==
  ASSUME TypeOK, NEW i \in DOMAIN Script, AllReadable(Script[i].plugin),
         NEW r \in Reads(Script[i].plugin), NEW t \in ReadFrom(r)
  PROVE  t \in TypesRead(Script[i].plugin) /\ t \in Types /\ Present(t)
<1> DEFINE p == Script[i].plugin
<1>1. p \in Described /\ TypesRead(p) \subseteq Types
  BY TheScript DEF PlacedMoves
<1>2. r \in p.reads /\ Readable(r)
  BY DEF Reads, AllReadable
<1>3. r \in Seq(Seq(STRING))
  BY <1>1, <1>2 DEF Described
<1>4. Taken(r) \in SUBSET Nat /\ Taken(r) \subseteq DOMAIN r /\ Taken(r) # {}
  BY <1>2, <1>3 DEF Taken, Readable
<1>5. Min(Taken(r)) \in DOMAIN r
  BY <1>4, Smallest
<1>6. r[Min(Taken(r))] \in Range(r)
  BY <1>5 DEF Range
<1>7. t \in TypesRead(p)
  BY <1>2, <1>6 DEF ReadFrom, TypesRead
<1>8. QED
  BY <1>1, <1>2, <1>7 DEF Readable

LEMMA FreshOldest ==
  ASSUME NEW p, bar \in Nat,
         \A r \in Reads(p) : \A t \in ReadFrom(r) : Age(t) = bar
  PROVE  Oldest(p) = bar
<1> DEFINE ages == {bar} \cup UNION {{Age(t) : t \in ReadFrom(r)} : r \in Reads(p)}
<1>1. ages = {bar}
  OBVIOUS
<1>2. Oldest(p) = Min(ages)
  BY DEF Oldest
<1> HIDE DEF ages
<1>3. Min(ages) \in ages
  BY <1>1, Smallest
<1>4. QED
  BY <1>1, <1>2, <1>3

\* A move whose reads are declared makes what it emits of fresh data.
LEMMA FreshReads ==
  ASSUME PipeInv, phase = "running", Settled, FreshSoFar, AllReadable(Script[position].plugin),
         ReadsDeclared(Script, position), UNCHANGED setupVars, UNCHANGED barVars,
         ran' = ran \cup {position}, Foreseen'
  PROVE  Oldest(Script[position].plugin) = bar
<1> DEFINE n == position
           p == Script[n].plugin
           Asks(i) == Script[i].plugin.inputs \cup Undeclared(Script[i].plugin)
<1>1. /\ TypeOK /\ n \in DOMAIN Script /\ bar \in Nat /\ DOMAIN Script = 1 .. Len(Script)
      /\ Len(Script) \in Nat /\ ctx \in [Types -> 0 .. bar]
  BY TheScript DEF PipeInv, TypeOK
<1>2. /\ ran \subseteq 1 .. n - 1 /\ Before(Script, n) \subseteq ran
      /\ \A t \in emitted : ctx[t] = bar
      /\ \A k \in ran : Outputs(Script[k]) \subseteq emitted \cup Due(Script, k, n)
  BY DEF Settled, FreshSoFar
<1>3. Certain(Script, n) \subseteq emitted
  BY DEF Settled, Certain
<1>4. ASSUME NEW t \in TypesRead(p), t \in Types, Present(t), t \notin Live, t \notin emitted
      PROVE  ctx[t] = bar
  <2> DEFINE unsure == TypesRead(p) \ (Certain(Script, n) \cup Live)
  <2>1. t \in unsure
    BY <1>3, <1>4
  <2>2. /\ unsure \subseteq UNION {Asks(k) : k \in Before(Script, n) \cup {n}}
        /\ \A k \in 1 .. n - 1 : unsure \cap Due(Script, k, n) = {}
    BY DEF ReadsDeclared
  <2>3. PICK k \in ran' : t \in Asks(k)
    BY <1>2, <2>1, <2>2
  <2>4. \A i \in ran : t \notin Outputs(Script[i])
    BY <1>2, <1>4, <2>1, <2>2
  <2>5. ASSUME NEW i \in {r \in ran' : r < k} PROVE i \in ran
    <3>1. n \in Nat /\ k <= n
      BY <1>1, <1>2
    <3>2. QED
      BY <1>2, <3>1
  <2> DEFINE Made(i) == UNION {Outputs(Script[j]) : j \in {r \in ran' : r < i}}
  <2>6. t \notin Made(k)
    BY <2>4, <2>5
  <2>7. UNCHANGED <<bar, start>> /\ Script' = Script /\ Types' = Types
    BY DEF barVars, setupVars, Script, Types
  <2>8. Needed' = UNION {Asks(i) \ Made(i) : i \in ran'}
    BY <2>7 DEF Needed
  <2> HIDE DEF Made, Asks
  <2>9. t \in Needed'
    BY <2>3, <2>6, <2>8
  <2>10. start[t] \in {0, bar}
    BY <1>4, <2>7, <2>9 DEF Foreseen
  <2>11. ctx[t] = start[t]
    BY <1>4 DEF Settled
  <2>12. QED
    BY <1>1, <1>4, <2>10, <2>11 DEF Present
<1>5. ASSUME NEW r \in Reads(p), NEW t \in ReadFrom(r) PROVE Age(t) = bar
  <2>1. t \in TypesRead(p) /\ t \in Types /\ Present(t)
    BY <1>1, <1>5, ReadFacts
  <2>2. QED
    BY <1>2, <1>4, <2>1 DEF Age
<1>6. QED
  BY <1>1, <1>5, FreshOldest

\* The graphs go on with move n.
LEMMA FlowGoesOn ==
  ASSUME PipeInv, FlowInv, phase = "running", UNCHANGED setupVars, UNCHANGED barVars,
         NEW n \in position + 1 .. Len(Script) + 1, NEW age, GoOn(n, age),
         ran' \subseteq 1 .. n - 1,
         n \in DOMAIN Script =>
           \A k \in Before(Script, n) :
             k \in ran' /\ (Script[k].plugin.after = {} => Script[k].plugin.emits \subseteq emitted'),
         \A t \in Types \ emitted' : ctx'[t] = start[t],
         Foreseen' => /\ \A t \in emitted' : ctx'[t] = bar
                      /\ n \in DOMAIN Script /\ Script[n].graph = Script[position].graph =>
                           \/ age = bar
                           \/ \A j \in n .. Len(Script) :
                                Script[j].graph = Script[n].graph => ~Builder(Script[j])
                      /\ \A k \in ran' : Outputs(Script[k]) \subseteq emitted' \cup Due(Script, k, n)
  PROVE  FlowInv'
<1>1. /\ UNCHANGED <<bar, start>> /\ Script' = Script /\ Types' = Types
  BY DEF barVars, setupVars, Script, Types
<1>2. /\ TypeOK /\ position \in Nat /\ Len(Script) \in Nat /\ DOMAIN Script = 1 .. Len(Script)
      /\ bar > 0
  BY TheScript DEF PipeInv, TypeOK, FlowInv
<1>3. CASE n > Len(Script)
  <2>1. phase' = "idle" /\ n = Len(Script) + 1
    BY <1>2, <1>3 DEF GoOn
  <2>2. \A k \in ran' : Due(Script, k, n) = {}
    BY <1>2, <2>1 DEF Due, Payers
  <2>3. Foreseen' => /\ \A t \in emitted' : ctx'[t] = bar'
                     /\ \A i \in ran' : Outputs(Script'[i]) \subseteq emitted'
    BY <1>1, <2>2
  <2>4. FreshRun'
    BY <2>3 DEF FreshRun
  <2>5. QED
    BY <2>1, <2>4 DEF FlowInv
<1>4. CASE ~(n > Len(Script))
  <2>1. /\ phase' = "running" /\ position' = n /\ n \in DOMAIN Script
        /\ carried' = IF Script[n].graph = Script[position].graph THEN age ELSE bar
    BY <1>2, <1>4 DEF GoOn
  <2>2. Settled'
    BY <1>1, <2>1 DEF Settled
  <2>3. ASSUME Foreseen' PROVE FreshSoFar'
    <3>1. \/ carried' = bar'
          \/ \A j \in position' .. Len(Script') :
               Script'[j].graph = Script'[position'].graph => ~Builder(Script'[j])
      BY <1>1, <2>1, <2>3
    <3>2. /\ \A t \in emitted' : ctx'[t] = bar'
          /\ \A k \in ran' : Outputs(Script'[k]) \subseteq emitted' \cup Due(Script', k, position')
      BY <1>1, <2>1, <2>3
    <3>3. QED
      BY <3>1, <3>2 DEF FreshSoFar
  <2>4. FreshRun'
    BY <2>1 DEF FreshRun, Completed
  <2>5. QED
    BY <1>1, <1>2, <2>1, <2>2, <2>3, <2>4 DEF FlowInv
<1>5. QED
  BY <1>3, <1>4

\* A handler that runs: what it reads is fresh, or nothing comes of it.
LEMMA FlowPerform ==
  ASSUME PipeInv, FlowInv, phase = "running", WellDeclared(Script),
         UNCHANGED setupVars, UNCHANGED barVars,
         NEW more \in SUBSET Script[position].plugin.may, Perform(Script[position], more)
  PROVE  FlowInv'
<1> DEFINE n == position
           m == Script[n]
           p == m.plugin
           old == Oldest(p)
           offered == Min({carried, old})
           out == Emits(p) \cup more
           age1 == IF Builder(m) THEN offered ELSE old
           age2 == IF m.kind = "bound" THEN carried ELSE offered
<1>1. /\ AllReadable(p) /\ EmitAll(out, age1) /\ GoOn(n + 1, age2)
  BY DEF Perform
<1>2. /\ TypeOK /\ n \in DOMAIN Script /\ n \in Nat /\ Len(Script) \in Nat
      /\ DOMAIN Script = 1 .. Len(Script) /\ bar \in Nat /\ Script \in Seq(PlacedMoves)
      /\ carried \in 0 .. bar
      /\ ctx \in [Types -> 0 .. bar] /\ ran \subseteq DOMAIN Script /\ emitted \subseteq Types
  BY TheScript DEF PipeInv, TypeOK
<1>3. bar > 0 /\ Settled /\ (Foreseen => FreshSoFar)
  BY DEF FlowInv
<1>4. out \subseteq Types
  BY <1>2, TheScript DEF Emits
<1>5. /\ ctx' = [t \in Types |-> IF t \in out THEN age1 ELSE ctx[t]]
      /\ emitted' = emitted \cup out /\ ran' = ran \cup {n}
  BY <1>1 DEF EmitAll
<1>6. /\ n + 1 \in position + 1 .. Len(Script) + 1 /\ (n + 1) - 1 = n
      /\ ran' \subseteq 1 .. (n + 1) - 1
  <2>1. n + 1 \in position + 1 .. Len(Script) + 1 /\ (n + 1) - 1 = n
    BY <1>2
  <2>2. ran \subseteq 1 .. n - 1
    BY <1>3 DEF Settled
  <2>3. 1 .. n - 1 \subseteq 1 .. n /\ n \in 1 .. n
    BY <1>2
  <2>4. QED
    BY <1>5, <2>1, <2>2, <2>3
<1>7. ASSUME n + 1 \in DOMAIN Script, NEW k \in Before(Script, n + 1)
      PROVE  k \in ran' /\ (Script[k].plugin.after = {} => Script[k].plugin.emits \subseteq emitted')
  <2>1. k \in Before(Script, n) \/ k = n
    BY <1>2, <1>7, BeforeFacts
  <2>2. CASE k \in Before(Script, n)
    BY <1>3, <1>5, <2>2 DEF Settled
  <2>3. CASE k = n
    BY <1>5, <2>3 DEF Emits
  <2>4. QED
    BY <2>1, <2>2, <2>3
<1>8. ASSUME NEW t \in Types \ emitted' PROVE ctx'[t] = start[t]
  BY <1>3, <1>5, <1>8 DEF Settled
<1> HIDE DEF old, offered, age1, age2, out
<1>9. ASSUME Foreseen'
      PROVE  /\ \A t \in emitted' : ctx'[t] = bar
             /\ n + 1 \in DOMAIN Script /\ Script[n + 1].graph = Script[position].graph =>
                  \/ age2 = bar
                  \/ \A j \in n + 1 .. Len(Script) :
                       Script[j].graph = Script[n + 1].graph => ~Builder(Script[j])
             /\ \A k \in ran' : Outputs(Script[k]) \subseteq emitted' \cup Due(Script, k, n + 1)
  <2>1. Foreseen /\ FreshSoFar
    BY <1>3, <1>5, <1>9, ForeseenBefore DEF Settled
  <2>2. Outputs(m) \subseteq Due(Script, n, n) /\ (Harmless(Script, n) \/ ReadsDeclared(Script, n))
    BY <1>2 DEF WellDeclared
  <2> DEFINE AllFresh == \A t \in emitted' : ctx'[t] = bar
             NoMore == \/ age2 = bar
                       \/ \A j \in n + 1 .. Len(Script) :
                            Script[j].graph = Script[n].graph => ~Builder(Script[j])
  <2>3. ASSUME Harmless(Script, n) PROVE AllFresh /\ NoMore
    <3>1. out = {}
      BY <2>3 DEF Harmless, Emits, out
    <3>2. \A j \in n + 1 .. Len(Script) : Script[j].graph = Script[n].graph => ~Builder(Script[j])
      BY <2>3 DEF Harmless
    <3>3. AllFresh
      BY <1>2, <1>5, <2>1, <3>1 DEF FreshSoFar
    <3>4. QED
      BY <3>2, <3>3
  <2>4. ASSUME ReadsDeclared(Script, n) PROVE AllFresh /\ NoMore
    <3>1. old = bar
      BY <1>1, <1>3, <1>5, <1>9, <2>1, <2>4, FreshReads DEF old
    <3>2. \/ carried = bar
          \/ \A j \in n .. Len(Script) : Script[j].graph = Script[n].graph => ~Builder(Script[j])
      BY <2>1 DEF FreshSoFar
    <3>3. carried = bar => offered = bar
      <4>1. {carried, old} \in SUBSET Nat
        BY <1>2, <3>1
      <4>2. Min({carried, old}) \in {carried, old}
        BY <4>1, Smallest
      <4>3. QED
        BY <3>1, <4>2 DEF offered
    <3>4. age1 = bar
      BY <1>2, <3>1, <3>2, <3>3 DEF age1
    <3>5. AllFresh
      BY <1>2, <1>4, <1>5, <2>1, <3>4 DEF FreshSoFar
    <3>6. NoMore
      BY <1>2, <3>2, <3>3 DEF age2
    <3>7. QED
      BY <3>5, <3>6
  <2>5. AllFresh /\ NoMore
    BY <2>2, <2>3, <2>4
  <2>6. ASSUME NEW k \in ran', NEW t \in Outputs(Script[k])
        PROVE  t \in emitted' \cup Due(Script, k, n + 1)
    <3>1. k \in 1 .. n
      BY <1>2, <1>3, <1>5 DEF Settled
    <3>2. CASE t \in emitted
      BY <1>5, <3>2
    <3>3. CASE t \in Due(Script, k, n)
      <4>1. \/ t \in Due(Script, k, n + 1)
            \/ t \in p.emits /\ p.after \subseteq Certain(Script, n)
        BY <1>2, <3>1, <3>3, DueFacts
      <4>2. ASSUME p.after \subseteq Certain(Script, n), NEW u \in p.after PROVE Present(u)
        <5>1. u \in emitted
          BY <1>3, <4>2 DEF Settled, Certain
        <5>2. QED
          BY <1>3, <2>1, <5>1 DEF Present, FreshSoFar
      <4>3. p.after \subseteq Certain(Script, n) => out = p.emits \cup more
        BY <4>2 DEF out, Emits
      <4>4. QED
        BY <1>5, <4>1, <4>3
    <3>4. t \in emitted \/ t \in Due(Script, k, n)
      BY <1>5, <2>1, <2>2, <2>6 DEF FreshSoFar
    <3>5. QED
      BY <3>2, <3>3, <3>4
  <2>7. QED
    BY <2>5, <2>6
<1>10. QED
  BY <1>1, <1>6, <1>7, <1>8, <1>9, FlowGoesOn

\* Nobody is to be notified: the debts of the moves before stay what they are.
LEMMA FlowSkip ==
  ASSUME PipeInv, FlowInv, phase = "running", UNCHANGED setupVars, UNCHANGED barVars,
         Skip(Script[position])
  PROVE  FlowInv'
<1> DEFINE n == position
<1>1. /\ Script[n].kind = "maybe" /\ GoOn(n + 1, carried) /\ UNCHANGED <<ctx, emitted, ran>>
  BY DEF Skip
<1>2. /\ TypeOK /\ n \in DOMAIN Script /\ n \in Nat /\ Len(Script) \in Nat
      /\ DOMAIN Script = 1 .. Len(Script) /\ Script \in Seq(PlacedMoves)
  BY TheScript DEF PipeInv, TypeOK
<1>3. bar > 0 /\ Settled /\ (Foreseen => FreshSoFar)
  BY DEF FlowInv
<1>4. /\ n + 1 \in position + 1 .. Len(Script) + 1 /\ (n + 1) - 1 = n
      /\ ran \subseteq 1 .. n - 1 /\ ran' \subseteq 1 .. (n + 1) - 1
  BY <1>1, <1>2, <1>3 DEF Settled
<1>5. ASSUME n + 1 \in DOMAIN Script, NEW k \in Before(Script, n + 1)
      PROVE  k \in ran' /\ (Script[k].plugin.after = {} => Script[k].plugin.emits \subseteq emitted')
  <2>1. k \in Before(Script, n)
    BY <1>1, <1>2, <1>5, BeforeFacts
  <2>2. QED
    BY <1>1, <1>3, <2>1 DEF Settled
<1>6. \A t \in Types \ emitted' : ctx'[t] = start[t]
  BY <1>1, <1>3 DEF Settled
<1>7. ASSUME Foreseen'
      PROVE  /\ \A t \in emitted' : ctx'[t] = bar
             /\ n + 1 \in DOMAIN Script /\ Script[n + 1].graph = Script[position].graph =>
                  \/ carried = bar
                  \/ \A j \in n + 1 .. Len(Script) :
                       Script[j].graph = Script[n + 1].graph => ~Builder(Script[j])
             /\ \A k \in ran' : Outputs(Script[k]) \subseteq emitted' \cup Due(Script, k, n + 1)
  <2>1. FreshSoFar
    BY <1>1, <1>3, <1>4, <1>7, ForeseenBefore
  <2>2. \/ carried = bar
        \/ \A j \in n + 1 .. Len(Script) : Script[j].graph = Script[n].graph => ~Builder(Script[j])
    BY <1>2, <2>1 DEF FreshSoFar
  <2>3. ASSUME NEW k \in ran', NEW t \in Outputs(Script[k])
        PROVE  t \in emitted' \cup Due(Script, k, n + 1)
    <3>1. k \in ran /\ k \in 1 .. n /\ k # n
      BY <1>1, <1>2, <1>4
    <3>2. t \in emitted \/ t \in Due(Script, k, n)
      BY <2>1, <2>3, <3>1 DEF FreshSoFar
    <3>3. t \in Due(Script, k, n) => t \in Due(Script, k, n + 1)
      BY <1>1, <1>2, <3>1, DueFacts
    <3>4. QED
      BY <1>1, <3>2, <3>3
  <2>4. QED
    BY <1>1, <2>1, <2>2, <2>3 DEF FreshSoFar
<1>8. QED
  BY <1>1, <1>4, <1>5, <1>6, <1>7, FlowGoesOn

\* The rest of the graph is left out: nothing was due across the check.
LEMMA FlowReject ==
  ASSUME PipeInv, FlowInv, phase = "running", UNCHANGED setupVars, UNCHANGED barVars,
         Reject(Script[position])
  PROVE  FlowInv'
<1> DEFINE n == position
           m == Script[n]
           ends == {i \in n + 1 .. Len(Script) + 1 :
                      i \in DOMAIN Script => Script[i].graph # m.graph}
           to == Min(ends)
<1>1. /\ m.kind = "check" /\ EmitAll(m.plugin.may, carried) /\ GoOn(to, carried)
  BY DEF Reject
<1>2. /\ TypeOK /\ n \in DOMAIN Script /\ n \in Nat /\ Len(Script) \in Nat
      /\ DOMAIN Script = 1 .. Len(Script) /\ Script \in Seq(PlacedMoves)
      /\ ctx \in [Types -> 0 .. bar] /\ emitted \subseteq Types /\ m.plugin.may \subseteq Types
  BY TheScript DEF PipeInv, TypeOK
<1>3. bar > 0 /\ Settled /\ (Foreseen => FreshSoFar)
  BY DEF FlowInv
<1>4. /\ ctx' = [t \in Types |-> IF t \in m.plugin.may THEN carried ELSE ctx[t]]
      /\ emitted' = emitted \cup m.plugin.may /\ ran' = ran \cup {n}
  BY <1>1 DEF EmitAll
<1>5. to \in ends /\ \A i \in ends : to <= i
  <2>1. Len(Script) + 1 \in ends /\ ends \in SUBSET Nat
    BY <1>2
  <2> HIDE DEF ends
  <2>2. QED
    BY <2>1, Smallest
<1>6. /\ to \in position + 1 .. Len(Script) + 1 /\ to \in Nat /\ n < to
      /\ to \in DOMAIN Script => Script[to].graph # m.graph
  <2> HIDE DEF to
  <2>1. to \in n + 1 .. Len(Script) + 1 /\ (to \in DOMAIN Script => Script[to].graph # m.graph)
    BY <1>5
  <2> HIDE DEF ends
  <2>2. QED
    BY <1>2, <2>1
<1>7. ASSUME NEW i \in n + 1 .. to - 1 PROVE Script[i].graph = m.graph
  <2>1. i \notin ends /\ i \in n + 1 .. Len(Script) + 1
    <3> HIDE DEF to, ends
    <3>1. i \in Nat /\ ~(to <= i) /\ i \in n + 1 .. Len(Script) + 1
      BY <1>2, <1>6
    <3>2. QED
      BY <1>5, <3>1
  <2>2. QED
    BY <2>1
<1> HIDE DEF to, ends
<1>8. ran \subseteq 1 .. n - 1 /\ ran' \subseteq 1 .. to - 1
  <2>1. ran \subseteq 1 .. n - 1
    BY <1>3 DEF Settled
  <2>2. 1 .. n - 1 \subseteq 1 .. to - 1 /\ n \in 1 .. to - 1
    BY <1>2, <1>6
  <2>3. QED
    BY <1>4, <2>1, <2>2
<1>9. ASSUME to \in DOMAIN Script PROVE Before(Script, to) = {}
  BY <1>2, <1>6, <1>7, <1>9, BeforeFacts
<1>10. \A t \in Types \ emitted' : ctx'[t] = start[t]
  BY <1>3, <1>4 DEF Settled
<1>11. ASSUME Foreseen'
       PROVE  /\ \A t \in emitted' : ctx'[t] = bar
              /\ \A k \in ran' : Outputs(Script[k]) \subseteq emitted' \cup Due(Script, k, to)
  <2>1. FreshSoFar
    BY <1>3, <1>4, <1>8, <1>11, ForeseenBefore
  <2>2. carried = bar
    BY <1>1, <1>2, <2>1 DEF FreshSoFar, Builder
  <2>3. \A t \in emitted' : ctx'[t] = bar
    BY <1>2, <1>4, <2>1, <2>2 DEF FreshSoFar
  <2>4. ASSUME NEW k \in ran', NEW t \in Outputs(Script[k]) PROVE t \in emitted'
    <3>1. k # n
      BY <1>1, <2>4 DEF Outputs
    <3>2. k \in ran /\ k \in 1 .. n /\ k < n
      BY <1>2, <1>4, <1>8, <3>1
    <3>3. t \notin Due(Script, k, n)
      BY <1>1, <1>2, <3>2, DueFacts
    <3>4. QED
      BY <1>4, <2>1, <2>4, <3>2, <3>3 DEF FreshSoFar
  <2>5. QED
    BY <2>3, <2>4
<1>12. QED
  BY <1>1, <1>6, <1>8, <1>9, <1>10, <1>11, FlowGoesOn

\* A step that ends in no completed bar and starts none.
LEMMA FlowEnds ==
  ASSUME phase' # "running", phase' = "setup" => bar' = 0, bar' = 0 \/ error' # "none"
  PROVE  FlowInv'
BY DEF FlowInv, FreshRun, Completed

LEMMA FlowFails ==
  ASSUME UNCHANGED barVars, LoadCrash(Script[position]) \/ Fail(Script[position])
  PROVE  FlowInv'
<1>1. \E reason \in {"unavailable", "envelope", "raised"} : BreakOff(reason)
  BY DEF LoadCrash, Fail
<1>2. phase' = "idle" /\ error' # "none"
  BY <1>1 DEF BreakOff
<1>3. QED
  BY <1>2, FlowEnds

LEMMA FlowSetup ==
  ASSUME PipeInv, FlowInv,
         \/ \E group \in {k[1] : k \in Keys}, scanned \in BOOLEAN : Discover(group, scanned)
         \/ \E ps \in RegisterFunctions : Register(ps)
         \/ RegisterPipelinePlugins \/ RegisterDomainPlugins \/ RegisterRLProductPlugins \/ Build
  PROVE  FlowInv'
<1>1. /\ phase = "setup" /\ UNCHANGED barVars /\ phase' \in {phase, "idle", "failed"}
  BY DEF Discover, Register, RegisterPipelinePlugins, RegisterDomainPlugins,
         RegisterRLProductPlugins, Build
<1>2. bar' = 0
  BY <1>1 DEF FlowInv, barVars
<1>3. QED
  BY <1>1, <1>2, FlowEnds

\* A bar begins with nothing emitted, and with what the application emitted.
LEMMA FlowNewBar ==
  ASSUME PipeInv, FlowInv, NEW left, NewBar(left)
  PROVE  FlowInv'
<1>1. /\ bar' = bar + 1 /\ carried' = bar' /\ start' = ctx' /\ position' = 1
      /\ ran' = {} /\ emitted' = {} /\ phase' = "running" /\ bar \in Nat
  BY TheScript DEF NewBar, PipeInv
<1>2. Settled'
  BY <1>1 DEF Settled, Before
<1>3. FreshSoFar'
  BY <1>1 DEF FreshSoFar
<1>4. FreshRun'
  BY <1>1 DEF FreshRun, Completed
<1>5. QED
  BY <1>1, <1>2, <1>3, <1>4 DEF FlowInv

LEMMA FlowRests == ASSUME FlowInv, UNCHANGED vars PROVE FlowInv'
<1>1. /\ UNCHANGED <<job, ctx, position, carried, ran, emitted, error, bar, start, phase>>
  BY DEF vars, setupVars, registryVars, runVars, barVars
<1>2. Types' = Types /\ Script' = Script
  BY <1>1 DEF Types, Script
<1>3. Needed' = Needed
  BY <1>1, <1>2 DEF Needed
<1>4. /\ Foreseen' = Foreseen /\ Settled' = Settled /\ FreshSoFar' = FreshSoFar
      /\ FreshRun' = FreshRun
  BY <1>1, <1>2, <1>3 DEF Foreseen, Settled, FreshSoFar, FreshRun, Completed
<1>5. QED
  BY <1>1, <1>4 DEF FlowInv

LEMMA FlowStep ==
  ASSUME \A j \in DOMAIN Scripts : WellDeclared(Scripts[j]), PipeInv, FlowInv, [Next]_vars
  PROVE  FlowInv'
<1>1. WellDeclared(Script)
  BY DEF PipeInv, TypeOK, Script
<1>2. CASE \/ \E group \in {k[1] : k \in Keys}, scanned \in BOOLEAN : Discover(group, scanned)
           \/ \E ps \in RegisterFunctions : Register(ps)
           \/ RegisterPipelinePlugins \/ RegisterDomainPlugins \/ RegisterRLProductPlugins \/ Build
  BY <1>2, FlowSetup
<1>3. CASE \E left \in Few(ExternalOf[job]) : NewBar(left)
  BY <1>3, FlowNewBar
<1>4. CASE Step
  <2>1. phase = "running" /\ UNCHANGED setupVars /\ UNCHANGED barVars
    BY <1>4 DEF Step
  <2>2. \/ \E more \in SUBSET Script[position].plugin.may : Perform(Script[position], more)
        \/ Skip(Script[position]) \/ Reject(Script[position])
        \/ LoadCrash(Script[position]) \/ Fail(Script[position])
    BY <1>4 DEF Step
  <2>3. QED
    BY <1>1, <2>1, <2>2, FlowPerform, FlowSkip, FlowReject, FlowFails
<1>5. CASE UNCHANGED vars
  BY <1>5, FlowRests
<1>6. QED
  BY <1>2, <1>3, <1>4, <1>5 DEF Next

-----------------------------------------------------------------------------
(* The smaller and the greater of two numbers.                             *)

LEMMA Least ==
  ASSUME NEW a \in Int, NEW b \in Int
  PROVE  /\ RL!Min({a, b}) \in {a, b}
         /\ RL!Min({a, b}) <= a /\ RL!Min({a, b}) <= b
<1> DEFINE IsMin(x) == x \in {a, b} /\ \A y \in {a, b} : x <= y
<1>1. \E x : IsMin(x)
  <2>1. IsMin(a) \/ IsMin(b)
    OBVIOUS
  <2>2. QED
    BY <2>1
<1>2. RL!Min({a, b}) = CHOOSE x : IsMin(x)
  BY DEF RL!Min
<1>3. IsMin(RL!Min({a, b}))
  <2> HIDE DEF IsMin
  <2>1. QED
    BY <1>1, <1>2
<1>4. QED
  BY <1>3

LEMMA Greatest ==
  ASSUME NEW a \in Int, NEW b \in Int
  PROVE  /\ RL!Max({a, b}) \in {a, b}
         /\ RL!Max({a, b}) >= a /\ RL!Max({a, b}) >= b
<1> DEFINE IsMax(x) == x \in {a, b} /\ \A y \in {a, b} : x >= y
<1>1. \E x : IsMax(x)
  <2>1. IsMax(a) \/ IsMax(b)
    OBVIOUS
  <2>2. QED
    BY <2>1
<1>2. RL!Max({a, b}) = CHOOSE x : IsMax(x)
  BY DEF RL!Max
<1>3. IsMax(RL!Max({a, b}))
  <2> HIDE DEF IsMax
  <2>1. QED
    BY <1>1, <1>2
<1>4. QED
  BY <1>3

-----------------------------------------------------------------------------
(* The episode cache.                                                      *)

\* Moving an episode to the end keeps the episodes of the cache.
LEMMA TouchedFacts ==
  ASSUME NEW S, cache \in Seq(S), RL!IsInjective(cache), NEW e \in RL!Range(cache)
  PROVE  LET c == RL!Touched(e)
         IN  /\ c \in Seq(S) /\ RL!IsInjective(c)
             /\ Len(c) = Len(cache) /\ RL!Range(c) = RL!Range(cache)
<1> DEFINE n == Len(cache)
           i == CHOOSE i \in DOMAIN cache : cache[i] = e
           c == RL!Touched(e)
<1>1. i \in 1 .. n /\ cache[i] = e /\ n \in Nat
  BY DEF RL!Range
<1>2. c = Append(SubSeq(cache, 1, i - 1) \o SubSeq(cache, i + 1, n), e)
  BY DEF RL!Touched, RL!RemoveAt
<1> HIDE DEF i, c
<1>3. /\ c \in Seq(S) /\ Len(c) = n
      /\ \A k \in 1 .. n : c[k] = IF k < i THEN cache[k]
                                  ELSE IF k < n THEN cache[k + 1] ELSE e
  <2> DEFINE A == SubSeq(cache, 1, i - 1)
             B == SubSeq(cache, i + 1, n)
  <2>1. /\ A \in Seq(S) /\ Len(A) = i - 1
        /\ \A k \in 1 .. i - 1 : A[k] = cache[k]
    BY <1>1
  <2>2. /\ B \in Seq(S) /\ Len(B) = n - i
        /\ \A k \in 1 .. n - i : B[k] = cache[k + i]
    BY <1>1
  <2>3. c = Append(A \o B, e) /\ e \in S
    BY <1>1, <1>2
  <2> HIDE DEF A, B
  <2> DEFINE D == A \o B
  <2>4. /\ D \in Seq(S) /\ Len(D) = n - 1
        /\ \A k \in 1 .. n - 1 : D[k] = IF k <= i - 1 THEN A[k] ELSE B[k - (i - 1)]
    <3>1. /\ D \in Seq(S) /\ Len(D) = (i - 1) + (n - i)
          /\ \A k \in 1 .. (i - 1) + (n - i) :
               D[k] = IF k <= i - 1 THEN A[k] ELSE B[k - (i - 1)]
      <4>1. /\ D \in Seq(S) /\ Len(D) = Len(A) + Len(B)
            /\ \A k \in 1 .. Len(A) + Len(B) :
                 D[k] = IF k <= Len(A) THEN A[k] ELSE B[k - Len(A)]
        BY <2>1, <2>2, ConcatProperties
      <4> HIDE DEF D
      <4>2. QED
        BY <2>1, <2>2, <4>1
    <3> HIDE DEF D
    <3>2. QED
      BY <1>1, <3>1
  <2>5. /\ c \in Seq(S) /\ Len(c) = n /\ c[n] = e
        /\ \A k \in 1 .. n - 1 : c[k] = D[k]
    <3> HIDE DEF D
    <3>1. QED
      BY <1>1, <2>3, <2>4 DEF D
  <2> HIDE DEF D
  <2>6. ASSUME NEW k \in 1 .. n
        PROVE  c[k] = IF k < i THEN cache[k]
                      ELSE IF k < n THEN cache[k + 1] ELSE e
    <3>1. CASE k < i
      <4>1. k \in 1 .. n - 1 /\ k <= i - 1 /\ k \in 1 .. i - 1
        BY <1>1, <3>1
      <4>2. c[k] = cache[k]
        BY <2>1, <2>4, <2>5, <4>1
      <4>3. QED
        BY <3>1, <4>2
    <3>2. CASE ~(k < i) /\ k < n
      <4>1. /\ k \in 1 .. n - 1 /\ ~(k <= i - 1)
            /\ k - (i - 1) \in 1 .. n - i /\ k - (i - 1) + i = k + 1
        BY <1>1, <3>2
      <4>2. c[k] = B[k - (i - 1)]
        BY <2>4, <2>5, <4>1
      <4>3. QED
        BY <2>2, <3>2, <4>1, <4>2
    <3>3. CASE k = n
      BY <1>1, <2>5, <3>3
    <3>4. QED
      BY <3>1, <3>2, <3>3
  <2>7. QED
    BY <2>5, <2>6
<1>4. RL!IsInjective(c)
  <2> SUFFICES ASSUME NEW j \in 1 .. n, NEW k \in 1 .. n, c[j] = c[k]
               PROVE  j = k
    BY <1>3 DEF RL!IsInjective
  <2> DEFINE at(m) == IF m < i THEN m ELSE IF m < n THEN m + 1 ELSE i
  <2>1. \A m \in 1 .. n : at(m) \in 1 .. n /\ c[m] = cache[at(m)]
    <3> SUFFICES ASSUME NEW m \in 1 .. n
                 PROVE  at(m) \in 1 .. n /\ c[m] = cache[at(m)]
      OBVIOUS
    <3>1. CASE m < i
      BY <1>1, <1>3, <3>1
    <3>2. CASE ~(m < i) /\ m < n
      <4>1. m + 1 \in 1 .. n
        BY <1>1, <3>2
      <4>2. c[m] = cache[m + 1]
        <5> HIDE DEF at
        <5>1. QED
          BY <1>3, <3>2
      <4>3. at(m) = m + 1
        BY <3>2
      <4>4. QED
        <5> HIDE DEF at
        <5>1. QED
          BY <4>1, <4>2, <4>3
    <3>3. CASE ~(m < i) /\ ~(m < n)
      BY <1>1, <1>3, <3>3
    <3>4. QED
      BY <3>1, <3>2, <3>3
  <2>2. at(j) = at(k)
    <3>1. \A a, b \in 1 .. n : cache[a] = cache[b] => a = b
      BY DEF RL!IsInjective
    <3> HIDE DEF at
    <3>2. at(j) \in 1 .. n /\ at(k) \in 1 .. n /\ cache[at(j)] = cache[at(k)]
      BY <2>1
    <3>3. QED
      BY <3>1, <3>2
  <2>3. QED
    BY <1>1, <2>2
<1>5. RL!Range(c) = RL!Range(cache)
  <2>1. ASSUME NEW k \in 1 .. n PROVE \E m \in 1 .. n : c[m] = cache[k]
    <3>1. CASE k < i
      BY <1>1, <1>3, <3>1
    <3>2. CASE k = i
      BY <1>1, <1>3, <3>2
    <3>3. CASE k > i
      <4>1. k - 1 \in 1 .. n /\ c[k - 1] = cache[k]
        BY <1>1, <1>3, <3>3
      <4>2. QED
        BY <4>1
    <3>4. QED
      BY <1>1, <3>1, <3>2, <3>3
  <2>2. ASSUME NEW m \in 1 .. n PROVE \E k \in 1 .. n : cache[k] = c[m]
    <3>1. CASE m < i
      BY <1>1, <1>3, <3>1
    <3>2. CASE ~(m < i) /\ m < n
      <4>1. m + 1 \in 1 .. n
        BY <1>1, <3>2
      <4>2. QED
        BY <1>1, <1>3, <3>2, <4>1
    <3>3. CASE m = n
      BY <1>1, <1>3, <3>3
    <3>4. QED
      BY <1>1, <3>1, <3>2, <3>3
  <2>3. QED
    <3>1. DOMAIN c = 1 .. n /\ DOMAIN cache = 1 .. n
      BY <1>1, <1>3
    <3>2. QED
      <4>1. RL!Range(c) \subseteq RL!Range(cache)
        BY <2>2, <3>1 DEF RL!Range
      <4>2. RL!Range(cache) \subseteq RL!Range(c)
        BY <2>1, <3>1 DEF RL!Range
      <4>3. QED
        BY <4>1, <4>2
<1>6. QED
  BY <1>3, <1>4, <1>5 DEF c

LEMMA SubSeqRange ==
  ASSUME NEW S, NEW s \in Seq(S), NEW a \in 1 .. Len(s) + 1,
         NEW b \in 0 .. Len(s)
  PROVE  /\ SubSeq(s, a, b) \in Seq(S)
         /\ Len(SubSeq(s, a, b)) = IF a <= b THEN b - a + 1 ELSE 0
         /\ \A k \in 1 .. b - a + 1 : SubSeq(s, a, b)[k] = s[a + k - 1]
         /\ \A d : d \in RL!Range(SubSeq(s, a, b)) <=> \E k \in a .. b : s[k] = d
<1> DEFINE t == SubSeq(s, a, b)
<1>1. /\ t \in Seq(S) /\ Len(t) = IF a <= b THEN b - a + 1 ELSE 0
      /\ \A k \in 1 .. b - a + 1 : t[k] = s[a + k - 1]
  <2>1. \A k \in a .. b : s[k] \in S
    OBVIOUS
  <2>2. /\ t \in Seq(S) /\ Len(t) = IF a <= b THEN b - a + 1 ELSE 0
        /\ \A k \in 1 .. b - a + 1 : t[k] = s[a + k - 1]
    BY <2>1, SubSeqProperties
  <2>3. QED
    BY <2>2
<1> HIDE DEF t
<1>2. DOMAIN t = 1 .. b - a + 1
  BY <1>1
<1>3. ASSUME NEW d, d \in RL!Range(t) PROVE \E k \in a .. b : s[k] = d
  <2>1. PICK k \in 1 .. b - a + 1 : t[k] = d
    BY <1>2, <1>3 DEF RL!Range
  <2>2. a + k - 1 \in a .. b /\ s[a + k - 1] = d
    BY <1>1, <2>1, SMTT(20)
  <2>3. QED
    BY <2>2
<1>4. ASSUME NEW d, NEW k \in a .. b, s[k] = d PROVE d \in RL!Range(t)
  <2>1. k - a + 1 \in 1 .. b - a + 1 /\ a + (k - a + 1) - 1 = k
    OBVIOUS
  <2>2. t[k - a + 1] = d
    BY <1>1, <1>4, <2>1
  <2>3. QED
    BY <1>2, <2>1, <2>2 DEF RL!Range
<1>5. QED
  BY <1>1, <1>3, <1>4 DEF t

\* An episode that is stored becomes the last one of the cache; what has to go
\* is dropped once, and nothing else is.
LEMMA StoredFacts ==
  ASSUME NEW S, RL!Parameters, cache \in Seq(S), RL!IsInjective(cache),
         Len(cache) <= CacheSize, NEW D, dropped \in [D -> Nat],
         NEW e \in S, e \notin RL!Range(cache), RL!Stored(e)
  PROVE  /\ cache' \in Seq(S) /\ RL!IsInjective(cache)'
         /\ Len(cache') <= CacheSize
         /\ e \in RL!Range(cache)' /\ RL!Range(cache)' \subseteq RL!Range(cache) \cup {e}
         /\ dropped' \in [D -> Nat]
         /\ \A d \in D :
              dropped'[d] = dropped[d]
                + IF d \in RL!Range(cache) /\ d \notin RL!Range(cache)' THEN 1 ELSE 0
<1> DEFINE n == Len(cache)
           K == Append(cache, e)
           x == RL!Max({0, n + 1 - CacheSize})
           gone == SubSeq(K, 1, x)
<1>1. n \in Nat /\ CacheSize \in Nat \ {0} /\ DOMAIN cache = 1 .. n
  BY DEF RL!Parameters
<1>2. x \in 0 .. n /\ n + 1 - x <= CacheSize
  <2>1. /\ x \in {0, n + 1 - CacheSize} /\ x >= 0 /\ x >= n + 1 - CacheSize
    <3>1. n + 1 - CacheSize \in Int /\ 0 \in Int
      BY <1>1
    <3> HIDE DEF n
    <3>2. QED
      BY <3>1, Greatest
  <2> HIDE DEF x
  <2>2. QED
    BY <1>1, <2>1
<1>3. /\ K \in Seq(S) /\ Len(K) = n + 1 /\ K[n + 1] = e
      /\ \A k \in 1 .. n : K[k] = cache[k]
  BY AppendProperties
<1>4. /\ cache' = SubSeq(K, x + 1, n + 1)
      /\ dropped' = [d \in D |-> dropped[d] + IF d \in RL!Range(gone) THEN 1 ELSE 0]
  <2>1. Len(K) - CacheSize = n + 1 - CacheSize
    <3> HIDE DEF K, n
    <3>1. QED
      BY <1>1, <1>3
  <2>2. /\ cache' = SubSeq(K, RL!Max({0, Len(K) - CacheSize}) + 1, Len(K))
        /\ dropped' = [d \in DOMAIN dropped |-> dropped[d]
             + IF d \in RL!Range(SubSeq(K, 1, RL!Max({0, Len(K) - CacheSize})))
               THEN 1 ELSE 0]
    BY DEF RL!Stored
  <2>3. DOMAIN dropped = D
    OBVIOUS
  <2> HIDE DEF K
  <2>4. QED
    BY <1>3, <2>1, <2>2, <2>3
<1> HIDE DEF x, K
<1>5. /\ \A d : d \in RL!Range(gone) <=> \E k \in 1 .. x : K[k] = d
      /\ gone \in Seq(S)
  <2>1. 1 \in 1 .. Len(K) + 1 /\ x \in 0 .. Len(K)
    BY <1>1, <1>2, <1>3
  <2>2. K \in Seq(S)
    BY <1>3
  <2> HIDE DEF n
  <2>3. QED
    BY <2>1, <2>2, SubSeqRange
<1>6. /\ cache' \in Seq(S) /\ Len(cache') = n + 1 - x
      /\ \A k \in 1 .. n + 1 - x : cache'[k] = K[x + k]
      /\ \A d : d \in RL!Range(cache)' <=> \E k \in x + 1 .. n + 1 : K[k] = d
  <2>1. x + 1 \in 1 .. Len(K) + 1 /\ n + 1 \in 0 .. Len(K) /\ x + 1 <= n + 1
    BY <1>1, <1>2, <1>3
  <2> DEFINE t == SubSeq(K, x + 1, n + 1)
  <2>2. /\ t \in Seq(S) /\ Len(t) = IF x + 1 <= n + 1 THEN (n + 1) - (x + 1) + 1 ELSE 0
        /\ \A k \in 1 .. (n + 1) - (x + 1) + 1 : t[k] = K[(x + 1) + k - 1]
        /\ \A d : d \in RL!Range(t) <=> \E k \in x + 1 .. n + 1 : K[k] = d
    <3>1. K \in Seq(S)
      BY <1>3
    <3> HIDE DEF n
    <3>2. t \in Seq(S) /\ Len(t) = IF x + 1 <= n + 1 THEN (n + 1) - (x + 1) + 1 ELSE 0
      BY <2>1, <3>1, SubSeqRange
    <3>3. \A k \in 1 .. (n + 1) - (x + 1) + 1 : t[k] = K[(x + 1) + k - 1]
      BY <2>1, <3>1, SubSeqRange
    <3>4. \A d : d \in RL!Range(t) <=> \E k \in x + 1 .. n + 1 : K[k] = d
      BY <2>1, <3>1, SubSeqRange
    <3>5. QED
      BY <3>2, <3>3, <3>4
  <2>3. RL!Range(cache)' = RL!Range(cache')
    BY DEF RL!Range
  <2>4. cache' = t
    BY <1>4
  <2> HIDE DEF t
  <2>5. /\ t \in Seq(S) /\ Len(t) = n + 1 - x
        /\ \A k \in 1 .. n + 1 - x : t[k] = K[x + k]
    BY <1>1, <1>2, <2>2
  <2>6. QED
    BY <2>2, <2>3, <2>4, <2>5
<1>7. \A j, k \in 1 .. n + 1 : K[j] = K[k] => j = k
  <2> SUFFICES ASSUME NEW j \in 1 .. n + 1, NEW k \in 1 .. n + 1, K[j] = K[k]
               PROVE  j = k
    OBVIOUS
  <2>1. \A m \in 1 .. n : K[m] # e
    BY <1>1, <1>3 DEF RL!Range
  <2>2. CASE j = n + 1 \/ k = n + 1
    BY <1>1, <1>3, <2>1, <2>2
  <2>3. CASE j \in 1 .. n /\ k \in 1 .. n
    BY <1>1, <1>3, <2>3 DEF RL!IsInjective
  <2>4. QED
    BY <1>1, <2>2, <2>3
<1>8. RL!IsInjective(cache)'
  <2> SUFFICES ASSUME NEW j \in 1 .. n + 1 - x, NEW k \in 1 .. n + 1 - x,
                      cache'[j] = cache'[k]
               PROVE  j = k
    BY <1>6 DEF RL!IsInjective
  <2>1. x + j \in 1 .. n + 1 /\ x + k \in 1 .. n + 1 /\ K[x + j] = K[x + k]
    BY <1>1, <1>2, <1>6
  <2>2. QED
    BY <1>1, <1>2, <1>7, <2>1
<1>9. /\ e \in RL!Range(cache)'
      /\ RL!Range(cache)' \subseteq RL!Range(cache) \cup {e}
  <2>1. n + 1 \in x + 1 .. n + 1
    BY <1>1, <1>2
  <2>2. ASSUME NEW k \in x + 1 .. n + 1 PROVE K[k] \in RL!Range(cache) \cup {e}
    <3>1. CASE k = n + 1
      BY <1>3, <3>1
    <3>2. CASE k \in 1 .. n
      BY <1>3, <3>2 DEF RL!Range
    <3>3. QED
      BY <1>1, <1>2, <3>1, <3>2
  <2>3. QED
    BY <1>3, <1>6, <2>1, <2>2
<1>10. ASSUME NEW d
       PROVE  d \in RL!Range(gone) <=> d \in RL!Range(cache) /\ d \notin RL!Range(cache)'
  <2>1. ASSUME d \in RL!Range(gone)
        PROVE  d \in RL!Range(cache) /\ d \notin RL!Range(cache)'
    <3>1. PICK k \in 1 .. x : K[k] = d
      BY <1>5, <2>1
    <3>2. k \in 1 .. n /\ k \in 1 .. n + 1
      BY <1>1, <1>2
    <3>3. d \in RL!Range(cache)
      BY <1>3, <3>1, <3>2 DEF RL!Range
    <3>4. ASSUME NEW j \in x + 1 .. n + 1, K[j] = d PROVE FALSE
      <4>1. j \in 1 .. n + 1 /\ j # k
        BY <1>1, <1>2
      <4>2. QED
        BY <1>7, <3>1, <3>2, <3>4, <4>1
    <3>5. QED
      BY <1>6, <3>3, <3>4
  <2>2. ASSUME d \in RL!Range(cache), d \notin RL!Range(cache)'
        PROVE  d \in RL!Range(gone)
    <3>1. PICK k \in 1 .. n : K[k] = d
      BY <1>3, <2>2 DEF RL!Range
    <3>2. k \in 1 .. x
      BY <1>1, <1>2, <1>6, <2>2, <3>1
    <3>3. QED
      BY <1>5, <3>1, <3>2
  <2>3. QED
    BY <2>1, <2>2
<1> HIDE DEF gone
<1>11. QED
  BY <1>1, <1>2, <1>4, <1>6, <1>8, <1>9, <1>10

Kinds == {"online", "walk_forward", "ablation"}

\* A step of the training loop or of whoever calls it.
TrainerStep ==
  \/ \E kind \in Kinds : RL!Start(kind)
  \/ RL!Step \/ RL!Return \/ UNCHANGED rlVars

LEMMA EmptyCacheIsRight ==
  ASSUME NEW eps, RL!EmptyCache(eps)
  PROVE  RL!CacheInv'
<1>1. /\ cache' = <<>> /\ futures' = [e \in RL!Range(eps) |-> "none"]
      /\ loads' = [e \in RL!Range(eps) |-> 0] /\ dropped' = loads'
  BY DEF RL!EmptyCache
<1>2. \A e : e \notin RL!Range(<<>>)
  BY DEF RL!Range
<1>3. QED
  BY <1>1, <1>2 DEF RL!CacheInv

\* prefetch only asks for what is neither in the cache nor on its way.
LEMMA ChooseCache ==
  ASSUME RL!CacheInv, NEW e, RL!Choose(e)
  PROVE  RL!CacheInv'
<1>1. /\ DOMAIN futures' = DOMAIN futures /\ UNCHANGED <<cache, loads, dropped>>
      /\ futures' = [f \in DOMAIN futures |-> futures'[f]]
      /\ \A f \in DOMAIN futures :
           futures'[f] = futures[f] \/ (futures'[f] = "queued" /\ RL!Wanted(f))
  BY DEF RL!Choose
<1>2. futures' \in [DOMAIN futures' -> {"none", "queued", "loaded"}]
  BY <1>1 DEF RL!CacheInv
<1>3. RL!Range(cache)' = RL!Range(cache)
  BY <1>1 DEF RL!Range
<1>4. QED
  BY <1>1, <1>2, <1>3 DEF RL!CacheInv, RL!Wanted

LEMMA LoadAheadCache ==
  ASSUME RL!CacheInv, NEW e \in DOMAIN futures, RL!LoadAhead(e)
  PROVE  RL!CacheInv'
<1>1. /\ futures[e] = "queued" /\ UNCHANGED <<cache, dropped>>
      /\ futures' = [futures EXCEPT ![e] = "loaded"]
      /\ loads' = [loads EXCEPT ![e] = @ + 1]
  BY DEF RL!LoadAhead, RL!Loaded
<1>2. RL!Range(cache)' = RL!Range(cache)
  BY <1>1 DEF RL!Range
<1>3. QED
  BY <1>1, <1>2 DEF RL!CacheInv

LEMMA GetCache ==
  ASSUME RL!Parameters, RL!TypeOK, RL!CacheInv, chosen \in DOMAIN futures, RL!Get
  PROVE  /\ RL!CacheInv' /\ RL!IsInjective(cache)' /\ Len(cache') <= CacheSize
         /\ DOMAIN futures' = DOMAIN futures
<1> DEFINE S == DOMAIN futures
<1>1. /\ cache \in Seq(S) /\ RL!IsInjective(cache) /\ Len(cache) <= CacheSize
      /\ loads \in [S -> Nat] /\ dropped \in [S -> Nat]
  BY DEF RL!TypeOK, RL!CacheInv
<1>2. CASE /\ chosen \in RL!Range(cache) /\ cache' = RL!Touched(chosen)
           /\ UNCHANGED <<futures, loads, dropped>>
  <2> DEFINE c == RL!Touched(chosen)
  <2>1. /\ c \in Seq(S) /\ RL!IsInjective(c)
        /\ Len(c) = Len(cache) /\ RL!Range(c) = RL!Range(cache)
    <3> HIDE DEF S
    <3>1. QED
      BY <1>1, <1>2, TouchedFacts
  <2>2. RL!Range(cache)' = RL!Range(cache) /\ RL!IsInjective(cache)'
    <3>1. RL!Range(cache') = RL!Range(cache) /\ RL!IsInjective(cache')
      BY <1>2, <2>1
    <3>2. QED
      BY <3>1 DEF RL!Range, RL!IsInjective
  <2> HIDE DEF c
  <2>3. cache' = c
    BY <1>2 DEF c
  <2>4. QED
    BY <1>1, <1>2, <2>1, <2>2, <2>3 DEF RL!CacheInv
<1>3. CASE chosen \notin RL!Range(cache) /\ RL!Stored(chosen)
           /\ \/ /\ futures[chosen] = "loaded" /\ UNCHANGED loads
                 /\ futures' = [futures EXCEPT ![chosen] = "none"]
              \/ /\ futures[chosen] = "none" /\ UNCHANGED futures
                 /\ loads' = RL!Loaded(chosen)
  <2>1. /\ cache' \in Seq(S) /\ RL!IsInjective(cache)' /\ Len(cache') <= CacheSize
        /\ chosen \in RL!Range(cache)'
        /\ RL!Range(cache)' \subseteq RL!Range(cache) \cup {chosen}
        /\ dropped' \in [S -> Nat]
        /\ \A d \in S :
             dropped'[d] = dropped[d]
               + IF d \in RL!Range(cache) /\ d \notin RL!Range(cache)' THEN 1 ELSE 0
    <3> HIDE DEF S
    <3>1. chosen \in S
      BY DEF S
    <3>2. QED
      BY <1>1, <1>3, <3>1, StoredFacts
  <2>2. DOMAIN futures' = S /\ futures' \in [S -> {"none", "queued", "loaded"}]
        /\ loads' \in [S -> Nat]
    BY <1>1, <1>3, SMTT(20) DEF RL!CacheInv, RL!Loaded
  <2>3. ASSUME NEW d \in S, d # chosen
        PROVE  /\ d \in RL!Range(cache)' => futures'[d] = "none"
               /\ loads'[d] = dropped'[d]
                    + IF d \in RL!Range(cache)' \/ futures'[d] = "loaded" THEN 1 ELSE 0
    <3>1. futures'[d] = futures[d] /\ loads'[d] = loads[d]
      BY <1>1, <1>3, <2>3 DEF RL!CacheInv, RL!Loaded
    <3>2. /\ d \in RL!Range(cache) => futures[d] = "none"
          /\ loads[d] = dropped[d]
               + IF d \in RL!Range(cache) \/ futures[d] = "loaded" THEN 1 ELSE 0
      BY DEF RL!CacheInv
    <3>3. d \in RL!Range(cache)' => d \in RL!Range(cache)
      BY <2>1, <2>3
    <3>4. dropped[d] \in Nat
      BY <1>1
    <3>5. QED
      BY <2>1, <3>1, <3>2, <3>3, <3>4
  <2>4. /\ futures'[chosen] = "none" /\ loads'[chosen] = dropped'[chosen] + 1
    <3>1. futures'[chosen] = "none" /\ loads'[chosen] = dropped[chosen] + 1
      BY <1>1, <1>3 DEF RL!CacheInv, RL!Loaded
    <3>2. dropped'[chosen] = dropped[chosen] + 0 /\ dropped[chosen] \in Nat
      BY <1>1, <1>3, <2>1
    <3>3. QED
      BY <3>1, <3>2
  <2>5. QED
    BY <2>1, <2>2, <2>3, <2>4 DEF RL!CacheInv
<1>4. QED
  BY <1>2, <1>3 DEF RL!Get

-----------------------------------------------------------------------------
(* Episodes, folds and trials.                                             *)

LEMMA Multiples ==
  ASSUME NEW a \in Nat, NEW b \in Nat, NEW c \in Nat
  PROVE  /\ a * c \in Nat
         /\ a <= b => a * c <= b * c
         /\ (a + 1) * c = a * c + c
<1>1. a * c \in Nat /\ (a + 1) * c = a * c + c
  OBVIOUS
<1>2. ASSUME a <= b PROVE a * c <= b * c
  <2>1. (b - a) * c >= 0
    BY <1>2
  <2>2. (b - a) * c = b * c - a * c
    OBVIOUS
  <2>3. QED
    BY <2>1, <2>2
<1>3. QED
  BY <1>1, <1>2

Apart(eps, stride) == \A i, j \in DOMAIN eps : i < j => eps[i] + stride <= eps[j]

\* EpisodeBuilder.build: windows start a stride apart.
LEMMA WindowsFacts ==
  ASSUME RL!Parameters, NEW n \in BarCounts, NEW stride \in Strides
  PROVE  /\ RL!Windows(n, stride) \in Seq(Nat)
         /\ Apart(RL!Windows(n, stride), stride)
<1>1. n \in Nat /\ stride \in Nat \ {0} /\ EpisodeLength \in Nat
  BY DEF RL!Parameters
<1>2. CASE n < EpisodeLength
  BY <1>2 DEF RL!Windows, Apart
<1>3. CASE ~(n < EpisodeLength)
  <2> DEFINE m == (n - EpisodeLength) \div stride + 1
             w == [i \in 1 .. m |-> (i - 1) * stride]
  <2>1. m \in Nat
    BY <1>1, <1>3
  <2>2. RL!Windows(n, stride) = w
    BY <1>3 DEF RL!Windows
  <2> HIDE DEF m
  <2>3. \A i \in 1 .. m : (i - 1) * stride \in Nat
    BY <1>1, <2>1, Multiples
  <2>4. w \in Seq(Nat) /\ DOMAIN w = 1 .. m
    BY <2>1, <2>3
  <2>5. ASSUME NEW i \in 1 .. m, NEW j \in 1 .. m, i < j
        PROVE  w[i] + stride <= w[j]
    <3>1. i - 1 \in Nat /\ j - 1 \in Nat /\ (i - 1) + 1 = i /\ i <= j - 1 /\ i \in Nat
      BY <2>1, <2>5
    <3>2. i * stride = (i - 1) * stride + stride
      BY <1>1, <3>1, Multiples
    <3>3. i * stride <= (j - 1) * stride
      BY <1>1, <3>1, Multiples
    <3>4. /\ (i - 1) * stride \in Nat /\ (j - 1) * stride \in Nat
          /\ i * stride \in Nat
      BY <1>1, <3>1, Multiples
    <3>5. QED
      BY <1>1, <2>5, <3>2, <3>3, <3>4
  <2> HIDE DEF w
  <2>6. QED
    BY <2>2, <2>4, <2>5 DEF Apart
<1>4. QED
  BY <1>2, <1>3

\* The trials over eps: they train on episodes of eps, and a fold trains on
\* the first of them and tests the next.
TrialsOver(eps) ==
  {t \in [train : Seq(Nat), test : Seq(Nat),
          as : {"training", "fold", "context_only", "leakage"}] :
     /\ RL!Range(t.train) \subseteq RL!Range(eps)
     /\ t.as = "fold" =>
          \E first, last \in 0 .. Len(eps) : t = RL!Fold(eps, first, last)}

LEMMA WholeTrials ==
  ASSUME NEW eps \in Seq(Nat), NEW test \in Seq(Nat),
         NEW as \in {"training", "context_only", "leakage"}
  PROVE  RL!Trial(eps, test, as) \in TrialsOver(eps)
BY DEF RL!Trial, TrialsOver

LEMMA FoldFacts ==
  ASSUME NEW eps \in Seq(Nat), NEW first \in 0 .. Len(eps), NEW last \in 0 .. Len(eps)
  PROVE  /\ RL!Fold(eps, first, last) \in TrialsOver(eps)
         /\ \A e : e \in RL!Range(RL!Fold(eps, first, last).train)
              <=> \E k \in 1 .. first : eps[k] = e
         /\ \A e : e \in RL!Range(RL!Fold(eps, first, last).test)
              <=> \E k \in first + 1 .. last : eps[k] = e
<1> DEFINE a == SubSeq(eps, 1, first)
           b == SubSeq(eps, first + 1, last)
           t == RL!Fold(eps, first, last)
<1>1. /\ 1 \in 1 .. Len(eps) + 1 /\ first + 1 \in 1 .. Len(eps) + 1
      /\ first \in Nat /\ Len(eps) \in Nat
  OBVIOUS
<1>2. a \in Seq(Nat) /\ \A e : e \in RL!Range(a) <=> \E k \in 1 .. first : eps[k] = e
  BY <1>1, SubSeqRange, SMTT(20)
<1>3. b \in Seq(Nat) /\ \A e : e \in RL!Range(b) <=> \E k \in first + 1 .. last : eps[k] = e
  BY <1>1, SubSeqRange, SMTT(40)
<1>4. t = [train |-> a, test |-> b, as |-> "fold"]
  BY DEF RL!Fold, RL!Trial
<1> HIDE DEF a, b
<1>5. RL!Range(a) \subseteq RL!Range(eps)
  <2>1. DOMAIN eps = 1 .. Len(eps)
    OBVIOUS
  <2>2. ASSUME NEW e \in RL!Range(a) PROVE e \in RL!Range(eps)
    <3>1. PICK k \in 1 .. first : eps[k] = e
      BY <1>2
    <3>2. QED
      BY <1>1, <2>1, <3>1, SMTT(20) DEF RL!Range
  <2>3. QED
    BY <2>2
<1>6. \E f, l \in 0 .. Len(eps) : t = RL!Fold(eps, f, l)
  OBVIOUS
<1> HIDE DEF t
<1>7. t \in TrialsOver(eps)
  BY <1>2, <1>3, <1>4, <1>5, <1>6 DEF TrialsOver
<1>8. QED
  BY <1>2, <1>3, <1>4, <1>7 DEF t

\* Where the training set of one fold ends, the test set begins: its episodes
\* start a stride later at least.
LEMMA FoldOverlap ==
  ASSUME RL!Parameters, NEW eps \in Seq(Nat), NEW stride \in Nat, Apart(eps, stride),
         NEW first \in 0 .. Len(eps), NEW last \in 0 .. Len(eps),
         NEW b \in RL!AllBars(RL!Fold(eps, first, last).train),
         NEW c \in RL!AllBars(RL!Fold(eps, first, last).test)
  PROVE  b + stride < c + EpisodeLength
<1>0. EpisodeLength \in Nat /\ EpisodeLength \in Int
  BY DEF RL!Parameters
<1>1. RL!Min({EpisodeLength, EpisodeLength}) = EpisodeLength
  BY <1>0, Least
<1>2. PICK e \in RL!Range(RL!Fold(eps, first, last).train) :
        b \in e + 1 .. e + EpisodeLength
  BY <1>1 DEF RL!AllBars, RL!BarsOf
<1>3. PICK f \in RL!Range(RL!Fold(eps, first, last).test) :
        c \in f + 1 .. f + EpisodeLength
  BY <1>1 DEF RL!AllBars, RL!BarsOf
<1> DEFINE t == RL!Fold(eps, first, last)
<1>3a. /\ \A x : x \in RL!Range(t.train) <=> \E k \in 1 .. first : eps[k] = x
       /\ \A x : x \in RL!Range(t.test) <=> \E k \in first + 1 .. last : eps[k] = x
  BY FoldFacts, ZenonT(30)
<1> HIDE DEF t
<1>4. PICK i \in 1 .. first : eps[i] = e
  BY <1>2, <1>3a DEF t
<1>5. PICK j \in first + 1 .. last : eps[j] = f
  BY <1>3, <1>3a DEF t
<1>6. i \in 1 .. Len(eps) /\ j \in 1 .. Len(eps) /\ i < j
  OBVIOUS
<1>7. e + stride <= f /\ e \in Nat /\ f \in Nat
  BY <1>4, <1>5, <1>6, SMTT(20) DEF Apart
<1>8. QED
  BY <1>0, <1>2, <1>3, <1>7

Tested(n, k, chunk) == {i \in 1 .. k : i * chunk < n}

\* build_episode_folds stops at the first fold that has nothing to test.
LEMMA TestedIsPrefix ==
  ASSUME NEW n \in Nat, NEW k \in Nat, NEW chunk \in Nat
  PROVE  \E m \in 0 .. k : Tested(n, k, chunk) = 1 .. m
<1> DEFINE tested == Tested(n, k, chunk)
           U == {i \in 1 .. k + 1 : i \notin tested}
<1>1. U \in SUBSET Nat /\ k + 1 \in U
  BY DEF Tested
<1>2. PICK u \in U : \A i \in U : u <= i
  <2> HIDE DEF U
  <2>1. QED
    BY <1>1, LeastNumber
<1>3. u \in 1 .. k + 1 /\ u - 1 \in 0 .. k /\ u \notin tested
  BY <1>2
<1>4. ASSUME NEW i \in 1 .. u - 1 PROVE i \in tested
  <2>1. i \in 1 .. k + 1 /\ ~(u <= i)
    BY <1>3
  <2> HIDE DEF tested
  <2>2. QED
    BY <1>2, <2>1
<1>5. ASSUME NEW i \in tested PROVE i \in 1 .. u - 1
  <2>1. i \in 1 .. k /\ i * chunk < n
    BY DEF Tested
  <2>2. CASE u <= i
    <3>1. u * chunk <= i * chunk /\ u \in 1 .. k
      BY <1>3, <2>1, <2>2, Multiples
    <3>2. u * chunk \in Nat /\ i * chunk \in Nat
      BY <2>1, <3>1, Multiples
    <3>3. u * chunk < n
      BY <2>1, <3>1, <3>2
    <3>4. QED
      BY <1>3, <3>1, <3>3 DEF Tested
  <2>3. QED
    BY <1>3, <2>1, <2>2
<1>6. tested = 1 .. u - 1
  <2> HIDE DEF tested
  <2>1. QED
    BY <1>4, <1>5
<1>7. QED
  BY <1>3, <1>6

\* There is a fold, and later folds train on what earlier ones trained on.
LEMMA FoldsFacts ==
  ASSUME NEW eps \in Seq(Nat), Len(eps) >= 2, NEW k \in Nat
  PROVE  LET F == RL!EpisodeFolds(eps, k)
         IN  /\ F \in Seq(TrialsOver(eps)) /\ Len(F) \in Nat \ {0}
             /\ \A i \in 1 .. Len(F) : i + 1 <= Len(F) =>
                  RL!Range(F[i].train) \subseteq RL!Range(F[i + 1].train)
<1> DEFINE n == Len(eps)
           chunk == RL!Max({1, n \div (k + 1)})
           tested == Tested(n, k, chunk)
           F == RL!EpisodeFolds(eps, k)
<1>1. n \in Nat /\ n >= 2
  OBVIOUS
<1>2. chunk \in Nat \ {0}
  <2>1. n \div (k + 1) \in Int
    BY <1>1
  <2> DEFINE q == n \div (k + 1)
  <2> HIDE DEF q
  <2>2. RL!Max({1, q}) \in Nat \ {0}
    <3>1. q \in Int /\ 1 \in Int
      BY <2>1 DEF q
    <3>2. RL!Max({1, q}) \in {1, q} /\ RL!Max({1, q}) >= 1
      BY <3>1, Greatest
    <3>3. QED
      BY <3>1, <3>2
  <2>3. QED
    BY <2>2 DEF q
<1>3. F = IF tested = {} THEN <<RL!Fold(eps, RL!Max({1, n \div 2}), n)>>
          ELSE [i \in tested |->
                  RL!Fold(eps, i * chunk, RL!Min({(i + 1) * chunk, n}))]
  BY DEF RL!EpisodeFolds, Tested
<1> HIDE DEF chunk
<1>4. PICK m \in 0 .. k : tested = 1 .. m
  <2>1. chunk \in Nat /\ n \in Nat
    BY <1>1, <1>2
  <2> HIDE DEF n, F
  <2>2. QED
    BY <2>1, TestedIsPrefix, ZenonT(30)
<1>5. CASE tested = {}
  <2> DEFINE h == RL!Max({1, n \div 2})
  <2>1. h \in 0 .. n
    <3> DEFINE q == n \div 2
    <3>1. q \in Nat /\ q <= n
      BY <1>1
    <3> HIDE DEF q
    <3>2. RL!Max({1, q}) \in {1, q}
      <4>1. q \in Int /\ 1 \in Int
        BY <3>1
      <4>2. QED
        BY <4>1, Greatest
    <3>3. RL!Max({1, q}) \in 0 .. n
      BY <1>1, <3>1, <3>2
    <3>4. QED
      BY <3>3 DEF q
  <2> HIDE DEF h
  <2>2. F = <<RL!Fold(eps, h, n)>>
    <3> HIDE DEF tested
    <3>1. QED
      BY <1>3, <1>5 DEF h
  <2>3. RL!Fold(eps, h, n) \in TrialsOver(eps)
    BY <1>1, <2>1, FoldFacts
  <2> HIDE DEF F
  <2>4. F \in Seq(TrialsOver(eps)) /\ Len(F) = 1
    BY <2>2, <2>3
  <2>5. QED
    BY <2>4 DEF F
<1>6. CASE tested # {}
  <2> DEFINE f(i) == RL!Fold(eps, i * chunk, RL!Min({(i + 1) * chunk, n}))
  <2>1. F = [i \in 1 .. m |-> f(i)] /\ m \in Nat \ {0}
    <3>1. F = [i \in tested |-> f(i)]
      <4> HIDE DEF tested
      <4>1. QED
        BY <1>3, <1>6
    <3> HIDE DEF tested, f, F
    <3>2. m # 0
      BY <1>4, <1>6
    <3>3. QED
      BY <1>4, <3>1, <3>2
  <2>2. ASSUME NEW i \in 1 .. m
        PROVE  /\ f(i) \in TrialsOver(eps)
               /\ i * chunk \in 0 .. n
               /\ \A e : e \in RL!Range(f(i).train)
                    <=> \E j \in 1 .. i * chunk : eps[j] = e
    <3>1. i \in 1 .. k /\ i * chunk < n
      BY <1>4 DEF Tested
    <3>2. i * chunk \in Nat /\ (i + 1) * chunk \in Nat
      BY <1>2, <3>1, Multiples
    <3>3. RL!Min({(i + 1) * chunk, n}) \in {(i + 1) * chunk, n}
          /\ RL!Min({(i + 1) * chunk, n}) <= n
      <4> DEFINE x == (i + 1) * chunk
      <4>1. x \in Int /\ n \in Int
        BY <1>1, <3>2
      <4> HIDE DEF x, n
      <4>2. QED
        BY <4>1, Least DEF x
    <3> DEFINE first == i * chunk
               last == RL!Min({(i + 1) * chunk, n})
    <3>4. first \in 0 .. n /\ last \in 0 .. n
      BY <1>1, <3>1, <3>2, <3>3
    <3> HIDE DEF first, last
    <3>5. /\ RL!Fold(eps, first, last) \in TrialsOver(eps)
          /\ \A e : e \in RL!Range(RL!Fold(eps, first, last).train)
               <=> \E j \in 1 .. first : eps[j] = e
      BY <3>4, FoldFacts
    <3>6. QED
      BY <3>4, <3>5 DEF first, last
  <2>3. F \in Seq(TrialsOver(eps)) /\ Len(F) = m
    <3> HIDE DEF f, F
    <3>1. QED
      BY <2>1, <2>2
  <2>4. ASSUME NEW i \in 1 .. m, i + 1 <= m
        PROVE  RL!Range(F[i].train) \subseteq RL!Range(F[i + 1].train)
    <3>1. i + 1 \in 1 .. m /\ i \in Nat /\ i + 1 \in Nat
      BY <2>1, <2>4
    <3>2. i * chunk <= (i + 1) * chunk
      BY <1>2, <3>1, Multiples
    <3> HIDE DEF f, F
    <3>3. F[i] = f(i) /\ F[i + 1] = f(i + 1)
      BY <2>1, <3>1
    <3>4. ASSUME NEW e, e \in RL!Range(f(i).train)
          PROVE  e \in RL!Range(f(i + 1).train)
      <4>1. PICK j \in 1 .. i * chunk : eps[j] = e
        BY <2>2, <3>4
      <4>2. i * chunk \in 0 .. n /\ (i + 1) * chunk \in 0 .. n
        BY <2>2, <3>1
      <4>3. j \in 1 .. (i + 1) * chunk
        BY <1>1, <3>2, <4>1, <4>2
      <4>4. QED
        BY <2>2, <3>1, <4>1, <4>3
    <3>5. QED
      BY <3>3, <3>4
  <2> HIDE DEF f, F
  <2>5. QED
    BY <2>1, <2>3, <2>4 DEF F
<1>7. QED
  BY <1>5, <1>6

\* The trials of the call that runs.
LEMMA TrialsFacts ==
  ASSUME RL!Parameters, RL!TaskInv, RL!TypeOK, RL!InLoop
  PROVE  LET T == RL!Trials
         IN  /\ T \in Seq(TrialsOver(task.episodes)) /\ Len(T) \in Nat \ {0}
             /\ task.given =>
                  \A t \in 1 .. Len(T) : t + 1 <= Len(T) =>
                    RL!Range(T[t].train) \subseteq RL!Range(T[t + 1].train)
<1> DEFINE eps == task.episodes
           S == TrialsOver(eps)
           F == RL!EpisodeFolds(eps, task.folds)
<1>1. /\ eps \in Seq(Nat) /\ task.folds \in Nat /\ task.kind \in Kinds
      /\ task.given => task.kind = "walk_forward"
      /\ ~RL!Refused(task.kind, eps, task.folds)
  BY DEF RL!TaskInv, RL!TypeOK, Kinds
<1>2. CASE task.kind = "online"
  <2>1. RL!Trials = <<RL!Trial(eps, <<>>, "training")>>
    BY <1>2 DEF RL!Trials
  <2>2. RL!Trial(eps, <<>>, "training") \in S
    <3>1. <<>> \in Seq(Nat) /\ "training" \in {"training", "context_only", "leakage"}
      OBVIOUS
    <3> HIDE DEF eps
    <3>2. QED
      BY <1>1, <3>1, WholeTrials
  <2> DEFINE a == RL!Trial(eps, <<>>, "training")
  <2> HIDE DEF a, S
  <2>3. <<a>> \in Seq(S) /\ Len(<<a>>) = 1
    BY <2>2 DEF a
  <2>4. QED
    BY <1>1, <1>2, <2>1, <2>3 DEF a, S
<1>3. ASSUME task.kind # "online"
      PROVE  F \in Seq(S) /\ Len(F) \in Nat \ {0}
  <2>1. Len(eps) >= 2
    BY <1>1, <1>3 DEF RL!Refused
  <2> HIDE DEF eps
  <2>2. QED
    BY <1>1, <2>1, FoldsFacts
<1>4. CASE task.kind = "walk_forward"
  <2>1. Len(eps) >= 2
    BY <1>1, <1>4 DEF RL!Refused
  <2>2. RL!Trials = F
    BY <1>4 DEF RL!Trials
  <2> HIDE DEF eps
  <2>3. QED
    BY <1>1, <2>1, <2>2, FoldsFacts DEF eps
<1>5. CASE task.kind = "ablation"
  <2> DEFINE n == Len(eps)
             A == [t \in 1 .. Variants * Len(F) |-> F[((t - 1) % Len(F)) + 1]]
             some == SubSeq(eps, n - RL!Max({1, n \div 4}) + 1, n)
             few == SubSeq(eps, 1, RL!Min({2, n}))
             B == <<RL!Trial(eps, some, "context_only")>>
             C == IF task.leakage THEN <<RL!Trial(eps, few, "leakage")>> ELSE <<>>
  <2>1. RL!Trials = A \o B \o C
    BY <1>5 DEF RL!Trials, RL!AblationTrials
  <2>2. n \in Nat /\ n >= 2
    BY <1>1, <1>5 DEF RL!Refused
  <2>3. A \in Seq(S)
    <3>1. F \in Seq(S) /\ Len(F) \in Nat \ {0}
      BY <1>3, <1>5
    <3> HIDE DEF F, S
    <3>2. Variants * Len(F) \in Nat
      BY <3>1 DEF RL!Parameters
    <3>3. ASSUME NEW t \in 1 .. Variants * Len(F)
          PROVE  F[((t - 1) % Len(F)) + 1] \in S
      <4> DEFINE i == ((t - 1) % Len(F)) + 1
      <4>1. i \in 1 .. Len(F)
        BY <3>1, <3>2
      <4> HIDE DEF i
      <4>2. QED
        BY <3>1, <4>1 DEF i
    <3>4. QED
      BY <3>2, <3>3
  <2>4. some \in Seq(Nat)
    <3> DEFINE q == n \div 4
               x == RL!Max({1, q})
    <3>1. q \in Int /\ 1 \in Int /\ q <= n /\ 0 <= q
      <4> HIDE DEF n
      <4>1. QED
        BY <2>2
    <3> HIDE DEF q
    <3>2. x \in {1, q} /\ x >= 1
      BY <3>1, Greatest
    <3> HIDE DEF x
    <3>3. n - x + 1 \in 1 .. n + 1 /\ n \in 0 .. n
      BY <2>2, <3>1, <3>2
    <3>4. SubSeq(eps, n - x + 1, n) \in Seq(Nat)
      BY <1>1, <3>3, SubSeqRange
    <3>5. QED
      BY <3>4 DEF x, q
  <2>5. few \in Seq(Nat)
    <3>1. n \in Int /\ 2 \in Int
      BY <2>2
    <3> DEFINE x == RL!Min({2, n})
    <3>2. x \in {2, n} /\ x <= n
      <4> HIDE DEF n
      <4>1. QED
        BY <3>1, Least
    <3> HIDE DEF x
    <3>3. 1 \in 1 .. n + 1 /\ x \in 0 .. n
      BY <2>2, <3>2
    <3>4. SubSeq(eps, 1, x) \in Seq(Nat)
      BY <1>1, <3>3, SubSeqRange
    <3>5. QED
      BY <3>4 DEF x
  <2>6. /\ RL!Trial(eps, some, "context_only") \in S
        /\ RL!Trial(eps, few, "leakage") \in S
    <3> HIDE DEF some, few, eps
    <3>1. QED
      BY <1>1, <2>4, <2>5, WholeTrials
  <2>7. B \in Seq(S) /\ Len(B) = 1 /\ C \in Seq(S) /\ Len(C) \in Nat
    <3> DEFINE a == RL!Trial(eps, some, "context_only")
               b == RL!Trial(eps, few, "leakage")
    <3>1. a \in S /\ b \in S
      BY <2>6
    <3> HIDE DEF a, b, S
    <3>2. <<a>> \in Seq(S) /\ Len(<<a>>) = 1 /\ <<b>> \in Seq(S) /\ <<>> \in Seq(S)
      BY <3>1
    <3>3. B = <<a>> /\ C \in {<<b>>, <<>>}
      BY DEF a, b
    <3> HIDE DEF B, C
    <3>4. QED
      BY <3>2, <3>3
  <2> HIDE DEF A, B, C, S
  <2>8. A \o B \in Seq(S) /\ Len(A \o B) = Len(A) + 1 /\ Len(A) \in Nat
    <3>1. A \o B \in Seq(S) /\ Len(A \o B) = Len(A) + Len(B)
      BY <2>3, <2>7, ConcatProperties
    <3>2. Len(A) \in Nat
      BY <2>3
    <3> DEFINE D == A \o B
    <3> HIDE DEF D
    <3>3. QED
      BY <2>7, <3>1, <3>2 DEF D
  <2>9. RL!Trials \in Seq(S) /\ Len(RL!Trials) = Len(A) + 1 + Len(C)
    <3> DEFINE D == A \o B
    <3>1. D \in Seq(S) /\ Len(D) = Len(A) + 1
      BY <2>8
    <3> HIDE DEF D
    <3>2. D \o C \in Seq(S) /\ Len(D \o C) = Len(D) + Len(C)
      BY <2>7, <3>1, ConcatProperties
    <3>3. RL!Trials = D \o C
      BY <2>1 DEF D
    <3> DEFINE t == D \o C
    <3> HIDE DEF t
    <3>4. QED
      BY <3>1, <3>2, <3>3 DEF t
  <2>10. RL!Trials \in Seq(S) /\ Len(RL!Trials) \in Nat \ {0}
    BY <2>7, <2>8, <2>9
  <2>11. ~task.given
    BY <1>1, <1>5
  <2>12. QED
    BY <2>10, <2>11 DEF S
<1>6. QED
  BY <1>1, <1>2, <1>4, <1>5 DEF Kinds

\* The same of the state after a step.
LEMMA TrialsOfACall ==
  RL!Parameters /\ RL!TaskInv /\ RL!TypeOK /\ RL!InLoop =>
    /\ RL!Trials \in Seq(TrialsOver(task.episodes)) /\ Len(RL!Trials) \in Nat \ {0}
    /\ task.given =>
         \A t \in 1 .. Len(RL!Trials) : t + 1 <= Len(RL!Trials) =>
           RL!Range(RL!Trials[t].train) \subseteq RL!Range(RL!Trials[t + 1].train)
BY TrialsFacts

LEMMA TrialsAfter ==
  ASSUME RL!Parameters, RL!TaskInv', RL!TypeOK', RL!InLoop'
  PROVE  RL!Trials' \in Seq(TrialsOver(task'.episodes)) /\ Len(RL!Trials') \in Nat \ {0}
<1>1. RL!Parameters' /\ RL!TaskInv' /\ RL!TypeOK' /\ RL!InLoop' =>
        (RL!Trials \in Seq(TrialsOver(task.episodes)) /\ Len(RL!Trials) \in Nat \ {0})'
  BY TrialsOfACall, PTL
<1>2. QED
  BY <1>1

LEMMA SameTrials ==
  ASSUME task' = task
  PROVE  RL!Trials' = RL!Trials /\ RL!Stages' = RL!Stages
BY DEF RL!Trials, RL!Stages

LEMMA SameBounds ==
  ASSUME task' = task
  PROVE  /\ RL!Max({1, Len(RL!Stages)})' = RL!Max({1, Len(RL!Stages)})
         /\ RL!AllBars(task.episodes)' = RL!AllBars(task.episodes)
<1>1. RL!Max({1, Len(RL!Stages)})' = RL!Max({1, Len(RL!Stages)})
  BY DEF RL!Stages
<1>2. RL!AllBars(task.episodes)' = RL!AllBars(task.episodes)
  BY DEF RL!AllBars, RL!Range, RL!BarsOf
<1>3. QED
  BY <1>1, <1>2

\* The cache of a step that leaves it alone.
LEMMA SameCache ==
  ASSUME cache' = cache
  PROVE  RL!Range(cache)' = RL!Range(cache) /\ RL!IsInjective(cache)' = RL!IsInjective(cache)
BY DEF RL!Range, RL!IsInjective

LEMMA BarsGrow ==
  ASSUME NEW a, NEW b, RL!Range(a) \subseteq RL!Range(b)
  PROVE  RL!AllBars(a) \subseteq RL!AllBars(b)
BY DEF RL!AllBars

\* A rollout sees no more than the bars of its episode.
LEMMA RolloutBars ==
  ASSUME RL!Parameters, NEW eps, NEW e \in RL!Range(eps), e \in Nat, NEW n \in Nat
  PROVE  RL!BarsOf(e, n) \subseteq RL!AllBars(eps)
<1>1. EpisodeLength \in Nat
  BY DEF RL!Parameters
<1>2. RL!Min({n, EpisodeLength}) \in Int /\ RL!Min({n, EpisodeLength}) <= EpisodeLength
  <2>1. n \in Int /\ EpisodeLength \in Int
    BY <1>1
  <2>2. QED
    BY <2>1, Least
<1>3. RL!Min({EpisodeLength, EpisodeLength}) = EpisodeLength
  <2>1. EpisodeLength \in Int
    BY <1>1
  <2>2. QED
    BY <2>1, Least
<1>4. RL!BarsOf(e, n) \subseteq RL!BarsOf(e, EpisodeLength)
  BY <1>1, <1>2, <1>3 DEF RL!BarsOf
<1>5. QED
  BY <1>4 DEF RL!AllBars

\* The trial that runs.
LEMMA TheTrial ==
  ASSUME RL!Parameters, RL!TInv, RL!InLoop
  PROVE  /\ trial \in 1 .. Len(RL!Trials) /\ RL!Trials[trial] \in TrialsOver(task.episodes)
         /\ RL!Range(RL!TrainSet) \subseteq RL!Range(task.episodes)
         /\ RL!Range(task.episodes) \subseteq Nat
         /\ RL!AllBars(RL!TrainSet) \subseteq RL!AllBars(task.episodes)
<1>1. /\ RL!Trials \in Seq(TrialsOver(task.episodes)) /\ trial \in 1 .. Len(RL!Trials)
      /\ task.episodes \in Seq(Nat)
  BY TrialsFacts DEF RL!TInv, RL!LearntInv, RL!TaskInv
<1>2. RL!Trials[trial] \in TrialsOver(task.episodes)
  BY <1>1
<1>3. RL!Range(RL!TrainSet) \subseteq RL!Range(task.episodes)
  BY <1>2 DEF TrialsOver, RL!TrainSet
<1>4. RL!Range(task.episodes) \subseteq Nat
  BY <1>1 DEF RL!Range
<1>5. QED
  BY <1>1, <1>2, <1>3, <1>4, BarsGrow

-----------------------------------------------------------------------------
(* The steps of the training loop.                                         *)

LEMMA NewLoopType ==
  ASSUME RL!Parameters, NEW eps, RL!NewLoop(eps)
  PROVE  /\ RL!CacheInv' /\ DOMAIN futures' = RL!Range(eps)
         /\ timesteps' \in 0 .. Target /\ stageSteps' \in Nat /\ stage' = 1 /\ chosen' = -1
         /\ RL!IsInjective(cache)' /\ Len(cache') <= CacheSize
         /\ RL!Range(cache)' = {}
<1>1. RL!CacheInv'
  BY EmptyCacheIsRight DEF RL!NewLoop
<1>2. /\ cache' = <<>> /\ futures' = [e \in RL!Range(eps) |-> "none"]
      /\ timesteps' = 0 /\ stage' = 1 /\ stageSteps' = 0 /\ chosen' = -1
  BY DEF RL!NewLoop, RL!EmptyCache
<1>3. 0 \in 0 .. Target /\ 0 <= CacheSize
  BY DEF RL!Parameters
<1>4. RL!IsInjective(<<>>) /\ RL!Range(<<>>) = {}
  BY DEF RL!IsInjective, RL!Range
<1>5. RL!IsInjective(cache)' /\ RL!Range(cache)' = {}
  BY <1>2, <1>4 DEF RL!IsInjective, RL!Range
<1>6. QED
  BY <1>1, <1>2, <1>3, <1>5

\* A scheduler that starts is in its first stage.
LEMMA FirstStage ==
  ASSUME RL!Parameters, NEW c \in Curricula \cup {<<>>}
  PROVE  1 \in 1 .. RL!Max({1, Len(c)})
<1> DEFINE n == Len(c)
<1>1. n \in Int /\ 1 \in Int
  BY DEF RL!Parameters
<1> HIDE DEF n
<1>2. RL!Max({1, n}) \in {1, n} /\ RL!Max({1, n}) >= 1
  BY <1>1, Greatest
<1>3. 1 \in 1 .. RL!Max({1, n})
  BY <1>1, <1>2
<1>4. QED
  BY <1>3 DEF n

LEMMA StartStep ==
  ASSUME RL!Parameters, RL!TInv, NEW kind \in Kinds, RL!Start(kind)
  PROVE  RL!TInv'
<1>1. PICK bars \in BarCounts, stride \in Strides, curriculum \in Curricula, k \in FoldCounts,
           volatility \in Volatilities, leakage \in BOOLEAN, given \in BOOLEAN :
        LET eps == RL!Windows(bars, stride)
        IN  /\ kind # "ablation" => ~leakage
            /\ kind # "walk_forward" => ~given
            /\ task' = [kind |-> kind, episodes |-> eps, stride |-> stride,
                        curriculum |-> curriculum, folds |-> k, leakage |-> leakage,
                        given |-> given,
                        volatility |-> [e \in RL!Range(eps) |-> volatility[e]]]
            /\ work' = IF RL!Refused(kind, eps, k) THEN "raised" ELSE "loop"
            /\ RL!NewLoop(eps)
  BY DEF RL!Start
<1> DEFINE eps == RL!Windows(bars, stride)
<1>2. /\ task'.kind = kind /\ task'.episodes = eps /\ task'.stride = stride
      /\ task'.curriculum = curriculum /\ task'.folds = k /\ task'.leakage = leakage
      /\ task'.given = given
      /\ work' = IF RL!Refused(kind, eps, k) THEN "raised" ELSE "loop"
      /\ given => kind = "walk_forward"
      /\ trial' = 1 /\ seen' = {} /\ report' = report /\ work = "idle"
  BY <1>1 DEF RL!Start
<1>2a. RL!NewLoop(eps)
  BY <1>1
<1>3. /\ eps \in Seq(Nat) /\ k \in Nat
      /\ Apart(eps, stride) /\ stride \in Nat
  BY WindowsFacts DEF RL!Parameters
<1> HIDE DEF eps
<1>4. report = RL!NoReport
  BY <1>2 DEF RL!TInv, RL!TaskInv
<1>5. RL!TaskInv'
  <2>1. work' # "idle"
    BY <1>2
  <2>2. RL!InLoop' => ~RL!Refused(kind, eps, k)
    BY <1>2 DEF RL!InLoop
  <2>3. \A i, j \in DOMAIN task'.episodes :
          i < j => task'.episodes[i] + task'.stride <= task'.episodes[j]
    BY <1>2, <1>3 DEF Apart
  <2>4. RL!Refused(task.kind, task.episodes, task.folds)' = RL!Refused(kind, eps, k)
    BY <1>2
  <2>5. /\ task'.episodes \in Seq(Nat) /\ task'.folds \in Nat
        /\ task'.curriculum \in Curricula \cup {<<>>}
    BY <1>2, <1>3
  <2>6. /\ {task'.given, task'.leakage} \subseteq BOOLEAN /\ task'.stride \in Nat
        /\ task'.given => task'.kind = "walk_forward"
        /\ task'.kind # "none"
    <3>1. task'.given \in BOOLEAN /\ task'.leakage \in BOOLEAN
      BY <1>2
    <3>2. task'.stride \in Nat
      BY <1>2, <1>3
    <3>3. task'.kind # "none" /\ (task'.given => task'.kind = "walk_forward")
      BY <1>2 DEF Kinds
    <3>4. QED
      BY <3>1, <3>2, <3>3
  <2>7. QED
    BY <2>1, <2>2, <2>3, <2>4, <2>5, <2>6 DEF RL!TaskInv
<1>6. /\ RL!CacheInv' /\ DOMAIN futures' = RL!Range(eps)
      /\ timesteps' \in 0 .. Target /\ stageSteps' \in Nat /\ stage' = 1 /\ chosen' = -1
      /\ RL!IsInjective(cache)' /\ Len(cache') <= CacheSize
      /\ RL!Range(cache)' = {}
  BY <1>2a, NewLoopType
<1>7. RL!TypeOK'
  <2>1. stage' \in 1 .. RL!Max({1, Len(RL!Stages)})'
    <3>1. 1 \in 1 .. RL!Max({1, Len(curriculum)})
      BY FirstStage
    <3>2. RL!Max({1, Len(RL!Stages)})' = RL!Max({1, Len(curriculum)})
      BY <1>2 DEF RL!Stages
    <3>3. QED
      BY <1>6, <3>1, <3>2
  <2>2. work' \in {"idle", "loop", "get", "collect", "done", "raised"}
    BY <1>2
  <2>3. \A e \in DOMAIN futures' : futures'[e] \in {"none", "queued", "loaded"}
    BY <1>6 DEF RL!CacheInv
  <2>4. QED
    BY <1>2, <1>6, <2>1, <2>2, <2>3 DEF RL!TypeOK, Kinds
<1>8. RL!LearntInv'
  <2>1. SUFFICES ASSUME RL!InLoop' PROVE RL!LearntInv'
    BY DEF RL!LearntInv
  <2>2. Len(RL!Trials') \in Nat \ {0}
    BY <1>5, <1>7, <2>1, TrialsAfter
  <2>3. trial' \in 1 .. Len(RL!Trials')
    BY <1>2, <2>2
  <2>4. work' = "loop"
    BY <1>2, <2>1 DEF RL!InLoop
  <2>5. QED
    BY <1>2, <1>6, <2>3, <2>4 DEF RL!LearntInv
<1>9. RL!OverlapIsBounded'
  BY <1>2, <1>4 DEF RL!OverlapIsBounded, RL!NoReport
<1>10. QED
  BY <1>5, <1>6, <1>7, <1>8, <1>9 DEF RL!TInv

\* Of what a step that keeps the call and its trials has to keep.
LEMMA SameCall ==
  ASSUME RL!TInv, UNCHANGED <<task, trial, report>>, RL!InLoop, work' # "idle"
  PROVE  RL!TaskInv' /\ RL!OverlapIsBounded' /\ RL!TrainSet' = RL!TrainSet
<1>1. RL!Refused(task.kind, task.episodes, task.folds)'
        = RL!Refused(task.kind, task.episodes, task.folds)
  OBVIOUS
<1>2. RL!TaskInv'
  BY <1>1 DEF RL!TInv, RL!TaskInv, RL!InLoop
<1>3. RL!OverlapIsBounded'
  BY DEF RL!TInv, RL!OverlapIsBounded
<1>4. RL!TrainSet' = RL!TrainSet
  BY SameTrials DEF RL!TrainSet
<1>5. QED
  BY <1>2, <1>3, <1>4

LEMMA ChooseStep ==
  ASSUME RL!Parameters, RL!TInv, NEW e \in DOMAIN futures, RL!Choose(e)
  PROVE  RL!TInv'
<1>1. /\ work = "loop" /\ work' = "get" /\ chosen' = e /\ e \in RL!Pool
      /\ DOMAIN futures' = DOMAIN futures
      /\ UNCHANGED <<task, trial, seen, timesteps, stage, stageSteps, cache, loads,
                     dropped, report>>
  BY DEF RL!Choose
<1>2. RL!InLoop
  BY <1>1 DEF RL!InLoop
<1>3. RL!TaskInv' /\ RL!OverlapIsBounded' /\ RL!TrainSet' = RL!TrainSet
  BY <1>1, <1>2, SameCall
<1>4. RL!CacheInv'
  BY ChooseCache DEF RL!TInv
<1>5. e \in RL!Range(RL!TrainSet)
  BY <1>1 DEF RL!Pool
<1>6. RL!TypeOK'
  <2>1. \A f \in DOMAIN futures' : futures'[f] \in {"none", "queued", "loaded"}
    BY <1>4 DEF RL!CacheInv
  <2>2. RL!TypeOK
    BY DEF RL!TInv
  <2>3. QED
    BY <1>1, <2>1, <2>2, SameBounds, SameCache DEF RL!TypeOK
<1>7. RL!LearntInv'
  <2>1. RL!LearntInv
    BY DEF RL!TInv
  <2>2. Len(RL!Trials)' = Len(RL!Trials)
    BY <1>1, SameTrials
  <2>3. RL!AllBars(RL!TrainSet)' = RL!AllBars(RL!TrainSet)
    BY <1>3 DEF RL!AllBars, RL!Range, RL!BarsOf
  <2>4. RL!Range(RL!TrainSet)' = RL!Range(RL!TrainSet)
    BY <1>3 DEF RL!Range
  <2>5. RL!Range(task.episodes)' = RL!Range(task.episodes)
    BY <1>1 DEF RL!Range
  <2>6. QED
    BY <1>1, <1>2, <1>5, <2>1, <2>2, <2>3, <2>4, <2>5 DEF RL!LearntInv
<1>8. QED
  BY <1>3, <1>4, <1>6, <1>7 DEF RL!TInv

LEMMA LoadAheadStep ==
  ASSUME RL!Parameters, RL!TInv, NEW e \in DOMAIN futures, RL!LoadAhead(e)
  PROVE  RL!TInv'
<1>1. /\ DOMAIN futures' = DOMAIN futures
      /\ UNCHANGED <<work, task, trial, seen, timesteps, stage, stageSteps, chosen, cache,
                     dropped, report>>
  BY DEF RL!LoadAhead, RL!loopVars
<1>2. RL!CacheInv'
  BY LoadAheadCache DEF RL!TInv
<1>3. RL!TypeOK'
  <2>1. \A f \in DOMAIN futures' : futures'[f] \in {"none", "queued", "loaded"}
    BY <1>2 DEF RL!CacheInv
  <2>2. RL!TypeOK
    BY DEF RL!TInv
  <2>3. QED
    BY <1>1, <2>1, <2>2, SameBounds, SameCache DEF RL!TypeOK
<1>4. RL!TaskInv'
  BY <1>1 DEF RL!TInv, RL!TaskInv, RL!InLoop
<1>5. RL!LearntInv'
  <2>1. RL!Trials' = RL!Trials
    BY <1>1, SameTrials
  <2>2. RL!TrainSet' = RL!TrainSet
    BY <1>1, <2>1 DEF RL!TrainSet
  <2>3. RL!LearntInv
    BY DEF RL!TInv
  <2>4. QED
    BY <1>1, <2>1, <2>2, <2>3
    DEF RL!LearntInv, RL!InLoop, RL!AllBars, RL!Range, RL!BarsOf
<1>6. RL!OverlapIsBounded'
  BY <1>1 DEF RL!TInv, RL!OverlapIsBounded
<1>7. QED
  BY <1>2, <1>3, <1>4, <1>5, <1>6 DEF RL!TInv

LEMMA GetStep ==
  ASSUME RL!Parameters, RL!TInv, RL!Get
  PROVE  RL!TInv'
<1>1. /\ work = "get" /\ work' = "collect"
      /\ UNCHANGED <<task, trial, seen, timesteps, stage, stageSteps, chosen, report>>
  BY DEF RL!Get, RL!loopVars
<1>2. RL!InLoop /\ RL!InLoop'
  BY <1>1 DEF RL!InLoop
<1>3. RL!TaskInv' /\ RL!OverlapIsBounded' /\ RL!TrainSet' = RL!TrainSet
  BY <1>1, <1>2, SameCall
<1>4. /\ chosen \in RL!Range(RL!TrainSet) /\ chosen \in DOMAIN futures
      /\ RL!LearntInv /\ RL!TypeOK /\ RL!CacheInv
  <2>1. chosen \in RL!Range(RL!TrainSet) /\ DOMAIN futures = RL!Range(task.episodes)
    BY <1>1, <1>2 DEF RL!TInv, RL!LearntInv
  <2>2. RL!Range(RL!TrainSet) \subseteq RL!Range(task.episodes)
    BY <1>2, TheTrial
  <2>3. QED
    BY <2>1, <2>2 DEF RL!TInv
<1>5. /\ RL!CacheInv' /\ RL!IsInjective(cache)' /\ Len(cache') <= CacheSize
      /\ DOMAIN futures' = DOMAIN futures
  BY <1>4, GetCache
<1>6. RL!TypeOK'
  <2>1. \A f \in DOMAIN futures' : futures'[f] \in {"none", "queued", "loaded"}
    BY <1>5 DEF RL!CacheInv
  <2>2. RL!Range(cache)' \subseteq DOMAIN futures'
    <3>1. cache' \in Seq(DOMAIN futures')
      BY <1>5 DEF RL!CacheInv
    <3>2. RL!Range(cache') \subseteq DOMAIN futures'
      BY <3>1 DEF RL!Range
    <3>3. QED
      BY <3>2 DEF RL!Range
  <2>3. QED
    BY <1>1, <1>4, <1>5, <2>1, <2>2, ZenonT(30) DEF RL!TypeOK, RL!Stages, RL!Range, RL!AllBars, RL!BarsOf
<1>7. RL!LearntInv'
  <2>1. RL!Trials' = RL!Trials
    BY <1>1, SameTrials
  <2>2. QED
    BY <1>1, <1>2, <1>3, <1>4, <1>5, <2>1
    DEF RL!LearntInv, RL!AllBars, RL!Range, RL!BarsOf
<1>8. QED
  BY <1>3, <1>5, <1>6, <1>7 DEF RL!TInv

\* A stage is over only if there is a next one.
LEMMA AdvanceType ==
  ASSUME RL!Parameters, NEW n \in Nat, stage \in 1 .. RL!Max({1, Len(RL!Stages)}),
         stageSteps \in Nat, task.curriculum \in Curricula \cup {<<>>}, RL!Advance(n)
  PROVE  stage' \in 1 .. RL!Max({1, Len(RL!Stages)}) /\ stageSteps' \in Nat
<1> DEFINE m == Len(RL!Stages)
<1>1. m \in Nat
  BY DEF RL!Stages, RL!Parameters
<1>2. /\ stage' \in {stage, stage + 1}
      /\ stage' # stage => stage < m
      /\ stageSteps' \in {0, stageSteps + n}
  BY DEF RL!Advance
<1> HIDE DEF m
<1>3. RL!Max({1, m}) \in {1, m} /\ RL!Max({1, m}) >= m
  <2>1. m \in Int /\ 1 \in Int
    BY <1>1
  <2>2. QED
    BY <2>1, Greatest
<1> DEFINE top == RL!Max({1, m})
<1>4. stage \in 1 .. top /\ top \in Nat /\ top >= m
  BY <1>1, <1>3 DEF m
<1> HIDE DEF top
<1>5. stage' \in 1 .. top
  <2>1. CASE stage' = stage
    BY <1>4, <2>1
  <2>2. CASE stage' = stage + 1 /\ stage < m
    BY <1>1, <1>4, <2>2
  <2>3. QED
    BY <1>2, <2>1, <2>2
<1>6. QED
  BY <1>2, <1>5 DEF top, m

LEMMA CollectStep ==
  ASSUME RL!Parameters, RL!TInv, RL!Collect
  PROVE  RL!TInv'
<1> DEFINE n == RL!Min({RolloutSteps, Target - timesteps})
<1>1. /\ work = "collect" /\ work' = "loop"
      /\ seen' = seen \cup RL!BarsOf(chosen, n + 1) /\ timesteps' = timesteps + n
      /\ RL!Advance(n)
      /\ UNCHANGED <<task, trial, chosen, cache, futures, loads, dropped, report>>
  BY DEF RL!Collect, RL!cacheVars
<1>2. n \in Nat /\ timesteps + n \in 0 .. Target
  <2>1. RolloutSteps \in Nat /\ Target \in Nat /\ timesteps \in 0 .. Target
    BY DEF RL!TInv, RL!TypeOK, RL!Parameters
  <2> DEFINE rest == Target - timesteps
  <2>2. rest \in Int /\ RolloutSteps \in Int /\ rest >= 0
    BY <2>1
  <2> HIDE DEF rest
  <2>3. /\ RL!Min({RolloutSteps, rest}) \in {RolloutSteps, rest}
        /\ RL!Min({RolloutSteps, rest}) <= rest
    BY <2>2, Least
  <2> DEFINE r == RL!Min({RolloutSteps, rest})
  <2>4. r \in Nat /\ r <= rest
    BY <2>1, <2>2, <2>3
  <2>5. n = r
    BY DEF rest
  <2> HIDE DEF r, n
  <2>6. QED
    BY <2>1, <2>4, <2>5 DEF rest
<1> HIDE DEF n
<1>3. RL!InLoop /\ RL!InLoop'
  BY <1>1 DEF RL!InLoop
<1>4. RL!TaskInv' /\ RL!OverlapIsBounded' /\ RL!TrainSet' = RL!TrainSet
  BY <1>1, <1>3, SameCall
<1>5. /\ RL!LearntInv /\ RL!TypeOK /\ RL!CacheInv /\ RL!TaskInv
      /\ chosen \in RL!Range(RL!TrainSet) /\ chosen \in Nat
      /\ RL!AllBars(RL!TrainSet) \subseteq RL!AllBars(task.episodes)
  <2>1. chosen \in RL!Range(RL!TrainSet)
    BY <1>1, <1>3 DEF RL!TInv, RL!LearntInv
  <2>2. QED
    BY <1>3, <2>1, TheTrial DEF RL!TInv
<1>6. seen' \subseteq RL!AllBars(RL!TrainSet)
  <2>1. RL!BarsOf(chosen, n + 1) \subseteq RL!AllBars(RL!TrainSet)
    <3>1. n + 1 \in Nat
      BY <1>2
    <3>2. QED
      BY <1>5, <3>1, RolloutBars
  <2>2. seen \subseteq RL!AllBars(RL!TrainSet)
    BY <1>3, <1>5 DEF RL!LearntInv
  <2>3. QED
    BY <1>1, <2>1, <2>2
<1>7. RL!TypeOK'
  <2>1. stage' \in 1 .. RL!Max({1, Len(RL!Stages)}) /\ stageSteps' \in Nat
    <3>1. /\ stage \in 1 .. RL!Max({1, Len(RL!Stages)}) /\ stageSteps \in Nat
          /\ task.curriculum \in Curricula \cup {<<>>}
      BY <1>5 DEF RL!TypeOK, RL!TaskInv
    <3>2. QED
      BY <1>1, <1>2, <3>1, AdvanceType
  <2>2. seen' \subseteq RL!AllBars(task.episodes)
    BY <1>5, <1>6
  <2>3. QED
    BY <1>1, <1>2, <1>5, <2>1, <2>2, SameBounds, SameCache DEF RL!TypeOK
<1>8. RL!CacheInv'
  BY <1>1, <1>5, SameCache DEF RL!CacheInv
<1>9. RL!LearntInv'
  <2>1. RL!Trials' = RL!Trials
    BY <1>1, SameTrials
  <2>2. RL!AllBars(RL!TrainSet)' = RL!AllBars(RL!TrainSet)
    BY <1>4 DEF RL!AllBars, RL!Range, RL!BarsOf
  <2>3. RL!Range(task.episodes)' = RL!Range(task.episodes)
    BY <1>1 DEF RL!Range
  <2>4. QED
    BY <1>1, <1>3, <1>5, <1>6, <2>1, <2>2, <2>3 DEF RL!LearntInv
<1>10. QED
  BY <1>4, <1>7, <1>8, <1>9 DEF RL!TInv

\* What an evaluation reports of a fold overlaps with its training so far.
LEMMA ReportOverlap ==
  ASSUME RL!Parameters, RL!TInv, RL!Evaluate
  PROVE  RL!OverlapIsBounded'
<1>1. /\ RL!InLoop
      /\ report' = IF RL!Trials[trial].test = <<>> THEN report
                   ELSE [trained |-> seen, tested |-> RL!AllBars(RL!Trials[trial].test),
                         as |-> RL!Trials[trial].as]
  BY DEF RL!Evaluate, RL!InLoop
<1>2. task' = task
  BY DEF RL!Evaluate
<1>3. RL!Trials[trial] \in TrialsOver(task.episodes) /\ seen \subseteq RL!AllBars(RL!TrainSet)
  BY <1>1, TheTrial DEF RL!TInv, RL!LearntInv
<1>4. CASE RL!Trials[trial].test = <<>>
  BY <1>1, <1>2, <1>4 DEF RL!TInv, RL!OverlapIsBounded
<1>5. CASE RL!Trials[trial].test # <<>>
  <2> DEFINE t == RL!Trials[trial]
  <2>1. /\ report'.trained = seen /\ report'.tested = RL!AllBars(t.test)
        /\ report'.as = t.as
    BY <1>1, <1>5
  <2>2. ASSUME t.as = "fold",
               NEW b \in seen, NEW c \in RL!AllBars(t.test)
        PROVE  b + task.stride < c + EpisodeLength
    <3>1. PICK first \in 0 .. Len(task.episodes), last \in 0 .. Len(task.episodes) :
            t = RL!Fold(task.episodes, first, last)
      BY <1>3, <2>2 DEF TrialsOver
    <3>2. task.episodes \in Seq(Nat) /\ task.stride \in Nat /\ Apart(task.episodes, task.stride)
      BY <2>2 DEF RL!TInv, RL!TaskInv, Apart
    <3>3. b \in RL!AllBars(t.train)
      BY <1>3 DEF RL!TrainSet
    <3> HIDE DEF t
    <3>4. QED
      BY <2>2, <3>1, <3>2, <3>3, FoldOverlap
  <2> HIDE DEF t
  <2>3. QED
    BY <1>2, <2>1, <2>2 DEF RL!OverlapIsBounded
<1>6. QED
  BY <1>4, <1>5

LEMMA EvaluateStep ==
  ASSUME RL!Parameters, RL!TInv, RL!Evaluate
  PROVE  RL!TInv'
<1>1. RL!OverlapIsBounded'
  BY ReportOverlap
<1>2. work = "loop" /\ RL!InLoop /\ task' = task
  BY DEF RL!Evaluate, RL!InLoop
<1>3. /\ RL!TypeOK /\ RL!TaskInv /\ RL!CacheInv /\ RL!LearntInv
      /\ trial \in 1 .. Len(RL!Trials)
      /\ RL!Trials \in Seq(TrialsOver(task.episodes))
  BY <1>2, TrialsFacts DEF RL!TInv, RL!LearntInv
<1>4. RL!TaskInv'
  <2>1. work' # "idle"
    BY DEF RL!Evaluate
  <2>2. RL!Refused(task.kind, task.episodes, task.folds)'
          = RL!Refused(task.kind, task.episodes, task.folds)
    BY <1>2
  <2>3. QED
    BY <1>2, <1>3, <2>1, <2>2 DEF RL!TaskInv
<1>5. CASE trial < Len(RL!Trials)
  <2>1. /\ trial' = trial + 1 /\ seen' = (IF task.given THEN seen ELSE {})
        /\ work' = work
    BY <1>5 DEF RL!Evaluate
  <2>1a. RL!NewLoop(task.episodes)
    BY <1>5 DEF RL!Evaluate
  <2>2. /\ RL!CacheInv' /\ DOMAIN futures' = RL!Range(task.episodes)
        /\ timesteps' \in 0 .. Target /\ stageSteps' \in Nat /\ stage' = 1 /\ chosen' = -1
        /\ RL!IsInjective(cache)' /\ Len(cache') <= CacheSize
        /\ RL!Range(cache)' = {}
    BY <2>1a, NewLoopType
  <2>3. trial + 1 \in 1 .. Len(RL!Trials) /\ trial \in 1 .. Len(RL!Trials)
    BY <1>3, <1>5
  <2>4. seen' \subseteq RL!AllBars(RL!Trials[trial + 1].train)
    <3>1. CASE ~task.given
      BY <2>1, <3>1
    <3>2. CASE task.given
      <4>1. RL!Range(RL!Trials[trial].train) \subseteq RL!Range(RL!Trials[trial + 1].train)
        <5>1. \A t \in 1 .. Len(RL!Trials) : t + 1 <= Len(RL!Trials) =>
                RL!Range(RL!Trials[t].train) \subseteq RL!Range(RL!Trials[t + 1].train)
          BY <1>2, <1>3, <3>2, TrialsFacts
        <5>2. trial + 1 <= Len(RL!Trials)
          BY <2>3
        <5>3. QED
          BY <2>3, <5>1, <5>2
      <4>2. seen \subseteq RL!AllBars(RL!Trials[trial].train)
        BY <1>2, <1>3 DEF RL!LearntInv, RL!TrainSet
      <4>3. QED
        BY <2>1, <3>2, <4>1, <4>2, BarsGrow
    <3>3. QED
      BY <3>1, <3>2
  <2>5. RL!TrainSet' = RL!Trials[trial + 1].train
    <3>1. RL!Trials' = RL!Trials
      BY <1>2, SameTrials
    <3>2. QED
      BY <2>1, <3>1 DEF RL!TrainSet
  <2>6. seen' \subseteq RL!AllBars(RL!TrainSet)'
    BY <2>4, <2>5 DEF RL!AllBars, RL!Range, RL!BarsOf
  <2>7. RL!LearntInv'
    <3>1. Len(RL!Trials)' = Len(RL!Trials)
      BY <1>2, SameTrials
    <3>2. work' = "loop"
      BY <1>2, <2>1
    <3>3. RL!Range(task.episodes)' = RL!Range(task.episodes)
      BY <1>2 DEF RL!Range
    <3>4. QED
      BY <2>1, <2>2, <2>3, <2>6, <3>1, <3>2, <3>3 DEF RL!LearntInv
  <2>8. RL!TypeOK'
    <3>1. \A e \in DOMAIN futures' : futures'[e] \in {"none", "queued", "loaded"}
      BY <2>2 DEF RL!CacheInv
    <3>2. stage' \in 1 .. RL!Max({1, Len(RL!Stages)})
      <4>1. task.curriculum \in Curricula \cup {<<>>}
        BY <1>3 DEF RL!TaskInv
      <4>2. 1 \in 1 .. RL!Max({1, Len(task.curriculum)})
        BY <4>1, FirstStage
      <4>3. QED
        BY <2>2, <4>2 DEF RL!Stages
    <3>3. seen' \subseteq RL!AllBars(task.episodes)
      BY <1>3, <2>1 DEF RL!TypeOK
    <3>4. trial' \in Nat
      BY <2>1, <2>3
    <3>5. QED
      BY <1>2, <1>3, <2>1, <2>2, <3>1, <3>2, <3>3, <3>4, SameBounds DEF RL!TypeOK
  <2>9. QED
    BY <1>1, <1>4, <2>2, <2>7, <2>8 DEF RL!TInv
<1>6. CASE ~(trial < Len(RL!Trials))
  <2>1. /\ work' = "done"
        /\ UNCHANGED <<trial, seen, timesteps, stage, stageSteps, chosen, cache, futures,
                       loads, dropped>>
    BY <1>6 DEF RL!Evaluate, RL!loopVars, RL!cacheVars
  <2>2. RL!TypeOK'
    BY <1>2, <1>3, <2>1, SameBounds, SameCache DEF RL!TypeOK
  <2>3. RL!CacheInv'
    BY <1>3, <2>1, SameCache DEF RL!CacheInv
  <2>4. RL!LearntInv'
    BY <2>1 DEF RL!LearntInv, RL!InLoop
  <2>5. QED
    BY <1>1, <1>4, <2>2, <2>3, <2>4 DEF RL!TInv
<1>7. QED
  BY <1>5, <1>6

LEMMA ReturnStep ==
  ASSUME RL!Parameters, RL!TInv, RL!Return
  PROVE  RL!TInv'
<1>1. /\ work' = "idle" /\ task' = RL!NoTask /\ trial' = 0 /\ seen' = {}
      /\ report' = RL!NoReport
  BY DEF RL!Return
<1>2. RL!NewLoop(<<>>)
  BY DEF RL!Return
<1>3. /\ RL!CacheInv' /\ DOMAIN futures' = RL!Range(<<>>)
      /\ timesteps' \in 0 .. Target /\ stageSteps' \in Nat /\ stage' = 1 /\ chosen' = -1
      /\ RL!IsInjective(cache)' /\ Len(cache') <= CacheSize
      /\ RL!Range(cache)' = {}
  BY <1>2, NewLoopType
<1>4. /\ task'.episodes = <<>> /\ task'.folds = 0 /\ task'.curriculum = <<>>
      /\ task'.kind = "none" /\ task'.given = FALSE /\ task'.leakage = FALSE
      /\ task'.stride = 0
  BY <1>1 DEF RL!NoTask
<1>5. RL!TaskInv'
  <2>1. task'.episodes \in Seq(Nat) /\ ~RL!InLoop'
    BY <1>1, <1>4 DEF RL!InLoop
  <2>2. RL!NoTask' = RL!NoTask /\ RL!NoReport' = RL!NoReport
    BY DEF RL!NoTask, RL!NoReport
  <2>3. /\ task'.folds \in Nat /\ task'.curriculum \in Curricula \cup {<<>>}
        /\ {task'.given, task'.leakage} \subseteq BOOLEAN /\ task'.stride \in Nat
    <3>1. task'.folds \in Nat /\ task'.curriculum \in Curricula \cup {<<>>}
      BY <1>4
    <3>2. task'.given \in BOOLEAN /\ task'.leakage \in BOOLEAN
      BY <1>4
    <3>3. task'.stride \in Nat
      BY <1>4
    <3>4. QED
      BY <3>1, <3>2, <3>3
  <2>4. ~task'.given /\ DOMAIN task'.episodes = {}
    BY <1>4
  <2>5. QED
    BY <1>1, <2>1, <2>2, <2>3, <2>4 DEF RL!TaskInv
<1>6. RL!TypeOK'
  <2>1. stage' \in 1 .. RL!Max({1, Len(RL!Stages)})'
    <3>1. 1 \in 1 .. RL!Max({1, Len(<<>>)})
      BY FirstStage
    <3>2. RL!Max({1, Len(RL!Stages)})' = RL!Max({1, Len(<<>>)})
      BY <1>4 DEF RL!Stages
    <3>3. QED
      BY <1>3, <3>1, <3>2
  <2>2. \A e \in DOMAIN futures' : futures'[e] \in {"none", "queued", "loaded"}
    BY <1>3 DEF RL!CacheInv
  <2>3. QED
    BY <1>1, <1>3, <1>4, <2>1, <2>2 DEF RL!TypeOK
<1>7. RL!LearntInv' /\ RL!OverlapIsBounded'
  BY <1>1 DEF RL!LearntInv, RL!InLoop, RL!OverlapIsBounded, RL!NoReport
<1>8. QED
  BY <1>3, <1>5, <1>6, <1>7 DEF RL!TInv

LEMMA TrainerRests ==
  ASSUME RL!TInv, UNCHANGED rlVars
  PROVE  RL!TInv'
<1>1. UNCHANGED <<work, task, trial, seen, timesteps, stage, stageSteps, chosen, cache,
                  futures, loads, dropped, report>>
  BY DEF rlVars
<1>2. RL!TypeOK /\ RL!TaskInv /\ RL!CacheInv /\ RL!LearntInv /\ RL!OverlapIsBounded
  BY DEF RL!TInv
<1>3. RL!TypeOK'
  BY <1>1, <1>2, SameBounds, SameCache DEF RL!TypeOK
<1>4. RL!TaskInv'
  <2>1. RL!NoTask' = RL!NoTask /\ RL!NoReport' = RL!NoReport
    BY DEF RL!NoTask, RL!NoReport
  <2>2. RL!Refused(task.kind, task.episodes, task.folds)'
          = RL!Refused(task.kind, task.episodes, task.folds)
    BY <1>1
  <2>3. QED
    BY <1>1, <1>2, <2>1, <2>2 DEF RL!TaskInv, RL!InLoop
<1>5. RL!CacheInv'
  BY <1>1, <1>2, SameCache DEF RL!CacheInv
<1>6. RL!LearntInv'
  <2>1. RL!Trials' = RL!Trials
    BY <1>1, SameTrials
  <2>2. RL!TrainSet' = RL!TrainSet
    BY <1>1, <2>1 DEF RL!TrainSet
  <2>3. QED
    BY <1>1, <1>2, <2>1, <2>2 DEF RL!LearntInv, RL!InLoop, RL!AllBars, RL!Range, RL!BarsOf
<1>7. RL!OverlapIsBounded'
  BY <1>1, <1>2 DEF RL!OverlapIsBounded
<1>8. QED
  BY <1>3, <1>4, <1>5, <1>6, <1>7 DEF RL!TInv

LEMMA TrainerInit ==
  ASSUME RL!Parameters, RL!Init
  PROVE  RL!TInv
<1>1. /\ work = "idle" /\ task = RL!NoTask /\ trial = 0 /\ seen = {}
      /\ timesteps = 0 /\ stage = 1 /\ stageSteps = 0 /\ chosen = -1
      /\ cache = <<>> /\ futures = <<>> /\ loads = <<>> /\ dropped = <<>>
      /\ report = RL!NoReport
  BY DEF RL!Init
<1>2. /\ task.episodes = <<>> /\ task.folds = 0 /\ task.curriculum = <<>>
      /\ task.kind = "none" /\ task.given = FALSE /\ task.leakage = FALSE
      /\ task.stride = 0
  BY <1>1 DEF RL!NoTask
<1>3. RL!TaskInv
  <2>1. task.episodes \in Seq(Nat) /\ ~RL!InLoop
    BY <1>1, <1>2 DEF RL!InLoop
  <2>2. /\ task.folds \in Nat /\ task.curriculum \in Curricula \cup {<<>>}
        /\ {task.given, task.leakage} \subseteq BOOLEAN /\ task.stride \in Nat
    <3>1. task.folds \in Nat /\ task.curriculum \in Curricula \cup {<<>>}
      BY <1>2
    <3>2. task.given \in BOOLEAN /\ task.leakage \in BOOLEAN
      BY <1>2
    <3>3. task.stride \in Nat
      BY <1>2
    <3>4. QED
      BY <3>1, <3>2, <3>3
  <2>3. ~task.given /\ DOMAIN task.episodes = {}
    BY <1>2
  <2>4. QED
    BY <1>1, <2>1, <2>2, <2>3 DEF RL!TaskInv
<1>4. RL!Range(<<>>) = {} /\ RL!IsInjective(<<>>) /\ DOMAIN <<>> = {}
  BY DEF RL!Range, RL!IsInjective
<1>5. RL!CacheInv
  BY <1>1, <1>4 DEF RL!CacheInv
<1>6. RL!TypeOK
  <2>1. stage \in 1 .. RL!Max({1, Len(RL!Stages)})
    <3>1. 1 \in 1 .. RL!Max({1, Len(<<>>)})
      BY FirstStage
    <3>2. QED
      BY <1>1, <1>2, <3>1 DEF RL!Stages
  <2>2. timesteps \in 0 .. Target /\ Len(cache) <= CacheSize
    BY <1>1 DEF RL!Parameters
  <2>3. RL!Range(cache) = {} /\ RL!IsInjective(cache) /\ DOMAIN futures = {}
    BY <1>1, <1>4
  <2>4. QED
    BY <1>1, <1>2, <2>1, <2>2, <2>3 DEF RL!TypeOK
<1>7. RL!LearntInv /\ RL!OverlapIsBounded
  BY <1>1 DEF RL!LearntInv, RL!InLoop, RL!OverlapIsBounded, RL!NoReport
<1>8. QED
  BY <1>3, <1>5, <1>6, <1>7 DEF RL!TInv

LEMMA TrainerInvariant ==
  ASSUME RL!Parameters, RL!TInv, TrainerStep
  PROVE  RL!TInv'
<1>1. CASE \E kind \in Kinds : RL!Start(kind)
  BY <1>1, StartStep
<1>2. CASE \E e \in DOMAIN futures : RL!Choose(e) \/ RL!LoadAhead(e)
  BY <1>2, ChooseStep, LoadAheadStep
<1>3. CASE RL!Get
  BY <1>3, GetStep
<1>4. CASE RL!Collect
  BY <1>4, CollectStep
<1>5. CASE RL!Evaluate
  BY <1>5, EvaluateStep
<1>6. CASE RL!Return
  BY <1>6, ReturnStep
<1>7. CASE UNCHANGED rlVars
  BY <1>7, TrainerRests
<1>8. QED
  BY <1>1, <1>2, <1>3, <1>4, <1>5, <1>6, <1>7 DEF TrainerStep, RL!Step

-----------------------------------------------------------------------------
(* Whatever the graph does, the trainer makes steps of its own.            *)

LEMMA PlatformStep ==
  ASSUME [PlatformNext]_<<vars, rlVars>>
  PROVE  TrainerStep
<1>1. CASE CallTrainer
  <2>1. Script[position].plugin.name \in DOMAIN KindOf
    BY <1>1 DEF CallTrainer, Calling
  <2>2. KindOf[Script[position].plugin.name] \in Kinds
    <3> DEFINE name == Script[position].plugin.name
    <3>1. name \in {"online_training", "walk_forward_rl_eval", "ablation_eval"}
      BY <2>1 DEF KindOf
    <3> HIDE DEF name
    <3>2. KindOf[name] \in Kinds
      BY <3>1 DEF KindOf, Kinds
    <3>3. QED
      BY <3>2 DEF name
  <2>3. QED
    BY <1>1, <2>2 DEF CallTrainer, TrainerStep
<1>2. CASE Train \/ TrainerReturns \/ Elsewhere
  BY <1>2 DEF Train, TrainerReturns, Elsewhere, TrainerStep
<1>3. CASE UNCHANGED <<vars, rlVars>>
  BY <1>3 DEF TrainerStep
<1>4. QED
  BY <1>1, <1>2, <1>3 DEF PlatformNext

\* The inductive invariant of the trainer holds in every run of the platform.
THEOREM TrainerIsSound == PlatformSpec => []RL!TInv
<1>1. PlatformInit => RL!TInv
  BY PlatformAssumption, TrainerInit DEF PlatformInit
<1>2. RL!TInv /\ [PlatformNext]_<<vars, rlVars>> => RL!TInv'
  BY PlatformAssumption, PlatformStep, TrainerInvariant
<1>3. QED
  BY <1>1, <1>2, PTL DEF PlatformSpec

\* However long the series, whatever the stride, the folds, the curriculum and the
\* rollout length, and whether each fold has its own trainer or they share one: a
\* fold is measured on bars after those its policy was trained on, but for the
\* EpisodeLength - stride bars that neighbouring windows share
\* (build_episode_folds, WalkForwardRLEvaluator.evaluate).
THEOREM FoldOverlapIsBounded == PlatformSpec => []OverlapIsBounded
<1>1. RL!TInv => OverlapIsBounded
  BY DEF RL!TInv, OverlapIsBounded
<1>2. QED
  BY <1>1, TrainerIsSound, PTL

\* For any cache size and any number of prefetches, however the threads of the
\* pool interleave with the loop, an episode is loaded at most once more than it
\* was dropped (EpisodeCache).
THEOREM EpisodesAreLoadedOnce == PlatformSpec => []LoadedOnce
<1>1. RL!TInv => LoadedOnce
  <2>1. ASSUME RL!CacheInv, NEW e \in DOMAIN loads
        PROVE  loads[e] <= 1 + dropped[e]
    <3>1. e \in DOMAIN futures /\ dropped[e] \in Nat
      BY <2>1 DEF RL!CacheInv
    <3>2. loads[e] = dropped[e]
            + IF e \in RL!Range(cache) \/ futures[e] = "loaded" THEN 1 ELSE 0
      BY <2>1, <3>1 DEF RL!CacheInv
    <3>3. QED
      BY <3>1, <3>2
  <2>2. QED
    BY <2>1 DEF RL!TInv, LoadedOnce, RL!LoadedOnce
<1>2. QED
  BY <1>1, TrainerIsSound, PTL

-----------------------------------------------------------------------------
(* To the graphs, training is a call that takes its time.                  *)

LEMMA GraphsGoOn == PlatformSpec => []PipeInv
<1>1. PlatformInit => PipeInv
  BY InitInv DEF PlatformInit
<1>2. PipeInv /\ [PlatformNext]_<<vars, rlVars>> => PipeInv'
  <2>1. ASSUME [PlatformNext]_<<vars, rlVars>> PROVE [Next]_vars
    BY <2>1 DEF PlatformNext, CallTrainer, Train, TrainerReturns, Elsewhere, Next
  <2>2. QED
    BY <2>1, PipeStep
<1>3. QED
  BY <1>1, <1>2, PTL DEF PlatformSpec

\* The variables of the graphs and of the trainer keep their types, for any
\* programs: in particular a move of a graph that runs exists, and a bar that
\* runs has met no error.
THEOREM PlatformTypeCorrect == PlatformSpec => []PlatformTypeOK
<1>1. PipeInv /\ RL!TInv => PlatformTypeOK
  BY DEF PipeInv, RL!TInv, PlatformTypeOK
<1>2. QED
  BY <1>1, GraphsGoOn, TrainerIsSound, PTL

\* A plugin that plugins.disabled names is never handed out, also when plugins
\* train, unless a register function got to its registry before discovery.
THEOREM DisabledStaysOut == PlatformSpec => []DisabledNeverRuns
<1>1. PipeInv => DisabledNeverRuns
  BY DEF PipeInv
<1>2. QED
  BY <1>1, GraphsGoOn, PTL

\* When the metadata of the plugins, their handlers and the graphs go together
\* (WellDeclared), a completed bar has worked on fresh data and has emitted what
\* was declared, in any number of bars, whatever was left out of an earlier one,
\* raised, rejected or disabled.
THEOREM RunsAreFresh ==
  ASSUME \A j \in DOMAIN Scripts : WellDeclared(Scripts[j])
  PROVE  PlatformSpec => []FreshRun
<1>1. PlatformInit => FlowInv
  BY DEF PlatformInit, Init, FlowInv, FreshRun, Completed
<1>2. PipeInv /\ FlowInv /\ [PlatformNext]_<<vars, rlVars>> => FlowInv'
  <2>1. ASSUME [PlatformNext]_<<vars, rlVars>> PROVE [Next]_vars
    BY <2>1 DEF PlatformNext, CallTrainer, Train, TrainerReturns, Elsewhere, Next
  <2>2. QED
    BY <2>1, FlowStep
<1>3. FlowInv => FreshRun
  BY DEF FlowInv
<1>4. QED
  BY <1>1, <1>2, <1>3, GraphsGoOn, PTL DEF PlatformSpec
=============================================================================
