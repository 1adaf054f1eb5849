-------------------------- MODULE Iteration_proofs --------------------------
(***************************************************************************)
(* Facts about loops that the other proofs need: the code's for-loops are  *)
(* functions on 0 .. n whose value at i is the state after i turns.  The   *)
(* induction theorems of the library take an operator as a parameter,      *)
(* which the provers cannot instantiate; here what is proved by induction  *)
(* is a set of numbers and the body of the loop a function.                *)
(***************************************************************************)
EXTENDS Integers, NaturalsInduction, WellFoundedInduction, TLAPS

\* Every non-empty set of natural numbers has a least element.
LEMMA LeastNumber ==
  ASSUME NEW T \in SUBSET Nat, T # {}
  PROVE  \E m \in T : \A k \in T : m <= k
<1>1. PICK m \in T : \A k \in T : ~(<<k, m>> \in OpToRel(<, Nat))
  BY NatLessThanWellFounded, WFMin
<1>2. \A k \in T : ~(k < m)
  BY <1>1 DEF OpToRel
<1>3. QED
  BY <1>2

\* Induction: a set that holds 0, and with every number below n the next one,
\* holds all numbers up to n.
LEMMA UpTo ==
  ASSUME NEW n \in Nat, NEW T, 0 \in T,
         \A k \in 0 .. n : k < n /\ k \in T => k + 1 \in T
  PROVE  \A k \in 0 .. n : k \in T
<1> DEFINE Bad == {k \in 0 .. n : k \notin T}
<1>1. SUFFICES ASSUME Bad # {} PROVE FALSE
  OBVIOUS
<1>2. PICK m \in Bad : \A k \in Bad : m <= k
  <2>1. Bad \in SUBSET Nat
    OBVIOUS
  <2> HIDE DEF Bad
  <2>2. QED
    BY <1>1, <2>1, LeastNumber
<1>3. m \in 0 .. n /\ m # 0
  BY <1>2
<1>4. m - 1 \in 0 .. n /\ m - 1 < n /\ m - 1 \notin Bad
  BY <1>2, <1>3
<1>5. QED
  BY <1>2, <1>3, <1>4

\* f holds the states of the first k turns of a loop that begins with base.
LoopsTo(k, f, S, base, step) ==
  /\ f \in [0 .. k -> S]
  /\ f[0] = base
  /\ \A i \in 1 .. k : f[i] = step[<<i, f[i - 1]>>]

\* A loop can go on for one more turn.
LEMMA OneMoreTurn ==
  ASSUME NEW n \in Nat, NEW S, NEW base \in S,
         NEW step \in [(1 .. n) \X S -> S],
         NEW k \in 0 .. n, k < n, NEW f, LoopsTo(k, f, S, base, step)
  PROVE  \E g : LoopsTo(k + 1, g, S, base, step)
<1> DEFINE next == step[<<k + 1, f[k]>>]
           g == [i \in 0 .. (k + 1) |-> IF i <= k THEN f[i] ELSE next]
<1>1. f \in [0 .. k -> S] /\ f[0] = base
  BY DEF LoopsTo
<1>2. f[k] \in S /\ k + 1 \in 1 .. n
  BY <1>1
<1>3. <<k + 1, f[k]>> \in (1 .. n) \X S
  BY <1>2
<1>4. next \in S
  BY <1>3
<1> HIDE DEF next
<1>5. g \in [0 .. (k + 1) -> S] /\ g[0] = base
  BY <1>1, <1>4
<1>6. ASSUME NEW i \in 1 .. (k + 1) PROVE g[i] = step[<<i, g[i - 1]>>]
  <2>1. CASE i <= k
    <3>1. i \in 1 .. k /\ i - 1 \in 0 .. k /\ i \in 0 .. (k + 1)
          /\ i - 1 \in 0 .. (k + 1) /\ i - 1 <= k
      BY <2>1
    <3>2. g[i] = f[i] /\ g[i - 1] = f[i - 1]
      BY <2>1, <3>1
    <3>3. QED
      BY <3>1, <3>2 DEF LoopsTo
  <2>2. CASE i = k + 1
    <3>1. g[i] = next /\ g[i - 1] = f[k]
      BY <2>2
    <3>2. QED
      BY <2>2, <3>1 DEF next
  <2>3. QED
    BY <2>1, <2>2
<1> HIDE DEF g
<1>7. LoopsTo(k + 1, g, S, base, step)
  BY <1>5, <1>6 DEF LoopsTo
<1>8. QED
  BY <1>7

\* The recursive function that describes n turns of a loop whose body is step
\* exists: the state after 0 turns is base, and after i turns step of it.
LEMMA LoopExists ==
  ASSUME NEW n \in Nat, NEW S, NEW base \in S,
         NEW step \in [(1 .. n) \X S -> S]
  PROVE  \E f : LoopsTo(n, f, S, base, step)
<1> DEFINE T == {k \in 0 .. n : \E f : LoopsTo(k, f, S, base, step)}
<1>1. 0 \in T
  <2> DEFINE f == [i \in 0 .. 0 |-> base]
  <2>1. LoopsTo(0, f, S, base, step)
    BY DEF LoopsTo
  <2> HIDE DEF f
  <2>2. QED
    BY <2>1
<1>2. ASSUME NEW k \in 0 .. n, k < n, k \in T PROVE k + 1 \in T
  <2>1. PICK f : LoopsTo(k, f, S, base, step)
    BY <1>2
  <2>2. \E g : LoopsTo(k + 1, g, S, base, step)
    BY <1>2, <2>1, OneMoreTurn
  <2>3. k + 1 \in 0 .. n
    BY <1>2
  <2>4. QED
    BY <2>2, <2>3
<1> HIDE DEF T
<1>3. n \in T
  BY <1>1, <1>2, UpTo
<1>4. QED
  BY <1>3 DEF T
=============================================================================
