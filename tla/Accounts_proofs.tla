-------------------------- MODULE Accounts_proofs ---------------------------
(***************************************************************************)
(* Lemmas about the bookkeeping of Accounts, and the arithmetic of exact   *)
(* fractions they rest on: Gcd, reduced fractions, sums, products,         *)
(* quotients and order; then what every fill, portfolio, execution model   *)
(* and step reward does to the worth of an account. The theorems about the *)
(* engines are in Trading_proofs.                                          *)
(***************************************************************************)
EXTENDS Accounts, Iteration_proofs

(* Division with remainder.                                                *)

\* Quotient and remainder of Python's // and %.
LEMMA DivMod ==
  ASSUME NEW a \in Int, NEW b \in Positive
  PROVE  /\ a \div b \in Int /\ a % b \in 0 .. b - 1
         /\ a = b * (a \div b) + (a % b)
  BY DEF Positive

LEMMA MoreTimes ==
  ASSUME NEW b \in Positive, NEW p \in Int, NEW q \in Int, p < q
  PROVE  b * p + b <= b * q
<1>1. b * (q - (p + 1)) >= 0
  BY DEF Positive
<1>2. QED
  BY <1>1 DEF Positive

\* They are the only such pair.
LEMMA DivModUnique ==
  ASSUME NEW b \in Positive, NEW q \in Int, NEW r \in 0 .. b - 1
  PROVE  (b * q + r) \div b = q /\ (b * q + r) % b = r
<1> DEFINE a == b * q + r
           p == a \div b
           s == a % b
<1>1. a \in Int
  BY DEF Positive
<1>2. p \in Int /\ s \in 0 .. b - 1 /\ a = b * p + s
  BY <1>1, DivMod
<1>3. ~(p < q)
  <2>1. SUFFICES ASSUME p < q PROVE FALSE
    OBVIOUS
  <2>2. b * p + b <= b * q
    BY <1>2, <2>1, MoreTimes
  <2> HIDE DEF p, s
  <2>3. b * p \in Int /\ b * q \in Int /\ b \in Int
    BY <1>2 DEF Positive
  <2>4. QED
    BY <1>2, <2>2, <2>3
<1>4. ~(q < p)
  <2>1. SUFFICES ASSUME q < p PROVE FALSE
    OBVIOUS
  <2>2. b * q + b <= b * p
    BY <1>2, <2>1, MoreTimes
  <2> HIDE DEF p, s
  <2>3. b * p \in Int /\ b * q \in Int /\ b \in Int
    BY <1>2 DEF Positive
  <2>4. QED
    BY <1>2, <2>2, <2>3
<1>5. p = q
  BY <1>2, <1>3, <1>4
<1> HIDE DEF p, s
<1>6. s = r
  BY <1>2, <1>5 DEF Positive
<1>7. QED
  BY <1>5, <1>6 DEF p, s

-----------------------------------------------------------------------------
(* The greatest common divisor.                                            *)

\* What Gcd computes: a recursive function is one that satisfies its equation,
\* and there is one that does.
Divisors(a, b) == {d \in Positive : \E p, q \in Nat : a = d * p /\ b = d * q}

\* A step of Euclid's algorithm keeps the common divisors.
LEMMA DivisorsGoDown ==
  ASSUME NEW a \in Nat, NEW b \in Positive
  PROVE  Divisors(a, b) = Divisors(b, a % b)
<1> DEFINE k == a \div b
           r == a % b
<1>1. k \in Nat /\ r \in Nat /\ a = b * k + r
  <2>1. k \in Int /\ r \in Nat /\ a = b * k + r /\ r < b
    BY DivMod DEF Positive
  <2> HIDE DEF k, r
  <2>2. ~(k < 0)
    <3>1. SUFFICES ASSUME k < 0 PROVE FALSE
      OBVIOUS
    <3>2. b * k + b <= b * 0
      BY <2>1, <3>1, MoreTimes
    <3>3. b * k \in Int /\ b \in Int
      BY <2>1 DEF Positive
    <3>4. QED
      BY <2>1, <3>2, <3>3
  <2>3. QED
    BY <2>1, <2>2
<1> HIDE DEF k, r
<1>2. ASSUME NEW d \in Divisors(a, b) PROVE d \in Divisors(b, r)
  <2>1. PICK p, q \in Nat : a = d * p /\ b = d * q
    BY DEF Divisors
  <2>2. d \in Positive /\ p - q * k \in Int
    BY <1>1 DEF Divisors
  <2>3. r = d * (p - q * k)
    BY <1>1, <2>1, <2>2 DEF Positive
  <2>4. p - q * k \in Nat
    BY <1>1, <2>2, <2>3 DEF Positive
  <2>5. QED
    BY <2>1, <2>2, <2>3, <2>4 DEF Divisors
<1>3. ASSUME NEW d \in Divisors(b, r) PROVE d \in Divisors(a, b)
  <2>1. PICK p, q \in Nat : b = d * p /\ r = d * q
    BY DEF Divisors
  <2>2. d \in Positive /\ p * k + q \in Nat
    BY <1>1 DEF Divisors
  <2>3. a = d * (p * k + q)
    BY <1>1, <2>1, <2>2 DEF Positive
  <2>4. QED
    BY <2>1, <2>2, <2>3 DEF Divisors
<1>4. QED
  BY <1>2, <1>3 DEF r

IsGcd(f) == f = [c \in Nat \X Nat |-> IF c[2] = 0 THEN c[1] ELSE f[<<c[2], c[1] % c[2]>>]]

\* The recursive function Gcd is what its defining equation says: the recursion
\* is well-founded, because a remainder is below what it is divided by.
LEMMA GcdDef ==
  ASSUME NEW a \in Nat, NEW b \in Nat
  PROVE  Gcd[<<a, b>>] = IF b = 0 THEN a ELSE Gcd[<<b, a % b>>]
<1> DEFINE Top(S) == CHOOSE g \in S : \A d \in S : d <= g
           h == [c \in Nat \X Nat |->
                   IF c[2] = 0 THEN c[1] ELSE Top(Divisors(c[1], c[2]))]
<1>1. ASSUME NEW x \in Nat, NEW y \in Positive
      PROVE  Top(Divisors(x, y)) = h[<<y, x % y>>]
  <2>1. x % y \in Nat /\ y \in Nat
    BY DivMod DEF Positive
  <2>2. Divisors(x, y) = Divisors(y, x % y)
    BY DivisorsGoDown
  <2>3. CASE x % y # 0
    BY <2>1, <2>2, <2>3
  <2>4. CASE x % y = 0
    <3>1. y \in Divisors(y, 0)
      <4>1. y = y * 1 /\ 0 = y * 0
        BY DEF Positive
      <4>2. QED
        BY <4>1 DEF Divisors
    <3>2. \A d \in Divisors(y, 0) : d <= y
      <4>1. SUFFICES ASSUME NEW d \in Divisors(y, 0) PROVE d <= y
        OBVIOUS
      <4>2. PICK p \in Nat : y = d * p
        BY DEF Divisors
      <4>3. d \in Positive /\ p # 0
        BY <4>2 DEF Divisors, Positive
      <4>4. 0 < p
        BY <4>3
      <4>5. d * 0 + d <= d * p
        BY <4>3, <4>4, MoreTimes
      <4>6. QED
        BY <4>2, <4>3, <4>5 DEF Positive
    <3>3. \A g \in Divisors(y, 0) : (\A d \in Divisors(y, 0) : d <= g) => g = y
      <4>1. \A g \in Divisors(y, 0) : g \in Nat
        BY DEF Divisors, Positive
      <4>2. QED
        BY <2>1, <3>1, <3>2, <4>1
    <3>4. Top(Divisors(y, 0)) = y
      BY <3>1, <3>2, <3>3
    <3>5. h[<<y, 0>>] = y
      BY <2>1
    <3>6. QED
      BY <2>1, <2>2, <2>4, <3>4, <3>5
  <2>5. QED
    BY <2>3, <2>4
<1> HIDE DEF Top
<1>2. h = [c \in Nat \X Nat |-> IF c[2] = 0 THEN c[1] ELSE h[<<c[2], c[1] % c[2]>>]]
  <2>1. ASSUME NEW c \in Nat \X Nat
        PROVE  h[c] = IF c[2] = 0 THEN c[1] ELSE h[<<c[2], c[1] % c[2]>>]
    <3>1. CASE c[2] = 0
      BY <3>1
    <3>2. CASE c[2] # 0
      <4>1. c[1] \in Nat /\ c[2] \in Positive
        BY <3>2 DEF Positive
      <4>2. h[c] = Top(Divisors(c[1], c[2]))
        BY <3>2
      <4> HIDE DEF h
      <4>3. QED
        BY <1>1, <3>2, <4>1, <4>2
    <3>3. QED
      BY <3>1, <3>2
  <2>2. h = [c \in Nat \X Nat |-> h[c]]
    OBVIOUS
  <2> HIDE DEF h
  <2>3. QED
    BY <2>1, <2>2
<1> HIDE DEF h
<1>3. \E f : IsGcd(f)
  BY <1>2 DEF IsGcd
<1>4. IsGcd(CHOOSE f : IsGcd(f))
  BY <1>3
<1>5. IsGcd(Gcd)
  BY <1>4 DEF IsGcd, Gcd
<1>6. QED
  BY <1>5 DEF IsGcd

LEMMA Remainders ==
  ASSUME NEW a \in Nat, NEW b \in Positive
  PROVE  /\ a \div b \in Nat /\ a % b \in Nat /\ a % b < b
         /\ a = b * (a \div b) + (a % b)
<1>1. a \div b \in Int /\ a % b \in Nat /\ a % b < b /\ a = b * (a \div b) + (a % b)
  BY DivMod DEF Positive
<1> DEFINE k == a \div b
<1>2. ~(k < 0)
  <2>1. SUFFICES ASSUME k < 0 PROVE FALSE
    OBVIOUS
  <2>2. b * k + b <= b * 0
    BY <1>1, <2>1, MoreTimes
  <2> HIDE DEF k
  <2>3. b * k \in Int /\ b \in Int
    BY <1>1 DEF Positive, k
  <2>4. QED
    BY <1>1, <2>2, <2>3 DEF k
<1>3. QED
  BY <1>1, <1>2

DividesBoth(g, a, b) == \E p, q \in Nat : a = g * p /\ b = g * q

\* The greatest common divisor divides both numbers.
LEMMA GcdDivides ==
  ASSUME NEW a \in Nat, NEW b \in Nat
  PROVE  /\ Gcd[<<a, b>>] \in Nat /\ DividesBoth(Gcd[<<a, b>>], a, b)
         /\ b # 0 => Gcd[<<a, b>>] # 0
<1> DEFINE Good(x, y) == /\ Gcd[<<x, y>>] \in Nat /\ DividesBoth(Gcd[<<x, y>>], x, y)
                         /\ y # 0 => Gcd[<<x, y>>] # 0
           Bad == {y \in Nat : \E x \in Nat : ~Good(x, y)}
<1>1. SUFFICES ASSUME Bad # {} PROVE FALSE
  OBVIOUS
<1>2. PICK m \in Bad : \A k \in Bad : m <= k
  <2>1. Bad \in SUBSET Nat
    OBVIOUS
  <2> HIDE DEF Bad
  <2>2. QED
    BY <1>1, <2>1, LeastNumber
<1>3. PICK x \in Nat : ~Good(x, m)
  OBVIOUS
<1>4. m \in Nat
  OBVIOUS
<1>5. CASE m = 0
  <2>1. Gcd[<<x, m>>] = x
    BY <1>4, <1>5, GcdDef
  <2>2. x = x * 1 /\ m = x * 0
    BY <1>5
  <2>3. DividesBoth(x, x, m)
    BY <2>2 DEF DividesBoth
  <2>4. QED
    BY <1>3, <1>5, <2>1, <2>3
<1>6. CASE m # 0
  <2>1. m \in Positive
    BY <1>4, <1>6 DEF Positive
  <2> DEFINE k == x \div m
             r == x % m
  <2>2. k \in Nat /\ r \in Nat /\ r < m /\ x = m * k + r
    BY <2>1, Remainders
  <2>3. Gcd[<<x, m>>] = Gcd[<<m, r>>]
    BY <1>4, <1>6, GcdDef
  <2> HIDE DEF k, r
  <2>4. r \notin Bad
    BY <1>2, <1>4, <2>2
  <2>5. Good(m, r)
    BY <1>4, <2>2, <2>4
  <2> DEFINE g == Gcd[<<m, r>>]
  <2>6. PICK p, q \in Nat : m = g * p /\ r = g * q
    BY <2>5 DEF DividesBoth
  <2>7. g \in Nat
    BY <2>5
  <2> HIDE DEF g, Good, Bad
  <2>8. x = g * (p * k + q) /\ p * k + q \in Nat
    BY <2>2, <2>6, <2>7
  <2>9. DividesBoth(g, x, m)
    BY <2>6, <2>8 DEF DividesBoth
  <2>10. g # 0
    BY <1>6, <2>6
  <2>11. QED
    BY <1>3, <2>3, <2>7, <2>9, <2>10 DEF Good, g
<1>7. QED
  BY <1>5, <1>6

\* It grows with a factor both numbers have.
LEMMA GcdScales ==
  ASSUME NEW k \in Positive, NEW a \in Nat, NEW b \in Nat
  PROVE  Gcd[<<k * a, k * b>>] = k * Gcd[<<a, b>>]
<1> DEFINE Good(x, y) == Gcd[<<k * x, k * y>>] = k * Gcd[<<x, y>>]
           Bad == {y \in Nat : \E x \in Nat : ~Good(x, y)}
<1>1. SUFFICES ASSUME Bad # {} PROVE FALSE
  OBVIOUS
<1>2. PICK m \in Bad : \A n \in Bad : m <= n
  <2>1. Bad \in SUBSET Nat
    OBVIOUS
  <2> HIDE DEF Bad
  <2>2. QED
    BY <1>1, <2>1, LeastNumber
<1>3. PICK x \in Nat : ~Good(x, m)
  OBVIOUS
<1>4. m \in Nat /\ k * m \in Nat /\ k * x \in Nat /\ (k * m = 0 <=> m = 0)
  BY DEF Positive
<1>5. CASE m = 0
  BY <1>3, <1>4, <1>5, GcdDef
<1>6. CASE m # 0
  <2>1. m \in Positive /\ k * m \in Positive
    BY <1>4, <1>6 DEF Positive
  <2> DEFINE q == x \div m
             r == x % m
  <2>2. q \in Nat /\ r \in Nat /\ r < m /\ x = m * q + r
    BY <2>1, Remainders
  <2>3. Gcd[<<x, m>>] = Gcd[<<m, r>>]
    BY <1>4, <1>6, GcdDef
  <2>4. Gcd[<<k * x, k * m>>] = Gcd[<<k * m, (k * x) % (k * m)>>]
    BY <1>4, <1>6, GcdDef
  <2> HIDE DEF q, r
  <2>5. k * x = (k * m) * q + k * r
    BY <1>4, <2>2 DEF Positive
  <2>6. k * r \in 0 .. (k * m) - 1
    <3>1. k * r + k <= k * m
      BY <1>4, <2>2, MoreTimes
    <3>2. k * r \in Nat
      BY <2>2 DEF Positive
    <3>3. QED
      BY <1>4, <3>1, <3>2 DEF Positive
  <2>7. (k * x) % (k * m) = k * r
    <3> DEFINE n == k * m
               t == k * r
    <3>1. n \in Positive /\ t \in 0 .. n - 1 /\ q \in Int
      BY <2>1, <2>2, <2>6
    <3> HIDE DEF n, t
    <3>2. (n * q + t) % n = t
      BY <3>1, DivModUnique
    <3>3. QED
      BY <2>5, <3>2 DEF n, t
  <2>8. r \notin Bad
    <3> HIDE DEF Bad
    <3>1. QED
      BY <1>2, <1>4, <2>2
  <2>9. Good(m, r)
    BY <1>4, <2>2, <2>8
  <2>10. QED
    BY <1>3, <2>3, <2>4, <2>7, <2>9
<1>7. QED
  BY <1>5, <1>6

-----------------------------------------------------------------------------
(* Reduced fractions.                                                      *)

Size(n) == IF n < 0 THEN -n ELSE n

\* Cancelling a factor of numerator and denominator removes it.
LEMMA Cancels ==
  ASSUME NEW g \in Positive, NEW p \in Int, NEW q \in Positive
  PROVE  /\ g * p \in Int /\ g * q \in Positive
         /\ Cancelled[<< <<g * p, g * q>>, g>>] = <<p, q>>
<1>1. g * p \in Int /\ g * q \in Positive
  BY DEF Positive
<1>2. (g * p) \div g = p
  <2>1. 0 \in 0 .. g - 1
    BY DEF Positive
  <2>2. (g * p + 0) \div g = p
    BY <2>1, DivModUnique
  <2> DEFINE n == g * p
  <2>3. n \in Int /\ (n + 0) \div g = p
    BY <1>1, <2>2
  <2> HIDE DEF n
  <2>4. n \div g = p
    BY <2>3
  <2>5. QED
    BY <2>4 DEF n
<1>3. (g * q) \div g = q
  <2>1. 0 \in 0 .. g - 1 /\ q \in Int
    BY DEF Positive
  <2>2. (g * q + 0) \div g = q
    BY <2>1, DivModUnique
  <2> DEFINE n == g * q
  <2>3. n \in Int /\ (n + 0) \div g = q
    BY <1>1, <2>2 DEF Positive
  <2> HIDE DEF n
  <2>4. n \div g = q
    BY <2>3
  <2>5. QED
    BY <2>4 DEF n
<1> DEFINE n == g * p
           d == g * q
<1>4. << <<n, d>>, g>> \in Pairs \X Positive
  BY <1>1 DEF Pairs
<1>5. n \div g = p /\ d \div g = q
  BY <1>2, <1>3
<1> HIDE DEF n, d
<1>6. Cancelled[<< <<n, d>>, g>>] = <<n \div g, d \div g>>
  BY <1>4 DEF Cancelled
<1>7. QED
  BY <1>1, <1>5, <1>6 DEF n, d

\* What Frac does: it takes the greatest common divisor out.
LEMMA FracIs ==
  ASSUME NEW n \in Int, NEW d \in Positive
  PROVE  \E p \in Int, q \in Positive :
           /\ n = Gcd[<<Size(n), d>>] * p /\ d = Gcd[<<Size(n), d>>] * q
           /\ Gcd[<<Size(n), d>>] \in Positive
           /\ Frac(n, d) = <<p, q>>
<1> DEFINE a == Size(n)
           g == Gcd[<<a, d>>]
<1>1. a \in Nat /\ d \in Nat /\ d # 0
  BY DEF Size, Positive
<1>2. g \in Nat /\ DividesBoth(g, a, d) /\ g # 0
  BY <1>1, GcdDivides
<1>3. PICK s, q \in Nat : a = g * s /\ d = g * q
  BY <1>2 DEF DividesBoth
<1> DEFINE p == IF n < 0 THEN -s ELSE s
<1>4. p \in Int /\ q \in Positive /\ n = g * p /\ g \in Positive
  <2>1. g \in Positive /\ p \in Int
    BY <1>2 DEF Positive
  <2>2. q # 0
    BY <1>1, <1>2, <1>3
  <2>3. n = IF n < 0 THEN -a ELSE a
    BY DEF Size
  <2> HIDE DEF g, a
  <2>4. n = g * p
    BY <1>2, <1>3, <2>3
  <2>5. QED
    BY <2>1, <2>2, <2>4 DEF Positive
<1>5. Cancelled[<< <<n, d>>, g>>] = <<p, q>>
  <2> HIDE DEF g, p
  <2>1. Cancelled[<< <<g * p, g * q>>, g>>] = <<p, q>>
    BY <1>4, Cancels
  <2>2. QED
    BY <1>3, <1>4, <2>1
<1>6. Frac(n, d) = Cancelled[<< <<n, d>>, g>>]
  BY DEF Frac, Reduced, Pairs, Size
<1>7. QED
  BY <1>3, <1>4, <1>5, <1>6

\* A reduced fraction is a pair of the same value.
LEMMA FracValue ==
  ASSUME NEW n \in Int, NEW d \in Positive
  PROVE  /\ Frac(n, d) \in Pairs /\ Frac(n, d)[1] \in Int /\ Frac(n, d)[2] \in Positive
         /\ Frac(n, d)[1] * d = n * Frac(n, d)[2]
<1> DEFINE g == Gcd[<<Size(n), d>>]
<1>1. PICK p \in Int, q \in Positive :
        n = g * p /\ d = g * q /\ g \in Positive /\ Frac(n, d) = <<p, q>>
  BY FracIs
<1> HIDE DEF g
<1>2. p * (g * q) = (g * p) * q
  BY <1>1 DEF Positive
<1>3. QED
  BY <1>1, <1>2 DEF Pairs

\* Reducing does not change the ratio.
LEMMA FracPair ==
  ASSUME NEW n \in Int, NEW d \in Positive
  PROVE  \E p \in Int, q \in Positive : Frac(n, d) = <<p, q>> /\ p * d = n * q
  BY FracValue DEF Pairs

\* Numerator and denominator may share any factor.
LEMMA FracScales ==
  ASSUME NEW k \in Positive, NEW n \in Int, NEW d \in Positive
  PROVE  /\ k * n \in Int /\ k * d \in Positive
         /\ Frac(k * n, k * d) = Frac(n, d)
<1> DEFINE g == Gcd[<<Size(n), d>>]
<1>1. PICK p \in Int, q \in Positive :
        n = g * p /\ d = g * q /\ g \in Positive /\ Frac(n, d) = <<p, q>>
  BY FracIs
<1>2. k * n \in Int /\ k * d \in Positive
  BY DEF Positive
<1>3. Size(k * n) = k * Size(n) /\ Size(n) \in Nat /\ d \in Nat
  BY DEF Size, Positive
<1>4. Gcd[<<Size(k * n), k * d>>] = k * g
  <2> DEFINE a == Size(n)
  <2>1. a \in Nat
    BY <1>3
  <2> HIDE DEF a
  <2>2. Gcd[<<k * a, k * d>>] = k * Gcd[<<a, d>>]
    BY <1>3, <2>1, GcdScales
  <2>3. QED
    BY <1>3, <2>2 DEF a
<1>5. Frac(k * n, k * d) = Cancelled[<< <<k * n, k * d>>, k * g>>]
  <2> DEFINE m == k * n
             e == k * d
  <2>1. m \in Int /\ e \in Positive /\ Gcd[<<Size(m), e>>] = k * g
    BY <1>2, <1>4
  <2> HIDE DEF m, e, g
  <2>2. Frac(m, e) = Cancelled[<< <<m, e>>, k * g>>]
    BY <2>1 DEF Frac, Reduced, Pairs, Size
  <2>3. QED
    BY <2>2 DEF m, e
<1> HIDE DEF g
<1>6. k * g \in Positive /\ k * n = (k * g) * p /\ k * d = (k * g) * q
  BY <1>1 DEF Positive
<1>7. Cancelled[<< <<k * n, k * d>>, k * g>>] = <<p, q>>
  <2> DEFINE h == k * g
  <2>1. h \in Positive /\ k * n = h * p /\ k * d = h * q
    BY <1>6
  <2> HIDE DEF h
  <2>2. Cancelled[<< <<h * p, h * q>>, h>>] = <<p, q>>
    BY <2>1, Cancels
  <2>3. QED
    BY <2>1, <2>2 DEF h
<1>8. QED
  BY <1>1, <1>2, <1>5, <1>7

\* Pairs of the same value reduce to the same fraction.
LEMMA SameFrac ==
  ASSUME NEW n \in Int, NEW d \in Positive, NEW m \in Int, NEW e \in Positive,
         n * e = m * d
  PROVE  Frac(n, d) = Frac(m, e)
<1>1. Frac(e * n, e * d) = Frac(n, d) /\ Frac(d * m, d * e) = Frac(m, e)
  BY FracScales
<1>2. e * n = d * m /\ e * d = d * e
  BY DEF Positive
<1>3. QED
  BY <1>1, <1>2

-----------------------------------------------------------------------------
(* What the operations compute, whatever pairs stand for their operands.   *)

\* The denominators over their greatest common divisor.
LEMMA Quotients ==
  ASSUME NEW d \in Positive, NEW e \in Positive
  PROVE  \E g, p, q \in Positive :
           /\ g = Gcd[<<d, e>>] /\ d = g * p /\ e = g * q
           /\ d \div g = p /\ e \div g = q
<1> DEFINE g == Gcd[<<d, e>>]
<1>1. d \in Nat /\ e \in Nat /\ d # 0 /\ e # 0
  BY DEF Positive
<1>2. g \in Nat /\ g # 0 /\ DividesBoth(g, d, e)
  BY <1>1, GcdDivides
<1>3. PICK p, q \in Nat : d = g * p /\ e = g * q
  BY <1>2 DEF DividesBoth
<1> HIDE DEF g
<1>4. g \in Positive /\ p \in Positive /\ q \in Positive
  BY <1>1, <1>2, <1>3 DEF Positive
<1>5. ASSUME NEW k \in Positive PROVE (g * k) \div g = k
  <2>1. 0 \in 0 .. g - 1 /\ k \in Int
    BY <1>4 DEF Positive
  <2>2. (g * k + 0) \div g = k
    BY <1>4, <2>1, DivModUnique
  <2> DEFINE n == g * k
  <2>3. n \in Int /\ (n + 0) \div g = k
    BY <1>4, <2>2 DEF Positive
  <2> HIDE DEF n
  <2>4. n \div g = k
    BY <2>3
  <2>5. QED
    BY <2>4 DEF n
<1>6. d \div g = p /\ e \div g = q
  BY <1>3, <1>4, <1>5
<1>7. QED
  BY <1>3, <1>4, <1>6 DEF g

LEMMA PlusIs ==
  ASSUME NEW n \in Int, NEW d \in Positive, NEW m \in Int, NEW e \in Positive
  PROVE  /\ n * e + m * d \in Int /\ d * e \in Positive
         /\ <<n, d>> \oplus <<m, e>> = Frac(n * e + m * d, d * e)
<1>1. PICK g, p, q \in Positive :
        /\ g = Gcd[<<d, e>>] /\ d = g * p /\ e = g * q
        /\ d \div g = p /\ e \div g = q
  BY Quotients
<1>2. << <<n, d>>, <<m, e>>, g>> \in Pairs \X Pairs \X Positive
  BY <1>1 DEF Pairs
<1>3. <<n, d>> \oplus <<m, e>> = SumOver[<< <<n, d>>, <<m, e>>, g>>]
  BY <1>1 DEF Plus, Pairs, \oplus
<1>4. SumOver[<< <<n, d>>, <<m, e>>, g>>]
        = Frac(n * (e \div g) + m * (d \div g), d * (e \div g))
  BY <1>2 DEF SumOver
<1>5. <<n, d>> \oplus <<m, e>> = Frac(n * q + m * p, d * q)
  BY <1>1, <1>3, <1>4
<1>6. /\ n * q + m * p \in Int /\ d * q \in Positive
      /\ n * e + m * d \in Int /\ d * e \in Positive
  BY <1>1 DEF Positive
<1>7. (n * q + m * p) * (d * e) = (n * e + m * d) * (d * q)
  <2>1. (n * q + m * p) * (d * (g * q)) = (n * (g * q) + m * (g * p)) * (d * q)
    BY <1>1 DEF Positive
  <2>2. QED
    BY <1>1, <2>1
<1>8. QED
  BY <1>5, <1>6, <1>7, SameFrac

LEMMA LessIs ==
  ASSUME NEW n \in Int, NEW d \in Positive, NEW m \in Int, NEW e \in Positive
  PROVE  <<n, d>> \prec <<m, e>> <=> n * e < m * d
<1>1. PICK g, p, q \in Positive :
        /\ g = Gcd[<<d, e>>] /\ d = g * p /\ e = g * q
        /\ d \div g = p /\ e \div g = q
  BY Quotients
<1>2. << <<n, d>>, <<m, e>>, g>> \in Pairs \X Pairs \X Positive
  BY <1>1 DEF Pairs
<1>3. <<n, d>> \prec <<m, e>> <=> LessOver[<< <<n, d>>, <<m, e>>, g>>]
  BY <1>1 DEF Less, Pairs, \prec
<1>4. LessOver[<< <<n, d>>, <<m, e>>, g>>] <=> n * (e \div g) < m * (d \div g)
  BY <1>2 DEF LessOver
<1>5. <<n, d>> \prec <<m, e>> <=> n * q < m * p
  BY <1>1, <1>3, <1>4
<1>6. n * q < m * p <=> g * (n * q) < g * (m * p)
  <2> DEFINE x == n * q
             y == m * p
  <2>1. x \in Int /\ y \in Int
    BY <1>1 DEF Positive
  <2> HIDE DEF x, y
  <2>2. x < y <=> g * x < g * y
    BY <1>1, <2>1 DEF Positive
  <2>3. QED
    BY <2>2 DEF x, y
<1>7. g * (n * q) = n * e /\ g * (m * p) = m * d
  <2>1. g * (n * q) = n * (g * q) /\ g * (m * p) = m * (g * p)
    BY <1>1 DEF Positive
  <2>2. QED
    BY <1>1, <2>1
<1>8. QED
  BY <1>5, <1>6, <1>7

LEMMA TimesIs ==
  ASSUME NEW n \in Int, NEW d \in Positive, NEW m \in Int, NEW e \in Positive
  PROVE  /\ n * m \in Int /\ d * e \in Positive
         /\ <<n, d>> \otimes <<m, e>> = Frac(n * m, d * e)
<1> DEFINE p == Frac(n, e)
           q == Frac(m, d)
<1>1. /\ p \in Pairs /\ p[1] \in Int /\ p[2] \in Positive /\ p[1] * e = n * p[2]
      /\ q \in Pairs /\ q[1] \in Int /\ q[2] \in Positive /\ q[1] * d = m * q[2]
  BY FracValue
<1>2. <<n, d>> \otimes <<m, e>> = Product[<<p, q>>]
  BY DEF Times, Pairs, \otimes
<1> HIDE DEF p, q
<1>3. <<n, d>> \otimes <<m, e>> = Frac(p[1] * q[1], p[2] * q[2])
  BY <1>1, <1>2 DEF Product
<1>4. /\ p[1] * q[1] \in Int /\ p[2] * q[2] \in Positive
      /\ n * m \in Int /\ d * e \in Positive
  BY <1>1 DEF Positive
<1>5. ASSUME NEW x \in Int, NEW y \in Positive, NEW z \in Int, NEW w \in Positive,
             x * e = n * y, z * d = m * w
      PROVE  (x * z) * (d * e) = (n * m) * (y * w)
  <2>1. (x * z) * (d * e) = (x * e) * (z * d)
    BY <1>5 DEF Positive
  <2>2. (n * m) * (y * w) = (n * y) * (m * w)
    BY <1>5 DEF Positive
  <2>3. QED
    BY <1>5, <2>1, <2>2
<1>6. (p[1] * q[1]) * (d * e) = (n * m) * (p[2] * q[2])
  BY <1>1, <1>5
<1>7. QED
  BY <1>3, <1>4, <1>6, SameFrac

-----------------------------------------------------------------------------
(* The operations on fractions, each given by any pair of its value.       *)

\* Reducing gives a fraction ...
LEMMA FracIsFraction ==
  ASSUME NEW n \in Int, NEW d \in Positive
  PROVE  Frac(n, d) \in Fraction
<1> DEFINE a == Frac(n, d)
<1>1. a \in Pairs /\ a[1] \in Int /\ a[2] \in Positive /\ a[1] * d = n * a[2]
  BY FracValue
<1>2. Frac(a[1], a[2]) = a
  BY <1>1, SameFrac
<1>3. a = <<a[1], a[2]>>
  BY <1>1 DEF Pairs
<1> HIDE DEF a
<1>4. Reduced[a] = a
  BY <1>2, <1>3 DEF Frac
<1>5. QED
  BY <1>1, <1>4 DEF Fraction, a

\* ... and every fraction is reduced already.
LEMMA FractionIsFrac ==
  ASSUME NEW a \in Fraction
  PROVE  a[1] \in Int /\ a[2] \in Positive /\ a = <<a[1], a[2]>> /\ a = Frac(a[1], a[2])
<1>1. a \in Pairs /\ Reduced[a] = a
  BY DEF Fraction
<1>2. a[1] \in Int /\ a[2] \in Positive /\ a = <<a[1], a[2]>>
  BY <1>1 DEF Pairs
<1>3. QED
  BY <1>1, <1>2 DEF Frac

\* Reducing first or last makes no difference to a sum ...
LEMMA FracPlus ==
  ASSUME NEW n \in Int, NEW d \in Positive, NEW m \in Int, NEW e \in Positive
  PROVE  /\ n * e + m * d \in Int /\ d * e \in Positive
         /\ Frac(n, d) \oplus Frac(m, e) = Frac(n * e + m * d, d * e)
<1>1. PICK p \in Int, q \in Positive : Frac(n, d) = <<p, q>> /\ p * d = n * q
  BY FracPair
<1>2. PICK r \in Int, s \in Positive : Frac(m, e) = <<r, s>> /\ r * e = m * s
  BY FracPair
<1>3. /\ p * s + r * q \in Int /\ q * s \in Positive
      /\ Frac(n, d) \oplus Frac(m, e) = Frac(p * s + r * q, q * s)
  <2>1. /\ p * s + r * q \in Int /\ q * s \in Positive
        /\ <<p, q>> \oplus <<r, s>> = Frac(p * s + r * q, q * s)
    BY PlusIs
  <2>2. QED
    BY <1>1, <1>2, <2>1
<1>4. n * e + m * d \in Int /\ d * e \in Positive
  BY DEF Positive
<1>5. (p * s + r * q) * (d * e) = (n * e + m * d) * (q * s)
  <2>1. (p * s + r * q) * (d * e) = (p * d) * (s * e) + (r * e) * (q * d)
    BY <1>1, <1>2 DEF Positive
  <2>2. (n * e + m * d) * (q * s) = (n * q) * (s * e) + (m * s) * (q * d)
    BY <1>1, <1>2 DEF Positive
  <2>3. QED
    BY <1>1, <1>2, <2>1, <2>2
<1>6. QED
  BY <1>3, <1>4, <1>5, SameFrac

\* ... to a product ...
LEMMA FracTimes ==
  ASSUME NEW n \in Int, NEW d \in Positive, NEW m \in Int, NEW e \in Positive
  PROVE  /\ n * m \in Int /\ d * e \in Positive
         /\ Frac(n, d) \otimes Frac(m, e) = Frac(n * m, d * e)
<1>1. PICK p \in Int, q \in Positive : Frac(n, d) = <<p, q>> /\ p * d = n * q
  BY FracPair
<1>2. PICK r \in Int, s \in Positive : Frac(m, e) = <<r, s>> /\ r * e = m * s
  BY FracPair
<1>3. /\ p * r \in Int /\ q * s \in Positive
      /\ Frac(n, d) \otimes Frac(m, e) = Frac(p * r, q * s)
  BY <1>1, <1>2, TimesIs
<1>4. n * m \in Int /\ d * e \in Positive
  BY DEF Positive
<1>5. (p * r) * (d * e) = (n * m) * (q * s)
  <2>1. (p * r) * (d * e) = (p * d) * (r * e)
    BY <1>1, <1>2 DEF Positive
  <2>2. (n * m) * (q * s) = (n * q) * (m * s)
    BY <1>1, <1>2 DEF Positive
  <2>3. QED
    BY <1>1, <1>2, <2>1, <2>2
<1>6. QED
  BY <1>3, <1>4, <1>5, SameFrac

LEMMA SignOfProduct ==
  ASSUME NEW k \in Positive, NEW x \in Int, NEW y \in Int
  PROVE  (x < y <=> k * x < k * y) /\ (x = y <=> k * x = k * y)
  BY DEF Positive

\* ... to the order ...
LEMMA FracLess ==
  ASSUME NEW n \in Int, NEW d \in Positive, NEW m \in Int, NEW e \in Positive
  PROVE  Frac(n, d) \prec Frac(m, e) <=> n * e < m * d
<1>1. PICK p \in Int, q \in Positive : Frac(n, d) = <<p, q>> /\ p * d = n * q
  BY FracPair
<1>2. PICK r \in Int, s \in Positive : Frac(m, e) = <<r, s>> /\ r * e = m * s
  BY FracPair
<1>3. Frac(n, d) \prec Frac(m, e) <=> p * s < r * q
  BY <1>1, <1>2, LessIs
<1>4. /\ p * s \in Int /\ r * q \in Int /\ n * e \in Int /\ m * d \in Int
      /\ d * e \in Positive /\ q * s \in Positive
  BY <1>1, <1>2 DEF Positive
<1>5. p * s < r * q <=> (d * e) * (p * s) < (d * e) * (r * q)
  BY <1>4, SignOfProduct
<1>6. n * e < m * d <=> (q * s) * (n * e) < (q * s) * (m * d)
  BY <1>4, SignOfProduct
<1>7. (d * e) * (p * s) = (q * s) * (n * e)
  <2>1. (d * e) * (p * s) = (p * d) * (e * s)
    BY <1>1, <1>2 DEF Positive
  <2>2. (q * s) * (n * e) = (n * q) * (e * s)
    BY <1>1, <1>2 DEF Positive
  <2>3. QED
    BY <1>1, <2>1, <2>2
<1>8. (d * e) * (r * q) = (q * s) * (m * d)
  <2>1. (d * e) * (r * q) = (r * e) * (d * q)
    BY <1>1, <1>2 DEF Positive
  <2>2. (q * s) * (m * d) = (m * s) * (d * q)
    BY <1>1, <1>2 DEF Positive
  <2>3. QED
    BY <1>2, <2>1, <2>2
<1>9. QED
  BY <1>3, <1>5, <1>6, <1>7, <1>8

\* ... and two ratios reduce to one fraction if they are the same ratio.
LEMMA FracEqual ==
  ASSUME NEW n \in Int, NEW d \in Positive, NEW m \in Int, NEW e \in Positive
  PROVE  Frac(n, d) = Frac(m, e) <=> n * e = m * d
<1>1. ASSUME Frac(n, d) = Frac(m, e) PROVE n * e = m * d
  <2>1. /\ Frac(m, e) \prec Frac(m, e) <=> m * e < m * e
        /\ Frac(n, d) \prec Frac(m, e) <=> n * e < m * d
        /\ Frac(m, e) \prec Frac(n, d) <=> m * d < n * e
    BY FracLess
  <2>2. m * e \in Int /\ n * e \in Int /\ m * d \in Int
    BY DEF Positive
  <2>3. QED
    BY <1>1, <2>1, <2>2
<1>2. QED
  BY <1>1, SameFrac

LEMMA FracOpposite ==
  ASSUME NEW n \in Int, NEW d \in Positive
  PROVE  -n \in Int /\ Opposite[Frac(n, d)] = Frac(-n, d)
<1>1. PICK p \in Int, q \in Positive :
        /\ n = Gcd[<<Size(n), d>>] * p /\ d = Gcd[<<Size(n), d>>] * q
        /\ Gcd[<<Size(n), d>>] \in Positive
        /\ Frac(n, d) = <<p, q>>
  BY FracIs
<1>2. PICK r \in Int, s \in Positive :
        /\ -n = Gcd[<<Size(-n), d>>] * r /\ d = Gcd[<<Size(-n), d>>] * s
        /\ Frac(-n, d) = <<r, s>>
  BY FracIs
<1> DEFINE g == Gcd[<<Size(n), d>>]
<1>3. Gcd[<<Size(-n), d>>] = g
  BY DEF Size
<1>4. n = g * p /\ d = g * q /\ -n = g * r /\ d = g * s /\ g \in Positive
  BY <1>1, <1>2, <1>3
<1> HIDE DEF g
<1>5. g * r = g * (-p) /\ g * s = g * q /\ -p \in Int
  BY <1>4 DEF Positive
<1>6. r = -p /\ s = q
  <2>1. r = -p
    BY <1>4, <1>5, SignOfProduct
  <2>2. s = q
    <3>1. s \in Int /\ q \in Int
      BY DEF Positive
    <3>2. QED
      BY <1>4, <1>5, <3>1, SignOfProduct
  <2>3. QED
    BY <2>1, <2>2
<1>7. Opposite[<<p, q>>] = <<-p, q>>
  BY DEF Opposite, Pairs
<1>8. QED
  BY <1>1, <1>2, <1>6, <1>7

LEMMA MinusIs ==
  ASSUME NEW n \in Int, NEW d \in Positive, NEW m \in Int, NEW e \in Positive
  PROVE  /\ n * e - m * d \in Int /\ d * e \in Positive
         /\ Frac(n, d) \ominus Frac(m, e) = Frac(n * e - m * d, d * e)
<1>1. -m \in Int /\ Opposite[Frac(m, e)] = Frac(-m, e)
  BY FracOpposite
<1>2. /\ d * e \in Positive
      /\ Frac(n, d) \oplus Frac(-m, e) = Frac(n * e + (-m) * d, d * e)
  <2> DEFINE k == -m
  <2>1. k \in Int
    BY <1>1
  <2> HIDE DEF k
  <2>2. /\ d * e \in Positive
        /\ Frac(n, d) \oplus Frac(k, e) = Frac(n * e + k * d, d * e)
    BY <2>1, FracPlus
  <2>3. QED
    BY <2>2 DEF k
<1>3. n * e + (-m) * d = n * e - m * d /\ n * e - m * d \in Int
  BY DEF Positive
<1>4. Frac(n, d) \ominus Frac(m, e) = Frac(n, d) \oplus Opposite[Frac(m, e)]
  BY DEF \ominus, \oplus
<1>5. QED
  BY <1>1, <1>2, <1>3, <1>4

LEMMA FracOver ==
  ASSUME NEW n \in Int, NEW d \in Positive, NEW m \in Positive, NEW e \in Positive
  PROVE  /\ n * e \in Int /\ d * m \in Positive
         /\ Frac(n, d) \oslash Frac(m, e) = Frac(n * e, d * m)
<1>1. m \in Int /\ e \in Int
  BY DEF Positive
<1>2. PICK r \in Int, s \in Positive : Frac(m, e) = <<r, s>> /\ r * e = m * s
  BY <1>1, FracPair
<1>3. r \in Positive /\ s \in Int
  <2>1. m * s \in Positive
    BY DEF Positive
  <2>2. r * e \in Positive
    BY <1>2, <2>1
  <2>3. QED
    BY <2>2 DEF Positive
<1>4. Reciprocal[<<r, s>>] = <<s, r>>
  BY <1>3 DEF Reciprocal, Pairs, Positive
<1>5. PICK p \in Int, q \in Positive : Frac(n, d) = <<p, q>> /\ p * d = n * q
  BY FracPair
<1>6. Frac(n, d) \oslash Frac(m, e) = <<p, q>> \otimes <<s, r>>
  BY <1>2, <1>4, <1>5 DEF \oslash, \otimes
<1>7. p * s \in Int /\ q * r \in Positive /\ <<p, q>> \otimes <<s, r>> = Frac(p * s, q * r)
  BY <1>3, TimesIs
<1>8. n * e \in Int /\ d * m \in Positive
  BY DEF Positive
<1>9. (p * s) * (d * m) = (n * e) * (q * r)
  <2>1. (p * s) * (d * m) = (p * d) * (m * s)
    BY <1>1, <1>3, <1>5 DEF Positive
  <2>2. (n * e) * (q * r) = (n * q) * (r * e)
    BY <1>1, <1>3, <1>5 DEF Positive
  <2>3. QED
    BY <1>2, <1>5, <2>1, <2>2
<1>10. QED
  BY <1>6, <1>7, <1>8, <1>9, SameFrac

\* Dividing by the opposite.
LEMMA OverOpposite ==
  ASSUME NEW n \in Int, NEW d \in Positive, NEW m \in Positive, NEW e \in Positive
  PROVE  /\ -m \in Int
         /\ Frac(n, d) \oslash Frac(-m, e) = Frac(-(n * e), d * m)
<1>1. m \in Int /\ e \in Int /\ -m \in Int
  BY DEF Positive
<1>2. PICK r \in Int, s \in Positive : Frac(-m, e) = <<r, s>> /\ r * e = (-m) * s
  <2> DEFINE k == -m
  <2>1. k \in Int
    BY <1>1
  <2> HIDE DEF k
  <2>2. \E r \in Int, s \in Positive : Frac(k, e) = <<r, s>> /\ r * e = k * s
    BY <2>1, FracPair
  <2>3. QED
    BY <2>2 DEF k
<1>3. -r \in Positive /\ -s \in Int /\ r < 0
  <2>1. m * s \in Positive /\ (-m) * s = -(m * s)
    BY DEF Positive
  <2>2. -(r * e) \in Positive /\ -(r * e) = (-r) * e
    BY <1>2, <2>1 DEF Positive
  <2>3. QED
    BY <2>2 DEF Positive
<1>4. Reciprocal[<<r, s>>] = <<-s, -r>>
  BY <1>2, <1>3 DEF Reciprocal, Pairs, Positive
<1>5. PICK p \in Int, q \in Positive : Frac(n, d) = <<p, q>> /\ p * d = n * q
  BY FracPair
<1>6. Frac(n, d) \oslash Frac(-m, e) = <<p, q>> \otimes <<-s, -r>>
  BY <1>2, <1>4, <1>5 DEF \oslash, \otimes
<1>7. /\ p * (-s) \in Int /\ q * (-r) \in Positive
      /\ <<p, q>> \otimes <<-s, -r>> = Frac(p * (-s), q * (-r))
  BY <1>3, TimesIs
<1>8. -(n * e) \in Int /\ d * m \in Positive
  BY DEF Positive
<1>9. (p * (-s)) * (d * m) = (-(n * e)) * (q * (-r))
  <2>1. (p * (-s)) * (d * m) = (p * d) * ((-m) * s)
    BY <1>1, <1>3, <1>5 DEF Positive
  <2>2. (-(n * e)) * (q * (-r)) = (n * q) * (r * e)
    BY <1>1, <1>2, <1>5 DEF Positive
  <2>3. QED
    BY <1>2, <1>5, <2>1, <2>2
<1>10. Frac(p * (-s), q * (-r)) = Frac(-(n * e), d * m)
  <2> DEFINE x == p * (-s)
             y == q * (-r)
             z == -(n * e)
             w == d * m
  <2>1. x \in Int /\ y \in Positive /\ z \in Int /\ w \in Positive /\ x * w = z * y
    BY <1>7, <1>8, <1>9
  <2> HIDE DEF x, y, z, w
  <2>2. Frac(x, y) = Frac(z, w)
    BY <2>1, SameFrac
  <2>3. QED
    BY <2>2 DEF x, y, z, w
<1>11. QED
  BY <1>1, <1>6, <1>7, <1>10

-----------------------------------------------------------------------------

(* Sums and comparisons. The fractions over one denominator behave like the *)
(* integers; a few fractions always share one.                              *)

Grid(d) == {Frac(n, d) : n \in Int}

\* V reads the fractions of S as integers.
Reads(V, S) ==
  /\ Zero \in S /\ V[Zero] = 0
  /\ \A x \in S : x \in Fraction /\ V[x] \in Int
  /\ \A x, y \in S :
       /\ x \oplus y \in S /\ V[x \oplus y] = V[x] + V[y]
       /\ x \ominus y \in S /\ V[x \ominus y] = V[x] - V[y]
       /\ x \prec y <=> V[x] < V[y]
       /\ x \preceq y <=> V[x] <= V[y]
  /\ \A x, y \in S : V[x] = V[y] => x = y

\* On a common denominator the arithmetic is that of the numerators.
LEMMA SameDenominator ==
  ASSUME NEW d \in Positive, NEW n \in Int, NEW m \in Int
  PROVE  /\ Frac(n, d) \oplus Frac(m, d) = Frac(n + m, d)
         /\ Frac(n, d) \ominus Frac(m, d) = Frac(n - m, d)
         /\ Frac(n, d) \prec Frac(m, d) <=> n < m
         /\ Frac(n, d) = Frac(m, d) <=> n = m
<1>1. /\ n * d + m * d \in Int /\ n * d - m * d \in Int /\ d * d \in Positive
      /\ n + m \in Int /\ n - m \in Int
      /\ n * d + m * d = d * (n + m) /\ n * d - m * d = d * (n - m)
      /\ n * d = d * n /\ m * d = d * m
  BY DEF Positive
<1>2. Frac(d * (n + m), d * d) = Frac(n + m, d) /\ Frac(d * (n - m), d * d) = Frac(n - m, d)
  BY <1>1, FracScales
<1>3. Frac(n, d) \oplus Frac(m, d) = Frac(n + m, d)
  BY <1>1, <1>2, FracPlus
<1>4. Frac(n, d) \ominus Frac(m, d) = Frac(n - m, d)
  BY <1>1, <1>2, MinusIs
<1>5. Frac(n, d) \prec Frac(m, d) <=> n < m
  BY <1>1, FracLess, SignOfProduct
<1>6. Frac(n, d) = Frac(m, d) <=> n = m
  BY <1>1, FracEqual, SignOfProduct
<1>7. QED
  BY <1>3, <1>4, <1>5, <1>6

\* Numerators over a common denominator are such a reading.
LEMMA GridReads ==
  ASSUME NEW d \in Positive
  PROVE  \E V : Reads(V, Grid(d))
<1> DEFINE V == [x \in Grid(d) |-> CHOOSE n \in Int : x = Frac(n, d)]
<1>1. ASSUME NEW n \in Int
      PROVE  Frac(n, d) \in Grid(d) /\ V[Frac(n, d)] = n
  <2> DEFINE m == CHOOSE m \in Int : Frac(n, d) = Frac(m, d)
  <2>1. m \in Int /\ Frac(n, d) = Frac(m, d)
    OBVIOUS
  <2>2. m = n
    BY <2>1, SameDenominator
  <2>3. Frac(n, d) \in Grid(d)
    BY DEF Grid
  <2>4. V[Frac(n, d)] = m
    BY <2>3
  <2>5. QED
    BY <2>2, <2>3, <2>4
<1> HIDE DEF V
<1>2. \A x \in Grid(d) : \E n \in Int : x = Frac(n, d)
  BY DEF Grid
<1>3. Zero = Frac(0, d)
  <2>1. Frac(0, d) = Frac(0, 1)
    BY SameFrac DEF Positive
  <2>2. Frac(0, 1) \in Pairs /\ Frac(0, 1)[1] \in Int /\ Frac(0, 1)[2] \in Positive
    BY FracValue DEF Positive
  <2>3. Frac(0, 1)[1] * 1 = 0 * Frac(0, 1)[2]
    BY FracValue DEF Positive
  <2>4. Frac(0, 1)[1] = 0
    BY <2>2, <2>3 DEF Positive
  <2>5. \E p \in Int, q \in Positive :
          0 = Gcd[<<Size(0), 1>>] * p /\ 1 = Gcd[<<Size(0), 1>>] * q
          /\ Gcd[<<Size(0), 1>>] \in Positive /\ Frac(0, 1) = <<p, q>>
    BY FracIs DEF Positive
  <2>6. PICK p \in Int, q \in Positive :
          1 = Gcd[<<Size(0), 1>>] * q /\ Gcd[<<Size(0), 1>>] \in Positive /\ Frac(0, 1) = <<p, q>>
    BY <2>5
  <2>7. q = 1
    <3> DEFINE g == Gcd[<<Size(0), 1>>]
    <3>1. g \in Positive /\ 1 = g * q
      BY <2>6
    <3> HIDE DEF g
    <3>2. CASE q > 1
      <4>1. g * 1 < g * q
        BY <3>1, <3>2, SignOfProduct DEF Positive
      <4>2. QED
        BY <3>1, <4>1 DEF Positive
    <3>3. QED
      BY <3>2 DEF Positive
  <2>8. QED
    BY <2>1, <2>4, <2>6, <2>7 DEF Zero, Whole
<1>4. Zero \in Grid(d) /\ V[Zero] = 0
  BY <1>1, <1>3
<1>5. \A x \in Grid(d) : x \in Fraction /\ V[x] \in Int
  BY <1>1, <1>2, FracIsFraction
<1>6. ASSUME NEW x \in Grid(d), NEW y \in Grid(d)
      PROVE  /\ x \oplus y \in Grid(d) /\ V[x \oplus y] = V[x] + V[y]
             /\ x \ominus y \in Grid(d) /\ V[x \ominus y] = V[x] - V[y]
             /\ x \prec y <=> V[x] < V[y]
             /\ x \preceq y <=> V[x] <= V[y]
             /\ x = y <=> V[x] = V[y]
  <2>1. PICK n \in Int : x = Frac(n, d)
    BY <1>2
  <2>2. PICK m \in Int : y = Frac(m, d)
    BY <1>2
  <2>3. V[x] = n /\ V[y] = m /\ n + m \in Int /\ n - m \in Int
    BY <1>1, <2>1, <2>2
  <2>4. x \oplus y \in Grid(d) /\ V[x \oplus y] = n + m
    <3>1. x \oplus y = Frac(n + m, d)
      BY <2>1, <2>2, SameDenominator
    <3>2. Frac(n + m, d) \in Grid(d) /\ V[Frac(n + m, d)] = n + m
      BY <1>1, <2>3
    <3>3. QED
      BY <3>1, <3>2
  <2>5. x \ominus y \in Grid(d) /\ V[x \ominus y] = n - m
    <3>1. x \ominus y = Frac(n - m, d)
      BY <2>1, <2>2, SameDenominator
    <3>2. Frac(n - m, d) \in Grid(d) /\ V[Frac(n - m, d)] = n - m
      BY <1>1, <2>3
    <3>3. QED
      BY <3>1, <3>2
  <2>6. (x \prec y <=> n < m) /\ (y \prec x <=> m < n) /\ (x = y <=> n = m)
    BY <2>1, <2>2, SameDenominator
  <2>7. x \preceq y <=> ~ (y \prec x)
    BY DEF \prec, \preceq
  <2>8. QED
    BY <2>3, <2>4, <2>5, <2>6, <2>7
<1>7. QED
  BY <1>4, <1>5, <1>6 DEF Reads

LEMMA GridsJoin ==
  ASSUME NEW d \in Positive, NEW e \in Positive
  PROVE  d * e \in Positive /\ Grid(d) \subseteq Grid(d * e) /\ Grid(e) \subseteq Grid(d * e)
<1>1. d * e \in Positive /\ d * e = e * d
  BY DEF Positive
<1>2. ASSUME NEW n \in Int PROVE Frac(n, d) \in Grid(d * e) /\ Frac(n, e) \in Grid(d * e)
  <2>1. Frac(e * n, e * d) = Frac(n, d) /\ e * n \in Int
    BY FracScales
  <2>2. Frac(d * n, d * e) = Frac(n, e) /\ d * n \in Int
    BY FracScales
  <2>3. QED
    BY <1>1, <2>1, <2>2 DEF Grid
<1>3. QED
  BY <1>1, <1>2 DEF Grid

LEMMA TwoOnAGrid ==
  ASSUME NEW a \in Fraction, NEW b \in Fraction
  PROVE  \E d \in Positive : a \in Grid(d) /\ b \in Grid(d)
<1>1. /\ a[1] \in Int /\ a[2] \in Positive /\ a = Frac(a[1], a[2])
      /\ b[1] \in Int /\ b[2] \in Positive /\ b = Frac(b[1], b[2])
  BY FractionIsFrac
<1>2. a \in Grid(a[2]) /\ b \in Grid(b[2])
  BY <1>1 DEF Grid
<1>3. QED
  BY <1>1, <1>2, GridsJoin

LEMMA FourOnAGrid ==
  ASSUME NEW a \in Fraction, NEW b \in Fraction, NEW c \in Fraction, NEW d \in Fraction
  PROVE  \E g \in Positive : a \in Grid(g) /\ b \in Grid(g) /\ c \in Grid(g) /\ d \in Grid(g)
<1>1. PICK g \in Positive : a \in Grid(g) /\ b \in Grid(g)
  BY TwoOnAGrid
<1>2. PICK h \in Positive : c \in Grid(h) /\ d \in Grid(h)
  BY TwoOnAGrid
<1>3. QED
  BY <1>1, <1>2, GridsJoin

\* There is a way to read a few fractions as integers: what a linear fact
\* about them needs.
Commensurable(a, b, c, d, w, x, y, z) ==
  \E V, S : Reads(V, S) /\ {a, b, c, d, w, x, y, z} \subseteq S

\* Up to eight fractions can be read as integers at once, so that sums, differences
\* and order of them are linear arithmetic.
LEMMA Linear ==
  ASSUME NEW a \in Fraction, NEW b \in Fraction, NEW c \in Fraction, NEW d \in Fraction,
         NEW w \in Fraction, NEW x \in Fraction, NEW y \in Fraction, NEW z \in Fraction
  PROVE  Commensurable(a, b, c, d, w, x, y, z)
<1>1. PICK g \in Positive : a \in Grid(g) /\ b \in Grid(g) /\ c \in Grid(g) /\ d \in Grid(g)
  BY FourOnAGrid
<1>2. PICK h \in Positive : w \in Grid(h) /\ x \in Grid(h) /\ y \in Grid(h) /\ z \in Grid(h)
  BY FourOnAGrid
<1>3. g * h \in Positive /\ Grid(g) \subseteq Grid(g * h) /\ Grid(h) \subseteq Grid(g * h)
  BY GridsJoin
<1>4. {a, b, c, d, w, x, y, z} \subseteq Grid(g * h)
  BY <1>1, <1>2, <1>3
<1>5. QED
  BY <1>3, <1>4, GridReads DEF Commensurable

\* Sums and differences are fractions.
LEMMA Sums ==
  ASSUME NEW a \in Fraction, NEW b \in Fraction
  PROVE  /\ a \oplus b \in Fraction /\ a \ominus b \in Fraction
         /\ a \oplus b = b \oplus a
<1>1. PICK V, S : Reads(V, S) /\ {a, b, a, a, a, a, a, a} \subseteq S
  <2>1. Commensurable(a, b, a, a, a, a, a, a)
    BY Linear
  <2>2. QED
    BY <2>1 DEF Commensurable
<1>2. a \in S /\ b \in S
  BY <1>1
<1>3. QED
  BY <1>1, <1>2 DEF Reads

\* Numerals.
LEMMA Coprime ==
  ASSUME NEW n \in Int, NEW d \in Positive, NEW u \in Int, NEW v \in Int, n * u + d * v = 1
  PROVE  <<n, d>> \in Fraction /\ Frac(n, d) = <<n, d>>
<1> DEFINE g == Gcd[<<Size(n), d>>]
<1>1. PICK p \in Int, q \in Positive :
        n = g * p /\ d = g * q /\ g \in Positive /\ Frac(n, d) = <<p, q>>
  BY FracIs
<1> HIDE DEF g
<1>2. p * u \in Int /\ q * v \in Int /\ q \in Int /\ g \in Int
  BY <1>1 DEF Positive
<1> DEFINE k == p * u + q * v
<1>3. k \in Int /\ g * k = 1
  BY <1>1, <1>2
<1> HIDE DEF k
<1>4. g = 1
  <2>1. CASE k > 0 /\ g > 1
    BY <1>1, <1>3, <2>1, SignOfProduct DEF Positive
  <2>2. CASE k <= 0
    BY <1>1, <1>3, <2>2 DEF Positive
  <2>3. QED
    BY <1>1, <1>3, <2>1, <2>2 DEF Positive
<1>5. p = n /\ q = d
  BY <1>1, <1>4 DEF Positive
<1>6. QED
  BY <1>1, <1>5, FracIsFraction

\* Whole and unit fractions are reduced.
LEMMA Numerals ==
  ASSUME NEW n \in Int, NEW d \in Positive
  PROVE  /\ <<n, 1>> \in Fraction /\ Frac(n, 1) = <<n, 1>>
         /\ <<1, d>> \in Fraction /\ Frac(1, d) = <<1, d>>
         /\ <<-1, d>> \in Fraction /\ Frac(-1, d) = <<-1, d>>
<1>1. <<n, 1>> \in Fraction /\ Frac(n, 1) = <<n, 1>>
  <2> DEFINE e == 1
             u == 0
  <2>1. e \in Positive /\ u \in Int /\ n * u + e * e = 1 /\ e \in Int
    BY DEF Positive
  <2> HIDE DEF e, u
  <2>2. <<n, e>> \in Fraction /\ Frac(n, e) = <<n, e>>
    BY <2>1, Coprime
  <2>3. QED
    BY <2>2 DEF e
<1>2. ASSUME NEW k \in {1, -1}
      PROVE  <<k, d>> \in Fraction /\ Frac(k, d) = <<k, d>>
  <2> DEFINE u == 0
  <2>1. k \in Int /\ u \in Int /\ k * k + d * u = 1
    BY DEF Positive
  <2> HIDE DEF u
  <2>2. QED
    BY <2>1, Coprime
<1>3. QED
  BY <1>1, <1>2

LEMMA Constants ==
  /\ Zero \in Fraction /\ One \in Fraction /\ Half \in Fraction
  /\ Zero = Frac(0, 1) /\ One = Frac(1, 1) /\ 1 \in Positive
<1>1. 1 \in Positive /\ 2 \in Positive /\ 0 \in Int /\ 1 \in Int
  BY DEF Positive
<1>2. QED
  BY <1>1, Numerals DEF Zero, One, Half, Whole

-----------------------------------------------------------------------------
(* Products and quotients.                                                 *)

\* Products are fractions, in either order.
LEMMA Products ==
  ASSUME NEW a \in Fraction, NEW b \in Fraction
  PROVE  a \otimes b \in Fraction /\ a \otimes b = b \otimes a
<1>1. PICK n \in Int, d \in Positive : a = Frac(n, d)
  BY FractionIsFrac
<1>2. PICK m \in Int, e \in Positive : b = Frac(m, e)
  BY FractionIsFrac
<1>3. /\ a \otimes b = Frac(n * m, d * e) /\ n * m \in Int /\ d * e \in Positive
      /\ b \otimes a = Frac(m * n, e * d)
  BY <1>1, <1>2, FracTimes
<1>4. n * m = m * n /\ d * e = e * d
  BY DEF Positive
<1>5. QED
  BY <1>3, <1>4, FracIsFraction

LEMMA Associates ==
  ASSUME NEW a \in Fraction, NEW b \in Fraction, NEW c \in Fraction
  PROVE  (a \otimes b) \otimes c = a \otimes (b \otimes c)
<1>1. PICK n \in Int, d \in Positive : a = Frac(n, d)
  BY FractionIsFrac
<1>2. PICK m \in Int, e \in Positive : b = Frac(m, e)
  BY FractionIsFrac
<1>3. PICK k \in Int, f \in Positive : c = Frac(k, f)
  BY FractionIsFrac
<1>4. /\ a \otimes b = Frac(n * m, d * e) /\ n * m \in Int /\ d * e \in Positive
      /\ b \otimes c = Frac(m * k, e * f) /\ m * k \in Int /\ e * f \in Positive
  BY <1>1, <1>2, <1>3, FracTimes
<1>5. /\ (a \otimes b) \otimes c = Frac((n * m) * k, (d * e) * f)
      /\ a \otimes (b \otimes c) = Frac(n * (m * k), d * (e * f))
  <2>1. Frac(n * m, d * e) \otimes Frac(k, f) = Frac((n * m) * k, (d * e) * f)
    BY <1>4, FracTimes
  <2>2. Frac(n, d) \otimes Frac(m * k, e * f) = Frac(n * (m * k), d * (e * f))
    BY <1>4, FracTimes
  <2>3. QED
    BY <1>1, <1>3, <1>4, <2>1, <2>2
<1>6. (n * m) * k = n * (m * k) /\ (d * e) * f = d * (e * f)
  BY DEF Positive
<1>7. QED
  BY <1>5, <1>6

LEMMA Distributes ==
  ASSUME NEW a \in Fraction, NEW b \in Fraction, NEW c \in Fraction
  PROVE  /\ a \otimes (b \oplus c) = (a \otimes b) \oplus (a \otimes c)
         /\ a \otimes (b \ominus c) = (a \otimes b) \ominus (a \otimes c)
         /\ (b \oplus c) \otimes a = (b \otimes a) \oplus (c \otimes a)
         /\ (b \ominus c) \otimes a = (b \otimes a) \ominus (c \otimes a)
<1>1. PICK n \in Int, d \in Positive : a = Frac(n, d)
  BY FractionIsFrac
<1>2. PICK e \in Positive : b \in Grid(e) /\ c \in Grid(e)
  BY TwoOnAGrid
<1>3. PICK m \in Int : b = Frac(m, e)
  BY <1>2 DEF Grid
<1>4. PICK k \in Int : c = Frac(k, e)
  BY <1>2 DEF Grid
<1>5. /\ b \oplus c = Frac(m + k, e) /\ m + k \in Int
      /\ b \ominus c = Frac(m - k, e) /\ m - k \in Int
  BY <1>3, <1>4, SameDenominator
<1>6. /\ a \otimes b = Frac(n * m, d * e) /\ n * m \in Int /\ d * e \in Positive
      /\ a \otimes c = Frac(n * k, d * e) /\ n * k \in Int
  BY <1>1, <1>3, <1>4, FracTimes
<1>7. a \otimes (b \oplus c) = (a \otimes b) \oplus (a \otimes c)
  <2>1. Frac(n, d) \otimes Frac(m + k, e) = Frac(n * (m + k), d * e)
    BY <1>5, FracTimes
  <2>2. Frac(n * m, d * e) \oplus Frac(n * k, d * e) = Frac(n * m + n * k, d * e)
    BY <1>6, SameDenominator
  <2>3. n * (m + k) = n * m + n * k
    OBVIOUS
  <2>4. QED
    BY <1>1, <1>5, <1>6, <2>1, <2>2, <2>3
<1>8. a \otimes (b \ominus c) = (a \otimes b) \ominus (a \otimes c)
  <2>1. Frac(n, d) \otimes Frac(m - k, e) = Frac(n * (m - k), d * e)
    BY <1>5, FracTimes
  <2>2. Frac(n * m, d * e) \ominus Frac(n * k, d * e) = Frac(n * m - n * k, d * e)
    BY <1>6, SameDenominator
  <2>3. n * (m - k) = n * m - n * k
    OBVIOUS
  <2>4. QED
    BY <1>1, <1>5, <1>6, <2>1, <2>2, <2>3
<1>9. b \oplus c \in Fraction /\ b \ominus c \in Fraction
  BY Sums
<1>10. QED
  BY <1>7, <1>8, <1>9, Products

LEMMA Units ==
  ASSUME NEW a \in Fraction
  PROVE  /\ a \otimes One = a /\ One \otimes a = a
         /\ a \otimes Zero = Zero /\ Zero \otimes a = Zero
<1>1. PICK n \in Int, d \in Positive : a = Frac(n, d)
  BY FractionIsFrac
<1>2. One = Frac(1, 1) /\ Zero = Frac(0, 1) /\ 1 \in Positive
  BY Constants
<1>3. a \otimes One = Frac(n * 1, d * 1) /\ a \otimes Zero = Frac(n * 0, d * 1)
  BY <1>1, <1>2, FracTimes
<1>4. n * 1 = n /\ d * 1 = d /\ n * 0 = 0
  BY DEF Positive
<1>5. Frac(0, d) = Frac(0, 1)
  BY <1>2, SameFrac DEF Positive
<1>6. QED
  BY <1>1, <1>2, <1>3, <1>4, <1>5, Products, Constants

LEMMA Signs ==
  ASSUME NEW a \in Fraction, NEW b \in Fraction
  PROVE  /\ Zero \prec a /\ Zero \prec b => Zero \prec (a \otimes b)
         /\ Zero \preceq a /\ Zero \preceq b => Zero \preceq (a \otimes b)
<1>1. PICK n \in Int, d \in Positive : a = Frac(n, d)
  BY FractionIsFrac
<1>2. PICK m \in Int, e \in Positive : b = Frac(m, e)
  BY FractionIsFrac
<1>3. a \otimes b = Frac(n * m, d * e) /\ n * m \in Int /\ d * e \in Positive
  BY <1>1, <1>2, FracTimes
<1>4. Zero = Frac(0, 1) /\ 1 \in Positive
  BY Constants
<1>5. \A k \in Int, f \in Positive :
        /\ Zero \prec Frac(k, f) <=> k > 0
        /\ Zero \preceq Frac(k, f) <=> k >= 0
  <2>1. ASSUME NEW k \in Int, NEW f \in Positive
        PROVE  /\ Zero \prec Frac(k, f) <=> k > 0
               /\ Zero \preceq Frac(k, f) <=> k >= 0
    <3>1. /\ Frac(0, 1) \prec Frac(k, f) <=> 0 * f < k * 1
          /\ Frac(k, f) \prec Frac(0, 1) <=> k * 1 < 0 * f
      BY <1>4, FracLess
    <3>2. k * 1 = k /\ 0 * f = 0
      BY DEF Positive
    <3>3. Zero \preceq Frac(k, f) <=> ~ (Frac(k, f) \prec Zero)
      BY DEF \prec, \preceq
    <3>4. QED
      BY <1>4, <3>1, <3>2, <3>3
  <2>2. QED
    BY <2>1
<1>6. (n > 0 /\ m > 0 => n * m > 0) /\ (n >= 0 /\ m >= 0 => n * m >= 0)
  OBVIOUS
<1>7. QED
  BY <1>1, <1>2, <1>3, <1>5, <1>6

\* A product grows with its factors.
LEMMA Grows ==
  ASSUME NEW a \in Fraction, NEW b \in Fraction, NEW c \in Fraction, Zero \preceq a
  PROVE  /\ b \preceq c => (a \otimes b) \preceq (a \otimes c)
         /\ b \preceq c => (b \otimes a) \preceq (c \otimes a)
         /\ Zero \prec a /\ b \prec c => (a \otimes b) \prec (a \otimes c)
         /\ Zero \prec a /\ b \prec c => (b \otimes a) \prec (c \otimes a)
<1> DEFINE p == a \otimes b
           q == a \otimes c
           e == c \ominus b
<1>1. /\ p \in Fraction /\ q \in Fraction /\ e \in Fraction
      /\ b \otimes a = p /\ c \otimes a = q /\ a \otimes e = q \ominus p
  BY Products, Sums, Distributes
<1> HIDE DEF p, q
<1>2. PICK V, S : Reads(V, S) /\ {a, b, c, p, q, a, a, a} \subseteq S
  <2>1. Commensurable(a, b, c, p, q, a, a, a)
    BY <1>1, Linear
  <2>2. QED
    BY <2>1 DEF Commensurable
<1>3. b \in S /\ c \in S /\ p \in S /\ q \in S
  BY <1>2
<1>4. (b \preceq c => Zero \preceq e) /\ (b \prec c => Zero \prec e)
  BY <1>2, <1>3 DEF Reads
<1>5. /\ Zero \preceq (q \ominus p) => p \preceq q
      /\ Zero \prec (q \ominus p) => p \prec q
  BY <1>2, <1>3 DEF Reads
<1>6. /\ Zero \preceq a /\ Zero \preceq e => Zero \preceq (a \otimes e)
      /\ Zero \prec a /\ Zero \prec e => Zero \prec (a \otimes e)
  <2> HIDE DEF e
  <2> QED
    BY <1>1, Signs
<1>7. (b \preceq c => p \preceq q) /\ (Zero \prec a /\ b \prec c => p \prec q)
  BY <1>1, <1>4, <1>5, <1>6
<1>8. QED
  BY <1>1, <1>7 DEF p, q

\* Division undoes multiplication.
LEMMA Over ==
  ASSUME NEW a \in Fraction, NEW b \in Fraction, b # Zero
  PROVE  a \oslash b \in Fraction /\ (a \oslash b) \otimes b = a
<1>1. PICK n \in Int, d \in Positive : a = Frac(n, d)
  BY FractionIsFrac
<1>2. PICK k \in Int, e \in Positive : b = Frac(k, e)
  BY FractionIsFrac
<1>3. k # 0
  <2>1. Frac(0, e) = Frac(0, 1) /\ Zero = Frac(0, 1)
    <3>1. Zero = Frac(0, 1) /\ 1 \in Positive /\ 0 * 1 = 0 * e
      BY Constants DEF Positive
    <3>2. QED
      BY <3>1, SameFrac
  <2>2. QED
    BY <1>2, <2>1
<1>4. CASE k > 0
  <2>1. k \in Positive
    BY <1>4 DEF Positive
  <2>2. /\ n * e \in Int /\ d * k \in Positive
        /\ a \oslash b = Frac(n * e, d * k)
    BY <1>1, <1>2, <2>1, FracOver
  <2> DEFINE x == n * e
             y == d * k
  <2>3. x \in Int /\ y \in Positive
    BY <2>1 DEF Positive
  <2>4. (x * k) * d = n * (y * e) /\ y * e \in Positive
    BY <2>1 DEF Positive
  <2>8. a \oslash b = Frac(x, y)
    BY <2>2
  <2> HIDE DEF x, y
  <2>5. Frac(x, y) \otimes Frac(k, e) = Frac(x * k, y * e) /\ x * k \in Int
    BY <2>3, FracTimes
  <2>6. Frac(x * k, y * e) = Frac(n, d)
    BY <2>4, <2>5, SameFrac
  <2>7. QED
    BY <1>1, <1>2, <2>3, <2>5, <2>6, <2>8, FracIsFraction
<1>5. CASE k < 0
  <2> DEFINE m == -k
  <2>1. m \in Positive /\ k = -m
    BY <1>5 DEF Positive
  <2> HIDE DEF m
  <2>2. a \oslash b = Frac(-(n * e), d * m)
    BY <1>1, <1>2, <2>1, OverOpposite
  <2> DEFINE x == -(n * e)
             y == d * m
  <2>3. x \in Int /\ y \in Positive
    BY <2>1 DEF Positive
  <2>4. x * k = (n * e) * m /\ (n * e) * m \in Int /\ y * e \in Positive
    BY <2>1 DEF Positive
  <2>5. (x * k) * d = n * (y * e)
    <3>1. ((n * e) * m) * d = n * ((d * m) * e)
      BY <2>1 DEF Positive
    <3>2. QED
      BY <2>4, <3>1
  <2> HIDE DEF x, y
  <2>6. Frac(x, y) \otimes Frac(k, e) = Frac(x * k, y * e) /\ x * k \in Int
    BY <2>3, FracTimes
  <2>7. Frac(x * k, y * e) = Frac(n, d)
    BY <2>4, <2>5, <2>6, SameFrac
  <2>8. a \oslash b = Frac(x, y)
    BY <2>2 DEF x, y
  <2>9. QED
    BY <1>1, <1>2, <2>3, <2>6, <2>7, <2>8, FracIsFraction
<1>6. QED
  BY <1>3, <1>4, <1>5

\* The order is total ...
LEMMA Trichotomy ==
  ASSUME NEW a \in Fraction, NEW b \in Fraction
  PROVE  /\ a \prec b <=> ~ (b \preceq a)
         /\ a \preceq b <=> (a \prec b \/ a = b)
         /\ a \prec b \/ b \prec a \/ a = b
         /\ a \preceq a /\ ~ (a \prec a)
         /\ a \prec b => ~ (b \prec a) /\ a # b
<1>1. PICK V, S : Reads(V, S) /\ {a, b, a, a, a, a, a, a} \subseteq S
  <2>1. Commensurable(a, b, a, a, a, a, a, a)
    BY Linear
  <2>2. QED
    BY <2>1 DEF Commensurable
<1>2. a \in S /\ b \in S
  BY <1>1
<1>3. V[a] \in Int /\ V[b] \in Int
  BY <1>1, <1>2 DEF Reads
<1>4. (a \prec b <=> V[a] < V[b]) /\ (a \preceq b <=> V[a] <= V[b]) /\ (V[a] = V[b] => a = b)
      /\ (b \prec a <=> V[b] < V[a]) /\ (b \preceq a <=> V[b] <= V[a])
      /\ (a \prec a <=> V[a] < V[a]) /\ (a \preceq a <=> V[a] <= V[a])
  BY <1>1, <1>2 DEF Reads
<1>5. QED
  BY <1>3, <1>4

\* A quotient has the sign of what is divided, and is the only one.
LEMMA SignOfQuotient ==
  ASSUME NEW a \in Fraction, NEW b \in Fraction, Zero \prec b
  PROVE  /\ b # Zero
         /\ Zero \prec a => Zero \prec (a \oslash b)
         /\ Zero \preceq a => Zero \preceq (a \oslash b)
         /\ a \preceq Zero => (a \oslash b) \preceq Zero
         /\ a \prec Zero => (a \oslash b) \prec Zero
<1> DEFINE q == a \oslash b
<1>1. Zero \in Fraction /\ b # Zero
  BY Constants, Trichotomy
<1>2. q \in Fraction /\ q \otimes b = a /\ Zero \otimes b = Zero
  BY <1>1, Over, Units
<1> HIDE DEF q
<1>3. /\ Zero \preceq b
      /\ Zero \prec q => Zero \prec a
      /\ q \prec Zero => a \prec Zero
      /\ q = Zero => a = Zero
  BY <1>1, <1>2, Trichotomy, Grows
<1>4. /\ Zero \prec a => Zero \prec q
      /\ Zero \preceq a => Zero \preceq q
      /\ a \preceq Zero => q \preceq Zero
      /\ a \prec Zero => q \prec Zero
  BY <1>1, <1>2, <1>3, Trichotomy
<1>5. QED
  BY <1>1, <1>4 DEF q

-----------------------------------------------------------------------------
(* Order.                                                                  *)

\* ... and transitive.
LEMMA Ordered ==
  ASSUME NEW a \in Fraction, NEW b \in Fraction, NEW c \in Fraction
  PROVE  /\ a \preceq b /\ b \preceq c => a \preceq c
         /\ a \prec b /\ b \preceq c => a \prec c
         /\ a \preceq b /\ b \prec c => a \prec c
         /\ a \preceq b /\ b \preceq a => a = b
         /\ Zero \preceq (b \ominus a) <=> a \preceq b
         /\ Zero \prec (b \ominus a) <=> a \prec b
<1>1. PICK V, S : Reads(V, S) /\ {a, b, c, a, a, a, a, a} \subseteq S
  <2>1. Commensurable(a, b, c, a, a, a, a, a)
    BY Linear
  <2>2. QED
    BY <2>1 DEF Commensurable
<1>2. a \in S /\ b \in S /\ c \in S
  BY <1>1
<1>3. /\ a \preceq b /\ b \preceq c => a \preceq c
      /\ a \prec b /\ b \preceq c => a \prec c
      /\ a \preceq b /\ b \prec c => a \prec c
  BY <1>1, <1>2 DEF Reads
<1>4. a \preceq b /\ b \preceq a => a = b
  BY <1>1, <1>2 DEF Reads
<1>5. /\ Zero \preceq (b \ominus a) <=> a \preceq b
      /\ Zero \prec (b \ominus a) <=> a \prec b
  BY <1>1, <1>2 DEF Reads
<1>6. QED
  BY <1>3, <1>4, <1>5

LEMMA LeastIs ==
  ASSUME NEW a \in Fraction, NEW b \in Fraction
  PROVE  /\ Least(a, b) = IF b \prec a THEN b ELSE a
         /\ Least(a, b) \in {a, b} /\ Least(a, b) \in Fraction
         /\ Least(a, b) \preceq a /\ Least(a, b) \preceq b
<1>1. a \in Pairs /\ b \in Pairs
  BY DEF Fraction
<1>2. Least(a, b) = IF b \prec a THEN b ELSE a
  BY <1>1 DEF Least, Lesser, \prec
<1>3. QED
  BY <1>2, Trichotomy

LEMMA GreatestIs ==
  ASSUME NEW a \in Fraction, NEW b \in Fraction
  PROVE  /\ Greatest(a, b) = IF a \prec b THEN b ELSE a
         /\ Greatest(a, b) \in {a, b} /\ Greatest(a, b) \in Fraction
         /\ a \preceq Greatest(a, b) /\ b \preceq Greatest(a, b)
<1>1. a \in Pairs /\ b \in Pairs
  BY DEF Fraction
<1>2. Greatest(a, b) = IF a \prec b THEN b ELSE a
  BY <1>1 DEF Greatest, Larger, \prec
<1>3. QED
  BY <1>2, Trichotomy

LEMMA ClipIs ==
  ASSUME NEW a \in Fraction, NEW lo \in Fraction, NEW hi \in Fraction, lo \preceq hi
  PROVE  /\ Clip(a, lo, hi) \in Fraction
         /\ lo \preceq Clip(a, lo, hi) /\ Clip(a, lo, hi) \preceq hi
         /\ Clip(a, lo, hi) \in {a, lo, hi}
         /\ lo \preceq a => Clip(a, lo, hi) \preceq a
         /\ a \preceq hi => a \preceq Clip(a, lo, hi)
<1> DEFINE l == Least(a, hi)
<1>1. l \in {a, hi} /\ l \in Fraction /\ l \preceq a /\ l \preceq hi
  BY LeastIs
<1>2. a \preceq hi => l = a
  BY LeastIs, Trichotomy
<1>3. Clip(a, lo, hi) = Greatest(lo, l)
  BY DEF Clip
<1> HIDE DEF l
<1>4. /\ Greatest(lo, l) \in {lo, l} /\ Greatest(lo, l) \in Fraction
      /\ lo \preceq Greatest(lo, l) /\ l \preceq Greatest(lo, l)
  BY <1>1, GreatestIs
<1>5. QED
  BY <1>1, <1>2, <1>3, <1>4

LEMMA MagnitudeIs ==
  ASSUME NEW a \in Fraction
  PROVE  /\ Magnitude(a) = IF a \prec Zero THEN Zero \ominus a ELSE a
         /\ Magnitude(a) \in Fraction /\ Zero \preceq Magnitude(a)
         /\ Magnitude(a) = Zero => a = Zero
<1>1. PICK n \in Int, d \in Positive : a = <<n, d>> /\ a = Frac(n, d) /\ a \in Pairs
  BY FractionIsFrac DEF Fraction
<1>2. a \prec Zero <=> n < 0
  <2>1. Frac(n, d) \prec Frac(0, 1) <=> n * 1 < 0 * d
    BY Constants, FracLess
  <2>2. QED
    BY <1>1, <2>1, Constants DEF Positive
<1>3. Opposite[a] = Zero \ominus a
  <2>1. Opposite[Frac(n, d)] = Frac(-n, d)
    BY FracOpposite
  <2>2. Frac(0, 1) = Frac(0, d)
    <3>1. 0 * d = 0 * 1 /\ 1 \in Positive
      BY Constants DEF Positive
    <3>2. QED
      BY <3>1, SameFrac
  <2>3. Frac(0, d) \ominus Frac(n, d) = Frac(0 - n, d) /\ 0 - n = -n
    BY SameDenominator
  <2>4. QED
    BY <1>1, <2>1, <2>2, <2>3, Constants
<1>4. Magnitude(a) = IF a \prec Zero THEN Zero \ominus a ELSE a
  BY <1>1, <1>2, <1>3 DEF Magnitude
<1>5. PICK V, S : Reads(V, S) /\ {a, a, a, a, a, a, a, a} \subseteq S
  <2>1. Commensurable(a, a, a, a, a, a, a, a)
    BY Linear
  <2>2. QED
    BY <2>1 DEF Commensurable
<1>6. a \in S
  BY <1>5
<1>7. QED
  BY <1>4, <1>5, <1>6 DEF Reads

LEMMA NonNegative ==
  ASSUME NEW a \in Fraction, NEW b \in Fraction
  PROVE  /\ Zero \preceq a /\ Zero \preceq b => Zero \preceq (a \oplus b)
         /\ Zero \preceq a /\ Zero \prec b => Zero \prec (a \oplus b)
         /\ Zero \prec a /\ Zero \preceq b => Zero \prec (a \oplus b)
         /\ Zero \oplus a = a /\ a \oplus Zero = a /\ a \ominus Zero = a /\ a \ominus a = Zero
         /\ Zero \preceq b => (a \ominus b) \preceq a /\ a \preceq (a \oplus b)
         /\ Zero \prec b => (a \ominus b) \prec a /\ a \prec (a \oplus b)
<1>1. PICK V, S : Reads(V, S) /\ {a, b, a, a, a, a, a, a} \subseteq S
  <2>1. Commensurable(a, b, a, a, a, a, a, a)
    BY Linear
  <2>2. QED
    BY <2>1 DEF Commensurable
<1>2. a \in S /\ b \in S
  BY <1>1
<1>3. /\ Zero \preceq a /\ Zero \preceq b => Zero \preceq (a \oplus b)
      /\ Zero \preceq a /\ Zero \prec b => Zero \prec (a \oplus b)
      /\ Zero \prec a /\ Zero \preceq b => Zero \prec (a \oplus b)
  BY <1>1, <1>2 DEF Reads
<1>4. Zero \oplus a = a /\ a \oplus Zero = a /\ a \ominus Zero = a /\ a \ominus a = Zero
  BY <1>1, <1>2 DEF Reads
<1>5. /\ Zero \preceq b => (a \ominus b) \preceq a /\ a \preceq (a \oplus b)
      /\ Zero \prec b => (a \ominus b) \prec a /\ a \prec (a \oplus b)
  BY <1>1, <1>2 DEF Reads
<1>6. QED
  BY <1>3, <1>4, <1>5

-----------------------------------------------------------------------------
(* Accounts: what the constants are, and what a fill does to a spot account. *)

AccountType == [cash : Fraction, qty : Fraction, entry : Fraction]
IsPrice(p) == p \in Fraction /\ Zero \prec p
IsShare(s) == s \in Fraction /\ Zero \preceq s /\ s \preceq One
Solvent(a) == Zero \preceq a.cash /\ Zero \preceq a.qty

\* An outcome that moves the worth of the account by its cost and no more.
Types(out) ==
  out \in [acct : AccountType, cost : Fraction, traded : BOOLEAN]
Fair(a, out, price) ==
  /\ Types(out) /\ Zero \preceq out.cost
  /\ Worth(out.acct, price) = Worth(a, price) \ominus out.cost

-----------------------------------------------------------------------------

\* What the constants are assumed to be, in one place.
LEMMA Assumed ==
  /\ InitialCash \in Fraction /\ FeeRate \in Fraction /\ Slip \in Fraction
  /\ HalfSpread \in Fraction /\ Impact \in Fraction /\ RiskFraction \in Fraction
  /\ Leverage \in Fraction /\ Maintenance \in Fraction
  /\ Zero \prec InitialCash /\ Zero \prec RiskFraction /\ Zero \prec Leverage
  /\ Zero \preceq Slip /\ Zero \preceq HalfSpread /\ Zero \preceq Impact /\ Zero \preceq Maintenance
  /\ IsShare(FeeRate) /\ RiskFraction \preceq One /\ Slip \prec One
  /\ (HalfSpread \oplus (Impact \otimes Whole(2))) \prec One
  /\ (RiskFraction \otimes FeeRate) \preceq (One \ominus Slip)
  /\ (Leverage \otimes FeeRate) \preceq One
  BY AccountsAssumption DEF IsShare

\* A share of something is at most all of it.
LEMMA Shares ==
  ASSUME NEW t \in Fraction, Zero \preceq t, NEW f, IsShare(f)
  PROVE  /\ t \otimes f \in Fraction /\ Zero \preceq (t \otimes f) /\ (t \otimes f) \preceq t
         /\ f \otimes t = t \otimes f
  BY Products, Signs, Grows, Units, Constants DEF IsShare

LEMMA Fields ==
  ASSUME NEW a \in AccountType, NEW p \in Fraction
  PROVE  /\ a.cash \in Fraction /\ a.qty \in Fraction /\ a.entry \in Fraction
         /\ a.qty \otimes p \in Fraction /\ Worth(a, p) \in Fraction
         /\ Worth(a, p) = a.cash \oplus (a.qty \otimes p)
         /\ a = [cash |-> a.cash, qty |-> a.qty, entry |-> a.entry]
<1>1. a.cash \in Fraction /\ a.qty \in Fraction /\ a.entry \in Fraction
      /\ a = [cash |-> a.cash, qty |-> a.qty, entry |-> a.entry]
  BY DEF AccountType
<1>2. QED
  BY <1>1, Products, Sums DEF Worth

\* Not trading costs nothing.
LEMMA UntouchedIsFair ==
  ASSUME NEW a \in AccountType, NEW p \in Fraction
  PROVE  Fair(a, Untouched(a), p)
<1>1. Worth(a, p) \in Fraction /\ Zero \in Fraction
  BY Fields, Constants
<1>2. PICK V, S : Reads(V, S) /\ Worth(a, p) \in S
  <2> DEFINE w == Worth(a, p)
  <2> HIDE DEF w
  <2>1. Commensurable(w, w, w, w, w, w, w, w)
    BY <1>1, Linear DEF w
  <2>2. QED
    BY <2>1 DEF Commensurable, w
<1>3. Worth(a, p) = Worth(a, p) \ominus Zero
  BY <1>2 DEF Reads
<1>4. QED
  BY <1>1, <1>3, Trichotomy DEF Fair, Types, Untouched, Outcome

\* Buying with a budget out of which the fee is paid.
LEMMA SpotBuyIsFair ==
  ASSUME NEW a \in AccountType, NEW p, IsPrice(p), NEW b \in Fraction, Zero \preceq b,
         NEW fee \in Fraction, Zero \preceq fee
  PROVE  LET units == (b \ominus fee) \oslash p
             out == Outcome([a EXCEPT !.cash = @ \ominus b, !.qty = @ \oplus units], fee, TRUE)
         IN  units \in Fraction /\ Fair(a, out, p)
<1> DEFINE units == (b \ominus fee) \oslash p
           c == a.cash
           q == a.qty
           new == [a EXCEPT !.cash = @ \ominus b, !.qty = @ \oplus units]
           qp == q \otimes p
<1>1. p \in Fraction /\ p # Zero
  BY SignOfQuotient DEF IsPrice
<1>2. c \in Fraction /\ q \in Fraction /\ a.entry \in Fraction /\ qp \in Fraction
      /\ Worth(a, p) = c \oplus qp
  BY <1>1, Fields
<1>3. b \ominus fee \in Fraction
  BY Sums
<1>4. units \in Fraction /\ units \otimes p = b \ominus fee
  BY <1>1, <1>3, Over
<1> HIDE DEF units
<1>5. c \ominus b \in Fraction /\ q \oplus units \in Fraction
  BY <1>2, <1>4, Sums
<1>6. new \in AccountType /\ new.cash = c \ominus b /\ new.qty = q \oplus units
  BY <1>2, <1>5 DEF AccountType
<1>7. Worth(new, p) = (c \ominus b) \oplus (qp \oplus (b \ominus fee))
  BY <1>1, <1>2, <1>4, <1>6, Distributes DEF Worth
<1> HIDE DEF new, c, q, qp
<1>8. PICK V, S : Reads(V, S) /\ {c, b, fee, qp, c, c, c, c} \subseteq S
  <2>1. Commensurable(c, b, fee, qp, c, c, c, c)
    BY <1>2, Linear
  <2>2. QED
    BY <2>1 DEF Commensurable
<1>9. c \in S /\ b \in S /\ fee \in S /\ qp \in S
  BY <1>8
<1>10. (c \ominus b) \oplus (qp \oplus (b \ominus fee)) = (c \oplus qp) \ominus fee
  BY <1>8, <1>9 DEF Reads
<1>11. Fair(a, Outcome(new, fee, TRUE), p)
  BY <1>2, <1>6, <1>7, <1>10 DEF Fair, Types, Outcome
<1>12. QED
  BY <1>4, <1>11 DEF units, new

LEMMA SellDownIs ==
  ASSUME NEW a \in AccountType, NEW p \in Fraction, NEW units \in Fraction, NEW fee \in Fraction
  PROVE  /\ SellDown(a, units, p, fee) \in AccountType
         /\ SellDown(a, units, p, fee).cash = (a.cash \oplus (units \otimes p)) \ominus fee
         /\ SellDown(a, units, p, fee).qty = a.qty \ominus units
         /\ SellDown(a, units, p, fee).entry = a.entry
<1>1. a.cash \in Fraction /\ a.qty \in Fraction /\ a.entry \in Fraction
  BY Fields
<1>2. units \otimes p \in Fraction /\ a.qty \ominus units \in Fraction
  BY <1>1, Products, Sums
<1>3. (a.cash \oplus (units \otimes p)) \ominus fee \in Fraction
  BY <1>1, <1>2, Sums
<1>4. QED
  BY <1>1, <1>2, <1>3 DEF SellDown, AccountType

\* Selling at the price the worth is taken at costs the fee.
LEMMA SellIsFair ==
  ASSUME NEW a \in AccountType, NEW p \in Fraction, NEW units \in Fraction,
         NEW fee \in Fraction, Zero \preceq fee
  PROVE  Fair(a, Outcome(SellDown(a, units, p, fee), fee, TRUE), p)
<1> DEFINE new == SellDown(a, units, p, fee)
           c == a.cash
           qp == a.qty \otimes p
           up == units \otimes p
<1>1. c \in Fraction /\ a.qty \in Fraction /\ qp \in Fraction /\ up \in Fraction
      /\ Worth(a, p) = c \oplus qp
  BY Fields, Products
<1>2. /\ new \in AccountType /\ new.cash = (c \oplus up) \ominus fee
      /\ new.qty = a.qty \ominus units
  BY SellDownIs
<1>3. Worth(new, p) = ((c \oplus up) \ominus fee) \oplus (qp \ominus up)
  BY <1>1, <1>2, Distributes DEF Worth
<1> HIDE DEF new, c, qp, up
<1>4. PICK V, S : Reads(V, S) /\ {c, fee, qp, up, c, c, c, c} \subseteq S
  <2>1. Commensurable(c, fee, qp, up, c, c, c, c)
    BY <1>1, Linear
  <2>2. QED
    BY <2>1 DEF Commensurable
<1>5. c \in S /\ fee \in S /\ qp \in S /\ up \in S
  BY <1>4
<1>6. ((c \oplus up) \ominus fee) \oplus (qp \ominus up) = (c \oplus qp) \ominus fee
  BY <1>4, <1>5 DEF Reads
<1>7. QED
  BY <1>1, <1>2, <1>3, <1>6 DEF Fair, Types, Outcome, new

\* The spot books: fair, and solvent whatever is bought or sold.
LEMMA SpotExecuteIsFair ==
  ASSUME NEW a \in AccountType, Solvent(a), NEW p, IsPrice(p), NEW size, IsShare(size), NEW side
  PROVE  Fair(a, SpotExecute(a, side, size, p), p) /\ Solvent(SpotExecute(a, side, size, p).acct)
<1> DEFINE budget == a.cash \otimes size
           fee    == budget \otimes FeeRate
           units  == (budget \ominus fee) \oslash p
           sold   == a.qty \otimes size
           cut    == (sold \otimes p) \otimes FeeRate
           bought == Outcome([a EXCEPT !.cash = @ \ominus budget, !.qty = @ \oplus units], fee, TRUE)
           left   == Outcome(SellDown(a, sold, p, cut), cut, TRUE)
<1>1. a.cash \in Fraction /\ a.qty \in Fraction /\ p \in Fraction /\ Zero \preceq p
      /\ Zero \preceq a.cash /\ Zero \preceq a.qty /\ Zero \in Fraction
  BY Fields, Constants, Trichotomy DEF IsPrice, Solvent
<1>2. budget \in Fraction /\ Zero \preceq budget /\ budget \preceq a.cash
  BY <1>1, Shares
<1>3. sold \in Fraction /\ Zero \preceq sold /\ sold \preceq a.qty
  BY <1>1, Shares
<1>4. fee \in Fraction /\ Zero \preceq fee /\ fee \preceq budget
  <2> HIDE DEF budget
  <2> QED
    BY <1>2, Shares, Assumed
<1>5. sold \otimes p \in Fraction /\ Zero \preceq (sold \otimes p)
  <2> HIDE DEF sold
  <2> QED
    BY <1>1, <1>3, Products, Signs
<1>6. cut \in Fraction /\ Zero \preceq cut /\ cut \preceq (sold \otimes p)
  <2> DEFINE t == sold \otimes p
  <2> HIDE DEF t
  <2>1. t \in Fraction /\ Zero \preceq t
    BY <1>5 DEF t
  <2>2. t \otimes FeeRate \in Fraction /\ Zero \preceq (t \otimes FeeRate) /\ (t \otimes FeeRate) \preceq t
    BY <2>1, Shares, Assumed
  <2>3. QED
    BY <2>2 DEF t
<1>7. Fair(a, bought, p) /\ units \in Fraction
  <2> HIDE DEF budget, fee
  <2> QED
    BY <1>2, <1>4, SpotBuyIsFair
<1>8. Fair(a, left, p)
  <2> HIDE DEF sold, cut
  <2> QED
    BY <1>1, <1>3, <1>6, SellIsFair
<1>9. Solvent(bought.acct)
  <2>1. /\ bought.acct.cash = a.cash \ominus budget
        /\ bought.acct.qty = a.qty \oplus units
    BY DEF Outcome, AccountType
  <2>2. Zero \preceq (budget \ominus fee) /\ (budget \ominus fee) \in Fraction
    <3> HIDE DEF budget, fee
    <3> QED
      BY <1>2, <1>4, Ordered, Sums
  <2>3. Zero \preceq units
    <3> DEFINE t == budget \ominus fee
    <3> HIDE DEF t
    <3>1. Zero \preceq (t \oslash p)
      BY <2>2, SignOfQuotient DEF t, IsPrice
    <3>2. QED
      BY <3>1 DEF t
  <2> HIDE DEF budget, fee, units, bought
  <2>4. Zero \preceq (a.cash \ominus budget)
    BY <1>1, <1>2, Ordered
  <2>5. Zero \preceq (a.qty \oplus units)
    <3> DEFINE q == a.qty
    <3>1. q \in Fraction /\ Zero \preceq q
      BY <1>1
    <3> HIDE DEF q
    <3>2. PICK V, S : Reads(V, S) /\ {q, units, q, q, q, q, q, q} \subseteq S
      <4>1. Commensurable(q, units, q, q, q, q, q, q)
        BY <1>7, <3>1, Linear
      <4>2. QED
        BY <4>1 DEF Commensurable
    <3>3. q \in S /\ units \in S
      BY <3>2
    <3>4. Zero \preceq (q \oplus units)
      BY <2>3, <3>1, <3>2, <3>3 DEF Reads
    <3>5. QED
      BY <3>4 DEF q
  <2>6. QED
    BY <2>1, <2>4, <2>5 DEF Solvent
<1>10. Solvent(left.acct)
  <2> DEFINE sp == sold \otimes p
             c == a.cash
  <2>1. /\ left.acct.cash = (c \oplus sp) \ominus cut
        /\ left.acct.qty = a.qty \ominus sold
    <3> HIDE DEF cut, sold
    <3> QED
      BY <1>1, <1>3, <1>6, SellDownIs DEF Outcome
  <2>2. Zero \preceq (a.qty \ominus sold)
    <3> HIDE DEF sold
    <3> QED
      BY <1>1, <1>3, Ordered
  <2>3. c \in Fraction /\ Zero \preceq c /\ sp \in Fraction
    BY <1>1, <1>5
  <2>4. cut \preceq sp
    BY <1>6
  <2> HIDE DEF sp, c, cut, left
  <2>5. PICK V, S : Reads(V, S) /\ {c, sp, cut, c, c, c, c, c} \subseteq S
    <3>1. Commensurable(c, sp, cut, c, c, c, c, c)
      BY <1>6, <2>3, Linear
    <3>2. QED
      BY <3>1 DEF Commensurable
  <2>6. c \in S /\ sp \in S /\ cut \in S
    BY <2>5
  <2>7. Zero \preceq ((c \oplus sp) \ominus cut)
    BY <2>3, <2>4, <2>5, <2>6 DEF Reads
  <2>8. QED
    BY <2>1, <2>2, <2>7 DEF Solvent
<1>11. SpotExecute(a, side, size, p) \in {bought, left, Untouched(a)}
  BY DEF SpotExecute
<1>12. Fair(a, Untouched(a), p) /\ Solvent(Untouched(a).acct)
  BY <1>1, UntouchedIsFair DEF Untouched, Outcome
<1> HIDE DEF bought, left
<1>13. QED
  BY <1>7, <1>8, <1>9, <1>10, <1>11, <1>12

-----------------------------------------------------------------------------

\* A request, whatever its form, asks for a share.
LEMMA ParsedIsShare ==
  ASSUME NEW x, x.form \in {"word", "order", "number"}, x.size \in Fraction
  PROVE  IsShare(ParseAction(x).size)
<1>1. IsShare(Zero) /\ IsShare(One)
  <2>1. Zero \prec One
    <3>1. Frac(0, 1) \prec Frac(1, 1) <=> 0 * 1 < 1 * 1
      BY Constants, FracLess
    <3>2. QED
      BY <3>1, Constants
  <2>2. QED
    BY <2>1, Constants, Trichotomy DEF IsShare
<1>2. \A s \in Fraction : IsShare(Clip(s, Zero, One))
  BY <1>1, ClipIs, Constants DEF IsShare
<1>3. \A s \in Fraction : IsShare(Least(Magnitude(s), One))
  <2>1. ASSUME NEW s \in Fraction PROVE IsShare(Least(Magnitude(s), One))
    <3> DEFINE m == Magnitude(s)
    <3>1. m \in Fraction /\ Zero \preceq m
      BY MagnitudeIs
    <3> HIDE DEF m
    <3>2. /\ Least(m, One) \in {m, One} /\ Least(m, One) \in Fraction
          /\ Least(m, One) \preceq One
      BY <3>1, LeastIs, Constants
    <3>3. IsShare(Least(m, One))
      BY <1>1, <3>1, <3>2 DEF IsShare
    <3>4. QED
      BY <3>3 DEF m
  <2>2. QED
    BY <2>1
<1>4. IsShare(SignedAction(x.size).size)
  BY <1>1, <1>3 DEF SignedAction, Order
<1>5. QED
  BY <1>1, <1>2, <1>4 DEF ParseAction, Order

\* A filled order trades at a price no better than the one it was sent at.
IsFill(fill, p) ==
  fill.status = "filled" =>
    /\ fill.side \in {"buy", "sell", "other"}
    /\ IsPrice(fill.price) /\ fill.qty \in Fraction
    /\ fill.fee \in Fraction /\ Zero \preceq fill.fee
    /\ fill.side = "buy" => p \preceq fill.price
    /\ fill.side = "sell" => fill.price \preceq p

\* Slippage is against whoever trades, and leaves a price.
LEMMA SlippedPrices ==
  ASSUME NEW p, IsPrice(p)
  PROVE  /\ p \otimes Slip \in Fraction /\ Zero \preceq (p \otimes Slip)
         /\ IsPrice(p \oplus (p \otimes Slip)) /\ p \preceq (p \oplus (p \otimes Slip))
         /\ IsPrice(p \ominus (p \otimes Slip)) /\ (p \ominus (p \otimes Slip)) \preceq p
<1> DEFINE s == p \otimes Slip
<1>1. p \in Fraction /\ Zero \preceq p /\ Zero \prec p /\ Zero \in Fraction
  BY Constants, Trichotomy DEF IsPrice
<1>2. s \in Fraction /\ Zero \preceq s /\ s \prec p
  <2>1. p \otimes Slip \prec p \otimes One /\ p \otimes One = p
    BY <1>1, Grows, Units, Assumed, Constants
  <2>2. QED
    BY <1>1, <2>1, Signs, Products, Assumed
<1> HIDE DEF s
<1>3. p \oplus s \in Fraction /\ p \ominus s \in Fraction
  BY <1>1, <1>2, Sums
<1>4. Zero \prec (p \oplus s) /\ p \preceq (p \oplus s) /\ (p \ominus s) \preceq p
  BY <1>1, <1>2, NonNegative
<1>5. Zero \prec (p \ominus s)
  BY <1>1, <1>2, Ordered
<1>6. QED
  BY <1>2, <1>3, <1>4, <1>5 DEF IsPrice, s

\* What simulate_fill answers: cost basis and fee add up to the notional.
LEMMA SimulateFillIs ==
  ASSUME NEW order, order.side \in {"buy", "sell", "hold", "other"}, order.size \in Fraction,
         NEW p, IsPrice(p), NEW equity \in Fraction, Zero \preceq equity
  PROVE  LET fill == SimulateFill(order, p, equity)
             notional == equity \otimes order.size
         IN  /\ fill.status \in {"filled", "skipped"} /\ IsFill(fill, p)
             /\ fill.status = "filled" =>
                  /\ Zero \prec order.size /\ fill.side = order.side
                  /\ notional \in Fraction /\ Zero \preceq notional
                  /\ fill.fee = notional \otimes FeeRate /\ fill.fee \preceq notional
                  /\ fill.qty \otimes fill.price = notional
                  /\ fill.side = "sell" => fill.price = p \ominus (p \otimes Slip)
<1> DEFINE fill == SimulateFill(order, p, equity)
           notional == equity \otimes order.size
           filled == IF order.side = "buy" THEN p \oplus (p \otimes Slip) ELSE p \ominus (p \otimes Slip)
<1>1. CASE order.side = "hold" \/ order.size \preceq Zero
  BY <1>1 DEF SimulateFill, NoFill, IsFill
<1>2. CASE ~ (order.side = "hold" \/ order.size \preceq Zero)
  <2>1. /\ Zero \prec order.size /\ Zero \preceq order.size
    BY <1>2, Trichotomy, Constants
  <2>2. notional \in Fraction /\ Zero \preceq notional
    BY <2>1, Products, Signs
  <2>3. /\ notional \otimes FeeRate \in Fraction /\ Zero \preceq (notional \otimes FeeRate)
        /\ (notional \otimes FeeRate) \preceq notional
    <3> HIDE DEF notional
    <3> QED
      BY <2>2, Shares, Assumed
  <2>4. IsPrice(filled) /\ filled \in Fraction /\ filled # Zero
    BY SlippedPrices, SignOfQuotient DEF IsPrice
  <2>5. notional \oslash filled \in Fraction /\ (notional \oslash filled) \otimes filled = notional
    <3> HIDE DEF notional, filled
    <3> QED
      BY <2>2, <2>4, Over
  <2>6. fill = [status |-> "filled", side |-> order.side, price |-> filled,
                qty |-> notional \oslash filled, fee |-> notional \otimes FeeRate]
    BY <1>2 DEF SimulateFill
  <2>7. /\ order.side = "buy" => p \preceq filled
        /\ order.side = "sell" => filled \preceq p /\ filled = p \ominus (p \otimes Slip)
    BY SlippedPrices
  <2> HIDE DEF fill, notional, filled
  <2>8. IsFill(fill, p)
    BY <1>2, <2>3, <2>4, <2>5, <2>6, <2>7 DEF IsFill
  <2>9. QED
    BY <1>2, <2>1, <2>2, <2>3, <2>5, <2>6, <2>7, <2>8 DEF fill, notional
<1>3. QED
  BY <1>1, <1>2

LEMMA Gap ==
  ASSUME NEW a \in Fraction, NEW b \in Fraction, a \preceq b
  PROVE  /\ Magnitude(a \ominus b) = b \ominus a /\ Magnitude(b \ominus a) = b \ominus a
         /\ b \ominus a \in Fraction /\ Zero \preceq (b \ominus a)
<1> DEFINE x == a \ominus b
           y == b \ominus a
<1>1. x \in Fraction /\ y \in Fraction
  BY Sums
<1>2. PICK V, S : Reads(V, S) /\ {a, b, a, a, a, a, a, a} \subseteq S
  <2>1. Commensurable(a, b, a, a, a, a, a, a)
    BY Linear
  <2>2. QED
    BY <2>1 DEF Commensurable
<1>3. a \in S /\ b \in S
  BY <1>2
<1>4. Zero \ominus x = y /\ Zero \preceq y /\ (x \prec Zero \/ x = y)
  BY <1>2, <1>3 DEF Reads
<1> HIDE DEF x, y
<1>5. Magnitude(x) = y
  BY <1>1, <1>4, MagnitudeIs
<1>6. Magnitude(y) = y
  BY <1>1, <1>4, MagnitudeIs, Trichotomy, Constants
<1>7. QED
  BY <1>1, <1>4, <1>5, <1>6 DEF x, y

\* A buy costs its fee and its slippage, and nothing else changes the worth.
LEMMA BuyFillIsFair ==
  ASSUME NEW a \in AccountType, NEW p, IsPrice(p), NEW fill, IsFill(fill, p),
         fill.status = "filled", fill.side = "buy", Zero \preceq fill.qty
  PROVE  LET new == [a EXCEPT !.cash = @ \ominus ((fill.qty \otimes fill.price) \oplus fill.fee),
                              !.qty = @ \oplus fill.qty]
         IN  /\ Fair(a, Outcome(new, fill.fee \oplus Slippage(fill.qty, fill, p), TRUE), p)
             /\ Zero \preceq a.qty => Zero \preceq new.qty
<1> DEFINE new == [a EXCEPT !.cash = @ \ominus ((fill.qty \otimes fill.price) \oplus fill.fee),
                            !.qty = @ \oplus fill.qty]
           c == a.cash
           Qp == a.qty \otimes p
           qp == fill.qty \otimes p
           qf == fill.qty \otimes fill.price
           fee == fill.fee
           cost == fee \oplus (qf \ominus qp)
<1>1. /\ p \in Fraction /\ fill.price \in Fraction /\ fill.qty \in Fraction
      /\ fee \in Fraction /\ Zero \preceq fee /\ p \preceq fill.price
  BY DEF IsFill, IsPrice
<1>2. c \in Fraction /\ a.qty \in Fraction /\ a.entry \in Fraction
      /\ Qp \in Fraction /\ qp \in Fraction /\ qf \in Fraction /\ Worth(a, p) = c \oplus Qp
  BY <1>1, Fields, Products
<1>3. Slippage(fill.qty, fill, p) = qf \ominus qp
  BY <1>1, Gap, Distributes DEF Slippage
<1>4. qp \preceq qf
  BY <1>1, Grows
<1>5. /\ new \in AccountType /\ new.cash = c \ominus (qf \oplus fee)
      /\ new.qty = a.qty \oplus fill.qty
  <2>1. qf \oplus fee \in Fraction
    BY <1>1, <1>2, Sums
  <2>2. c \ominus (qf \oplus fee) \in Fraction /\ a.qty \oplus fill.qty \in Fraction
    BY <1>1, <1>2, <2>1, Sums
  <2>3. QED
    BY <1>2, <2>2 DEF AccountType
<1>6. Worth(new, p) = (c \ominus (qf \oplus fee)) \oplus (Qp \oplus qp)
  BY <1>1, <1>2, <1>5, Distributes DEF Worth
<1>7. Zero \preceq a.qty => Zero \preceq new.qty
  BY <1>1, <1>2, <1>5, NonNegative
<1> HIDE DEF c, Qp, qp, qf, fee, new
<1>8. PICK V, S : Reads(V, S) /\ {c, Qp, qp, qf, fee, c, c, c} \subseteq S
  <2>1. Commensurable(c, Qp, qp, qf, fee, c, c, c)
    BY <1>1, <1>2, Linear
  <2>2. QED
    BY <2>1 DEF Commensurable
<1>9. c \in S /\ Qp \in S /\ qp \in S /\ qf \in S /\ fee \in S
  BY <1>8
<1>10. (c \ominus (qf \oplus fee)) \oplus (Qp \oplus qp) = (c \oplus Qp) \ominus cost
  BY <1>8, <1>9 DEF Reads
<1>11. cost \in Fraction /\ Zero \preceq cost
  BY <1>1, <1>4, <1>8, <1>9 DEF Reads
<1>12. Outcome(new, fill.fee \oplus Slippage(fill.qty, fill, p), TRUE) = Outcome(new, cost, TRUE)
  BY <1>3 DEF fee
<1> HIDE DEF cost
<1>13. Fair(a, Outcome(new, cost, TRUE), p)
  BY <1>2, <1>5, <1>6, <1>10, <1>11 DEF Fair, Types, Outcome
<1>14. QED
  BY <1>7, <1>12, <1>13 DEF new

\* So does a sale, of whatever part of the position.
LEMMA SellFillIsFair ==
  ASSUME NEW a \in AccountType, NEW p, IsPrice(p), NEW fill, IsFill(fill, p),
         fill.status = "filled", fill.side = "sell", NEW sold \in Fraction, Zero \preceq sold
  PROVE  Fair(a, Outcome(SellDown(a, sold, fill.price, fill.fee),
                         fill.fee \oplus Slippage(sold, fill, p), TRUE), p)
<1> DEFINE new == SellDown(a, sold, fill.price, fill.fee)
           c == a.cash
           Qp == a.qty \otimes p
           sp == sold \otimes p
           sf == sold \otimes fill.price
           fee == fill.fee
           cost == fee \oplus (sp \ominus sf)
<1>1. /\ p \in Fraction /\ fill.price \in Fraction
      /\ fee \in Fraction /\ Zero \preceq fee /\ fill.price \preceq p
  BY DEF IsFill, IsPrice
<1>2. c \in Fraction /\ a.qty \in Fraction
      /\ Qp \in Fraction /\ sp \in Fraction /\ sf \in Fraction /\ Worth(a, p) = c \oplus Qp
  BY <1>1, Fields, Products
<1>3. Slippage(sold, fill, p) = sp \ominus sf
  BY <1>1, Gap, Distributes DEF Slippage
<1>4. sf \preceq sp
  BY <1>1, Grows
<1>5. /\ new \in AccountType /\ new.cash = (c \oplus sf) \ominus fee
      /\ new.qty = a.qty \ominus sold
  <2> DEFINE fp == fill.price
  <2>1. fp \in Fraction /\ fee \in Fraction
    BY <1>1
  <2> HIDE DEF fp, fee
  <2>2. LET s == SellDown(a, sold, fp, fee)
        IN  /\ s \in AccountType /\ s.cash = (a.cash \oplus (sold \otimes fp)) \ominus fee
            /\ s.qty = a.qty \ominus sold
    BY <2>1, SellDownIs
  <2>3. QED
    BY <2>2 DEF fp, fee
<1>6. Worth(new, p) = ((c \oplus sf) \ominus fee) \oplus (Qp \ominus sp)
  BY <1>1, <1>2, <1>5, Distributes DEF Worth
<1> HIDE DEF c, Qp, sp, sf, fee, new
<1>8. PICK V, S : Reads(V, S) /\ {c, Qp, sp, sf, fee, c, c, c} \subseteq S
  <2>1. Commensurable(c, Qp, sp, sf, fee, c, c, c)
    BY <1>1, <1>2, Linear
  <2>2. QED
    BY <2>1 DEF Commensurable
<1>9. c \in S /\ Qp \in S /\ sp \in S /\ sf \in S /\ fee \in S
  BY <1>8
<1>10. ((c \oplus sf) \ominus fee) \oplus (Qp \ominus sp) = (c \oplus Qp) \ominus cost
  BY <1>8, <1>9 DEF Reads
<1>11. cost \in Fraction /\ Zero \preceq cost
  BY <1>1, <1>4, <1>8, <1>9 DEF Reads
<1>12. Outcome(SellDown(a, sold, fill.price, fill.fee), fill.fee \oplus Slippage(sold, fill, p), TRUE)
         = Outcome(new, cost, TRUE)
  BY <1>3 DEF fee, new
<1> HIDE DEF cost
<1>13. Fair(a, Outcome(new, cost, TRUE), p)
  BY <1>2, <1>5, <1>6, <1>10, <1>11 DEF Fair, Types, Outcome
<1>14. QED
  BY <1>12, <1>13

\* The portfolio's books.
LEMMA ApplyFillIsFair ==
  ASSUME NEW a \in AccountType, Zero \preceq a.qty, NEW p, IsPrice(p), NEW fill, IsFill(fill, p)
  PROVE  LET out == ApplyFillSingle(a, fill, p)
         IN  /\ Fair(a, out, p) /\ Zero \preceq out.acct.qty
             /\ fill.side = "buy" /\ Zero \preceq a.cash => Zero \preceq out.acct.cash
             /\ \/ out = Untouched(a)
                \/ /\ fill.status = "filled" /\ fill.side = "buy"
                \/ /\ fill.status = "filled" /\ fill.side = "sell" /\ Zero \prec fill.qty
                   /\ out.acct = SellDown(a, Least(fill.qty, a.qty), fill.price, fill.fee)
<1> DEFINE due == (fill.qty \otimes fill.price) \oplus fill.fee
           bought == [a EXCEPT !.cash = @ \ominus due, !.qty = @ \oplus fill.qty]
           paid == Outcome(bought, fill.fee \oplus Slippage(fill.qty, fill, p), TRUE)
           sold == Least(fill.qty, a.qty)
           left == SellDown(a, sold, fill.price, fill.fee)
           taken == Outcome(left, fill.fee \oplus Slippage(sold, fill, p), TRUE)
           buys == /\ fill.status = "filled" /\ fill.side = "buy"
                   /\ Zero \prec fill.qty /\ due \preceq a.cash
           sells == fill.status = "filled" /\ fill.side = "sell" /\ Zero \prec fill.qty
<1>1. /\ buys => ApplyFillSingle(a, fill, p) = paid
      /\ sells => ApplyFillSingle(a, fill, p) = taken
      /\ ~buys /\ ~sells => ApplyFillSingle(a, fill, p) = Untouched(a)
  BY DEF ApplyFillSingle
<1>2. p \in Fraction /\ a.cash \in Fraction /\ a.qty \in Fraction /\ Zero \in Fraction
  BY Fields, Constants DEF IsPrice
<1>3. CASE buys
  <2>1. fill.qty \in Fraction /\ Zero \preceq fill.qty
    BY <1>2, <1>3, Trichotomy DEF IsFill
  <2>2. Fair(a, paid, p) /\ Zero \preceq bought.qty
    BY <1>3, <2>1, BuyFillIsFair
  <2>3. Zero \preceq bought.cash
    <3>1. due \in Fraction
      BY <1>3, Products, Sums DEF IsFill, IsPrice
    <3>2. bought.cash = a.cash \ominus due
      BY DEF AccountType
    <3> HIDE DEF due
    <3>3. QED
      BY <1>2, <1>3, <3>1, <3>2, Ordered
  <2>4. paid.acct = bought
    BY DEF Outcome
  <2> HIDE DEF paid, bought
  <2>5. QED
    BY <1>1, <1>3, <2>2, <2>3, <2>4
<1>4. CASE sells
  <2>1. fill.qty \in Fraction /\ Zero \preceq fill.qty
    BY <1>2, <1>4, Trichotomy DEF IsFill
  <2>2. sold \in Fraction /\ Zero \preceq sold /\ sold \preceq a.qty
    BY <1>2, <2>1, LeastIs
  <2>3. Fair(a, taken, p)
    <3> HIDE DEF sold
    <3> QED
      BY <1>4, <2>2, SellFillIsFair
  <2>4. left.qty = a.qty \ominus sold
    <3> DEFINE fp == fill.price
               fee == fill.fee
    <3>1. fp \in Fraction /\ fee \in Fraction
      BY <1>4 DEF IsFill, IsPrice
    <3> HIDE DEF sold, fp, fee
    <3>2. SellDown(a, sold, fp, fee).qty = a.qty \ominus sold
      BY <2>2, <3>1, SellDownIs
    <3>3. QED
      BY <3>2 DEF fp, fee
  <2>5. Zero \preceq left.qty
    <3> HIDE DEF sold
    <3> QED
      BY <1>2, <2>2, <2>4, Ordered
  <2>6. taken.acct = left
    BY DEF Outcome
  <2> HIDE DEF taken
  <2>7. QED
    BY <1>1, <1>4, <2>3, <2>5, <2>6
<1>5. CASE ~buys /\ ~sells
  BY <1>1, <1>2, <1>5, UntouchedIsFair DEF Untouched, Outcome
<1>6. QED
  BY <1>3, <1>4, <1>5

\* A sell pays the whole fee even if it is clipped: the proceeds and the cash
\* cover it, since an order is at most RiskFraction of the equity.
LEMMA SellIsCovered ==
  ASSUME NEW a \in AccountType, Solvent(a), NEW p, IsPrice(p),
         NEW order, order.side = "sell", order.size \in Fraction, order.size \preceq RiskFraction,
         NEW fill, fill = SimulateFill(order, p, Worth(a, p)), fill.status = "filled"
  PROVE  Zero \preceq SellDown(a, Least(fill.qty, a.qty), fill.price, fill.fee).cash
<1> DEFINE c == a.cash
           q == a.qty
           qp == q \otimes p
           w == c \oplus qp
           size == order.size
           notional == w \otimes size
           fp == p \ominus (p \otimes Slip)
           fee == notional \otimes FeeRate
           sold == Least(fill.qty, q)
<1>1. /\ p \in Fraction /\ Zero \preceq p /\ c \in Fraction /\ q \in Fraction /\ Zero \in Fraction
      /\ Zero \preceq c /\ Zero \preceq q /\ One \in Fraction
  BY Fields, Constants, Trichotomy DEF IsPrice, Solvent
<1>2. qp \in Fraction /\ Zero \preceq qp
  BY <1>1, Products, Signs
<1>3. w \in Fraction /\ Zero \preceq w /\ Worth(a, p) = w
  <2> HIDE DEF qp
  <2>1. w \in Fraction /\ Zero \preceq w
    BY <1>1, <1>2, Sums, NonNegative
  <2>2. QED
    BY <1>1, <2>1, Fields DEF qp
<1>4. /\ Zero \prec size /\ fill.side = "sell" /\ notional \in Fraction /\ Zero \preceq notional
      /\ fill.fee = fee /\ fee \preceq notional /\ fill.qty \otimes fill.price = notional
      /\ fill.price = fp /\ IsFill(fill, p)
  <2> HIDE DEF w
  <2>1. LET f == SimulateFill(order, p, w)
        IN  /\ IsFill(f, p)
            /\ f.status = "filled" =>
                 /\ Zero \prec size /\ f.side = order.side
                 /\ notional \in Fraction /\ Zero \preceq notional
                 /\ f.fee = fee /\ f.fee \preceq notional
                 /\ f.qty \otimes f.price = notional
                 /\ f.side = "sell" => f.price = fp
    BY <1>3, SimulateFillIs
  <2> HIDE DEF notional, fee, fp
  <2>2. QED
    BY <1>3, <2>1
<1>5. /\ fill.qty \in Fraction /\ fp \in Fraction /\ Zero \prec fp /\ fee \in Fraction
      /\ Zero \preceq fee
  <2> HIDE DEF fp, fee
  <2> QED
    BY <1>4 DEF IsFill, IsPrice
<1>6. sold \in {fill.qty, q} /\ sold \in Fraction
  BY <1>1, <1>5, LeastIs
<1>7. /\ sold \otimes fp \in Fraction
      /\ SellDown(a, sold, fp, fee).cash = (c \oplus (sold \otimes fp)) \ominus fee
  <2> HIDE DEF sold, fp, fee
  <2> QED
    BY <1>5, <1>6, SellDownIs, Products
<1>8. CASE sold = fill.qty
  <2> DEFINE t == sold \otimes fp
  <2>1. t = notional /\ t \in Fraction
    BY <1>4, <1>7, <1>8
  <2> HIDE DEF fee, notional, c, t
  <2>2. PICK V, S : Reads(V, S) /\ {c, t, fee, c, c, c, c, c} \subseteq S
    <3>1. Commensurable(c, t, fee, c, c, c, c, c)
      BY <1>1, <1>5, <2>1, Linear
    <3>2. QED
      BY <3>1 DEF Commensurable
  <2>3. c \in S /\ t \in S /\ fee \in S
    BY <2>2
  <2>4. Zero \preceq ((c \oplus t) \ominus fee)
    BY <1>1, <1>4, <2>1, <2>2, <2>3 DEF Reads
  <2>5. QED
    BY <1>4, <1>7, <2>4 DEF t
<1>9. CASE sold = q
  <2> DEFINE k == size \otimes FeeRate
             qs == qp \otimes Slip
  <2>1. k \in Fraction /\ Zero \preceq k /\ k \preceq One /\ k \preceq (One \ominus Slip)
    <3>1. Zero \preceq size /\ RiskFraction \in Fraction /\ FeeRate \in Fraction /\ Zero \preceq FeeRate
          /\ Slip \in Fraction /\ Zero \preceq Slip
          /\ (RiskFraction \otimes FeeRate) \preceq (One \ominus Slip)
      BY <1>1, <1>4, Trichotomy, Assumed DEF IsShare
    <3>2. k \in Fraction /\ Zero \preceq k
      BY <3>1, Products, Signs
    <3>3. k \preceq (RiskFraction \otimes FeeRate) /\ RiskFraction \otimes FeeRate \in Fraction
      BY <3>1, Grows, Products
    <3>4. One \ominus Slip \in Fraction /\ (One \ominus Slip) \preceq One
      BY <1>1, <3>1, NonNegative, Sums
    <3> HIDE DEF k
    <3>5. k \preceq (One \ominus Slip)
      <4> DEFINE x == RiskFraction \otimes FeeRate
                 y == One \ominus Slip
      <4>1. x \in Fraction /\ y \in Fraction /\ k \preceq x /\ x \preceq y
        BY <3>1, <3>3, <3>4
      <4> HIDE DEF x, y
      <4>2. k \preceq y
        BY <3>2, <4>1, Ordered
      <4>3. QED
        BY <4>2 DEF y
    <3>6. k \preceq One
      <4> DEFINE y == One \ominus Slip
      <4>1. y \in Fraction /\ k \preceq y /\ y \preceq One
        BY <3>4, <3>5
      <4> HIDE DEF y
      <4>2. QED
        BY <1>1, <3>2, <4>1, Ordered
    <3>7. QED
      BY <3>2, <3>5, <3>6
  <2>2. fee = (c \otimes k) \oplus (qp \otimes k) /\ c \otimes k \in Fraction /\ qp \otimes k \in Fraction
    <3> HIDE DEF qp
    <3>1. fee = w \otimes k /\ w = c \oplus qp
      <4>1. w = c \oplus qp
        OBVIOUS
      <4> HIDE DEF w
      <4> QED
        BY <1>3, <4>1, Associates, Assumed DEF IsShare
    <3> HIDE DEF k, fee, w, c
    <3>2. (c \oplus qp) \otimes k = (c \otimes k) \oplus (qp \otimes k)
      BY <1>1, <1>2, <2>1, Distributes
    <3>3. QED
      BY <1>1, <1>2, <2>1, <3>1, <3>2, Products
  <2>3. (c \otimes k) \preceq c
    <3> HIDE DEF k
    <3> QED
      BY <1>1, <2>1, Grows, Units
  <2>4. (qp \otimes k) \preceq (qp \ominus qs) /\ qs \in Fraction
    <3> HIDE DEF k, qp
    <3>1. (qp \otimes k) \preceq (qp \otimes (One \ominus Slip)) /\ One \ominus Slip \in Fraction
      BY <1>1, <1>2, <2>1, Grows, Sums, Assumed
    <3>2. qp \otimes (One \ominus Slip) = qp \ominus qs /\ qs \in Fraction
      BY <1>1, <1>2, Distributes, Units, Products, Assumed
    <3>3. QED
      BY <3>1, <3>2
  <2>5. sold \otimes fp = qp \ominus qs
    <3>1. p \otimes Slip \in Fraction /\ q \otimes (p \otimes Slip) = qs
      <4>1. Slip \in Fraction
        BY Assumed
      <4>2. p \otimes Slip \in Fraction
        BY <1>1, <4>1, Products
      <4>3. (q \otimes p) \otimes Slip = q \otimes (p \otimes Slip)
        <5> HIDE DEF q
        <5> QED
          BY <1>1, <4>1, Associates
      <4>4. QED
        BY <4>2, <4>3
    <3>2. q \otimes fp = qp \ominus (q \otimes (p \otimes Slip))
      <4> DEFINE x == p \otimes Slip
      <4> HIDE DEF x
      <4>1. q \otimes (p \ominus x) = (q \otimes p) \ominus (q \otimes x)
        BY <1>1, <3>1, Distributes DEF x
      <4>2. QED
        BY <4>1 DEF x
    <3> HIDE DEF fp, qp, qs
    <3>3. QED
      BY <1>9, <3>1, <3>2
  <2> DEFINE ck == c \otimes k
             qk == qp \otimes k
  <2>6. ck \in Fraction /\ qk \in Fraction /\ fee = ck \oplus qk /\ ck \preceq c
        /\ qk \preceq (qp \ominus qs)
    BY <2>2, <2>3, <2>4
  <2> HIDE DEF fee, c, qp, qs, ck, qk, sold, fp
  <2>7. PICK V, S : Reads(V, S) /\ {c, qp, qs, ck, qk, c, c, c} \subseteq S
    <3>1. Commensurable(c, qp, qs, ck, qk, c, c, c)
      BY <1>1, <1>2, <2>4, <2>6, Linear
    <3>2. QED
      BY <3>1 DEF Commensurable
  <2>8. c \in S /\ qp \in S /\ qs \in S /\ ck \in S /\ qk \in S
    BY <2>7
  <2>9. Zero \preceq ((c \oplus (qp \ominus qs)) \ominus (ck \oplus qk))
    BY <2>6, <2>7, <2>8 DEF Reads
  <2>10. QED
    BY <1>4, <1>7, <2>5, <2>6, <2>9 DEF sold
<1>10. QED
  BY <1>6, <1>8, <1>9

\* A new account holds the initial cash.
LEMMA FreshIs ==
  /\ Fresh \in AccountType /\ Solvent(Fresh)
  /\ Fresh.cash = InitialCash /\ Fresh.qty = Zero /\ Fresh.entry = Zero
  /\ \A p \in Fraction : Worth(Fresh, p) = InitialCash /\ FuturesWorth(Fresh, p) = InitialCash
<1>1. InitialCash \in Fraction /\ Zero \in Fraction /\ Zero \prec InitialCash
  BY Assumed, Constants
<1>2. Fresh \in AccountType /\ Solvent(Fresh)
  BY <1>1, Trichotomy DEF Fresh, AccountType, Solvent
<1>3. \A p \in Fraction : Worth(Fresh, p) = InitialCash
  BY <1>1, Units, NonNegative DEF Fresh, Worth
<1>4. \A p \in Fraction : FuturesWorth(Fresh, p) = InitialCash
  BY <1>1, Units, NonNegative, Sums DEF Fresh, FuturesWorth
<1>5. QED
  BY <1>2, <1>3, <1>4 DEF Fresh

LEMMA FreshSells ==
  ASSUME NEW p \in Fraction, NEW fee \in Fraction
  PROVE  SellDown(Fresh, Zero, p, fee).cash = InitialCash \ominus fee
<1>1. SellDown(Fresh, Zero, p, fee).cash = (InitialCash \oplus (Zero \otimes p)) \ominus fee
  BY DEF SellDown, Fresh
<1>2. QED
  BY <1>1, Assumed, Units, NonNegative

\* An order of the flow, applied to a fresh portfolio, leaves no debt and no
\* more than the portfolio had.
LEMMA FlowIsFair ==
  ASSUME NEW order, order.side \in {"buy", "sell", "hold", "other"}, order.size \in Fraction,
         order.size \preceq One,
         NEW p, IsPrice(p), NEW equity \in Fraction, Zero \preceq equity, equity \preceq InitialCash,
         NEW fill, fill = SimulateFill(order, p, equity),
         NEW out, out \in {ApplyFillSingle(Fresh, fill, p), ApplyFillMulti(Fresh, fill, p)}
  PROVE  /\ Fair(Fresh, out, p) /\ Solvent(out.acct)
         /\ Worth(out.acct, p) \in Fraction
         /\ Zero \preceq Worth(out.acct, p) /\ Worth(out.acct, p) \preceq InitialCash
<1> DEFINE one == ApplyFillSingle(Fresh, fill, p)
<1>1. /\ p \in Fraction /\ Zero \preceq p /\ InitialCash \in Fraction /\ Zero \in Fraction
      /\ One \in Fraction /\ Zero \preceq InitialCash
  BY Assumed, Constants, Trichotomy DEF IsPrice
<1>2. /\ IsFill(fill, p)
      /\ fill.status = "filled" =>
           /\ Zero \prec order.size
           /\ equity \otimes order.size \in Fraction /\ fill.fee \preceq (equity \otimes order.size)
  BY SimulateFillIs
<1>3. /\ Fair(Fresh, one, p) /\ Zero \preceq one.acct.qty
      /\ fill.side = "buy" /\ Zero \preceq Fresh.cash => Zero \preceq one.acct.cash
      /\ \/ one = Untouched(Fresh)
         \/ /\ fill.status = "filled" /\ fill.side = "buy"
         \/ /\ fill.status = "filled" /\ fill.side = "sell" /\ Zero \prec fill.qty
            /\ one.acct = SellDown(Fresh, Least(fill.qty, Fresh.qty), fill.price, fill.fee)
  BY <1>1, <1>2, FreshIs, Trichotomy, ApplyFillIsFair
<1>4. Zero \preceq one.acct.cash
  <2>1. CASE one = Untouched(Fresh)
    BY <1>1, <2>1, FreshIs DEF Untouched, Outcome
  <2>2. CASE fill.status = "filled" /\ fill.side = "buy"
    BY <1>1, <1>3, <2>2, FreshIs
  <2>3. CASE /\ fill.status = "filled" /\ fill.side = "sell" /\ Zero \prec fill.qty
             /\ one.acct = SellDown(Fresh, Least(fill.qty, Fresh.qty), fill.price, fill.fee)
    <3> DEFINE fee == fill.fee
               fp == fill.price
    <3>1. fee \in Fraction /\ fp \in Fraction /\ fill.qty \in Fraction
      BY <1>2, <2>3 DEF IsFill, IsPrice
    <3>2. Least(fill.qty, Fresh.qty) = Zero
      BY <1>1, <2>3, <3>1, FreshIs, LeastIs
    <3>3. fee \preceq InitialCash
      <4> DEFINE n == equity \otimes order.size
      <4>1. n \in Fraction /\ fee \preceq n /\ Zero \preceq order.size
        BY <1>1, <1>2, <2>3, Trichotomy
      <4>2. n \preceq equity
        BY <1>1, <4>1, Grows, Units
      <4> HIDE DEF n, fee
      <4>3. fee \preceq equity
        BY <3>1, <4>1, <4>2, Ordered
      <4>4. QED
        BY <1>1, <3>1, <4>3, Ordered
    <3> HIDE DEF fee, fp
    <3>5. SellDown(Fresh, Zero, fp, fee).cash = InitialCash \ominus fee
      BY <3>1, FreshSells
    <3>6. Zero \preceq (InitialCash \ominus fee)
      BY <1>1, <3>1, <3>3, Ordered
    <3>7. QED
      BY <2>3, <3>2, <3>5, <3>6 DEF fee, fp
  <2>4. QED
    BY <1>3, <2>1, <2>2, <2>3
<1>5. Fair(Fresh, out, p) /\ Solvent(out.acct)
  <2>1. out = one \/ out = Untouched(Fresh)
    BY DEF ApplyFillMulti
  <2>2. Fair(Fresh, Untouched(Fresh), p) /\ Solvent(Untouched(Fresh).acct)
    BY <1>1, FreshIs, UntouchedIsFair DEF Untouched, Outcome
  <2> HIDE DEF one
  <2>3. QED
    BY <1>3, <1>4, <2>1, <2>2 DEF Solvent
<1>6. /\ out.acct \in AccountType /\ out.cost \in Fraction /\ Zero \preceq out.cost
      /\ Worth(out.acct, p) = InitialCash \ominus out.cost
  BY <1>1, <1>5, FreshIs DEF Fair, Types
<1> DEFINE cost == out.cost
           w == Worth(out.acct, p)
           c == out.acct.cash
           v == out.acct.qty \otimes p
<1>7. w = InitialCash \ominus cost /\ cost \in Fraction /\ Zero \preceq cost
  BY <1>6
<1>8. w = c \oplus v /\ c \in Fraction /\ v \in Fraction /\ Zero \preceq c /\ Zero \preceq v
  BY <1>1, <1>5, <1>6, Fields, Signs DEF Solvent
<1> HIDE DEF cost, w, c, v
<1>9. w \in Fraction /\ w \preceq InitialCash /\ Zero \preceq w
  <2>1. w \in Fraction
    BY <1>8, Sums
  <2>2. w \preceq InitialCash
    BY <1>1, <1>7, NonNegative
  <2>3. Zero \preceq w
    BY <1>8, NonNegative
  <2>4. QED
    BY <2>1, <2>2, <2>3
<1>10. QED
  BY <1>5, <1>9 DEF w

-----------------------------------------------------------------------------

FairFutures(a, out, price) ==
  /\ Types(out) /\ Zero \preceq out.cost
  /\ FuturesWorth(out.acct, price) = FuturesWorth(a, price) \ominus out.cost

\* The equity of a margin account: cash and unrealized profit.
LEMMA FuturesWorthIs ==
  ASSUME NEW a \in AccountType, NEW p \in Fraction
  PROVE  /\ a.qty \otimes p \in Fraction /\ a.qty \otimes a.entry \in Fraction
         /\ FuturesWorth(a, p) = a.cash \oplus ((a.qty \otimes p) \ominus (a.qty \otimes a.entry))
         /\ FuturesWorth(a, p) \in Fraction
<1>1. a.cash \in Fraction /\ a.qty \in Fraction /\ a.entry \in Fraction
  BY Fields
<1> DEFINE x == a.qty \otimes p
           y == a.qty \otimes a.entry
<1>2. x \in Fraction /\ y \in Fraction
  BY <1>1, Products
<1>3. FuturesWorth(a, p) = a.cash \oplus (x \ominus y)
  BY <1>1, Distributes DEF FuturesWorth
<1> HIDE DEF x, y
<1>4. a.cash \oplus (x \ominus y) \in Fraction
  BY <1>1, <1>2, Sums
<1>5. QED
  BY <1>2, <1>3, <1>4 DEF x, y

\* A fee lowers the worth by itself.
LEMMA ChargedIs ==
  ASSUME NEW a \in AccountType, NEW p \in Fraction, NEW fee \in Fraction
  PROVE  /\ Charged(a, fee) \in AccountType /\ Charged(a, fee).cash = a.cash \ominus fee
         /\ Charged(a, fee).qty = a.qty /\ Charged(a, fee).entry = a.entry
         /\ FuturesWorth(Charged(a, fee), p) = FuturesWorth(a, p) \ominus fee
         /\ Worth(Charged(a, fee), p) = Worth(a, p) \ominus fee
<1> DEFINE b == Charged(a, fee)
           c == a.cash
           x == a.qty \otimes p
           y == a.qty \otimes a.entry
<1>1. c \in Fraction /\ a.qty \in Fraction /\ a.entry \in Fraction /\ c \ominus fee \in Fraction
  BY Fields, Sums
<1>2. b \in AccountType /\ b.cash = c \ominus fee /\ b.qty = a.qty /\ b.entry = a.entry
  BY <1>1 DEF Charged, AccountType
<1> HIDE DEF b
<1>3. /\ x \in Fraction /\ y \in Fraction
      /\ FuturesWorth(a, p) = c \oplus (x \ominus y) /\ Worth(a, p) = c \oplus x
  BY FuturesWorthIs, Fields
<1>4. FuturesWorth(b, p) = (c \ominus fee) \oplus (x \ominus y) /\ Worth(b, p) = (c \ominus fee) \oplus x
  BY <1>2, FuturesWorthIs, Fields
<1> HIDE DEF c, x, y
<1>5. PICK V, S : Reads(V, S) /\ {c, fee, x, y, c, c, c, c} \subseteq S
  <2>1. Commensurable(c, fee, x, y, c, c, c, c)
    BY <1>1, <1>3, Linear
  <2>2. QED
    BY <2>1 DEF Commensurable
<1>6. c \in S /\ fee \in S /\ x \in S /\ y \in S
  BY <1>5
<1>7. /\ (c \ominus fee) \oplus (x \ominus y) = (c \oplus (x \ominus y)) \ominus fee
      /\ (c \ominus fee) \oplus x = (c \oplus x) \ominus fee
  BY <1>5, <1>6 DEF Reads
<1>8. QED
  BY <1>2, <1>3, <1>4, <1>7 DEF b, c

\* Opening at the price the worth is taken at changes no worth.
LEMMA OpenLongIs ==
  ASSUME NEW a \in AccountType, NEW p \in Fraction, NEW units \in Fraction
  PROVE  LET new == OpenLong(a, units, p)
         IN  /\ new \in AccountType /\ new.cash = a.cash /\ new.qty = a.qty \oplus units
             /\ a.qty \oplus units # Zero => FuturesWorth(new, p) = FuturesWorth(a, p)
<1> DEFINE new == OpenLong(a, units, p)
           c == a.cash
           qty == a.qty \oplus units
           x == a.qty \otimes p
           y == a.qty \otimes a.entry
           u == units \otimes p
           e == (y \oplus u) \oslash qty
<1>1. /\ c \in Fraction /\ a.qty \in Fraction /\ a.entry \in Fraction /\ Zero \in Fraction
      /\ qty \in Fraction /\ x \in Fraction /\ y \in Fraction /\ u \in Fraction
  BY Fields, Sums, Products, Constants
<1>2. y \oplus u \in Fraction
  <2> HIDE DEF y, u
  <2> QED
    BY <1>1, Sums
<1>3. qty # Zero => e \in Fraction /\ e \otimes qty = y \oplus u
  <2> DEFINE s == y \oplus u
  <2>1. s \in Fraction
    BY <1>2
  <2> HIDE DEF s, qty
  <2>2. qty # Zero => s \oslash qty \in Fraction /\ (s \oslash qty) \otimes qty = s
    BY <1>1, <2>1, Over
  <2>3. QED
    BY <2>2 DEF s
<1>4. new = [a EXCEPT !.qty = qty, !.entry = IF qty = Zero THEN Zero ELSE e]
  BY DEF OpenLong, Blended
<1> HIDE DEF qty, e, new
<1>5. /\ new \in AccountType /\ new.cash = c /\ new.qty = qty
      /\ qty # Zero => new.entry = e
  BY <1>1, <1>3, <1>4 DEF AccountType
<1>6. ASSUME qty # Zero PROVE FuturesWorth(new, p) = FuturesWorth(a, p)
  <2>1. FuturesWorth(new, p) = c \oplus ((qty \otimes p) \ominus (qty \otimes e))
    BY <1>5, <1>6, FuturesWorthIs
  <2>2. qty \otimes p = x \oplus u
    BY <1>1, Distributes DEF qty
  <2>3. qty \otimes e = y \oplus u
    BY <1>1, <1>3, <1>6, Products
  <2>4. FuturesWorth(a, p) = c \oplus (x \ominus y)
    BY FuturesWorthIs
  <2> HIDE DEF c, x, y, u
  <2>5. PICK V, S : Reads(V, S) /\ {c, x, y, u, c, c, c, c} \subseteq S
    <3>1. Commensurable(c, x, y, u, c, c, c, c)
      BY <1>1, Linear
    <3>2. QED
      BY <3>1 DEF Commensurable
  <2>6. c \in S /\ x \in S /\ y \in S /\ u \in S
    BY <2>5
  <2>7. c \oplus ((x \oplus u) \ominus (y \oplus u)) = c \oplus (x \ominus y)
    BY <2>5, <2>6 DEF Reads
  <2>8. QED
    BY <2>1, <2>2, <2>3, <2>4, <2>7
<1>7. QED
  BY <1>5, <1>6 DEF new, qty

\* Adding to a short at the averaged entry keeps the equity, unless the entry is
\* negative: its sign is dropped.
LEMMA OpenShortIs ==
  ASSUME NEW a \in AccountType, NEW p \in Fraction, NEW units \in Fraction
  PROVE  LET new == OpenShort(a, units, p)
         IN  /\ new \in AccountType /\ new.cash = a.cash
             /\ a.qty \preceq Zero /\ Zero \prec units /\ (a.qty \prec Zero => Zero \preceq a.entry) =>
                  FuturesWorth(new, p) = FuturesWorth(a, p)
<1> DEFINE new == OpenShort(a, units, p)
           c == a.cash
           q == a.qty
           sold == IF Zero \prec q THEN Least(units, q) ELSE units
           qty == q \ominus sold
           s == (Magnitude(q) \otimes Magnitude(a.entry)) \oplus (sold \otimes p)
           m == Magnitude(qty)
           e == s \oslash m
<1>1. c \in Fraction /\ q \in Fraction /\ a.entry \in Fraction /\ Zero \in Fraction
  BY Fields, Constants
<1>2. sold \in Fraction
  BY <1>1, LeastIs
<1>3. qty \in Fraction /\ s \in Fraction
  <2> HIDE DEF sold
  <2>1. /\ Magnitude(q) \otimes Magnitude(a.entry) \in Fraction /\ sold \otimes p \in Fraction
    BY <1>1, <1>2, Products, MagnitudeIs
  <2>2. QED
    BY <1>1, <1>2, <2>1, Sums
<1>4. qty # Zero => e \in Fraction /\ e \otimes m = s /\ m \in Fraction
  <2> HIDE DEF qty, s
  <2>1. m \in Fraction /\ (qty # Zero => m # Zero)
    BY <1>3, MagnitudeIs
  <2> HIDE DEF m
  <2>2. QED
    BY <1>3, <2>1, Over
<1>5. new = [a EXCEPT !.qty = qty, !.entry = IF qty = Zero THEN Zero ELSE e]
  BY DEF OpenShort
<1> HIDE DEF qty, e, new
<1>6. /\ new \in AccountType /\ new.cash = c /\ new.qty = qty
      /\ qty # Zero => new.entry = e
  BY <1>1, <1>3, <1>4, <1>5 DEF AccountType
<1>7. ASSUME q \preceq Zero, Zero \prec units, q \prec Zero => Zero \preceq a.entry
      PROVE  FuturesWorth(new, p) = FuturesWorth(a, p)
  <2>1. sold = units /\ qty = q \ominus units
    BY <1>1, <1>7, Trichotomy DEF qty
  <2>2. qty \prec Zero /\ qty # Zero /\ q \preceq Zero
    <3>1. PICK V, S : Reads(V, S) /\ {q, units, q, q, q, q, q, q} \subseteq S
      <4> HIDE DEF q
      <4>1. Commensurable(q, units, q, q, q, q, q, q)
        BY <1>1, Linear
      <4>2. QED
        BY <4>1 DEF Commensurable
    <3>2. q \in S /\ units \in S
      BY <3>1
    <3>3. (q \ominus units) \prec Zero
      BY <1>7, <3>1, <3>2 DEF Reads
    <3>4. QED
      BY <1>1, <1>3, <1>7, <2>1, <3>3, Trichotomy
  <2>3. m = Zero \ominus qty
    BY <1>3, <2>2, MagnitudeIs
  <2>4. Magnitude(q) = Zero \ominus q
    <3>1. CASE q \prec Zero
      BY <1>1, <3>1, MagnitudeIs
    <3>2. CASE q = Zero
      BY <1>1, <3>2, MagnitudeIs, Trichotomy, NonNegative
    <3>3. QED
      BY <1>1, <2>2, <3>1, <3>2, Trichotomy
  <2> DEFINE x == q \otimes p
             y == q \otimes a.entry
             u == units \otimes p
             z == qty \otimes e
  <2>5. /\ x \in Fraction /\ y \in Fraction /\ u \in Fraction /\ z \in Fraction
    BY <1>1, <1>3, <1>4, <2>2, Products
  <2>6. s = (Zero \ominus y) \oplus u
    <3>1. (Zero \ominus q) \otimes a.entry = Zero \ominus y
      BY <1>1, Distributes, Units
    <3>2. CASE q \prec Zero
      <4>1. Magnitude(a.entry) = a.entry
        BY <1>1, <1>7, <3>2, MagnitudeIs, Trichotomy
      <4>2. QED
        BY <2>1, <2>4, <3>1, <4>1
    <3>3. CASE q = Zero
      <4>1. Magnitude(q) = Zero /\ Magnitude(a.entry) \in Fraction
        BY <1>1, <2>4, <3>3, MagnitudeIs, NonNegative
      <4>2. /\ Zero \otimes Magnitude(a.entry) = Zero /\ Zero \otimes a.entry = Zero
            /\ Zero \ominus Zero = Zero
        BY <1>1, <4>1, Units, NonNegative
      <4>3. QED
        BY <2>1, <3>3, <4>1, <4>2
    <3>4. QED
      BY <1>1, <1>7, <3>2, <3>3, Trichotomy
  <2>7. s = Zero \ominus z
    <3>1. e \otimes m = m \otimes e
      BY <1>4, <2>2, Products
    <3>2. (Zero \ominus qty) \otimes e = Zero \ominus z
      BY <1>1, <1>3, <1>4, <2>2, Distributes, Units
    <3>3. QED
      BY <1>4, <2>2, <2>3, <3>1, <3>2
  <2>8. qty \otimes p = x \ominus u
    BY <1>1, <2>1, Distributes
  <2>9. FuturesWorth(new, p) = c \oplus ((x \ominus u) \ominus z)
    BY <1>6, <2>2, <2>8, FuturesWorthIs
  <2>10. FuturesWorth(a, p) = c \oplus (x \ominus y)
    BY FuturesWorthIs
  <2>11. (Zero \ominus y) \oplus u = Zero \ominus z
    BY <2>6, <2>7
  <2> HIDE DEF c, x, y, u, z
  <2>12. PICK V, S : Reads(V, S) /\ {c, x, y, u, z, c, c, c} \subseteq S
    <3>1. Commensurable(c, x, y, u, z, c, c, c)
      BY <1>1, <2>5, Linear
    <3>2. QED
      BY <3>1 DEF Commensurable
  <2>13. c \in S /\ x \in S /\ y \in S /\ u \in S /\ z \in S
    BY <2>12
  <2>14. V[(Zero \ominus y) \oplus u] = V[Zero \ominus z]
    BY <2>11
  <2>15. c \oplus ((x \ominus u) \ominus z) = c \oplus (x \ominus y)
    BY <2>12, <2>13, <2>14 DEF Reads
  <2>16. QED
    BY <2>9, <2>10, <2>15
<1>8. QED
  BY <1>6, <1>7 DEF new

\* Closing at the price the worth is taken at moves worth into cash.
LEMMA ClosePartialIs ==
  ASSUME NEW a \in AccountType, NEW p \in Fraction, NEW units \in Fraction
  PROVE  LET new == ClosePartial(a, units, p)
             closed == Least(units, Magnitude(a.qty))
             signed == IF a.qty \prec Zero THEN Zero \ominus closed ELSE closed
         IN  /\ new \in AccountType /\ FuturesWorth(new, p) = FuturesWorth(a, p)
             /\ closed \in Fraction /\ signed \in Fraction
             /\ new.cash = a.cash \oplus (signed \otimes (p \ominus a.entry))
             /\ new.qty = a.qty \ominus signed
             /\ new.entry = IF new.qty = Zero THEN Zero ELSE a.entry
             /\ Magnitude(a.qty) \preceq units => new.qty = Zero
<1> DEFINE new == ClosePartial(a, units, p)
           c == a.cash
           q == a.qty
           closed == Least(units, Magnitude(q))
           signed == IF q \prec Zero THEN Zero \ominus closed ELSE closed
           left == q \ominus signed
           gain == signed \otimes (p \ominus a.entry)
<1>1. c \in Fraction /\ q \in Fraction /\ a.entry \in Fraction /\ Zero \in Fraction
  BY Fields, Constants
<1>2. Magnitude(q) \in Fraction
  BY <1>1, MagnitudeIs
<1>3. closed \in Fraction /\ (Magnitude(q) \preceq units => closed = Magnitude(q))
  <2> DEFINE m == Magnitude(q)
  <2>1. m \in Fraction
    BY <1>2
  <2> HIDE DEF m
  <2>2. Least(units, m) \in Fraction /\ (m \preceq units => Least(units, m) = m)
    BY <2>1, LeastIs, Trichotomy
  <2>3. QED
    BY <2>2 DEF m
<1>4. signed \in Fraction
  <2> HIDE DEF closed
  <2> QED
    BY <1>1, <1>3, Sums
<1>5. p \ominus a.entry \in Fraction
  BY <1>1, Sums
<1>6. left \in Fraction /\ gain \in Fraction /\ c \oplus gain \in Fraction
  <2> HIDE DEF signed
  <2>1. left \in Fraction /\ gain \in Fraction
    BY <1>1, <1>4, <1>5, Sums, Products
  <2> HIDE DEF gain, c
  <2>2. QED
    BY <1>1, <2>1, Sums
<1>7. new = [cash |-> c \oplus gain, qty |-> left, entry |-> IF left = Zero THEN Zero ELSE a.entry]
  BY DEF ClosePartial
<1>8. Magnitude(q) \preceq units => left = Zero
  <2>1. ASSUME Magnitude(q) \preceq units PROVE left = Zero
    <3>1. closed = Magnitude(q)
      BY <1>3, <2>1
    <3>2. CASE q \prec Zero
      <4>1. closed = Zero \ominus q
        BY <1>1, <3>1, <3>2, MagnitudeIs
      <4>2. signed = Zero \ominus (Zero \ominus q)
        BY <3>2, <4>1
      <4> HIDE DEF q
      <4>3. PICK V, S : Reads(V, S) /\ q \in S
        <5>1. Commensurable(q, q, q, q, q, q, q, q)
          BY <1>1, Linear
        <5>2. QED
          BY <5>1 DEF Commensurable
      <4>4. q \ominus (Zero \ominus (Zero \ominus q)) = Zero
        BY <4>3 DEF Reads
      <4>5. QED
        BY <4>2, <4>4 DEF left
    <3>3. CASE ~ (q \prec Zero)
      <4>1. signed = q
        BY <1>1, <3>1, <3>3, MagnitudeIs
      <4>2. QED
        BY <1>1, <4>1, NonNegative
    <3>4. QED
      BY <3>2, <3>3
  <2>2. QED
    BY <2>1
<1> HIDE DEF new, signed, left, gain
<1>9. /\ new \in AccountType /\ new.cash = c \oplus gain /\ new.qty = left
      /\ new.entry = IF left = Zero THEN Zero ELSE a.entry
  BY <1>1, <1>6, <1>7 DEF AccountType
<1>10. FuturesWorth(new, p) = FuturesWorth(a, p)
  <2> DEFINE x == q \otimes p
             y == q \otimes a.entry
             r == signed \otimes p
             t == signed \otimes a.entry
             z == left \otimes new.entry
  <2>1. gain = r \ominus t /\ r \in Fraction /\ t \in Fraction
    <3>1. r \in Fraction /\ t \in Fraction
      BY <1>1, <1>4, Products
    <3>2. signed \otimes (p \ominus a.entry) = r \ominus t
      BY <1>1, <1>4, Distributes
    <3>3. QED
      BY <3>1, <3>2 DEF gain
  <2>2. left \otimes p = x \ominus r /\ x \in Fraction /\ y \in Fraction
    <3>1. x \in Fraction /\ y \in Fraction
      BY <1>1, Products
    <3>2. (q \ominus signed) \otimes p = x \ominus r
      BY <1>1, <1>4, Distributes
    <3>3. QED
      BY <3>1, <3>2 DEF left
  <2>3. z = y \ominus t
    <3>1. CASE left = Zero
      <4>1. z = Zero
        BY <1>1, <1>9, <3>1, Units
      <4>2. q = signed
        <5> HIDE DEF q
        <5>1. PICK V, S : Reads(V, S) /\ {q, signed, q, q, q, q, q, q} \subseteq S
          <6>1. Commensurable(q, signed, q, q, q, q, q, q)
            BY <1>1, <1>4, Linear
          <6>2. QED
            BY <6>1 DEF Commensurable
        <5>2. q \in S /\ signed \in S
          BY <5>1
        <5>3. V[q \ominus signed] = V[Zero]
          BY <3>1 DEF left
        <5>4. QED
          BY <5>1, <5>2, <5>3 DEF Reads
      <4>3. y \ominus t = Zero
        BY <2>1, <4>2, NonNegative
      <4>4. QED
        BY <4>1, <4>3
    <3>2. CASE left # Zero
      BY <1>1, <1>4, <1>9, <3>2, Distributes DEF left
    <3>3. QED
      BY <3>1, <3>2
  <2>4. FuturesWorth(new, p) = (c \oplus (r \ominus t)) \oplus ((x \ominus r) \ominus (y \ominus t))
    BY <1>9, <2>1, <2>2, <2>3, FuturesWorthIs
  <2>5. FuturesWorth(a, p) = c \oplus (x \ominus y)
    BY FuturesWorthIs
  <2> HIDE DEF c, x, y, r, t
  <2>6. PICK V, S : Reads(V, S) /\ {c, x, y, r, t, c, c, c} \subseteq S
    <3>1. Commensurable(c, x, y, r, t, c, c, c)
      BY <1>1, <2>1, <2>2, Linear
    <3>2. QED
      BY <3>1 DEF Commensurable
  <2>7. c \in S /\ x \in S /\ y \in S /\ r \in S /\ t \in S
    BY <2>6
  <2>8. (c \oplus (r \ominus t)) \oplus ((x \ominus r) \ominus (y \ominus t)) = c \oplus (x \ominus y)
    BY <2>6, <2>7 DEF Reads
  <2>9. QED
    BY <2>4, <2>5, <2>8
<1>11. QED
  BY <1>3, <1>4, <1>8, <1>9, <1>10 DEF new, signed, left, gain

\* What is asked of the futures books: how much is traded and what it costs.
LEMMA FuturesFee ==
  ASSUME NEW a \in AccountType, NEW p, IsPrice(p), NEW size, IsShare(size)
  PROVE  LET units == FuturesUnits(a, size, p)
             fee == (units \otimes p) \otimes FeeRate
         IN  /\ units \in Fraction /\ fee \in Fraction
             /\ Zero \preceq a.cash =>
                  Zero \preceq units /\ Zero \preceq fee /\ fee \preceq a.cash
<1> DEFINE c == a.cash
           cl == c \otimes Leverage
           cls == cl \otimes size
           units == cls \oslash p
           fee == (units \otimes p) \otimes FeeRate
<1>1. /\ c \in Fraction /\ p \in Fraction /\ size \in Fraction /\ Leverage \in Fraction
      /\ FeeRate \in Fraction /\ Zero \preceq FeeRate /\ Zero \preceq size /\ size \preceq One
      /\ Zero \preceq Leverage /\ One \in Fraction /\ Zero \in Fraction
      /\ Zero \prec p /\ p # Zero
  BY Fields, Assumed, Constants, Trichotomy DEF IsPrice, IsShare
<1>2. cl \in Fraction /\ cls \in Fraction
  <2>1. cl \in Fraction
    BY <1>1, Products
  <2> HIDE DEF cl
  <2>2. QED
    BY <1>1, <2>1, Products
<1>3. units \in Fraction /\ units \otimes p = cls
  <2> HIDE DEF cls
  <2> QED
    BY <1>1, <1>2, Over
<1>4. fee = cls \otimes FeeRate /\ fee \in Fraction
  <2>1. fee = cls \otimes FeeRate
    BY <1>3
  <2> HIDE DEF cls, fee
  <2>2. QED
    BY <1>1, <1>2, <2>1, Products
<1>5. ASSUME Zero \preceq c
      PROVE  Zero \preceq units /\ Zero \preceq fee /\ fee \preceq c
  <2>1. Zero \preceq cl
    BY <1>1, <1>5, Signs
  <2>2. Zero \preceq cls /\ cls \preceq cl
    <3> HIDE DEF cl
    <3> QED
      BY <1>1, <1>2, <2>1, Shares
  <2>3. Zero \preceq units
    <3> HIDE DEF cls
    <3> QED
      BY <1>1, <1>2, <2>2, SignOfQuotient
  <2>4. Zero \preceq fee /\ fee \preceq (cl \otimes FeeRate)
    <3> HIDE DEF cls, cl, fee
    <3> QED
      BY <1>1, <1>2, <1>4, <2>2, Signs, Grows
  <2>5. cl \otimes FeeRate = c \otimes (Leverage \otimes FeeRate) /\ Leverage \otimes FeeRate \in Fraction
    <3>1. Leverage \otimes FeeRate \in Fraction
      BY <1>1, Products
    <3> HIDE DEF c
    <3>2. (c \otimes Leverage) \otimes FeeRate = c \otimes (Leverage \otimes FeeRate)
      BY <1>1, Associates
    <3>3. QED
      BY <3>1, <3>2
  <2>6. (c \otimes (Leverage \otimes FeeRate)) \preceq c
    <3> DEFINE lf == Leverage \otimes FeeRate
    <3>1. lf \in Fraction /\ lf \preceq One
      BY <2>5, Assumed
    <3> HIDE DEF lf
    <3>2. (c \otimes lf) \preceq c
      BY <1>1, <1>5, <3>1, Grows, Units
    <3>3. QED
      BY <3>2 DEF lf
  <2>7. fee \preceq c
    <3> DEFINE k == cl \otimes FeeRate
    <3>1. k \in Fraction /\ fee \preceq k /\ k \preceq c
      <4>1. k \in Fraction
        <5> HIDE DEF cl
        <5> QED
          BY <1>1, <1>2, Products
      <4>2. QED
        BY <2>4, <2>5, <2>6, <4>1
    <3> HIDE DEF k, fee
    <3>2. QED
      BY <1>1, <1>4, <3>1, Ordered
  <2>8. QED
    BY <2>3, <2>4, <2>7
<1>6. QED
  BY <1>3, <1>4, <1>5 DEF FuturesUnits

\* Before a futures order opens anything, it pays its fee and closes what it
\* can of a position on the other side.
ReducedBy(a, side, units, fee, p) ==
  IF (side = "buy" /\ a.qty \prec Zero) \/ (side = "sell" /\ Zero \prec a.qty)
  THEN ClosePartial(Charged(a, fee), units, p) ELSE Charged(a, fee)

\* Closing a part realizes what was unrealized.
LEMMA ReducedIs ==
  ASSUME NEW a \in AccountType, NEW p \in Fraction, NEW units \in Fraction, NEW fee \in Fraction,
         NEW side
  PROVE  LET reduced == ReducedBy(a, side, units, fee, p)
         IN  /\ reduced \in AccountType
             /\ FuturesWorth(reduced, p) = FuturesWorth(a, p) \ominus fee
<1> DEFINE b == Charged(a, fee)
<1>1. b \in AccountType /\ FuturesWorth(b, p) = FuturesWorth(a, p) \ominus fee
  BY ChargedIs
<1> HIDE DEF b
<1>2. ClosePartial(b, units, p) \in AccountType
      /\ FuturesWorth(ClosePartial(b, units, p), p) = FuturesWorth(b, p)
  BY <1>1, ClosePartialIs
<1>3. QED
  BY <1>1, <1>2 DEF ReducedBy, b

\* Whatever is ordered, the futures account keeps its type.
LEMMA FuturesExecuteTypes ==
  ASSUME NEW a \in AccountType, NEW p, IsPrice(p), NEW size, IsShare(size),
         NEW side \in {"buy", "sell", "hold", "other"}
  PROVE  Types(FuturesExecute(a, side, size, p))
<1> DEFINE units == FuturesUnits(a, size, p)
           fee == (units \otimes p) \otimes FeeRate
           charged == Charged(a, fee)
           reduced == ReducedBy(a, side, units, fee, p)
           out == FuturesExecute(a, side, size, p)
<1>1. units \in Fraction /\ fee \in Fraction /\ p \in Fraction /\ Zero \in Fraction
  BY FuturesFee, Constants DEF IsPrice
<1>2. \/ out = Untouched(a)
      \/ out = Outcome(charged, fee, TRUE)
      \/ out = Outcome(OpenLong(reduced, units, p), fee, TRUE)
      \/ out = Outcome(OpenShort(reduced, units, p), fee, TRUE)
  <2>1. CASE side = "hold" \/ size = Zero
    BY <2>1 DEF FuturesExecute
  <2>2. CASE ~ (side = "hold" \/ size = Zero)
    <3>1. CASE ~ (Zero \prec units) \/ side = "other"
      BY <2>2, <3>1 DEF FuturesExecute
    <3>2. CASE Zero \prec units /\ side = "buy"
      BY <2>2, <3>2 DEF FuturesExecute, ReducedBy
    <3>3. CASE Zero \prec units /\ side = "sell"
      BY <2>2, <3>3 DEF FuturesExecute, ReducedBy
    <3>4. QED
      BY <2>2, <3>1, <3>2, <3>3
  <2>3. QED
    BY <2>1, <2>2
<1> HIDE DEF units, fee, out
<1>3. charged \in AccountType /\ reduced \in AccountType
  BY <1>1, ChargedIs, ReducedIs
<1> HIDE DEF charged, reduced
<1>4. OpenLong(reduced, units, p) \in AccountType /\ OpenShort(reduced, units, p) \in AccountType
  BY <1>1, <1>3, OpenLongIs, OpenShortIs
<1>5. Types(out)
  <2>1. \A b \in AccountType, cost \in Fraction : Types(Outcome(b, cost, TRUE))
    BY DEF Types, Outcome
  <2>2. Types(Untouched(a))
    BY <1>1 DEF Types, Outcome, Untouched
  <2>3. QED
    BY <1>1, <1>2, <1>3, <1>4, <2>1, <2>2
<1>6. QED
  BY <1>5 DEF out

\* The orders for which the books do not add up: those that take a position down
\* part way, and sells onto a short with a negative entry price.
WrongFor(a, side, units) ==
  /\ Zero \prec units
  /\ \/ side = "sell" /\ Zero \prec a.qty /\ units \prec a.qty
     \/ side = "buy" /\ a.qty \prec Zero /\ (units \oplus units) = Magnitude(a.qty)
     \/ side = "sell" /\ a.qty \prec Zero /\ a.entry \prec Zero

\* A position that is closed and once more closed part way was twice that part.
LEMMA DoublyClosed ==
  ASSUME NEW q \in Fraction, NEW u \in Fraction, q \prec Zero, (q \ominus (Zero \ominus u)) \oplus u = Zero
  PROVE  u \oplus u = Magnitude(q)
<1>1. PICK V, S : Reads(V, S) /\ {q, u, q, q, q, q, q, q} \subseteq S
  <2>1. Commensurable(q, u, q, q, q, q, q, q)
    BY Linear
  <2>2. QED
    BY <2>1 DEF Commensurable
<1>2. q \in S /\ u \in S
  BY <1>1
<1>3. V[(q \ominus (Zero \ominus u)) \oplus u] = V[Zero]
  OBVIOUS
<1>4. u \oplus u = Zero \ominus q
  BY <1>1, <1>2, <1>3 DEF Reads
<1>5. QED
  BY <1>4, MagnitudeIs

\* A buy in the futures environment that reduces no short part way costs its fee ...
LEMMA FuturesLongIsFair ==
  ASSUME NEW a \in AccountType, NEW p \in Fraction, NEW units \in Fraction, Zero \prec units,
         NEW fee \in Fraction, ~ WrongFor(a, "buy", units),
         NEW new, new = OpenLong(ReducedBy(a, "buy", units, fee, p), units, p)
  PROVE  /\ new \in AccountType /\ FuturesWorth(new, p) = FuturesWorth(a, p) \ominus fee
         /\ new.cash = ReducedBy(a, "buy", units, fee, p).cash
<1> DEFINE reduced == ReducedBy(a, "buy", units, fee, p)
<1>1. reduced \in AccountType /\ FuturesWorth(reduced, p) = FuturesWorth(a, p) \ominus fee
  BY ReducedIs
<1>2. a.qty \in Fraction /\ Zero \in Fraction /\ Zero \preceq units
  BY Fields, Constants, Trichotomy
<1>3. reduced.qty \oplus units # Zero
  <2>1. CASE a.qty \prec Zero
    <3> DEFINE b == Charged(a, fee)
               m == Magnitude(a.qty)
               closed == Least(units, m)
    <3>1. b \in AccountType /\ b.qty = a.qty
      BY ChargedIs
    <3>2. reduced = ClosePartial(b, units, p)
      BY <2>1 DEF ReducedBy
    <3> HIDE DEF b, reduced
    <3>3. /\ closed \in Fraction /\ reduced.qty = a.qty \ominus (Zero \ominus closed)
          /\ m \preceq units => reduced.qty = Zero
      <4> DEFINE x == Least(units, Magnitude(b.qty))
                 y == IF b.qty \prec Zero THEN Zero \ominus x ELSE x
      <4>1. /\ x \in Fraction /\ reduced.qty = b.qty \ominus y
            /\ Magnitude(b.qty) \preceq units => reduced.qty = Zero
        BY <3>1, <3>2, ClosePartialIs
      <4>2. x = closed /\ y = Zero \ominus x
        BY <2>1, <3>1
      <4> HIDE DEF x, y, m, closed
      <4>3. QED
        BY <3>1, <4>1, <4>2 DEF m
    <3>4. CASE m \preceq units
      BY <1>2, <3>3, <3>4, NonNegative, Trichotomy
    <3>5. CASE ~ (m \preceq units)
      <4>1. m \in Fraction
        BY <1>2, MagnitudeIs
      <4>2. closed = units
        <5> HIDE DEF m
        <5>1. units \prec m /\ ~ (m \prec units)
          BY <3>5, <4>1, Trichotomy
        <5>2. QED
          BY <4>1, <5>1, LeastIs
      <4>3. SUFFICES ASSUME reduced.qty \oplus units = Zero PROVE FALSE
        OBVIOUS
      <4>4. (a.qty \ominus (Zero \ominus units)) \oplus units = Zero
        BY <3>3, <4>2, <4>3
      <4>5. units \oplus units = Magnitude(a.qty)
        BY <1>2, <2>1, <4>4, DoublyClosed
      <4>6. QED
        BY <2>1, <4>5 DEF WrongFor
    <3>6. QED
      BY <3>4, <3>5
  <2>2. CASE ~ (a.qty \prec Zero)
    <3>1. reduced.qty = a.qty
      BY <2>2, ChargedIs DEF ReducedBy
    <3>2. Zero \preceq a.qty
      BY <1>2, <2>2, Trichotomy
    <3> DEFINE q == a.qty
    <3> HIDE DEF q, reduced
    <3>3. Zero \prec (q \oplus units)
      BY <1>2, <3>2, NonNegative DEF q
    <3>4. q \oplus units \in Fraction
      BY <1>2, Sums DEF q
    <3>5. q \oplus units # Zero
      BY <1>2, <3>3, <3>4, Trichotomy
    <3>6. QED
      BY <3>1, <3>5 DEF q
  <2>3. QED
    BY <2>1, <2>2
<1> HIDE DEF reduced
<1>4. QED
  BY <1>1, <1>3, OpenLongIs DEF reduced

\* ... and so does a sale that reduces no long part way and adds to no short with a
\* negative entry price.
LEMMA FuturesShortIsFair ==
  ASSUME NEW a \in AccountType, NEW p \in Fraction, NEW units \in Fraction, Zero \prec units,
         NEW fee \in Fraction, ~ WrongFor(a, "sell", units),
         NEW new, new = OpenShort(ReducedBy(a, "sell", units, fee, p), units, p)
  PROVE  /\ new \in AccountType /\ FuturesWorth(new, p) = FuturesWorth(a, p) \ominus fee
         /\ new.cash = ReducedBy(a, "sell", units, fee, p).cash
         /\ Zero \prec a.qty => ReducedBy(a, "sell", units, fee, p).qty = Zero
<1> DEFINE reduced == ReducedBy(a, "sell", units, fee, p)
<1>1. reduced \in AccountType /\ FuturesWorth(reduced, p) = FuturesWorth(a, p) \ominus fee
  BY ReducedIs
<1>2. a.qty \in Fraction /\ Zero \in Fraction /\ Zero \preceq units
  BY Fields, Constants, Trichotomy
<1>3. /\ reduced.qty \preceq Zero
      /\ Zero \prec a.qty => reduced.qty = Zero
      /\ reduced.qty \prec Zero => Zero \preceq reduced.entry
  <2>1. CASE Zero \prec a.qty
    <3> DEFINE b == Charged(a, fee)
    <3>1. b \in AccountType /\ b.qty = a.qty
      BY ChargedIs
    <3>2. reduced = ClosePartial(b, units, p)
      BY <2>1 DEF ReducedBy
    <3>3. Magnitude(a.qty) = a.qty /\ a.qty \preceq units
      BY <1>2, <2>1, MagnitudeIs, Trichotomy DEF WrongFor
    <3> HIDE DEF b, reduced
    <3>4. Magnitude(b.qty) \preceq units => reduced.qty = Zero
      BY <3>1, <3>2, ClosePartialIs
    <3>5. QED
      BY <1>2, <3>1, <3>3, <3>4, Trichotomy
  <2>2. CASE ~ (Zero \prec a.qty)
    <3>1. reduced = Charged(a, fee)
      BY <2>2 DEF ReducedBy
    <3>2. reduced.qty = a.qty /\ reduced.entry = a.entry /\ a.entry \in Fraction
      BY <3>1, Fields DEF Charged, AccountType
    <3>3. a.qty \prec Zero => Zero \preceq a.entry
      BY <1>2, <3>2, Trichotomy DEF WrongFor
    <3>4. QED
      BY <1>2, <2>2, <3>2, <3>3, Trichotomy
  <2>3. QED
    BY <2>1, <2>2
<1> HIDE DEF reduced
<1>4. QED
  BY <1>1, <1>3, OpenShortIs DEF reduced

-----------------------------------------------------------------------------
(* Accounts: what reducing a position leaves.                              *)

\* What reducing a position leaves: closing at a loss takes no more from the
\* cash than the worth shows, closing at a gain takes nothing.
LEMMA ReducedKeepsCash ==
  ASSUME NEW a \in AccountType, NEW p \in Fraction, NEW units \in Fraction, Zero \prec units,
         NEW fee \in Fraction, fee \preceq a.cash,
         Zero \preceq FuturesWorth(ReducedBy(a, "buy", units, fee, p), p)
  PROVE  Zero \preceq ReducedBy(a, "buy", units, fee, p).cash
<1> DEFINE b == Charged(a, fee)
           new == ReducedBy(a, "buy", units, fee, p)
<1>1. a.cash \in Fraction /\ Zero \in Fraction /\ Zero \preceq units
  BY Fields, Constants, Trichotomy
<1>2. b \in AccountType /\ b.cash = a.cash \ominus fee /\ b.qty = a.qty
  BY ChargedIs
<1>3. Zero \preceq b.cash /\ b.cash \in Fraction /\ b.qty \in Fraction /\ b.entry \in Fraction
  <2>1. Zero \preceq (a.cash \ominus fee)
    <3> DEFINE c == a.cash
    <3>1. c \in Fraction /\ fee \preceq c
      BY <1>1
    <3> HIDE DEF c
    <3>2. Zero \preceq (c \ominus fee)
      BY <3>1, <1>1, Ordered
    <3>3. QED
      BY <3>2 DEF c
  <2> HIDE DEF b
  <2>2. QED
    BY <1>2, <2>1, Fields
<1> HIDE DEF b
<1>4. CASE ~ (a.qty \prec Zero)
  BY <1>3, <1>4 DEF ReducedBy, b
<1>5. CASE a.qty \prec Zero
  <2> DEFINE q == b.qty
             m == Magnitude(q)
             closed == Least(units, m)
             signed == Zero \ominus closed
             d == p \ominus b.entry
             gain == signed \otimes d
  <2>1. new = ClosePartial(b, units, p) /\ q \prec Zero
    BY <1>2, <1>5 DEF ReducedBy, b
  <2>2. /\ new \in AccountType /\ closed \in Fraction /\ signed \in Fraction
        /\ new.cash = b.cash \oplus gain
        /\ new.qty = q \ominus signed
        /\ new.entry = IF new.qty = Zero THEN Zero ELSE b.entry
    <3> HIDE DEF new
    <3> QED
      BY <1>2, <2>1, ClosePartialIs
  <2>3. d \in Fraction /\ m \in Fraction /\ Zero \preceq m /\ m = Zero \ominus q
    BY <1>3, <2>1, MagnitudeIs, Sums
  <2>4. Zero \preceq closed /\ closed \preceq m
    <3> HIDE DEF m
    <3> QED
      BY <1>1, <2>3, LeastIs
  <2>5. gain \in Fraction
    <3> HIDE DEF signed, d
    <3> QED
      BY <2>2, <2>3, Products
  <2>6. CASE Zero \preceq d
    \* the short closes at a loss, and so would the rest of it
    <3> DEFINE left == new.qty
               rest == left \otimes (p \ominus new.entry)
    <3>1. left \in Fraction /\ left \preceq Zero
      <4>1. left \in Fraction
        BY <2>2, Fields
      <4>2. left = q \ominus (Zero \ominus closed)
        BY <2>2
      <4> HIDE DEF left, q, m, closed
      <4>3. q \in Fraction /\ m \in Fraction /\ closed \in Fraction
        BY <1>3, <2>2, <2>3 DEF q
      <4>4. PICK V, S : Reads(V, S) /\ {q, closed, q, q, q, q, q, q} \subseteq S
        <5>1. Commensurable(q, closed, q, q, q, q, q, q)
          BY <4>3, Linear
        <5>2. QED
          BY <5>1 DEF Commensurable
      <4>5. q \in S /\ closed \in S
        BY <4>4
      <4>6. closed \preceq (Zero \ominus q)
        BY <2>3, <2>4
      <4>7. (q \ominus (Zero \ominus closed)) \preceq Zero
        BY <4>4, <4>5, <4>6 DEF Reads
      <4>8. QED
        BY <4>1, <4>2, <4>7
    <3>2. FuturesWorth(new, p) = new.cash \oplus rest
      BY DEF FuturesWorth
    <3>3. rest \in Fraction /\ rest \preceq Zero
      <4>1. CASE left = Zero
        <5>1. p \ominus new.entry \in Fraction
          BY <2>2, Fields, Sums
        <5> HIDE DEF new
        <5>2. QED
          BY <1>1, <4>1, <5>1, Units, Trichotomy
      <4>2. CASE left # Zero
        <5>1. rest = left \otimes d
          BY <2>2, <4>2
        <5> HIDE DEF left, d, rest
        <5>2. (left \otimes d) \preceq (Zero \otimes d) /\ left \otimes d \in Fraction
          BY <1>1, <2>3, <2>6, <3>1, Grows, Products
        <5>3. QED
          BY <2>3, <5>1, <5>2, Units
      <4>3. QED
        BY <4>1, <4>2
    <3>4. new.cash \in Fraction
      BY <2>2, Fields
    <3> DEFINE c == new.cash
    <3>5. Zero \preceq (c \oplus rest) /\ c \in Fraction
      BY <3>2, <3>4
    <3> HIDE DEF c, rest
    <3>6. PICK V, S : Reads(V, S) /\ {c, rest, c, c, c, c, c, c} \subseteq S
      <4>1. Commensurable(c, rest, c, c, c, c, c, c)
        BY <3>3, <3>5, Linear
      <4>2. QED
        BY <4>1 DEF Commensurable
    <3>7. c \in S /\ rest \in S
      BY <3>6
    <3>8. Zero \preceq c
      BY <3>3, <3>5, <3>6, <3>7 DEF Reads
    <3>9. QED
      BY <3>8 DEF c
  <2>7. CASE ~ (Zero \preceq d)
    <3>1. Zero \preceq (Zero \ominus d) /\ Zero \ominus d \in Fraction
      <4> HIDE DEF d
      <4>1. d \preceq Zero
        BY <1>1, <2>3, <2>7, Trichotomy
      <4>2. QED
        BY <1>1, <2>3, <4>1, Ordered, Sums
    <3>2. gain = closed \otimes (Zero \ominus d)
      <4> HIDE DEF closed, d
      <4>1. (Zero \ominus closed) \otimes d = Zero \ominus (closed \otimes d)
        BY <1>1, <2>2, <2>3, Distributes, Units
      <4>2. closed \otimes (Zero \ominus d) = Zero \ominus (closed \otimes d)
        BY <1>1, <2>2, <2>3, Distributes, Units
      <4>3. QED
        BY <4>1, <4>2
    <3>3. Zero \preceq gain
      <4> DEFINE k == Zero \ominus d
      <4> HIDE DEF closed, k
      <4>1. Zero \preceq (closed \otimes k)
        BY <2>2, <2>4, <3>1, Signs DEF k
      <4>2. QED
        BY <3>2, <4>1 DEF k
    <3> DEFINE c == b.cash
    <3>4. Zero \preceq c /\ c \in Fraction
      BY <1>3
    <3> HIDE DEF gain, c
    <3>5. Zero \preceq (c \oplus gain)
      BY <2>5, <3>3, <3>4, NonNegative
    <3>6. QED
      BY <2>2, <3>5 DEF c
  <2>8. QED
    BY <2>6, <2>7
<1>6. QED
  BY <1>4, <1>5

\* The futures books: fair, and never in debt while they are worth something,
\* for every order but those the books get wrong.
LEMMA FuturesExecuteIsFair ==
  ASSUME NEW a \in AccountType, Zero \preceq a.cash, NEW p, IsPrice(p),
         NEW size, IsShare(size), NEW side \in {"buy", "sell", "hold", "other"},
         ~ WrongFor(a, side, FuturesUnits(a, size, p))
  PROVE  LET out == FuturesExecute(a, side, size, p)
         IN  /\ FairFutures(a, out, p)
             /\ Zero \preceq FuturesWorth(out.acct, p) => Zero \preceq out.acct.cash
<1> DEFINE units == FuturesUnits(a, size, p)
           fee == (units \otimes p) \otimes FeeRate
           charged == Charged(a, fee)
           bought == OpenLong(ReducedBy(a, "buy", units, fee, p), units, p)
           sold == OpenShort(ReducedBy(a, "sell", units, fee, p), units, p)
           out == FuturesExecute(a, side, size, p)
<1>1. /\ units \in Fraction /\ fee \in Fraction /\ p \in Fraction /\ Zero \in Fraction
      /\ Zero \preceq units /\ Zero \preceq fee /\ fee \preceq a.cash /\ a.cash \in Fraction
      /\ a.qty \in Fraction
  BY FuturesFee, Constants, Fields DEF IsPrice
<1>2. ~ WrongFor(a, side, units)
  OBVIOUS
<1>3. /\ side = "hold" \/ size = Zero => out = Untouched(a)
      /\ ~ (side = "hold" \/ size = Zero) =>
           out = Outcome(IF ~ (Zero \prec units) \/ side = "other" THEN charged
                         ELSE IF side = "buy" THEN bought ELSE sold, fee, TRUE)
  <2>1. CASE side = "hold" \/ size = Zero
    BY <2>1 DEF FuturesExecute
  <2>2. CASE ~ (side = "hold" \/ size = Zero)
    <3>1. CASE ~ (Zero \prec units) \/ side = "other"
      BY <2>2, <3>1 DEF FuturesExecute
    <3>2. CASE Zero \prec units /\ side = "buy"
      BY <2>2, <3>2 DEF FuturesExecute, ReducedBy
    <3>3. CASE Zero \prec units /\ side = "sell"
      BY <2>2, <3>3 DEF FuturesExecute, ReducedBy
    <3>4. QED
      BY <2>2, <3>1, <3>2, <3>3
  <2>3. QED
    BY <2>1, <2>2
<1>4. charged \in AccountType /\ charged.cash = a.cash \ominus fee
      /\ FuturesWorth(charged, p) = FuturesWorth(a, p) \ominus fee
      /\ Zero \preceq charged.cash
  <2> HIDE DEF fee
  <2>1. /\ charged \in AccountType /\ charged.cash = a.cash \ominus fee
        /\ FuturesWorth(charged, p) = FuturesWorth(a, p) \ominus fee
    BY <1>1, ChargedIs
  <2>2. Zero \preceq (a.cash \ominus fee)
    <3> DEFINE c == a.cash
    <3>1. c \in Fraction /\ fee \preceq c
      BY <1>1
    <3> HIDE DEF c
    <3>2. Zero \preceq (c \ominus fee)
      BY <1>1, <3>1, Ordered
    <3>3. QED
      BY <3>2 DEF c
  <2>3. QED
    BY <2>1, <2>2
<1>5. \A new \in AccountType :
        FuturesWorth(new, p) = FuturesWorth(a, p) \ominus fee =>
          FairFutures(a, Outcome(new, fee, TRUE), p)
  BY <1>1 DEF FairFutures, Types, Outcome
<1>6. FairFutures(a, Untouched(a), p)
  <2>1. FuturesWorth(a, p) \in Fraction
    BY <1>1, FuturesWorthIs
  <2> DEFINE w == FuturesWorth(a, p)
  <2>2. w \in Fraction
    BY <2>1
  <2> HIDE DEF w
  <2>3. w = w \ominus Zero
    BY <1>1, <2>2, NonNegative
  <2>4. QED
    BY <1>1, <2>3, Trichotomy DEF FairFutures, Types, Untouched, Outcome, w
<1>7. CASE side = "hold" \/ size = Zero
  <2>1. out = Untouched(a) /\ Untouched(a).acct = a
    BY <1>3, <1>7 DEF Untouched, Outcome
  <2> HIDE DEF out
  <2>2. QED
    BY <1>1, <1>6, <2>1 DEF out
<1>8. CASE ~ (side = "hold" \/ size = Zero) /\ (~ (Zero \prec units) \/ side = "other")
  <2>1. out = Outcome(charged, fee, TRUE)
    BY <1>3, <1>8
  <2> HIDE DEF charged, fee, out
  <2>2. FairFutures(a, out, p) /\ out.acct = charged
    BY <1>4, <1>5, <2>1 DEF Outcome
  <2>3. QED
    BY <1>4, <2>2 DEF out
<1>9. CASE ~ (side = "hold" \/ size = Zero) /\ Zero \prec units /\ side = "buy"
  <2>1. out = Outcome(bought, fee, TRUE)
    BY <1>3, <1>9
  <2>2. ~ WrongFor(a, "buy", units)
    BY <1>2, <1>9
  <2> HIDE DEF fee, units
  <2>3. /\ bought \in AccountType /\ FuturesWorth(bought, p) = FuturesWorth(a, p) \ominus fee
        /\ bought.cash = ReducedBy(a, "buy", units, fee, p).cash
    BY <1>1, <1>9, <2>2, FuturesLongIsFair
  <2>4. FuturesWorth(ReducedBy(a, "buy", units, fee, p), p) = FuturesWorth(a, p) \ominus fee
    BY <1>1, ReducedIs
  <2>5. Zero \preceq FuturesWorth(bought, p) => Zero \preceq bought.cash
    BY <1>1, <1>9, <2>3, <2>4, ReducedKeepsCash
  <2> HIDE DEF bought, out
  <2>6. FairFutures(a, out, p) /\ out.acct = bought
    BY <1>5, <2>1, <2>3 DEF Outcome
  <2>7. QED
    BY <2>5, <2>6 DEF out
<1>10. CASE ~ (side = "hold" \/ size = Zero) /\ Zero \prec units /\ side = "sell"
  <2>1. out = Outcome(sold, fee, TRUE)
    BY <1>3, <1>10
  <2>2. ~ WrongFor(a, "sell", units)
    BY <1>2, <1>10
  <2> HIDE DEF fee, units
  <2> DEFINE reduced == ReducedBy(a, "sell", units, fee, p)
  <2>3. /\ sold \in AccountType /\ FuturesWorth(sold, p) = FuturesWorth(a, p) \ominus fee
        /\ sold.cash = reduced.cash
        /\ Zero \prec a.qty => reduced.qty = Zero
    BY <1>1, <1>10, <2>2, FuturesShortIsFair
  <2>4. reduced \in AccountType /\ FuturesWorth(reduced, p) = FuturesWorth(a, p) \ominus fee
    BY <1>1, ReducedIs
  <2>5. Zero \preceq FuturesWorth(sold, p) => Zero \preceq sold.cash
    <3>1. CASE Zero \prec a.qty
      <4>1. FuturesWorth(reduced, p) = reduced.cash
        <5>1. /\ reduced.qty = Zero /\ reduced.cash \in Fraction
              /\ p \ominus reduced.entry \in Fraction
          BY <1>1, <2>3, <2>4, <3>1, Fields, Sums
        <5>2. FuturesWorth(reduced, p) = reduced.cash \oplus (Zero \otimes (p \ominus reduced.entry))
          BY <5>1 DEF FuturesWorth
        <5> HIDE DEF reduced
        <5>3. QED
          BY <5>1, <5>2, Units, NonNegative, Constants
      <4>2. QED
        BY <2>3, <2>4, <4>1
    <3>2. CASE ~ (Zero \prec a.qty)
      BY <1>4, <2>3, <3>2 DEF ReducedBy
    <3>3. QED
      BY <3>1, <3>2
  <2> HIDE DEF sold, out
  <2>6. FairFutures(a, out, p) /\ out.acct = sold
    BY <1>5, <2>1, <2>3 DEF Outcome
  <2>7. QED
    BY <2>5, <2>6 DEF out
<1>11. QED
  BY <1>7, <1>8, <1>9, <1>10

\* What a venue leaves of an account it takes over.
LEMMA LiquidatedIs ==
  ASSUME NEW a \in AccountType, NEW p \in Fraction, NEW worth \in Fraction
  PROVE  LET left == Liquidated(a, worth)
         IN  /\ left \in AccountType /\ Zero \preceq left.cash /\ left.qty = Zero
             /\ FuturesWorth(left, p) = Greatest(worth, Zero) /\ worth \preceq FuturesWorth(left, p)
<1> DEFINE g == Greatest(worth, Zero)
<1>1. g \in Fraction /\ Zero \preceq g /\ worth \preceq g /\ Zero \in Fraction
  BY GreatestIs, Constants
<1> HIDE DEF g
<1>2. Liquidated(a, worth) = [cash |-> g, qty |-> Zero, entry |-> Zero]
  BY DEF Liquidated, g
<1>3. /\ Liquidated(a, worth) \in AccountType /\ Liquidated(a, worth).cash = g
      /\ Liquidated(a, worth).qty = Zero
  BY <1>1, <1>2 DEF AccountType
<1>4. FuturesWorth(Liquidated(a, worth), p) = g
  <2>1. FuturesWorth(Liquidated(a, worth), p) = g \oplus (Zero \otimes (p \ominus Zero))
    BY <1>2 DEF FuturesWorth
  <2>2. p \ominus Zero \in Fraction
    BY <1>1, Sums
  <2>3. QED
    BY <1>1, <2>1, <2>2, Units, NonNegative
<1>5. QED
  BY <1>1, <1>3, <1>4 DEF g

-----------------------------------------------------------------------------
(* Accounts: target exposures and prices.                                  *)

LEMMA Wholes ==
  ASSUME NEW n \in Int, NEW m \in Int
  PROVE  /\ Whole(n) \in Fraction
         /\ Whole(n) \prec Whole(m) <=> n < m
         /\ Whole(n) \preceq Whole(m) <=> n <= m
         /\ Whole(n) \ominus Whole(m) = Whole(n - m)
<1>1. \A k \in Int : Whole(k) = Frac(k, 1) /\ Whole(k) \in Fraction
  BY Numerals, Constants DEF Whole
<1>2. /\ Frac(n, 1) \ominus Frac(m, 1) = Frac(n - m, 1)
      /\ Frac(n, 1) \prec Frac(m, 1) <=> n < m
      /\ Frac(n, 1) = Frac(m, 1) <=> n = m
  <2>1. 1 \in Positive
    BY Constants
  <2>2. QED
    BY <2>1, SameDenominator
<1>3. n - m \in Int
  OBVIOUS
<1> DEFINE x == Whole(n)
           y == Whole(m)
<1>4. x \in Fraction /\ y \in Fraction /\ (x \prec y <=> n < m) /\ (x = y <=> n = m)
      /\ x \ominus y = Whole(n - m)
  BY <1>1, <1>2, <1>3
<1> HIDE DEF x, y
<1>5. x \preceq y <=> n <= m
  BY <1>4, Trichotomy
<1>6. QED
  BY <1>4, <1>5 DEF x, y

\* The least target a market allows.
Lowest(market) == IF market = "spot" THEN Zero ELSE <<-1, 1>>

LEMMA Numbers ==
  /\ Whole(2) \in Fraction /\ Zero \in Fraction /\ One \in Fraction
  /\ Zero \prec One /\ Zero \preceq One
  /\ \A market : /\ Lowest(market) \in Fraction /\ Lowest(market) \preceq Zero
                 /\ Lowest(market) \preceq One /\ (One \ominus Lowest(market)) \preceq Whole(2)
<1>1. /\ Whole(2) \in Fraction /\ Zero \in Fraction /\ One \in Fraction
      /\ Zero \prec One /\ Zero \preceq One /\ Zero \preceq Zero
      /\ One \ominus Zero = One /\ One \preceq Whole(2)
  BY Wholes DEF Zero, One
<1> DEFINE m == Whole(-1)
<1>2. m \in Fraction /\ m \preceq Zero /\ m \preceq One /\ (One \ominus m) \preceq Whole(2)
  <2>1. m \in Fraction /\ m \preceq Zero /\ m \preceq One /\ One \ominus m = Whole(2)
    BY Wholes DEF Zero, One
  <2>2. QED
    BY <2>1, Wholes
<1>3. m = <<-1, 1>>
  BY DEF Whole
<1> HIDE DEF m
<1>4. \A market : Lowest(market) = Zero \/ Lowest(market) = m
  BY <1>3 DEF Lowest
<1>5. QED
  BY <1>1, <1>2, <1>4

\* A target that is more than a clipped value is more than the value.
LEMMA ClipAims ==
  ASSUME NEW x \in Fraction, NEW lo \in Fraction, NEW hi \in Fraction, lo \preceq hi,
         NEW goal \in Fraction, lo \preceq goal, goal \preceq hi
  PROVE  /\ Clip(x, lo, hi) \prec goal => x \prec goal
         /\ goal \prec Clip(x, lo, hi) => goal \prec x
<1> DEFINE l == Least(x, hi)
<1>1. l = (IF hi \prec x THEN hi ELSE x) /\ l \in Fraction
  BY LeastIs
<1>2. Clip(x, lo, hi) = IF lo \prec l THEN l ELSE lo
  <2>1. Clip(x, lo, hi) = Greatest(lo, l)
    BY DEF Clip
  <2> HIDE DEF l
  <2>2. QED
    BY <1>1, <2>1, GreatestIs
<1> HIDE DEF l
<1>3. PICK V, S : Reads(V, S) /\ {x, lo, hi, goal, x, x, x, x} \subseteq S
  <2>1. Commensurable(x, lo, hi, goal, x, x, x, x)
    BY Linear
  <2>2. QED
    BY <2>1 DEF Commensurable
<1>4. x \in S /\ lo \in S /\ hi \in S /\ goal \in S /\ l \in S
  BY <1>1, <1>3
<1>5. QED
  BY <1>1, <1>2, <1>3, <1>4 DEF Reads

\* The target exposures of the RL product are clipped to the market's range.
LEMMA ClipTargetIs ==
  ASSUME NEW market, NEW x \in Fraction
  PROVE  /\ ClipTarget(market, x) = Clip(x, Lowest(market), One)
         /\ ClipTarget(market, x) \in Fraction
         /\ Lowest(market) \preceq ClipTarget(market, x) /\ ClipTarget(market, x) \preceq One
<1> DEFINE lo == Lowest(market)
<1>1. lo \in Fraction /\ lo \preceq One /\ One \in Fraction
  BY Numbers
<1>2. ClipTarget(market, x) = Clip(x, lo, One)
  BY DEF ClipTarget, Lowest
<1> HIDE DEF lo
<1>3. QED
  BY <1>1, <1>2, ClipIs DEF lo

\* What the execution model takes for the exposure it has.
LEMMA CurrentExposureIs ==
  ASSUME NEW a \in AccountType, NEW p \in Fraction, NEW market \in {"spot", "futures"},
         NEW worth \in Fraction, Zero \prec worth
  PROVE  LET notional == Notional(market, worth)
             share == (a.qty \otimes p) \oslash notional
         IN  /\ notional \in Fraction /\ Zero \prec notional
             /\ share \in Fraction /\ share \otimes notional = a.qty \otimes p
             /\ CurrentExposure(market, a, p, worth) = ClipTarget(market, share)
<1> DEFINE notional == Notional(market, worth)
           qp == a.qty \otimes p
           share == qp \oslash notional
<1>1. notional \in Fraction /\ Zero \prec notional
  BY Assumed, Products, Signs DEF Notional
<1>2. qp \in Fraction
  BY Fields
<1>3. ~ (worth \preceq Zero) /\ notional # Zero
  <2> HIDE DEF notional
  <2> QED
    BY <1>1, Constants, Trichotomy
<1>4. CurrentExposure(market, a, p, worth) = ClipTarget(market, share)
  BY <1>3 DEF CurrentExposure
<1> HIDE DEF notional, qp
<1>5. share \in Fraction /\ share \otimes notional = qp
  BY <1>1, <1>2, <1>3, Over
<1>6. QED
  BY <1>1, <1>4, <1>5 DEF notional, qp

\* A price less its slippage is a price, however far the position moves.
LEMMA ImpactedPrices ==
  ASSUME NEW p, IsPrice(p), NEW delta \in Fraction, Magnitude(delta) \preceq Whole(2)
  PROVE  LET slip == p \otimes (HalfSpread \oplus (Impact \otimes Magnitude(delta)))
         IN  /\ slip \in Fraction /\ Zero \preceq slip
             /\ IsPrice(p \oplus slip) /\ p \preceq (p \oplus slip)
             /\ IsPrice(p \ominus slip) /\ (p \ominus slip) \preceq p
<1> DEFINE m == Magnitude(delta)
           i == Impact \otimes m
           j == Impact \otimes Whole(2)
           r == HalfSpread \oplus i
           slip == p \otimes r
<1>1. /\ p \in Fraction /\ Zero \preceq p /\ Zero \prec p /\ Zero \in Fraction /\ One \in Fraction
      /\ Whole(2) \in Fraction
  BY Numbers, Trichotomy DEF IsPrice
<1>2. m \in Fraction /\ Zero \preceq m /\ m \preceq Whole(2)
  BY MagnitudeIs
<1>3. /\ HalfSpread \in Fraction /\ Impact \in Fraction /\ Zero \preceq HalfSpread /\ Zero \preceq Impact
      /\ (HalfSpread \oplus j) \prec One
  BY Assumed
<1> HIDE DEF m
<1>4. i \in Fraction /\ j \in Fraction /\ Zero \preceq i /\ i \preceq j
  BY <1>1, <1>2, <1>3, Products, Signs, Grows
<1> HIDE DEF i, j
<1>5. r \in Fraction /\ Zero \preceq r /\ r \prec One
  <2>1. PICK V, S : Reads(V, S) /\ {HalfSpread, i, j, One, i, i, i, i} \subseteq S
    <3>1. Commensurable(HalfSpread, i, j, One, i, i, i, i)
      BY <1>1, <1>3, <1>4, Linear
    <3>2. QED
      BY <3>1 DEF Commensurable
  <2>2. HalfSpread \in S /\ i \in S /\ j \in S /\ One \in S
    BY <2>1
  <2>3. QED
    BY <1>3, <1>4, <2>1, <2>2 DEF Reads
<1> HIDE DEF r
<1>6. slip \in Fraction /\ Zero \preceq slip /\ slip \prec p
  <2>1. slip \in Fraction /\ Zero \preceq slip
    BY <1>1, <1>5, Products, Signs
  <2>2. slip \prec (p \otimes One) /\ p \otimes One = p
    BY <1>1, <1>5, Grows, Units
  <2>3. QED
    BY <2>1, <2>2
<1> HIDE DEF slip
<1>7. p \oplus slip \in Fraction /\ p \ominus slip \in Fraction
  BY <1>1, <1>6, Sums
<1>8. Zero \prec (p \oplus slip) /\ p \preceq (p \oplus slip) /\ (p \ominus slip) \preceq p
  BY <1>1, <1>6, NonNegative
<1>9. Zero \prec (p \ominus slip)
  BY <1>1, <1>6, Ordered
<1>10. QED
  BY <1>6, <1>7, <1>8, <1>9 DEF IsPrice, slip, r, i, m

-----------------------------------------------------------------------------
(* Accounts: the distance of two targets, and the fill of a move.          *)

\* Two targets are at most two apart.
LEMMA TargetsApart ==
  ASSUME NEW market, NEW goal \in Fraction, Lowest(market) \preceq goal, goal \preceq One,
         NEW now \in Fraction, Lowest(market) \preceq now, now \preceq One
  PROVE  Magnitude(goal \ominus now) \preceq Whole(2) /\ goal \ominus now \in Fraction
<1> DEFINE lo == Lowest(market)
           d == goal \ominus now
           two == Whole(2)
<1>1. lo \in Fraction /\ One \in Fraction /\ two \in Fraction /\ Zero \in Fraction
      /\ (One \ominus lo) \preceq two
  BY Numbers
<1>2. d \in Fraction
  BY Sums
<1>3. lo \preceq goal /\ lo \preceq now
  OBVIOUS
<1> HIDE DEF lo, two
<1>4. PICK V, S : Reads(V, S) /\ {lo, One, two, goal, now, lo, lo, lo} \subseteq S
  <2>1. Commensurable(lo, One, two, goal, now, lo, lo, lo)
    BY <1>1, Linear
  <2>2. QED
    BY <2>1 DEF Commensurable
<1>5. lo \in S /\ One \in S /\ two \in S /\ goal \in S /\ now \in S
  BY <1>4
<1>6. d \preceq two /\ (Zero \ominus d) \preceq two
  BY <1>1, <1>3, <1>4, <1>5 DEF Reads
<1> HIDE DEF d
<1>7. Magnitude(d) \preceq two
  BY <1>2, <1>6, MagnitudeIs
<1>8. QED
  BY <1>2, <1>7 DEF d, two

\* An order to a target goes the way of the target, at a price no better than
\* the one it is sent at, and a spot order for more can be paid for.
LEMMA SimulateTargetIs ==
  ASSUME NEW a \in AccountType, NEW p, IsPrice(p), NEW market \in {"spot", "futures"},
         NEW target \in Fraction
  PROVE  LET fill == SimulateTarget(market, a, target, p)
         IN  /\ IsPrice(fill.price) /\ fill.units \in Fraction
             /\ fill.fee \in Fraction /\ Zero \preceq fill.fee
             /\ Zero \prec fill.units => p \preceq fill.price
             /\ fill.units \prec Zero => fill.price \preceq p
             /\ fill.units = Zero => fill.fee = Zero
             /\ market = "spot" /\ Zero \prec fill.units =>
                  (fill.units \otimes fill.price) \preceq a.cash
<1> DEFINE worth == TrackerWorth(market, a, p)
           goal == ClipTarget(market, target)
           now == CurrentExposure(market, a, p, worth)
           delta == goal \ominus now
           slip == p \otimes (HalfSpread \oplus (Impact \otimes Magnitude(delta)))
           filled == IF Zero \prec delta THEN p \oplus slip ELSE p \ominus slip
           notional == Notional(market, worth)
           qp == a.qty \otimes p
           value == (goal \otimes notional) \ominus qp
           cap == Greatest(worth \ominus qp, Zero)
           traded == IF market = "spot" /\ Zero \prec delta THEN Least(value, cap) ELSE value
           units == traded \oslash filled
           fill == SimulateTarget(market, a, target, p)
<1>1. /\ p \in Fraction /\ Zero \in Fraction /\ One \in Fraction /\ a.cash \in Fraction
      /\ a.qty \in Fraction /\ qp \in Fraction /\ Zero \preceq Zero
  BY Constants, Fields, Trichotomy DEF IsPrice
<1>2. worth \in Fraction /\ (market = "spot" => worth = a.cash \oplus qp)
  BY <1>1, Fields, FuturesWorthIs DEF TrackerWorth
<1>3. goal \in Fraction /\ Lowest(market) \preceq goal /\ goal \preceq One
  BY ClipTargetIs
<1> HIDE DEF worth
<1>4. CASE worth \preceq Zero \/ delta = Zero
  <2>1. fill = [price |-> p, units |-> Zero, fee |-> Zero]
    BY <1>4 DEF SimulateTarget, worth
  <2> HIDE DEF fill
  <2>2. ~ (Zero \prec Zero)
    BY <1>1, Trichotomy
  <2>3. QED
    BY <1>1, <2>1, <2>2 DEF fill
<1>5. CASE ~ (worth \preceq Zero \/ delta = Zero)
  <2>1. fill = [price |-> filled, units |-> units,
                fee |-> Magnitude(units \otimes filled) \otimes FeeRate]
    BY <1>5 DEF SimulateTarget, worth
  <2>2. Zero \prec worth
    BY <1>1, <1>2, <1>5, Trichotomy
  <2> DEFINE share == qp \oslash notional
  <2>3. /\ notional \in Fraction /\ Zero \prec notional /\ share \in Fraction
        /\ share \otimes notional = qp /\ now = ClipTarget(market, share)
    BY <1>1, <1>2, <2>2, CurrentExposureIs
  <2> HIDE DEF share, notional, goal, now, qp
  <2>4. /\ now \in Fraction /\ Lowest(market) \preceq now /\ now \preceq One
    BY <2>3, ClipTargetIs
  <2>5. delta \in Fraction /\ Magnitude(delta) \preceq Whole(2)
    BY <1>3, <2>4, TargetsApart
  <2>6. /\ IsPrice(filled) /\ filled \in Fraction
        /\ Zero \prec delta => p \preceq filled
        /\ ~ (Zero \prec delta) => filled \preceq p
    <3> HIDE DEF delta
    <3> QED
      BY <2>5, ImpactedPrices DEF IsPrice
  <2>7. /\ Zero \prec delta => share \prec goal
        /\ ~ (Zero \prec delta) => goal \prec share
    <3>1. /\ Zero \prec delta => now \prec goal
          /\ ~ (Zero \prec delta) => goal \prec now
      <4>1. Zero \prec delta <=> now \prec goal
        BY <1>3, <2>4, Ordered
      <4>2. goal # now
        BY <1>3, <1>5, NonNegative
      <4>3. QED
        BY <1>3, <2>4, <4>1, <4>2, Trichotomy
    <3>2. /\ now \prec goal => share \prec goal
          /\ goal \prec now => goal \prec share
      <4> DEFINE lo == Lowest(market)
      <4>1. lo \in Fraction /\ lo \preceq One /\ lo \preceq goal /\ now = Clip(share, lo, One)
        BY <1>3, <2>3, ClipTargetIs, Numbers
      <4> HIDE DEF lo
      <4>2. QED
        BY <1>1, <1>3, <2>3, <4>1, ClipAims
    <3>3. QED
      BY <3>1, <3>2
  <2>8. /\ value \in Fraction
        /\ Zero \prec delta => Zero \prec value
        /\ ~ (Zero \prec delta) => value \prec Zero
    <3> DEFINE gn == goal \otimes notional
    <3>1. gn \in Fraction
      BY <1>3, <2>3, Products
    <3>2. /\ share \prec goal => qp \prec gn
          /\ goal \prec share => gn \prec qp
      <4>1. Zero \preceq notional
        BY <1>1, <2>3, Trichotomy
      <4>2. QED
        BY <1>3, <2>3, <4>1, Grows
    <3> HIDE DEF gn
    <3>3. gn \ominus qp \in Fraction
      BY <1>1, <3>1, Sums
    <3>4. /\ qp \prec gn => Zero \prec (gn \ominus qp)
          /\ gn \prec qp => (gn \ominus qp) \prec Zero
      <4>1. PICK V, S : Reads(V, S) /\ {gn, qp, gn, gn, gn, gn, gn, gn} \subseteq S
        <5>1. Commensurable(gn, qp, gn, gn, gn, gn, gn, gn)
          BY <1>1, <3>1, Linear
        <5>2. QED
          BY <5>1 DEF Commensurable
      <4>2. gn \in S /\ qp \in S
        BY <4>1
      <4>3. QED
        BY <4>1, <4>2 DEF Reads
    <3>5. QED
      BY <2>7, <3>2, <3>3, <3>4 DEF gn
  <2>9. cap \in Fraction /\ Zero \preceq cap
        /\ (market = "spot" => cap = Greatest(a.cash, Zero))
    <3> DEFINE c == a.cash
    <3>1. market = "spot" => worth \ominus qp = c
      <4>1. c \in Fraction
        BY <1>1
      <4> HIDE DEF c
      <4>2. PICK V, S : Reads(V, S) /\ {c, qp, c, c, c, c, c, c} \subseteq S
        <5>1. Commensurable(c, qp, c, c, c, c, c, c)
          BY <1>1, <4>1, Linear
        <5>2. QED
          BY <5>1 DEF Commensurable
      <4>3. c \in S /\ qp \in S
        BY <4>2
      <4>4. (c \oplus qp) \ominus qp = c
        BY <4>2, <4>3 DEF Reads
      <4>5. QED
        BY <1>2, <4>4 DEF c
    <3>2. worth \ominus qp \in Fraction
      BY <1>1, <1>2, Sums
    <3> DEFINE w == worth \ominus qp
    <3>3. w \in Fraction
      BY <3>2
    <3> HIDE DEF w
    <3>4. Greatest(w, Zero) \in Fraction /\ Zero \preceq Greatest(w, Zero)
      BY <1>1, <3>3, GreatestIs
    <3>5. QED
      BY <3>1, <3>4 DEF w
  <2> HIDE DEF value, cap, delta
  <2>10. /\ traded \in Fraction
         /\ Zero \prec delta => Zero \preceq traded
         /\ ~ (Zero \prec delta) => traded \prec Zero
         /\ market = "spot" /\ Zero \prec delta => traded \preceq cap
    <3>1. /\ Least(value, cap) \in {value, cap} /\ Least(value, cap) \in Fraction
          /\ Least(value, cap) \preceq cap
      BY <2>8, <2>9, LeastIs
    <3>2. Zero \prec delta => Zero \preceq value
      BY <1>1, <2>8, Trichotomy
    <3>3. CASE market = "spot" /\ Zero \prec delta
      BY <2>9, <3>1, <3>2, <3>3
    <3>4. CASE ~ (market = "spot" /\ Zero \prec delta)
      BY <2>8, <3>2, <3>4
    <3>5. QED
      BY <3>3, <3>4
  <2> HIDE DEF traded, filled
  <2>11. /\ units \in Fraction /\ units \otimes filled = traded
         /\ Zero \prec delta => Zero \preceq units
         /\ ~ (Zero \prec delta) => units \prec Zero
    <3>1. filled # Zero /\ Zero \prec filled
      BY <2>6, SignOfQuotient DEF IsPrice
    <3>2. units \in Fraction /\ units \otimes filled = traded
      BY <2>6, <2>10, <3>1, Over
    <3>3. /\ Zero \preceq traded => Zero \preceq units
          /\ traded \prec Zero => units \prec Zero
      BY <2>6, <2>10, <3>1, SignOfQuotient
    <3>4. QED
      BY <2>10, <3>2, <3>3
  <2> HIDE DEF units
  <2>12. /\ Zero \prec units => Zero \prec delta
         /\ units \prec Zero => ~ (Zero \prec delta)
    BY <1>1, <2>11, Trichotomy
  <2> DEFINE fee == Magnitude(traded) \otimes FeeRate
  <2>13. /\ fee \in Fraction /\ Zero \preceq fee
         /\ units = Zero => fee = Zero
    <3> DEFINE m == Magnitude(traded)
    <3>1. m \in Fraction /\ Zero \preceq m
      BY <2>10, MagnitudeIs
    <3>2. units = Zero => m = Zero
      <4>1. units = Zero => traded = Zero
        BY <2>6, <2>11, Units
      <4>2. ~ (Zero \prec Zero)
        BY <1>1, Trichotomy
      <4>3. Magnitude(Zero) = Zero
        BY <1>1, <4>2, MagnitudeIs
      <4>4. QED
        BY <4>1, <4>3
    <3> HIDE DEF m
    <3>3. m \otimes FeeRate \in Fraction /\ Zero \preceq (m \otimes FeeRate)
      BY <3>1, Assumed, Shares
    <3>4. Zero \otimes FeeRate = Zero
      BY Assumed, Units
    <3>5. QED
      BY <3>2, <3>3, <3>4 DEF m
  <2>14. market = "spot" /\ Zero \prec units => traded \preceq a.cash
    <3> SUFFICES ASSUME market = "spot", Zero \prec units PROVE traded \preceq a.cash
      OBVIOUS
    <3>1. Zero \prec filled
      BY <2>6 DEF IsPrice
    <3>2. Zero \prec traded /\ traded \preceq cap
      <4>1. Zero \prec traded
        BY <2>6, <2>11, <3>1, Signs
      <4>2. QED
        BY <2>10, <2>12, <4>1
    <3>3. cap = a.cash \/ cap = Zero
      BY <1>1, <2>9, GreatestIs
    <3>4. cap # Zero
      BY <1>1, <2>10, <3>2, Trichotomy
    <3>5. QED
      BY <3>2, <3>3, <3>4
  <2> HIDE DEF fee, fill
  <2>15. fill.price = filled /\ fill.units = units /\ fill.fee = fee
    BY <2>1, <2>11 DEF fee
  <2>16. QED
    BY <2>6, <2>11, <2>12, <2>13, <2>14, <2>15 DEF fill
<1>6. QED
  BY <1>4, <1>5

-----------------------------------------------------------------------------
(* Accounts: what a move costs.                                            *)

\* A fill of an order to a target: it trades at a price no better than p.
IsMove(fill, p) ==
  /\ IsPrice(fill.price) /\ fill.units \in Fraction
  /\ fill.fee \in Fraction /\ Zero \preceq fill.fee
  /\ Zero \prec fill.units => p \preceq fill.price
  /\ fill.units \prec Zero => fill.price \preceq p
  /\ fill.units = Zero => fill.fee = Zero

\* What moving from one quantity to another costs at fp instead of p.
LEMMA MovedBy ==
  ASSUME NEW q \in Fraction, NEW r \in Fraction, NEW p \in Fraction, NEW fp \in Fraction
  PROVE  LET cost == Magnitude(r \ominus q) \otimes Magnitude(fp \ominus p)
         IN  /\ cost \in Fraction /\ Zero \preceq cost
             /\ \/ q \preceq r /\ p \preceq fp
                \/ r \preceq q /\ fp \preceq p
                => cost = (r \ominus q) \otimes (fp \ominus p)
<1> DEFINE d == r \ominus q
           g == fp \ominus p
           m == Magnitude(d)
           n == Magnitude(g)
<1>1. d \in Fraction /\ g \in Fraction
  BY Sums
<1>2. m \in Fraction /\ n \in Fraction /\ Zero \preceq m /\ Zero \preceq n
  <2> HIDE DEF d, g
  <2> QED
    BY <1>1, MagnitudeIs
<1>3. m \otimes n \in Fraction /\ Zero \preceq (m \otimes n)
  <2> HIDE DEF m, n
  <2> QED
    BY <1>2, Products, Signs
<1>4. ASSUME q \preceq r, p \preceq fp PROVE m \otimes n = d \otimes g
  BY <1>4, Gap
<1>5. ASSUME r \preceq q, fp \preceq p PROVE m \otimes n = d \otimes g
  <2>1. m = q \ominus r /\ n = p \ominus fp
    BY <1>5, Gap
  <2>2. q \ominus r = Zero \ominus d /\ p \ominus fp = Zero \ominus g /\ Zero \in Fraction
    <3>1. PICK V, S : Reads(V, S) /\ {q, r, p, fp, q, q, q, q} \subseteq S
      <4>1. Commensurable(q, r, p, fp, q, q, q, q)
        BY Linear
      <4>2. QED
        BY <4>1 DEF Commensurable
    <3>2. q \in S /\ r \in S /\ p \in S /\ fp \in S
      BY <3>1
    <3>3. q \ominus r = Zero \ominus (r \ominus q) /\ p \ominus fp = Zero \ominus (fp \ominus p)
      BY <3>1, <3>2 DEF Reads
    <3>4. QED
      BY <3>3, Constants
  <2> HIDE DEF d, g, m, n
  <2>3. (Zero \ominus d) \otimes (Zero \ominus g) = d \otimes g
    <3>1. (Zero \ominus d) \otimes (Zero \ominus g) = (Zero \otimes (Zero \ominus g)) \ominus (d \otimes (Zero \ominus g))
          /\ Zero \ominus g \in Fraction
      <4>1. Zero \ominus g \in Fraction
        BY <1>1, <2>2, Sums
      <4> DEFINE h == Zero \ominus g
      <4> HIDE DEF h
      <4>2. h \in Fraction
        BY <4>1 DEF h
      <4>3. (Zero \ominus d) \otimes h = (Zero \otimes h) \ominus (d \otimes h)
        BY <1>1, <2>2, <4>2, Distributes
      <4>4. QED
        BY <4>1, <4>3 DEF h
    <3>2. Zero \otimes (Zero \ominus g) = Zero
      BY <3>1, Units
    <3>3. d \otimes (Zero \ominus g) = Zero \ominus (d \otimes g)
      BY <1>1, <2>2, Distributes, Units
    <3>4. d \otimes g \in Fraction
      BY <1>1, Products
    <3> DEFINE x == d \otimes g
    <3>5. Zero \ominus (Zero \ominus x) = x
      <4>1. x \in Fraction
        BY <3>4
      <4> HIDE DEF x
      <4>2. PICK V, S : Reads(V, S) /\ {x, x, x, x, x, x, x, x} \subseteq S
        <5>1. Commensurable(x, x, x, x, x, x, x, x)
          BY <4>1, Linear
        <5>2. QED
          BY <5>1 DEF Commensurable
      <4>3. x \in S
        BY <4>2
      <4>4. QED
        BY <4>2, <4>3 DEF Reads
    <3>6. QED
      BY <3>1, <3>2, <3>3, <3>5
  <2>4. QED
    BY <2>1, <2>2, <2>3
<1>6. QED
  BY <1>3, <1>4, <1>5 DEF d, g, m, n

\* The spot books of the bridge: moving there costs what MovedBy says, no more
\* is sold than held, and selling takes nothing from the cash.
LEMMA MoveSpotIs ==
  ASSUME NEW a \in AccountType, Zero \preceq a.qty, NEW p, IsPrice(p),
         NEW fill, IsMove(fill, p), fill.units # Zero
  PROVE  LET moved == MoveSpot(a, fill)
             cost == Magnitude(moved.qty \ominus a.qty) \otimes Magnitude(fill.price \ominus p)
         IN  /\ moved \in AccountType /\ Zero \preceq moved.qty
             /\ cost \in Fraction /\ Zero \preceq cost
             /\ Worth(moved, p) = Worth(a, p) \ominus cost
             /\ Zero \prec fill.units => moved.cash = a.cash \ominus (fill.units \otimes fill.price)
             /\ fill.units \prec Zero => a.cash \preceq moved.cash
<1> DEFINE u == fill.units
           fp == fill.price
           c == a.cash
           q == a.qty
           moved == MoveSpot(a, fill)
           cost == Magnitude(moved.qty \ominus q) \otimes Magnitude(fp \ominus p)
<1>1. /\ p \in Fraction /\ fp \in Fraction /\ Zero \preceq fp /\ Zero \in Fraction
      /\ u \in Fraction /\ u # Zero /\ c \in Fraction /\ q \in Fraction /\ a.entry \in Fraction
      /\ Zero \prec u => p \preceq fp
      /\ u \prec Zero => fp \preceq p
      /\ Zero \preceq q
      /\ Worth(a, p) = c \oplus (q \otimes p) /\ q \otimes p \in Fraction
  BY Constants, Fields, Trichotomy DEF IsMove, IsPrice
<1>2. moved = IF Zero \prec u
              THEN [a EXCEPT !.cash = @ \ominus (u \otimes fp), !.qty = @ \oplus u]
              ELSE SellDown(a, Least(q, Magnitude(u)), fp, Zero)
  BY DEF MoveSpot
<1> HIDE DEF u, fp, moved
<1>3. CASE Zero \prec u
  <2> DEFINE uf == u \otimes fp
             up == u \otimes p
             qp == q \otimes p
  <2>1. uf \in Fraction /\ up \in Fraction /\ qp \in Fraction /\ Zero \preceq u
    BY <1>1, <1>3, Products, Trichotomy
  <2>2. c \ominus uf \in Fraction /\ q \oplus u \in Fraction /\ Zero \preceq (q \oplus u)
        /\ q \preceq (q \oplus u)
    <3> HIDE DEF uf, c, q
    <3> QED
      BY <1>1, <2>1, Sums, NonNegative
  <2>3. moved \in AccountType /\ moved.cash = c \ominus uf /\ moved.qty = q \oplus u
    BY <1>1, <1>2, <1>3, <2>2 DEF AccountType
  <2>4. cost = uf \ominus up /\ cost \in Fraction /\ Zero \preceq cost
    <3> DEFINE r == moved.qty
    <3>1. r \in Fraction /\ q \preceq r /\ r = q \oplus u
      BY <2>2, <2>3
    <3> HIDE DEF r, q
    <3> DEFINE k == Magnitude(r \ominus q) \otimes Magnitude(fp \ominus p)
    <3>2. /\ k \in Fraction /\ Zero \preceq k
          /\ k = (r \ominus q) \otimes (fp \ominus p)
      <4>1. q \in Fraction /\ p \in Fraction /\ fp \in Fraction /\ p \preceq fp
        BY <1>1, <1>3, <3>1
      <4>2. QED
        BY <3>1, <4>1, MovedBy
    <3>3. r \ominus q = u
      <4>1. PICK V, S : Reads(V, S) /\ {q, u, q, q, q, q, q, q} \subseteq S
        <5>1. Commensurable(q, u, q, q, q, q, q, q)
          BY <1>1, Linear
        <5>2. QED
          BY <5>1 DEF Commensurable
      <4>2. q \in S /\ u \in S
        BY <4>1
      <4>3. (q \oplus u) \ominus q = u
        BY <4>1, <4>2 DEF Reads
      <4>4. QED
        BY <3>1, <4>3
    <3>4. u \otimes (fp \ominus p) = uf \ominus up
      BY <1>1, Distributes
    <3>5. k = cost
      BY DEF r, q
    <3> HIDE DEF k
    <3>6. QED
      BY <3>2, <3>3, <3>4, <3>5
  <2>5. Worth(moved, p) = (c \ominus uf) \oplus (qp \oplus up)
    <3>1. (q \oplus u) \otimes p = qp \oplus up
      BY <1>1, Distributes
    <3>2. QED
      BY <2>3, <3>1 DEF Worth
  <2>6. (c \ominus uf) \oplus (qp \oplus up) = (c \oplus qp) \ominus (uf \ominus up)
    <3>1. c \in Fraction
      BY <1>1
    <3> HIDE DEF c, uf, up, qp
    <3>2. PICK V, S : Reads(V, S) /\ {c, uf, up, qp, c, c, c, c} \subseteq S
      <4>1. Commensurable(c, uf, up, qp, c, c, c, c)
        BY <2>1, <3>1, Linear
      <4>2. QED
        BY <4>1 DEF Commensurable
    <3>3. c \in S /\ uf \in S /\ up \in S /\ qp \in S
      BY <3>2
    <3>4. QED
      BY <3>2, <3>3 DEF Reads
  <2>7. ~ (u \prec Zero)
    BY <1>1, <1>3, Trichotomy
  <2>8. QED
    BY <1>1, <2>2, <2>3, <2>4, <2>5, <2>6, <2>7 DEF moved, fp, u
<1>4. CASE ~ (Zero \prec u)
  <2> DEFINE m == Magnitude(u)
             sold == Least(q, m)
             sf == sold \otimes fp
             sp == sold \otimes p
             qp == q \otimes p
  <2>1. u \prec Zero /\ fp \preceq p
    BY <1>1, <1>4, Trichotomy
  <2>2. m \in Fraction /\ Zero \preceq m
    BY <1>1, MagnitudeIs
  <2>3. sold \in Fraction /\ Zero \preceq sold /\ sold \preceq q
    <3>1. sold \in {q, m} /\ sold \in Fraction /\ sold \preceq q
      <4> HIDE DEF m
      <4> QED
        BY <1>1, <2>2, LeastIs
    <3>2. QED
      BY <1>1, <2>2, <3>1
  <2> HIDE DEF sold
  <2>4. sf \in Fraction /\ sp \in Fraction /\ qp \in Fraction /\ Zero \preceq sf
    BY <1>1, <2>3, Products, Signs
  <2>5. /\ moved \in AccountType /\ moved.cash = (c \oplus sf) \ominus Zero
        /\ moved.qty = q \ominus sold
    <3>1. moved = SellDown(a, sold, fp, Zero)
      BY <1>2, <1>4 DEF sold
    <3>2. sold \in Fraction /\ fp \in Fraction /\ Zero \in Fraction
      BY <1>1, <2>3
    <3>3. LET s == SellDown(a, sold, fp, Zero)
          IN  /\ s \in AccountType /\ s.cash = (a.cash \oplus (sold \otimes fp)) \ominus Zero
              /\ s.qty = a.qty \ominus sold
      BY ONLY <3>2, a \in AccountType, SellDownIs
    <3>4. QED
      BY <3>1, <3>3
  <2>6. moved.cash = c \oplus sf /\ c \preceq moved.cash
    <3>1. c \in Fraction
      BY <1>1
    <3> HIDE DEF c, sf
    <3>2. (c \oplus sf) \ominus Zero = c \oplus sf /\ c \preceq (c \oplus sf)
      <4>1. c \oplus sf \in Fraction
        BY <2>4, <3>1, Sums
      <4>2. (c \oplus sf) \ominus Zero = c \oplus sf
        BY <1>1, <4>1, NonNegative
      <4>3. c \preceq (c \oplus sf)
        BY <2>4, <3>1, NonNegative
      <4>4. QED
        BY <4>2, <4>3
    <3>3. QED
      BY <2>5, <3>2
  <2>7. q \ominus sold \in Fraction /\ Zero \preceq (q \ominus sold) /\ (q \ominus sold) \preceq q
    <3>1. q \in Fraction
      BY <1>1
    <3> HIDE DEF q
    <3>2. QED
      BY <1>1, <2>3, <3>1, Sums, NonNegative, Ordered
  <2>8. cost = sp \ominus sf /\ cost \in Fraction /\ Zero \preceq cost
    <3> DEFINE r == moved.qty
    <3>1. r \in Fraction /\ r \preceq q /\ r = q \ominus sold
      BY <2>5, <2>7
    <3> HIDE DEF r, q
    <3> DEFINE k == Magnitude(r \ominus q) \otimes Magnitude(fp \ominus p)
    <3>2. /\ k \in Fraction /\ Zero \preceq k
          /\ k = (r \ominus q) \otimes (fp \ominus p)
      <4>1. q \in Fraction /\ p \in Fraction /\ fp \in Fraction /\ fp \preceq p
        BY <1>1, <2>1, <3>1
      <4>2. QED
        BY <3>1, <4>1, MovedBy
    <3>3. r \ominus q = Zero \ominus sold
      <4>1. PICK V, S : Reads(V, S) /\ {q, sold, q, q, q, q, q, q} \subseteq S
        <5>1. Commensurable(q, sold, q, q, q, q, q, q)
          BY <1>1, <2>3, Linear
        <5>2. QED
          BY <5>1 DEF Commensurable
      <4>2. q \in S /\ sold \in S
        BY <4>1
      <4>3. (q \ominus sold) \ominus q = Zero \ominus sold
        BY <4>1, <4>2 DEF Reads
      <4>4. QED
        BY <3>1, <4>3
    <3>4. (Zero \ominus sold) \otimes (fp \ominus p) = sp \ominus sf
      <4>1. (Zero \ominus sold) \otimes (fp \ominus p)
              = ((Zero \ominus sold) \otimes fp) \ominus ((Zero \ominus sold) \otimes p)
        <5>1. Zero \ominus sold \in Fraction
          BY <1>1, <2>3, Sums
        <5> DEFINE z == Zero \ominus sold
        <5> HIDE DEF z
        <5>2. z \otimes (fp \ominus p) = (z \otimes fp) \ominus (z \otimes p)
          BY <1>1, <5>1, Distributes DEF z
        <5>3. QED
          BY <5>2 DEF z
      <4>2. (Zero \ominus sold) \otimes fp = Zero \ominus sf /\ (Zero \ominus sold) \otimes p = Zero \ominus sp
        BY <1>1, <2>3, Distributes, Units
      <4> HIDE DEF sf, sp
      <4>3. PICK V, S : Reads(V, S) /\ {sf, sp, sf, sf, sf, sf, sf, sf} \subseteq S
        <5>1. Commensurable(sf, sp, sf, sf, sf, sf, sf, sf)
          BY <2>4, Linear
        <5>2. QED
          BY <5>1 DEF Commensurable
      <4>4. sf \in S /\ sp \in S
        BY <4>3
      <4>5. (Zero \ominus sf) \ominus (Zero \ominus sp) = sp \ominus sf
        BY <4>3, <4>4 DEF Reads
      <4>6. QED
        BY <4>1, <4>2, <4>5
    <3>5. k = cost
      BY DEF r, q
    <3> HIDE DEF k
    <3>6. QED
      BY <3>2, <3>3, <3>4, <3>5
  <2>9. Worth(moved, p) = (c \oplus sf) \oplus (qp \ominus sp)
    <3>1. (q \ominus sold) \otimes p = qp \ominus sp
      BY <1>1, <2>3, Distributes
    <3>2. QED
      BY <2>5, <2>6, <3>1 DEF Worth
  <2>10. (c \oplus sf) \oplus (qp \ominus sp) = (c \oplus qp) \ominus (sp \ominus sf)
    <3>1. c \in Fraction
      BY <1>1
    <3> HIDE DEF c, sf, sp, qp
    <3>2. PICK V, S : Reads(V, S) /\ {c, sf, sp, qp, c, c, c, c} \subseteq S
      <4>1. Commensurable(c, sf, sp, qp, c, c, c, c)
        BY <2>4, <3>1, Linear
      <4>2. QED
        BY <4>1 DEF Commensurable
    <3>3. c \in S /\ sf \in S /\ sp \in S /\ qp \in S
      BY <3>2
    <3>4. QED
      BY <3>2, <3>3 DEF Reads
  <2>11. QED
    BY <1>1, <1>4, <2>5, <2>6, <2>7, <2>8, <2>9, <2>10 DEF moved, fp, u
<1>5. QED
  BY <1>3, <1>4

-----------------------------------------------------------------------------
(* Accounts: the RL execution model in the futures market.                 *)

LEMMA Decides ==
  ASSUME NEW a \in Fraction, NEW b \in Fraction
  PROVE  (a \prec b) \in BOOLEAN
<1>1. a \in Pairs /\ b \in Pairs
  BY DEF Fraction
<1>2. PICK g \in Positive : g = Gcd[<<a[2], b[2]>>]
  <2>1. a[2] \in Positive /\ b[2] \in Positive
    BY <1>1 DEF Pairs
  <2>2. QED
    BY <2>1, Quotients
<1>3. (a \prec b) = LessOver[<<a, b, g>>]
  BY <1>1, <1>2 DEF Less, \prec
<1>4. <<a, b, g>> \in Pairs \X Pairs \X Positive
  BY <1>1
<1>5. LessOver[<<a, b, g>>] = (a[1] * (b[2] \div g) < b[1] * (a[2] \div g))
  BY <1>4 DEF LessOver
<1>6. QED
  BY <1>3, <1>5

\* The entry price of a position enlarged in its own direction.
LEMMA GrownIs ==
  ASSUME NEW q \in Fraction, NEW e \in Fraction, NEW u \in Fraction, NEW fp \in Fraction,
         \/ Zero \preceq q /\ Zero \prec u
         \/ q \preceq Zero /\ u \prec Zero
  PROVE  LET qty == q \oplus u
             grown == ((Magnitude(q) \otimes e) \oplus (Magnitude(u) \otimes fp)) \oslash Magnitude(qty)
         IN  /\ qty \in Fraction /\ qty # Zero /\ grown \in Fraction
             /\ qty \otimes grown = (q \otimes e) \oplus (u \otimes fp)
<1> DEFINE qty == q \oplus u
           m == Magnitude(qty)
           sum == (Magnitude(q) \otimes e) \oplus (Magnitude(u) \otimes fp)
           grown == sum \oslash m
           qe == q \otimes e
           uf == u \otimes fp
           qg == qty \otimes grown
<1>1. qty \in Fraction /\ qe \in Fraction /\ uf \in Fraction /\ Zero \in Fraction
  BY Sums, Products, Constants
<1>2. /\ Zero \prec u => Zero \prec qty
      /\ u \prec Zero => qty \prec Zero
  <2>1. PICK V, S : Reads(V, S) /\ {q, u, q, q, q, q, q, q} \subseteq S
    <3>1. Commensurable(q, u, q, q, q, q, q, q)
      BY Linear
    <3>2. QED
      BY <3>1 DEF Commensurable
  <2>2. q \in S /\ u \in S
    BY <2>1
  <2>3. QED
    BY <2>1, <2>2 DEF Reads
<1> HIDE DEF qty
<1>3. qty # Zero
  BY <1>1, <1>2, Trichotomy
<1>4. m \in Fraction /\ m # Zero
  BY <1>1, <1>3, MagnitudeIs
<1>5. CASE Zero \preceq q /\ Zero \prec u
  <2>1. Magnitude(q) = q /\ Magnitude(u) = u /\ m = qty
    <3>1. ~ (q \prec Zero) /\ ~ (u \prec Zero) /\ ~ (qty \prec Zero)
      BY <1>1, <1>2, <1>5, Trichotomy
    <3>2. QED
      BY <1>1, <3>1, MagnitudeIs
  <2>2. sum = qe \oplus uf /\ sum \in Fraction
    <3>1. sum = qe \oplus uf
      BY <2>1
    <3> HIDE DEF sum, qe, uf
    <3>2. QED
      BY <1>1, <3>1, Sums
  <2> HIDE DEF sum
  <2>3. grown \in Fraction /\ grown \otimes qty = sum
    BY <1>1, <1>3, <2>1, <2>2, Over
  <2>4. qg = sum
    <3> HIDE DEF grown
    <3>1. QED
      BY <1>1, <2>3, Products
  <2>5. QED
    BY <1>1, <1>3, <2>2, <2>3, <2>4 DEF qty, sum
<1>6. CASE q \preceq Zero /\ u \prec Zero
  <2>1. Magnitude(q) = Zero \ominus q /\ Magnitude(u) = Zero \ominus u /\ m = Zero \ominus qty
    <3>1. Magnitude(q) = Zero \ominus q
      <4>1. CASE q = Zero
        BY <1>1, <4>1, MagnitudeIs, NonNegative, Trichotomy
      <4>2. CASE q # Zero
        BY <1>1, <1>6, <4>2, MagnitudeIs, Trichotomy
      <4>3. QED
        BY <4>1, <4>2
    <3>2. QED
      BY <1>1, <1>2, <1>6, <3>1, MagnitudeIs
  <2>2. sum = (Zero \ominus qe) \oplus (Zero \ominus uf) /\ sum \in Fraction
    <3>1. (Zero \ominus q) \otimes e = Zero \ominus qe /\ (Zero \ominus u) \otimes fp = Zero \ominus uf
      BY <1>1, Distributes, Units
    <3>2. sum = (Zero \ominus qe) \oplus (Zero \ominus uf)
      BY <2>1, <3>1
    <3> HIDE DEF sum, qe, uf
    <3>3. Zero \ominus qe \in Fraction /\ Zero \ominus uf \in Fraction
      BY <1>1, Sums
    <3>4. sum \in Fraction
      <4> DEFINE x == Zero \ominus qe
                 y == Zero \ominus uf
      <4>1. x \in Fraction /\ y \in Fraction /\ sum = x \oplus y
        BY <3>2, <3>3
      <4> HIDE DEF x, y
      <4>2. QED
        BY <4>1, Sums
    <3>5. QED
      BY <3>2, <3>4
  <2> HIDE DEF sum
  <2>3. grown \in Fraction /\ grown \otimes m = sum
    <3> HIDE DEF m
    <3>1. QED
      BY <1>4, <2>2, Over
  <2>4. qg \in Fraction /\ sum = Zero \ominus qg
    <3> HIDE DEF grown
    <3>1. qg \in Fraction /\ grown \otimes qty = qg
      BY <1>1, <2>3, Products
    <3>2. grown \otimes (Zero \ominus qty) = Zero \ominus qg
      BY <1>1, <2>3, <3>1, Distributes, Units
    <3>3. QED
      BY <2>1, <2>3, <3>1, <3>2
  <2>5. (Zero \ominus qe) \oplus (Zero \ominus uf) = Zero \ominus qg
    BY <2>2, <2>4
  <2>6. qg = qe \oplus uf
    <3> HIDE DEF qe, uf, qg
    <3>1. PICK V, S : Reads(V, S) /\ {qe, uf, qg, qe, qe, qe, qe, qe} \subseteq S
      <4>1. Commensurable(qe, uf, qg, qe, qe, qe, qe, qe)
        BY <1>1, <2>4, Linear
      <4>2. QED
        BY <4>1 DEF Commensurable
    <3>2. qe \in S /\ uf \in S /\ qg \in S
      BY <3>1
    <3>3. V[(Zero \ominus qe) \oplus (Zero \ominus uf)] = V[Zero \ominus qg]
      BY <2>5
    <3>4. QED
      BY <3>1, <3>2, <3>3 DEF Reads
  <2>7. QED
    BY <1>1, <1>3, <2>3, <2>6 DEF qty, sum
<1>7. QED
  BY <1>5, <1>6

\* How much of a position a move the other way closes, and the entry price of
\* what remains.
ClosedBy(q, u) ==
  IF Zero \prec q THEN Least(q, Magnitude(u)) ELSE Zero \ominus Least(Magnitude(q), u)
EntryLeft(q, e, u, fp) ==
  LET qty == q \oplus u
  IN  CASE qty = Zero -> Zero
        [] qty # Zero /\ (Zero \prec q) # (Zero \prec qty) -> fp
        [] OTHER -> e

\* How much of a position an order of the RL execution model closes, and at what
\* entry it leaves the rest.
LEMMA ClosedIs ==
  ASSUME NEW q \in Fraction, NEW e \in Fraction, NEW u \in Fraction, NEW fp \in Fraction,
         \/ Zero \prec q /\ u \prec Zero
         \/ q \prec Zero /\ Zero \prec u
  PROVE  LET qty == q \oplus u
             closed == ClosedBy(q, u)
             entry == EntryLeft(q, e, u, fp)
         IN  /\ closed \in Fraction /\ entry \in Fraction
             /\ \/ qty = Zero /\ closed = q /\ entry = Zero
                \/ closed = q /\ entry = fp
                \/ closed = Zero \ominus u /\ entry = e
<1> DEFINE qty == q \oplus u
           v == Zero \ominus u
           r == Zero \ominus q
           closed == ClosedBy(q, u)
           entry == EntryLeft(q, e, u, fp)
<1>1. qty \in Fraction /\ v \in Fraction /\ r \in Fraction /\ Zero \in Fraction
  <2>1. Zero \in Fraction
    BY Constants
  <2>2. QED
    BY <2>1, Sums
<1>2. PICK V, S : Reads(V, S) /\ {q, u, q, q, q, q, q, q} \subseteq S
  <2>1. Commensurable(q, u, q, q, q, q, q, q)
    BY Linear
  <2>2. QED
    BY <2>1 DEF Commensurable
<1>3. q \in S /\ u \in S
  BY <1>2
<1>4. /\ v \prec q <=> Zero \prec qty
      /\ u \prec r <=> qty \prec Zero
      /\ Zero \ominus r = q
  <2>1. /\ v \in S /\ r \in S /\ qty \in S /\ Zero \in S /\ V[Zero] = 0
        /\ V[v] = 0 - V[u] /\ V[r] = 0 - V[q] /\ V[qty] = V[q] + V[u]
    BY <1>2, <1>3 DEF Reads
  <2> HIDE DEF v, r, qty
  <2>2. /\ v \prec q <=> Zero \prec qty
        /\ u \prec r <=> qty \prec Zero
    BY <1>2, <1>3, <2>1 DEF Reads
  <2>3. Zero \ominus r = q
    BY <1>2, <1>3, <2>1 DEF Reads
  <2>4. QED
    BY <2>2, <2>3
<1>5. entry = CASE qty = Zero -> Zero
                [] qty # Zero /\ (Zero \prec q) # (Zero \prec qty) -> fp
                [] OTHER -> e
  BY DEF EntryLeft
<1>50. closed = IF Zero \prec q THEN Least(q, Magnitude(u)) ELSE Zero \ominus Least(Magnitude(q), u)
  BY DEF ClosedBy
<1> HIDE DEF closed, entry
<1>6. CASE Zero \prec q /\ u \prec Zero
  <2>1. Magnitude(u) = v
    BY <1>6, MagnitudeIs
  <2>2. closed = Least(q, v)
    BY <1>6, <1>50, <2>1
  <2> HIDE DEF qty, v, r
  <2>3. closed = IF v \prec q THEN v ELSE q
    BY <1>1, <2>2, LeastIs
  <2>4. CASE Zero \prec qty
    <3>1. qty # Zero /\ closed = v
      BY <1>1, <1>4, <2>3, <2>4, Trichotomy
    <3>2. entry = e
      BY <1>5, <1>6, <2>4, <3>1
    <3>3. QED
      BY <1>1, <3>1, <3>2 DEF v, closed, entry
  <2>5. CASE ~ (Zero \prec qty)
    <3>1. closed = q
      BY <1>4, <2>3, <2>5
    <3>2. (qty = Zero /\ entry = Zero) \/ entry = fp
      <4>1. CASE qty = Zero
        BY <1>5, <4>1
      <4>2. CASE qty # Zero
        BY <1>5, <1>6, <2>5, <4>2
      <4>3. QED
        BY <4>1, <4>2
    <3>3. QED
      BY <1>1, <3>1, <3>2 DEF qty, closed, entry
  <2>6. QED
    BY <2>4, <2>5
<1>7. CASE q \prec Zero /\ Zero \prec u
  <2>1. Magnitude(q) = r /\ ~ (Zero \prec q)
    BY <1>1, <1>7, MagnitudeIs, Trichotomy
  <2>2. closed = Zero \ominus Least(r, u)
    BY <1>50, <2>1
  <2> HIDE DEF qty, r
  <2>3. Least(r, u) = IF u \prec r THEN u ELSE r
    BY <1>1, LeastIs
  <2>4. CASE qty \prec Zero
    <3>1. qty # Zero /\ ~ (Zero \prec qty) /\ closed = v
      BY <1>1, <1>4, <2>2, <2>3, <2>4, Trichotomy
    <3>2. (Zero \prec q) \in BOOLEAN /\ (Zero \prec qty) \in BOOLEAN
      BY <1>1, Decides
    <3>3. (Zero \prec q) = (Zero \prec qty)
      BY <2>1, <3>1, <3>2
    <3>4. entry = e
      BY <1>5, <3>1, <3>3
    <3>5. QED
      BY <1>1, <3>1, <3>4 DEF closed, entry
  <2>5. CASE ~ (qty \prec Zero)
    <3>1. closed = q
      BY <1>4, <2>2, <2>3, <2>5
    <3>2. (qty = Zero /\ entry = Zero) \/ entry = fp
      <4>1. CASE qty = Zero
        BY <1>5, <4>1
      <4>2. CASE qty # Zero
        <5>1. Zero \prec qty
          BY <1>1, <2>5, <4>2, Trichotomy
        <5>2. QED
          BY <1>5, <2>1, <4>2, <5>1
      <4>3. QED
        BY <4>1, <4>2
    <3>3. QED
      BY <1>1, <3>1, <3>2 DEF qty, closed, entry
  <2>6. QED
    BY <2>4, <2>5
<1>8. QED
  BY <1>6, <1>7 DEF closed, entry

\* The futures books of the bridge.
LEMMA MoveFuturesIs ==
  ASSUME NEW a \in AccountType, NEW p \in Fraction, NEW fill,
         fill.units \in Fraction, fill.units # Zero, fill.price \in Fraction
  PROVE  LET moved == MoveFutures(a, fill)
         IN  /\ moved \in AccountType /\ moved.qty = a.qty \oplus fill.units
             /\ FuturesWorth(moved, p)
                  = FuturesWorth(a, p) \ominus (fill.units \otimes (fill.price \ominus p))
<1> DEFINE u == fill.units
           fp == fill.price
           c == a.cash
           q == a.qty
           e == a.entry
           qty == q \oplus u
           moved == MoveFutures(a, fill)
           qp == q \otimes p
           up == u \otimes p
           qe == q \otimes e
           uf == u \otimes fp
           ue == u \otimes e
           qf == q \otimes fp
<1>1. /\ u \in Fraction /\ u # Zero /\ fp \in Fraction /\ c \in Fraction /\ q \in Fraction
      /\ e \in Fraction /\ Zero \in Fraction
  BY Fields, Constants
<1>2. /\ qp \in Fraction /\ up \in Fraction /\ qe \in Fraction /\ uf \in Fraction
      /\ ue \in Fraction /\ qf \in Fraction /\ qty \in Fraction
  BY <1>1, Products, Sums
<1>3. /\ FuturesWorth(a, p) = c \oplus (qp \ominus qe)
      /\ u \otimes (fp \ominus p) = uf \ominus up
      /\ qty \otimes p = qp \oplus up
  BY <1>1, FuturesWorthIs, Distributes
<1>4. u \prec Zero \/ Zero \prec u
  BY <1>1, Trichotomy
<1>5. CASE SameSide(a, u)
  <2> DEFINE grown == ((Magnitude(q) \otimes e) \oplus (Magnitude(u) \otimes fp)) \oslash Magnitude(qty)
             qg == qty \otimes grown
  <2>1. \/ Zero \preceq q /\ Zero \prec u
        \/ q \preceq Zero /\ u \prec Zero
    <3>1. CASE q = Zero
      BY <1>1, <1>4, <3>1, Trichotomy
    <3>2. CASE q # Zero
      <4>1. (Zero \prec q) = (Zero \prec u)
        BY <1>5, <3>2 DEF SameSide
      <4>2. q \prec Zero \/ Zero \prec q
        BY <1>1, <3>2, Trichotomy
      <4>3. QED
        BY <1>1, <1>4, <4>1, <4>2, Trichotomy
    <3>3. QED
      BY <3>1, <3>2
  <2>2. moved = [a EXCEPT !.qty = qty, !.entry = grown]
    BY <1>5 DEF MoveFutures
  <2> HIDE DEF u, fp, q, e, c
  <2>3. grown \in Fraction /\ qg = qe \oplus uf
    BY <1>1, <2>1, GrownIs
  <2> HIDE DEF grown, qty, moved
  <2>4. moved \in AccountType /\ moved.qty = qty /\ moved.cash = c /\ moved.entry = grown
    BY <1>1, <1>2, <2>2, <2>3 DEF AccountType, c
  <2>5. FuturesWorth(moved, p) = c \oplus ((qp \oplus up) \ominus (qe \oplus uf))
    BY <1>3, <2>3, <2>4, FuturesWorthIs
  <2>6. c \oplus ((qp \oplus up) \ominus (qe \oplus uf)) = (c \oplus (qp \ominus qe)) \ominus (uf \ominus up)
    <3> HIDE DEF qp, up, qe, uf
    <3>1. PICK V, S : Reads(V, S) /\ {c, qp, up, qe, uf, c, c, c} \subseteq S
      <4>1. Commensurable(c, qp, up, qe, uf, c, c, c)
        BY <1>1, <1>2, Linear
      <4>2. QED
        BY <4>1 DEF Commensurable
    <3>2. c \in S /\ qp \in S /\ up \in S /\ qe \in S /\ uf \in S
      BY <3>1
    <3>3. QED
      BY <3>1, <3>2 DEF Reads
  <2>7. QED
    BY <1>3, <2>4, <2>5, <2>6 DEF moved, u, fp, q, qty
<1>6. CASE ~ SameSide(a, u)
  <2> DEFINE closed == ClosedBy(q, u)
             entry == EntryLeft(q, e, u, fp)
             gain == closed \otimes (fp \ominus e)
             z == qty \otimes entry
  <2>1. \/ Zero \prec q /\ u \prec Zero
        \/ q \prec Zero /\ Zero \prec u
    <3>1. q # Zero /\ ~ ((Zero \prec q) = (Zero \prec u))
      BY <1>6 DEF SameSide
    <3>2. q \prec Zero \/ Zero \prec q
      BY <1>1, <3>1, Trichotomy
    <3>3. (Zero \prec q) \in BOOLEAN /\ (Zero \prec u) \in BOOLEAN
      BY <1>1, Decides
    <3>4. ~ (Zero \prec q /\ Zero \prec u) /\ (Zero \prec q \/ Zero \prec u)
      BY <3>1, <3>3
    <3>5. QED
      BY <1>1, <1>4, <3>2, <3>4, Trichotomy
  <2>2. moved = [cash |-> c \oplus gain, qty |-> qty, entry |-> entry]
    BY <1>6 DEF MoveFutures, ClosedBy, EntryLeft
  <2> HIDE DEF u, fp, q, e, c
  <2>3. /\ closed \in Fraction /\ entry \in Fraction
        /\ \/ qty = Zero /\ closed = q /\ entry = Zero
           \/ closed = q /\ entry = fp
           \/ closed = Zero \ominus u /\ entry = e
    BY <1>1, <2>1, ClosedIs
  <2> HIDE DEF closed, entry, moved
  <2>4. gain = (closed \otimes fp) \ominus (closed \otimes e)
    BY <1>1, <2>3, Distributes
  <2>5. \/ z = Zero /\ qty = Zero /\ gain = qf \ominus qe
        \/ z = qf \oplus uf /\ gain = qf \ominus qe
        \/ z = qe \oplus ue /\ gain = (Zero \ominus uf) \ominus (Zero \ominus ue)
    <3>1. CASE qty = Zero /\ closed = q /\ entry = Zero
      BY <1>1, <2>4, <3>1, Units
    <3>2. CASE closed = q /\ entry = fp
      <4>1. qty \otimes fp = qf \oplus uf
        BY <1>1, Distributes
      <4>2. QED
        BY <2>4, <3>2, <4>1
    <3>3. CASE closed = Zero \ominus u /\ entry = e
      <4>1. qty \otimes e = qe \oplus ue
        BY <1>1, Distributes
      <4>2. (Zero \ominus u) \otimes fp = Zero \ominus uf /\ (Zero \ominus u) \otimes e = Zero \ominus ue
        BY <1>1, Distributes, Units
      <4>3. QED
        BY <2>4, <3>3, <4>1, <4>2
    <3>4. QED
      BY <2>3, <3>1, <3>2, <3>3
  <2>6. gain \in Fraction
    <3>1. fp \ominus e \in Fraction
      BY <1>1, Sums
    <3> DEFINE d == fp \ominus e
    <3> HIDE DEF d
    <3>2. closed \otimes d \in Fraction
      BY <2>3, <3>1, Products DEF d
    <3>3. QED
      BY <3>2 DEF d
  <2> HIDE DEF gain, qty
  <2>7. c \oplus gain \in Fraction
    BY <1>1, <2>6, Sums
  <2>8. moved \in AccountType /\ moved.qty = qty /\ moved.cash = c \oplus gain /\ moved.entry = entry
    BY <1>2, <2>2, <2>3, <2>7 DEF AccountType
  <2>9. FuturesWorth(moved, p) = (c \oplus gain) \oplus ((qp \oplus up) \ominus z)
    BY <1>3, <2>8, FuturesWorthIs
  <2>10. (c \oplus gain) \oplus ((qp \oplus up) \ominus z) = (c \oplus (qp \ominus qe)) \ominus (uf \ominus up)
    <3>1. CASE z = Zero /\ qty = Zero /\ gain = qf \ominus qe
      <4>1. qp \oplus up = Zero /\ qf \oplus uf = Zero
        <5>1. qty \otimes p = Zero /\ qty \otimes fp = Zero
          BY <1>1, <3>1, Units
        <5>2. qty \otimes fp = qf \oplus uf
          BY <1>1, Distributes DEF qty
        <5>3. QED
          BY <1>3, <5>1, <5>2
      <4> HIDE DEF qp, up, qe, uf, qf, z
      <4>2. PICK V, S : Reads(V, S) /\ {c, qp, up, qe, uf, qf, c, c} \subseteq S
        <5>1. Commensurable(c, qp, up, qe, uf, qf, c, c)
          BY <1>1, <1>2, Linear
        <5>2. QED
          BY <5>1 DEF Commensurable
      <4>3. c \in S /\ qp \in S /\ up \in S /\ qe \in S /\ uf \in S /\ qf \in S
        BY <4>2
      <4>4. V[qp \oplus up] = V[Zero] /\ V[qf \oplus uf] = V[Zero]
        BY <4>1
      <4>5. (c \oplus (qf \ominus qe)) \oplus ((qp \oplus up) \ominus Zero)
              = (c \oplus (qp \ominus qe)) \ominus (uf \ominus up)
        <5>1. V[qp] + V[up] = 0 /\ V[qf] + V[uf] = 0
          BY <4>2, <4>3, <4>4 DEF Reads
        <5> DEFINE lhs == (c \oplus (qf \ominus qe)) \oplus ((qp \oplus up) \ominus Zero)
                   rhs == (c \oplus (qp \ominus qe)) \ominus (uf \ominus up)
        <5>2. lhs \in S /\ V[lhs] = (V[c] + (V[qf] - V[qe])) + ((V[qp] + V[up]) - 0)
          BY <4>2, <4>3 DEF Reads
        <5>3. rhs \in S /\ V[rhs] = (V[c] + (V[qp] - V[qe])) - (V[uf] - V[up])
          BY <4>2, <4>3 DEF Reads
        <5>4. /\ V[c] \in Int /\ V[qp] \in Int /\ V[up] \in Int /\ V[qe] \in Int
              /\ V[uf] \in Int /\ V[qf] \in Int
          BY <4>2, <4>3 DEF Reads
        <5> HIDE DEF lhs, rhs
        <5>5. V[lhs] = V[rhs]
          <6> DEFINE vc == V[c]
                     vp == V[qp]
                     vu == V[up]
                     ve == V[qe]
                     vf == V[uf]
                     vq == V[qf]
          <6>1. /\ vc \in Int /\ vp \in Int /\ vu \in Int /\ ve \in Int /\ vf \in Int /\ vq \in Int
                /\ vp + vu = 0 /\ vq + vf = 0
                /\ V[lhs] = (vc + (vq - ve)) + ((vp + vu) - 0)
                /\ V[rhs] = (vc + (vp - ve)) - (vf - vu)
            BY <5>1, <5>2, <5>3, <5>4
          <6> HIDE DEF vc, vp, vu, ve, vf, vq
          <6>2. (vc + (vq - ve)) + ((vp + vu) - 0) = (vc + (vp - ve)) - (vf - vu)
            BY <6>1
          <6>3. QED
            BY <6>1, <6>2
        <5>6. QED
          BY <4>2, <5>2, <5>3, <5>5 DEF Reads, lhs, rhs
      <4>6. QED
        BY <3>1, <4>5
    <3>2. CASE z = qf \oplus uf /\ gain = qf \ominus qe
      <4> HIDE DEF qp, up, qe, uf, qf, z
      <4>2. PICK V, S : Reads(V, S) /\ {c, qp, up, qe, uf, qf, c, c} \subseteq S
        <5>1. Commensurable(c, qp, up, qe, uf, qf, c, c)
          BY <1>1, <1>2, Linear
        <5>2. QED
          BY <5>1 DEF Commensurable
      <4>3. c \in S /\ qp \in S /\ up \in S /\ qe \in S /\ uf \in S /\ qf \in S
        BY <4>2
      <4>5. (c \oplus (qf \ominus qe)) \oplus ((qp \oplus up) \ominus (qf \oplus uf))
              = (c \oplus (qp \ominus qe)) \ominus (uf \ominus up)
        BY <4>2, <4>3 DEF Reads
      <4>6. QED
        BY <3>2, <4>5
    <3>3. CASE z = qe \oplus ue /\ gain = (Zero \ominus uf) \ominus (Zero \ominus ue)
      <4> HIDE DEF qp, up, qe, uf, ue, z
      <4>2. PICK V, S : Reads(V, S) /\ {c, qp, up, qe, uf, ue, c, c} \subseteq S
        <5>1. Commensurable(c, qp, up, qe, uf, ue, c, c)
          BY <1>1, <1>2, Linear
        <5>2. QED
          BY <5>1 DEF Commensurable
      <4>3. c \in S /\ qp \in S /\ up \in S /\ qe \in S /\ uf \in S /\ ue \in S
        BY <4>2
      <4>5. (c \oplus ((Zero \ominus uf) \ominus (Zero \ominus ue))) \oplus ((qp \oplus up) \ominus (qe \oplus ue))
              = (c \oplus (qp \ominus qe)) \ominus (uf \ominus up)
        BY <4>2, <4>3 DEF Reads
      <4>6. QED
        BY <3>3, <4>5
    <3>4. QED
      BY <2>5, <3>1, <3>2, <3>3
  <2>11. QED
    BY <1>3, <2>8, <2>9, <2>10 DEF moved, u, fp, q, qty
<1>7. QED
  BY <1>5, <1>6

-----------------------------------------------------------------------------
(* Accounts: the RL execution model in the spot market.                    *)

\* Charging a fee on top of a cost.
LEMMA CostsAdd ==
  ASSUME NEW w \in Fraction, NEW fee \in Fraction, Zero \preceq fee,
         NEW cost \in Fraction, Zero \preceq cost
  PROVE  /\ fee \oplus cost \in Fraction /\ Zero \preceq (fee \oplus cost)
         /\ (w \ominus cost) \ominus fee = w \ominus (fee \oplus cost)
<1>1. PICK V, S : Reads(V, S) /\ {w, fee, cost, w, w, w, w, w} \subseteq S
  <2>1. Commensurable(w, fee, cost, w, w, w, w, w)
    BY Linear
  <2>2. QED
    BY <2>1 DEF Commensurable
<1>2. w \in S /\ fee \in S /\ cost \in S
  BY <1>1
<1>3. (w \ominus cost) \ominus fee = w \ominus (fee \oplus cost)
  BY <1>1, <1>2 DEF Reads
<1>4. QED
  BY <1>3, Sums, NonNegative

\* An order that moves nothing costs nothing.
LEMMA StayingIsFree ==
  ASSUME NEW q \in Fraction, NEW g \in Fraction
  PROVE  Magnitude(q \ominus q) \otimes g = Zero
<1>1. Zero \in Fraction /\ ~ (Zero \prec Zero) /\ q \ominus q = Zero
  BY Constants, Trichotomy, NonNegative
<1>2. Magnitude(Zero) = Zero
  BY <1>1, MagnitudeIs
<1>3. QED
  BY <1>1, <1>2, Units

\* The bridge's spot books: what a buy owes is its fee.
LEMMA TrackerSpotIsFair ==
  ASSUME NEW a \in AccountType, Zero \preceq a.qty, NEW p, IsPrice(p),
         NEW fill, IsMove(fill, p),
         Zero \prec fill.units => (fill.units \otimes fill.price) \preceq a.cash,
         NEW before \in Fraction, Zero \preceq before, Zero \preceq (a.cash \oplus before)
  PROVE  LET out == TrackerApply("spot", a, fill, p)
         IN  /\ Fair(a, out, p) /\ Zero \preceq out.acct.qty
             /\ Zero \preceq (out.acct.cash \oplus (before \oplus out.cost))
<1> DEFINE u == fill.units
           fp == fill.price
           fee == fill.fee
           c == a.cash
           q == a.qty
           moved == IF u = Zero THEN a ELSE MoveSpot(a, fill)
           cost == Magnitude(moved.qty \ominus q) \otimes Magnitude(fp \ominus p)
           out == TrackerApply("spot", a, fill, p)
           uf == u \otimes fp
           after == moved.cash
<1>1. /\ p \in Fraction /\ fp \in Fraction /\ u \in Fraction /\ fee \in Fraction /\ Zero \preceq fee
      /\ c \in Fraction /\ q \in Fraction /\ Zero \in Fraction /\ Worth(a, p) \in Fraction
      /\ u = Zero => fee = Zero
      /\ uf \in Fraction
  BY Constants, Fields, Products DEF IsMove, IsPrice
<1>2. /\ moved \in AccountType /\ Zero \preceq moved.qty
      /\ cost \in Fraction /\ Zero \preceq cost
      /\ Worth(moved, p) = Worth(a, p) \ominus cost
      /\ \/ Zero \prec u /\ after = c \ominus uf
         \/ c \preceq after
  <2>1. CASE u = Zero
    <3>1. moved = a
      BY <2>1
    <3>2. Magnitude(fp \ominus p) \in Fraction
      <4>1. fp \ominus p \in Fraction
        BY <1>1, Sums
      <4> DEFINE g == fp \ominus p
      <4> HIDE DEF g
      <4>2. Magnitude(g) \in Fraction
        BY <4>1, MagnitudeIs DEF g
      <4>3. QED
        BY <4>2 DEF g
    <3>3. cost = Zero
      BY <1>1, <3>1, <3>2, StayingIsFree
    <3>4. Worth(a, p) \ominus Zero = Worth(a, p)
      <4> DEFINE w == Worth(a, p)
      <4>1. w \in Fraction
        BY <1>1
      <4> HIDE DEF w
      <4>2. w \ominus Zero = w
        BY <1>1, <4>1, NonNegative
      <4>3. QED
        BY <4>2 DEF w
    <3>5. Zero \preceq Zero /\ c \preceq c
      BY <1>1, Trichotomy
    <3> HIDE DEF cost, moved
    <3>6. QED
      BY <1>1, <3>1, <3>3, <3>4, <3>5
  <2>2. CASE u # Zero
    <3>1. LET m == MoveSpot(a, fill)
              k == Magnitude(m.qty \ominus a.qty) \otimes Magnitude(fill.price \ominus p)
          IN  /\ m \in AccountType /\ Zero \preceq m.qty
              /\ k \in Fraction /\ Zero \preceq k
              /\ Worth(m, p) = Worth(a, p) \ominus k
              /\ Zero \prec fill.units => m.cash = a.cash \ominus (fill.units \otimes fill.price)
              /\ fill.units \prec Zero => a.cash \preceq m.cash
      BY <2>2, MoveSpotIs
    <3>2. Zero \prec u \/ u \prec Zero
      BY <1>1, <2>2, Trichotomy
    <3>3. QED
      BY <2>2, <3>1, <3>2
  <2>3. QED
    BY <2>1, <2>2
<1>3. out = Outcome(Charged(moved, fee), fee \oplus cost, u # Zero)
  BY DEF TrackerApply
<1> HIDE DEF moved, cost, fee, out, u
<1>4. /\ Charged(moved, fee) \in AccountType /\ Charged(moved, fee).cash = after \ominus fee
      /\ Charged(moved, fee).qty = moved.qty
      /\ Worth(Charged(moved, fee), p) = Worth(moved, p) \ominus fee
  BY <1>1, <1>2, ChargedIs
<1>5. /\ fee \oplus cost \in Fraction /\ Zero \preceq (fee \oplus cost)
      /\ Worth(Charged(moved, fee), p) = Worth(a, p) \ominus (fee \oplus cost)
  <2> DEFINE w == Worth(a, p)
  <2>1. w \in Fraction /\ Worth(moved, p) = w \ominus cost
    BY <1>1, <1>2
  <2> HIDE DEF w
  <2>2. /\ fee \oplus cost \in Fraction /\ Zero \preceq (fee \oplus cost)
        /\ (w \ominus cost) \ominus fee = w \ominus (fee \oplus cost)
    BY <1>1, <1>2, <2>1, CostsAdd
  <2>3. QED
    BY <1>4, <2>1, <2>2 DEF w
<1>6. Fair(a, out, p) /\ Zero \preceq out.acct.qty
  BY <1>2, <1>3, <1>4, <1>5 DEF Fair, Types, Outcome
<1>7. Zero \preceq ((after \ominus fee) \oplus (before \oplus (fee \oplus cost)))
  <2>1. after \in Fraction
    BY <1>2, Fields
  <2>2. \/ after = c \ominus uf /\ uf \preceq c
        \/ c \preceq after /\ Zero \preceq (c \oplus before)
    BY <1>2 DEF u
  <2> HIDE DEF after, c, uf
  <2>3. PICK V, S : Reads(V, S) /\ {after, c, uf, fee, cost, before, c, c} \subseteq S
    <3>1. Commensurable(after, c, uf, fee, cost, before, c, c)
      BY <1>1, <1>2, <2>1, Linear
    <3>2. QED
      BY <3>1 DEF Commensurable
  <2>4. after \in S /\ c \in S /\ uf \in S /\ fee \in S /\ cost \in S /\ before \in S
    BY <2>3
  <2>5. CASE after = c \ominus uf /\ uf \preceq c
    BY <1>1, <1>2, <2>3, <2>4, <2>5 DEF Reads
  <2>6. CASE c \preceq after /\ Zero \preceq (c \oplus before)
    BY <1>1, <1>2, <2>3, <2>4, <2>6 DEF Reads
  <2>7. QED
    BY <2>2, <2>5, <2>6
<1>8. out.acct.cash = after \ominus fee /\ out.cost = fee \oplus cost
  BY <1>3, <1>4 DEF Outcome
<1>9. QED
  BY <1>6, <1>7, <1>8 DEF out

\* The bridge's futures books.
LEMMA TrackerFuturesIsFair ==
  ASSUME NEW a \in AccountType, NEW p, IsPrice(p), NEW fill, IsMove(fill, p)
  PROVE  FairFutures(a, TrackerApply("futures", a, fill, p), p)
<1> DEFINE u == fill.units
           fp == fill.price
           fee == fill.fee
           q == a.qty
           moved == IF u = Zero THEN a ELSE MoveFutures(a, fill)
           cost == Magnitude(moved.qty \ominus q) \otimes Magnitude(fp \ominus p)
           out == TrackerApply("futures", a, fill, p)
           w == FuturesWorth(a, p)
<1>1. /\ p \in Fraction /\ fp \in Fraction /\ u \in Fraction /\ fee \in Fraction /\ Zero \preceq fee
      /\ q \in Fraction /\ Zero \in Fraction /\ w \in Fraction
      /\ Zero \prec u => p \preceq fp
      /\ u \prec Zero => fp \preceq p
  BY Constants, Fields, FuturesWorthIs DEF IsMove, IsPrice
<1>2. /\ moved \in AccountType
      /\ cost \in Fraction /\ Zero \preceq cost
      /\ FuturesWorth(moved, p) = w \ominus cost
  <2>1. CASE u = Zero
    <3>1. moved = a
      BY <2>1
    <3>2. Magnitude(fp \ominus p) \in Fraction
      <4>1. fp \ominus p \in Fraction
        BY <1>1, Sums
      <4> DEFINE g == fp \ominus p
      <4> HIDE DEF g
      <4>2. Magnitude(g) \in Fraction
        BY <4>1, MagnitudeIs DEF g
      <4>3. QED
        BY <4>2 DEF g
    <3>3. cost = Zero
      BY <1>1, <3>1, <3>2, StayingIsFree
    <3> HIDE DEF w
    <3>4. w \ominus Zero = w /\ Zero \preceq Zero
      BY <1>1, NonNegative, Trichotomy
    <3> HIDE DEF cost, moved
    <3>6. QED
      BY <1>1, <3>1, <3>3, <3>4 DEF w
  <2>2. CASE u # Zero
    <3>1. /\ moved \in AccountType /\ moved.qty = q \oplus u
          /\ FuturesWorth(moved, p) = w \ominus (u \otimes (fp \ominus p))
      BY <1>1, <2>2, MoveFuturesIs
    <3> DEFINE r == moved.qty
    <3>2. r = q \oplus u /\ r \in Fraction
      BY <1>1, <3>1, Sums
    <3> HIDE DEF r, q, u, fp
    <3>3. /\ r \ominus q = u
          /\ \/ q \preceq r /\ p \preceq fp
             \/ r \preceq q /\ fp \preceq p
      <4>1. PICK V, S : Reads(V, S) /\ {q, u, q, q, q, q, q, q} \subseteq S
        <5>1. Commensurable(q, u, q, q, q, q, q, q)
          BY <1>1, Linear
        <5>2. QED
          BY <5>1 DEF Commensurable
      <4>2. q \in S /\ u \in S
        BY <4>1
      <4>3. /\ (q \oplus u) \ominus q = u
            /\ Zero \prec u => q \preceq (q \oplus u)
            /\ u \prec Zero => (q \oplus u) \preceq q
        BY <4>1, <4>2 DEF Reads
      <4>4. u \prec Zero \/ Zero \prec u
        BY <1>1, <2>2, Trichotomy
      <4>5. CASE Zero \prec u
        BY <1>1, <3>2, <4>3, <4>5
      <4>6. CASE u \prec Zero
        BY <1>1, <3>2, <4>3, <4>6
      <4>7. QED
        BY <4>4, <4>5, <4>6
    <3>4. LET k == Magnitude(r \ominus q) \otimes Magnitude(fp \ominus p)
          IN  k \in Fraction /\ Zero \preceq k /\ k = u \otimes (fp \ominus p)
      <4> DEFINE k == Magnitude(r \ominus q) \otimes Magnitude(fp \ominus p)
      <4>1. /\ r \in Fraction /\ q \in Fraction /\ p \in Fraction /\ fp \in Fraction
            /\ \/ q \preceq r /\ p \preceq fp
               \/ r \preceq q /\ fp \preceq p
        BY <1>1, <3>2, <3>3
      <4>3. k \in Fraction /\ Zero \preceq k /\ k = (r \ominus q) \otimes (fp \ominus p)
        <5>1. CASE q \preceq r /\ p \preceq fp
          BY <4>1, <5>1, MovedBy
        <5>2. CASE r \preceq q /\ fp \preceq p
          BY <4>1, <5>2, MovedBy
        <5>3. QED
          BY <4>1, <5>1, <5>2
      <4>2. QED
        BY <3>3, <4>3
    <3>5. QED
      BY <3>1, <3>4 DEF r
  <2>3. QED
    BY <2>1, <2>2
<1>3. out = Outcome(Charged(moved, fee), fee \oplus cost, u # Zero)
  BY DEF TrackerApply
<1> HIDE DEF moved, cost, fee, out, u, w
<1>4. /\ Charged(moved, fee) \in AccountType
      /\ FuturesWorth(Charged(moved, fee), p) = FuturesWorth(moved, p) \ominus fee
  BY <1>1, <1>2, ChargedIs
<1>5. /\ fee \oplus cost \in Fraction /\ Zero \preceq (fee \oplus cost)
      /\ (w \ominus cost) \ominus fee = w \ominus (fee \oplus cost)
  BY <1>1, <1>2, CostsAdd
<1>6. FairFutures(a, out, p)
  BY <1>2, <1>3, <1>4, <1>5 DEF FairFutures, Types, Outcome, w
<1>7. QED
  BY <1>6 DEF out

-----------------------------------------------------------------------------
(* Accounts: rewards and worth.                                            *)

(* Rewards of the bridge. *)

LEMMA Weight ==
  /\ DrawdownWeight \in Fraction /\ SharpeWeight \in Fraction /\ ContextWeight \in Fraction
  /\ Half \in Fraction /\ DeadZone \in Fraction
  /\ Zero \preceq DrawdownWeight /\ Zero \preceq SharpeWeight /\ Zero \preceq ContextWeight
  /\ Zero \preceq Half
<1>1. ASSUME NEW n \in Nat, NEW d \in Positive, <<n, d>> \in Fraction, Frac(n, d) = <<n, d>>
      PROVE  Zero \preceq <<n, d>>
  <2>1. Frac(n, d) \prec Frac(0, 1) <=> n * 1 < 0 * d
    BY <1>1, Constants, FracLess
  <2>2. ~ (<<n, d>> \prec Zero)
    BY <1>1, <2>1, Constants DEF Positive
  <2>3. QED
    BY <1>1, <2>2, Constants, Trichotomy
<1>2. 10 \in Positive /\ 20 \in Positive /\ 2 \in Positive /\ 3 \in Nat /\ 1 \in Nat
  BY DEF Positive
<1>3. <<3, 20>> \in Fraction /\ Frac(3, 20) = <<3, 20>>
  <2> DEFINE n == 3
             d == 20
             u == 7
             v == -1
  <2>1. n \in Int /\ d \in Positive /\ u \in Int /\ v \in Int /\ n * u + d * v = 1
    BY DEF Positive
  <2> HIDE DEF n, d, u, v
  <2>2. <<n, d>> \in Fraction /\ Frac(n, d) = <<n, d>>
    BY <2>1, Coprime
  <2>3. QED
    BY <2>2 DEF n, d
<1>4. \A d \in Positive : <<1, d>> \in Fraction /\ Frac(1, d) = <<1, d>>
  <2> SUFFICES ASSUME NEW d \in Positive
               PROVE  <<1, d>> \in Fraction /\ Frac(1, d) = <<1, d>>
    OBVIOUS
  <2>1. 1 \in Int
    OBVIOUS
  <2>2. QED
    BY <2>1, Numerals
<1>5. Zero \preceq <<3, 20>>
  BY <1>1, <1>2, <1>3
<1>6. \A d \in Positive : Zero \preceq <<1, d>>
  BY <1>1, <1>2, <1>4
<1>7. QED
  BY <1>2, <1>3, <1>4, <1>5, <1>6
     DEF DrawdownWeight, SharpeWeight, ContextWeight, Half, DeadZone

\* A drawdown is never negative, and none at the peak.
LEMMA DrawdownIs ==
  ASSUME NEW peak \in Fraction, Zero \prec peak, NEW worth \in Fraction
  PROVE  /\ Drawdown(peak, worth) \in Fraction /\ Zero \preceq Drawdown(peak, worth)
         /\ worth = peak => Drawdown(peak, worth) = Zero
<1> DEFINE d == peak \ominus worth
           r == d \oslash peak
<1>1. d \in Fraction /\ peak # Zero /\ Zero \in Fraction
  BY Sums, SignOfQuotient, Constants
<1>2. worth = peak => d = Zero
  BY NonNegative
<1> HIDE DEF d
<1>3. r \in Fraction
  BY <1>1, Over
<1>4. d = Zero => r = Zero
  BY <1>1, <1>3, SignOfQuotient, Trichotomy, Ordered
<1> HIDE DEF r
<1>5. Drawdown(peak, worth) = Greatest(Zero, r)
  BY DEF Drawdown, r, d
<1>6. QED
  BY <1>1, <1>2, <1>3, <1>4, <1>5, GreatestIs

\* A step reward is positive only for a gain, and always for one without a drawdown.
LEMMA StepRewardIs ==
  ASSUME NEW profit \in Fraction, NEW drawdown \in Fraction, Zero \preceq drawdown,
         NEW hint \in {Zero, Half}
  PROVE  /\ StepReward(profit, drawdown, hint) \in Fraction
         /\ Zero \prec StepReward(profit, drawdown, hint) => Zero \prec profit
         /\ Zero \prec profit /\ drawdown = Zero =>
              Zero \prec StepReward(profit, drawdown, hint)
<1> DEFINE gain == profit \oslash InitialCash
           bonus == IF Zero \prec profit THEN gain \otimes SharpeWeight ELSE Zero
           cw == hint \otimes ContextWeight
           context == IF Zero \prec profit /\ HintThreshold \preceq hint
                      THEN Least(ContextWeight, cw) ELSE Zero
           loss == drawdown \otimes DrawdownWeight
           given == ((gain \oplus bonus) \ominus loss) \oplus context
<1>1. /\ InitialCash \in Fraction /\ Zero \prec InitialCash /\ Zero \in Fraction /\ Zero \preceq Zero
      /\ hint \in Fraction /\ Zero \preceq hint
  BY Assumed, Constants, Weight, Trichotomy
<1>2. /\ gain \in Fraction
      /\ Zero \prec profit => Zero \prec gain
      /\ ~ (Zero \prec profit) => gain \preceq Zero
  <2>1. ~ (Zero \prec profit) => profit \preceq Zero
    BY <1>1, Trichotomy
  <2>2. InitialCash # Zero
    BY <1>1, Trichotomy
  <2>3. gain \in Fraction
    BY <1>1, <2>2, Over
  <2>4. QED
    BY <1>1, <2>1, <2>3, SignOfQuotient
<1>3. loss \in Fraction /\ Zero \preceq loss /\ (drawdown = Zero => loss = Zero)
  BY Weight, Products, Signs, Units
<1>4. cw \in Fraction /\ Zero \preceq cw
  BY <1>1, Weight, Products, Signs
<1> HIDE DEF gain, cw, loss
<1>5. bonus \in Fraction /\ Zero \preceq bonus /\ (~ (Zero \prec profit) => bonus = Zero)
  <2>1. Zero \prec profit => Zero \preceq gain
    BY <1>1, <1>2, Trichotomy
  <2>2. gain \otimes SharpeWeight \in Fraction /\ (Zero \prec profit => Zero \preceq (gain \otimes SharpeWeight))
    BY <1>2, <2>1, Weight, Products, Signs
  <2>3. QED
    BY <1>1, <2>2
<1>6. context \in Fraction /\ Zero \preceq context /\ (~ (Zero \prec profit) => context = Zero)
  <2>1. Least(ContextWeight, cw) \in Fraction /\ Least(ContextWeight, cw) \in {ContextWeight, cw}
    BY <1>4, Weight, LeastIs
  <2>2. QED
    BY <1>1, <1>4, <2>1, Weight
<1> HIDE DEF bonus, context
<1>7. PICK V, S : Reads(V, S) /\ {gain, bonus, loss, context, gain, gain, gain, gain} \subseteq S
  <2>1. Commensurable(gain, bonus, loss, context, gain, gain, gain, gain)
    BY <1>2, <1>3, <1>5, <1>6, Linear
  <2>2. QED
    BY <2>1 DEF Commensurable
<1>8. gain \in S /\ bonus \in S /\ loss \in S /\ context \in S
  BY <1>7
<1>9. given \in Fraction
  BY <1>7, <1>8 DEF Reads
<1>10. ASSUME ~ (Zero \prec profit) PROVE ~ (Zero \prec given)
  <2>1. gain \preceq Zero /\ bonus = Zero /\ context = Zero
    BY <1>2, <1>5, <1>6, <1>10
  <2>2. ~ (Zero \prec (((gain \oplus Zero) \ominus loss) \oplus Zero))
    BY <1>3, <1>7, <1>8, <2>1 DEF Reads
  <2>3. QED
    BY <2>1, <2>2
<1>11. ASSUME Zero \prec profit, drawdown = Zero PROVE Zero \prec given
  <2>1. Zero \prec gain /\ loss = Zero
    BY <1>2, <1>3, <1>11
  <2>2. Zero \prec (((gain \oplus bonus) \ominus Zero) \oplus context)
    BY <1>5, <1>6, <1>7, <1>8, <2>1 DEF Reads
  <2>3. QED
    BY <2>1, <2>2
<1>12. StepReward(profit, drawdown, hint) = given
  BY DEF StepReward, gain, bonus, context, cw, loss
<1> HIDE DEF given
<1>13. QED
  BY <1>9, <1>10, <1>11, <1>12

(* Valuing an account at another price. *)

\* A worth at another price differs by quantity times price change.
LEMMA Revalued ==
  ASSUME NEW a \in AccountType, NEW p \in Fraction, NEW r \in Fraction
  PROVE  /\ a.qty \otimes (r \ominus p) \in Fraction
         /\ Worth(a, r) = Worth(a, p) \oplus (a.qty \otimes (r \ominus p))
         /\ FuturesWorth(a, r) = FuturesWorth(a, p) \oplus (a.qty \otimes (r \ominus p))
<1> DEFINE c == a.cash
           qp == a.qty \otimes p
           qr == a.qty \otimes r
           qe == a.qty \otimes a.entry
<1>1. c \in Fraction /\ a.qty \in Fraction /\ qp \in Fraction /\ qr \in Fraction /\ qe \in Fraction
  BY Fields, FuturesWorthIs
<1>2. /\ Worth(a, p) = c \oplus qp /\ Worth(a, r) = c \oplus qr
      /\ FuturesWorth(a, p) = c \oplus (qp \ominus qe) /\ FuturesWorth(a, r) = c \oplus (qr \ominus qe)
  BY Fields, FuturesWorthIs
<1>3. a.qty \otimes (r \ominus p) = qr \ominus qp
  BY <1>1, Distributes
<1> HIDE DEF c, qp, qr, qe
<1>4. PICK V, S : Reads(V, S) /\ {c, qp, qr, qe, c, c, c, c} \subseteq S
  <2>1. Commensurable(c, qp, qr, qe, c, c, c, c)
    BY <1>1, Linear
  <2>2. QED
    BY <2>1 DEF Commensurable
<1>5. c \in S /\ qp \in S /\ qr \in S /\ qe \in S
  BY <1>4
<1>6. /\ c \oplus qr = (c \oplus qp) \oplus (qr \ominus qp)
      /\ c \oplus (qr \ominus qe) = (c \oplus (qp \ominus qe)) \oplus (qr \ominus qp)
  BY <1>4, <1>5 DEF Reads
<1>7. qr \ominus qp \in Fraction
  BY <1>1, Sums
<1>8. QED
  BY <1>2, <1>3, <1>6, <1>7

\* What was worth, became value at a new price and pays a cost, moved as an
\* account may.
LEMMA PaidMoves ==
  ASSUME NEW value \in Fraction, NEW paid \in Fraction, NEW cost \in Fraction, Zero \preceq cost
  PROVE  /\ value \ominus cost = value \ominus ((paid \oplus cost) \ominus paid)
         /\ paid \preceq (paid \oplus cost)
<1>1. PICK V, S : Reads(V, S) /\ {value, paid, cost, cost, cost, cost, cost, cost} \subseteq S
  <2>1. Commensurable(value, paid, cost, cost, cost, cost, cost, cost)
    BY Linear
  <2>2. QED
    BY <2>1 DEF Commensurable
<1>2. value \in S /\ paid \in S /\ cost \in S
  BY <1>1
<1>3. value \ominus cost = value \ominus ((paid \oplus cost) \ominus paid)
  BY <1>1, <1>2 DEF Reads
<1>4. paid \preceq (paid \oplus cost)
  BY NonNegative
<1>5. QED
  BY <1>3, <1>4

\* Who owes nothing and has sold nothing short is worth something.
LEMMA SolventWorth ==
  ASSUME NEW a \in AccountType, Solvent(a), NEW p, IsPrice(p)
  PROVE  Worth(a, p) \in Fraction /\ Zero \preceq Worth(a, p)
<1> DEFINE c == a.cash
           qp == a.qty \otimes p
<1>1. /\ p \in Fraction /\ Zero \preceq p /\ c \in Fraction /\ Zero \preceq c
      /\ a.qty \in Fraction /\ Zero \preceq a.qty /\ Worth(a, p) = c \oplus qp
  BY Fields, Constants, Trichotomy DEF IsPrice, Solvent
<1>2. qp \in Fraction /\ Zero \preceq qp
  BY <1>1, Products, Signs
<1> HIDE DEF c, qp
<1>3. QED
  BY <1>1, <1>2, Sums, NonNegative

\* The vectorized engine redistributes its equity and keeps all of it.
LEMMA WeightedIs ==
  ASSUME NEW equity \in Fraction, Zero \preceq equity, NEW w, IsShare(w), NEW p, IsPrice(p)
  PROVE  LET a == [cash |-> equity \otimes (One \ominus w), qty |-> (equity \otimes w) \oslash p,
                   entry |-> Zero]
         IN  a \in AccountType /\ Solvent(a) /\ Worth(a, p) = equity
<1> DEFINE k == One \ominus w
           c == equity \otimes k
           ew == equity \otimes w
           q == ew \oslash p
           a == [cash |-> c, qty |-> q, entry |-> Zero]
<1>1. /\ p \in Fraction /\ Zero \prec p /\ p # Zero /\ w \in Fraction /\ Zero \preceq w /\ w \preceq One
      /\ One \in Fraction /\ Zero \in Fraction
  BY Constants, SignOfQuotient DEF IsPrice, IsShare
<1>2. k \in Fraction /\ Zero \preceq k
  BY <1>1, Sums, Ordered
<1>3. c = equity \ominus ew
  BY <1>1, Distributes, Units
<1> HIDE DEF k
<1>4. c \in Fraction /\ Zero \preceq c /\ ew \in Fraction /\ Zero \preceq ew
  BY <1>1, <1>2, Products, Signs
<1> HIDE DEF c, ew
<1>5. q \in Fraction /\ q \otimes p = ew /\ Zero \preceq q
  BY <1>1, <1>4, Over, SignOfQuotient
<1> HIDE DEF q
<1>6. a \in AccountType /\ Solvent(a) /\ a.cash = c /\ a.qty = q
  BY <1>1, <1>4, <1>5 DEF AccountType, Solvent
<1>7. Worth(a, p) = (equity \ominus ew) \oplus ew
  BY <1>3, <1>5 DEF Worth
<1>8. (equity \ominus ew) \oplus ew = equity
  <2>1. PICK V, S : Reads(V, S) /\ {equity, ew, ew, ew, ew, ew, ew, ew} \subseteq S
    <3>1. Commensurable(equity, ew, ew, ew, ew, ew, ew, ew)
      BY <1>4, Linear
    <3>2. QED
      BY <3>1 DEF Commensurable
  <2>2. equity \in S /\ ew \in S
    BY <2>1
  <2>3. QED
    BY <2>1, <2>2 DEF Reads
<1>9. QED
  BY <1>6, <1>7, <1>8 DEF k, c, ew, q
=============================================================================
