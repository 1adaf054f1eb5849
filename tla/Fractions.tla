----------------------------- MODULE Fractions -----------------------------
(* Exact fractions. The trading code computes prices, quantities and cash  *)
(* in floating point; the models compute them exactly, as reduced pairs    *)
(* <<numerator, denominator>> with a positive denominator, so that what a  *)
(* property shows is about the bookkeeping and not about rounding. The     *)
(* operations are functions: TLC computes each operand once.               *)
EXTENDS Integers

Positive == Nat \ {0}
Pairs == Int \X Positive

Gcd[c \in Nat \X Nat] == IF c[2] = 0 THEN c[1] ELSE Gcd[<<c[2], c[1] % c[2]>>]

\* The pair c[1] without the common divisor c[2].
Cancelled[c \in Pairs \X Positive] == <<c[1][1] \div c[2], c[1][2] \div c[2]>>
Reduced[c \in Pairs] ==
  Cancelled[<<c, Gcd[<<IF c[1] < 0 THEN -c[1] ELSE c[1], c[2]>>]>>]
Frac(n, d) == Reduced[<<n, d>>]
Fraction == {a \in Pairs : Reduced[a] = a}

Whole(n) == <<n, 1>>
Zero == Whole(0)
One == Whole(1)
Half == <<1, 2>>

\* Operands are brought to the smallest denominator they share, and factors
\* are reduced before they are multiplied, so that the numbers stay small;
\* c[3] is a common divisor of the denominators.
SumOver[c \in Pairs \X Pairs \X Positive] ==
  Frac(c[1][1] * (c[2][2] \div c[3]) + c[2][1] * (c[1][2] \div c[3]),
       c[1][2] * (c[2][2] \div c[3]))
Plus[c \in Pairs \X Pairs] == SumOver[<<c[1], c[2], Gcd[<<c[1][2], c[2][2]>>]>>]
LessOver[c \in Pairs \X Pairs \X Positive] ==
  c[1][1] * (c[2][2] \div c[3]) < c[2][1] * (c[1][2] \div c[3])
Less[c \in Pairs \X Pairs] == LessOver[<<c[1], c[2], Gcd[<<c[1][2], c[2][2]>>]>>]
Product[c \in Pairs \X Pairs] == Frac(c[1][1] * c[2][1], c[1][2] * c[2][2])
Times[c \in Pairs \X Pairs] == Product[<<Frac(c[1][1], c[2][2]), Frac(c[2][1], c[1][2])>>]

Opposite[a \in Pairs] == <<-a[1], a[2]>>
Reciprocal[a \in Pairs] == IF a[1] < 0 THEN <<-a[2], -a[1]>> ELSE <<a[2], a[1]>>
Lesser[c \in Pairs \X Pairs] == IF Less[<<c[2], c[1]>>] THEN c[2] ELSE c[1]
Larger[c \in Pairs \X Pairs] == IF Less[c] THEN c[2] ELSE c[1]

a \oplus b == Plus[<<a, b>>]
a \ominus b == Plus[<<a, Opposite[b]>>]
a \otimes b == Times[<<a, b>>]
a \oslash b == Times[<<a, Reciprocal[b]>>]
a \prec b == Less[<<a, b>>]
a \preceq b == ~Less[<<b, a>>]

Least(a, b) == Lesser[<<a, b>>]
Greatest(a, b) == Larger[<<a, b>>]
Clip(a, lo, hi) == Greatest(lo, Least(a, hi))
Magnitude(a) == IF a[1] < 0 THEN Opposite[a] ELSE a
=============================================================================
