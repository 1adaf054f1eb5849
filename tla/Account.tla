------------------------------ MODULE Account ------------------------------
(* What every book of quant_platform promises, whichever way it is kept:   *)
(* an account is opened with its initial cash, and from then on its worth  *)
(* moves with the price of what it holds and with the costs it paid, and   *)
(* with nothing else. Costs are never given back.                          *)
EXTENDS Fractions

CONSTANT Initial

VARIABLES worth,    \* of the account, at the price it last traded or was valued at
          holding,  \* signed quantity
          mark,     \* that price
          paid      \* all the costs since it was opened

vars == <<worth, holding, mark, paid>>

Init == worth = Initial /\ holding = Zero /\ mark = Zero /\ paid = Zero

\* Opened with its initial worth, in cash or invested.
Open == worth' = Initial /\ paid' = Zero

Moved == (worth \oplus (holding \otimes (mark' \ominus mark))) \ominus (paid' \ominus paid)

Move == paid \preceq paid' /\ worth' = Moved

\* A venue that takes an account over closes it and forgives what it owes.
Liquidate == paid \preceq paid' /\ holding' = Zero /\ worth' = Greatest(Moved, Zero)

Spec == Init /\ [][Open \/ Move \/ Liquidate]_vars
=============================================================================
