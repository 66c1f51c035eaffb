----------------------------- MODULE PrefixSum -----------------------------
(***************************************************************************)
(* Finite sums of naturals, and the two list walks that the metering code  *)
(* does over its credit grants: take from the front, give back to the      *)
(* tail.  Each is written in closed form over prefix sums, so that it can  *)
(* be both evaluated and reasoned about.                                   *)
(***************************************************************************)
EXTENDS Integers

Least(x, y) == IF x <= y THEN x ELSE y

\* Python's max(0, x - y), and _nonneg(x - y).
Monus(x, y) == IF x <= y THEN 0 ELSE x - y

\* Prefix(a, n)[i] is a[1] + ... + a[i].
Prefix(a, n) ==
  LET p[i \in 0..n] == IF i = 0 THEN 0 ELSE p[i - 1] + a[i]
  IN  p

Total(a, n) == Prefix(a, n)[n]

(***************************************************************************)
(* What a walk over avail[1], avail[2], ... takes from each cell to cover  *)
(* need: everything until need is met, nothing afterwards.                 *)
(***************************************************************************)
TakeFromFront(avail, n, need) ==
  LET before == Prefix(avail, n)
  IN  [i \in 1..n |-> Least(avail[i], Monus(need, before[i - 1]))]

(***************************************************************************)
(* What a walk over held[n], held[n-1], ... gives back from each cell to   *)
(* return amount.                                                          *)
(***************************************************************************)
GiveFromTail(held, n, amount) ==
  LET upto == Prefix(held, n)
  IN  [i \in 1..n |-> Least(held[i], Monus(amount, upto[n] - upto[i]))]
=============================================================================
