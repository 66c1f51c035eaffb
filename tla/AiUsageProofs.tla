--------------------------- MODULE AiUsageProofs ---------------------------
(***************************************************************************)
(* Invariants of AiUsage for every number of requests, grants and instants *)
(* and every limit, estimate and amount.                                   *)
(*                                                                         *)
(* The argument: the balance can never be short of what a step takes,      *)
(* because the step takes from the grants, the grants add up to the        *)
(* balance, and a refund returns exactly what the allocations say was      *)
(* taken.  So the inductive invariant is the type invariant together with  *)
(* BalanceIsRemaining, AllocationsAddUp and RowsAddUp below; each alone is *)
(* not preserved.                                                          *)
(*                                                                         *)
(* On top of it: the period counters are the sums of the reservations they *)
(* count, what single steps may do to limits, grants and credit, and the   *)
(* credit side of the meter implements CreditPurse.                        *)
(***************************************************************************)
EXTENDS AiUsage, PrefixSumTheorems

\* What a row says of itself: the two parts of a hold make up the estimate, the
\* ledger rows explain the credit, a charge is complete, and a row that does not
\* exist has nothing on it.
RowOK(row) ==
  /\ row.included + row.credit = row.estimated
  /\ row.status = "none" => row = NoRow
  /\ row.status = "reserved" =>
       /\ row.cr = row.credit /\ row.cl = 0 /\ row.cx = 0
       /\ row.included_settled = 0 /\ row.credit_settled = 0
  /\ row.status = "released" => row.included_settled = 0 /\ row.credit_settled = 0
  /\ row.cr + row.cx = CreditOf(row) + row.cl
  /\ row.status = "settled" =>
       row.actual = row.included_settled + row.credit_settled + row.undercharged

RowsAddUp == \A r \in Request : RowOK(res[r])

Inv ==
  TypeOK /\ BalanceIsRemaining /\ AllocationsAddUp /\ GrantConservation /\ RowsAddUp

(***************************************************************************)
(* The operators of the service.                                           *)
(***************************************************************************)

\* What the limits leave is never negative (_remaining).
LEMMA AvailableType ==
  ASSUME TypeOK, NEW u \in Counters, NEW h \in Counters,
         NEW w \in [PeriodType -> Time]
  PROVE  IncludedAvailable(w, u, h) \in Nat
<1>1. \A p \in PeriodType : Remaining(p, w, u, h) \in Nat
  <2> SUFFICES ASSUME NEW p \in PeriodType
               PROVE  Remaining(p, w, u, h) \in Nat
    OBVIOUS
  <2>1. w[p] \in Time /\ limits[p] \in Nat
    BY DEF TypeOK, PerPeriod
  <2>2. u[p][w[p]] \in Nat /\ h[p][w[p]] \in Nat
    BY <2>1 DEF Counters
  <2> QED
    BY <2>1, <2>2 DEF Remaining, Monus
<1>2. \A p \in {"daily", "weekly", "monthly"} : Remaining(p, w, u, h) \in Nat
  BY <1>1 DEF PeriodType
<1> QED
  BY <1>2 DEF IncludedAvailable, Least

\* Adding to, or taking from, three counters leaves counters.
LEMMA CounterType ==
  ASSUME NEW u \in Counters, NEW w \in [PeriodType -> Time], NEW n \in Nat
  PROVE  Raise(u, w, n) \in Counters /\ Lower(u, w, n) \in Counters
<1>1. ASSUME NEW p \in PeriodType
      PROVE  /\ [u[p] EXCEPT ![w[p]] = @ + n] \in [Time -> Nat]
             /\ [u[p] EXCEPT ![w[p]] = Monus(@, n)] \in [Time -> Nat]
  <2>1. w[p] \in Time /\ u[p] \in [Time -> Nat]
    BY DEF Counters
  <2>2. u[p][w[p]] + n \in Nat /\ Monus(u[p][w[p]], n) \in Nat
    BY <2>1 DEF Monus
  <2> QED
    BY <2>1, <2>2
<1> QED
  BY <1>1 DEF Raise, Lower, Counters

\* The FIFO walk takes exactly what it is asked for when the grants have it, and
\* leaves a natural number of tokens in each.
LEMMA TakeFacts ==
  ASSUME NEW rem \in [GrantIds -> Nat], NEW need \in Nat,
         need <= Total(rem, NGrant)
  PROVE  /\ TakeFifo(rem, need) \in [GrantIds -> Nat]
         /\ Minus(rem, TakeFifo(rem, need)) \in [GrantIds -> Nat]
         /\ Total(TakeFifo(rem, need), NGrant) = need
         /\ Total(Minus(rem, TakeFifo(rem, need)), NGrant)
              = Total(rem, NGrant) - need
<1> DEFINE t == TakeFifo(rem, need)
           m == Minus(rem, t)
<1>1. NGrant \in Nat /\ rem \in [1..NGrant -> Nat]
  BY SizeAssumption DEF GrantIds
<1>2. /\ t \in [1..NGrant -> Nat]
      /\ \A g \in 1..NGrant : t[g] <= rem[g]
      /\ Total(t, NGrant) = Least(need, Total(rem, NGrant))
  BY <1>1, TakeFromFrontTotal DEF TakeFifo
<1> HIDE DEF t
<1>3. m \in [1..NGrant -> Nat] /\ \A g \in 1..NGrant : m[g] = rem[g] - t[g]
  BY <1>1, <1>2 DEF Minus, GrantIds
<1> HIDE DEF m
<1>4. Total(t, NGrant) = need
  BY <1>2 DEF Least
<1>5. \A g \in 1..NGrant :
        m[g] \in Int /\ t[g] \in Int /\ rem[g] = m[g] + t[g]
  BY <1>1, <1>2, <1>3
<1>6. Total(rem, NGrant) = Total(m, NGrant) + Total(t, NGrant)
  BY <1>1, <1>5, TotalPlus
<1>7. Total(m, NGrant) \in Nat /\ Total(rem, NGrant) \in Nat
  BY <1>1, <1>3, PrefixType
<1>8. Total(m, NGrant) = Total(rem, NGrant) - need
  BY <1>4, <1>6, <1>7
<1>9. t \in [GrantIds -> Nat] /\ m \in [GrantIds -> Nat]
  BY <1>2, <1>3 DEF GrantIds
<1> QED
  BY <1>4, <1>8, <1>9 DEF t, m

\* The refund walk returns exactly the unused part of a hold, never more to a
\* grant than was taken from it.
LEMMA RestoreFacts ==
  ASSUME NEW al \in [GrantIds -> Nat],
         NEW rem \in [GrantIds -> Nat], NEW unused \in Nat,
         unused <= Total(al, NGrant)
  PROVE  /\ RestoreTail(al, unused) \in [GrantIds -> Nat]
         /\ Minus(al, RestoreTail(al, unused)) \in [GrantIds -> Nat]
         /\ Plus(rem, RestoreTail(al, unused)) \in [GrantIds -> Nat]
         /\ Total(Minus(al, RestoreTail(al, unused)), NGrant)
              = Total(al, NGrant) - unused
         /\ Total(Plus(rem, RestoreTail(al, unused)), NGrant)
              = Total(rem, NGrant) + unused
<1> DEFINE b == RestoreTail(al, unused)
           m == Minus(al, b)
           q == Plus(rem, b)
<1>1. NGrant \in Nat /\ al \in [1..NGrant -> Nat] /\ rem \in [1..NGrant -> Nat]
  BY SizeAssumption DEF GrantIds
<1>2. /\ b \in [1..NGrant -> Nat]
      /\ \A g \in 1..NGrant : b[g] <= al[g]
      /\ Total(b, NGrant) = Least(unused, Total(al, NGrant))
  BY <1>1, GiveFromTailTotal DEF RestoreTail
<1> HIDE DEF b
<1>3. /\ m \in [1..NGrant -> Nat] /\ \A g \in 1..NGrant : m[g] = al[g] - b[g]
      /\ q \in [1..NGrant -> Nat] /\ \A g \in 1..NGrant : q[g] = rem[g] + b[g]
  BY <1>1, <1>2 DEF Minus, Plus, GrantIds
<1> HIDE DEF m, q
<1>4. Total(b, NGrant) = unused
  BY <1>2 DEF Least
<1>5. \A g \in 1..NGrant :
        /\ m[g] \in Int /\ b[g] \in Int /\ rem[g] \in Int
        /\ al[g] = m[g] + b[g] /\ q[g] = rem[g] + b[g]
  BY <1>1, <1>2, <1>3
<1>6. Total(al, NGrant) = Total(m, NGrant) + Total(b, NGrant)
  BY <1>1, <1>5, TotalPlus
<1>7. Total(q, NGrant) = Total(rem, NGrant) + Total(b, NGrant)
  BY <1>1, <1>5, TotalPlus
<1>8. Total(m, NGrant) \in Nat /\ Total(al, NGrant) \in Nat
  BY <1>1, <1>3, PrefixType
<1>9. /\ Total(m, NGrant) = Total(al, NGrant) - unused
      /\ Total(q, NGrant) = Total(rem, NGrant) + unused
  BY <1>4, <1>6, <1>7, <1>8
<1>10. /\ b \in [GrantIds -> Nat] /\ m \in [GrantIds -> Nat]
       /\ q \in [GrantIds -> Nat]
  BY <1>2, <1>3 DEF GrantIds
<1> QED
  BY <1>9, <1>10 DEF b, m, q

\* The window of the clock is a window of each period (current_period).
LEMMA WindowType ==
  ASSUME TypeOK
  PROVE  CurrentWindow \in [PeriodType -> Time]
BY WindowAssumption DEF CurrentWindow, TypeOK

\* The empty row is a row.
LEMMA NoRowType == NoRow \in Row
<1>1. 0 \in Time /\ NoTokens \in [GrantIds -> Nat]
  BY SizeAssumption DEF Time, NoTokens
<1>2. [p \in PeriodType |-> 0] \in [PeriodType -> Time]
  BY <1>1
<1> QED
  BY <1>1, <1>2 DEF NoRow, Row

(***************************************************************************)
(* What a step that writes one row owes to the invariant.                  *)
(***************************************************************************)

\* A grant of a request: the column of the allocations GrantConservation sums.
Column(g) == [r \in Request |-> res[r].alloc[g]]

\* Writing one consistent row keeps every row consistent, and moving tokens only
\* between the grants and that row's allocations keeps every grant whole.
LEMMA RowUpdate ==
  ASSUME Inv, NEW r \in Request, NEW x \in Row,
         res' = [res EXCEPT ![r] = x],
         RowOK(x),
         Total(x.alloc, NGrant) = CreditOf(x),
         UNCHANGED amount,
         remaining' \in [GrantIds -> Nat],
         \A g \in GrantIds :
           remaining'[g] + x.alloc[g] = remaining[g] + res[r].alloc[g]
  PROVE  /\ res' \in [Request -> Row]
         /\ AllocationsAddUp'
         /\ GrantConservation'
         /\ RowsAddUp'
<1>1. res \in [Request -> Row] /\ remaining \in [GrantIds -> Nat]
      /\ amount \in [GrantIds -> Nat]
  BY DEF Inv, TypeOK
<1>2. res'[r] = x /\ \A s \in Request : s # r => res'[s] = res[s]
  BY <1>1
<1>3. res' \in [Request -> Row]
  BY <1>1
<1>4. AllocationsAddUp'
  <2> SUFFICES ASSUME NEW s \in Request
               PROVE  Total(res'[s].alloc, NGrant) = CreditOf(res'[s])
    BY DEF AllocationsAddUp, CreditOf
  <2>1. CASE s = r
    BY <1>2, <2>1
  <2>2. CASE s # r
    BY <1>2, <2>2 DEF Inv, AllocationsAddUp
  <2> QED
    BY <2>1, <2>2
<1>5. RowsAddUp'
  <2> SUFFICES ASSUME NEW s \in Request
               PROVE  RowOK(res'[s])
    BY DEF RowsAddUp, RowOK, CreditOf
  <2>1. CASE s = r
    BY <1>2, <2>1
  <2>2. CASE s # r
    BY <1>2, <2>2 DEF Inv, RowsAddUp
  <2> QED
    BY <2>1, <2>2
<1>6. GrantConservation'
  <2> SUFFICES ASSUME NEW g \in GrantIds
               PROVE  amount'[g] = remaining'[g] + Total(Column(g)', NRequest)
    BY DEF GrantConservation, Column
  <2>1. amount[g] = remaining[g] + Total(Column(g), NRequest)
    BY DEF Inv, GrantConservation, Column
  <2>2. /\ NRequest \in Nat /\ r \in 1..NRequest
        /\ \A i \in 1..NRequest : Column(g)[i] \in Int /\ Column(g)'[i] \in Int
        /\ \A i \in 1..NRequest : i # r => Column(g)'[i] = Column(g)[i]
        /\ Column(g)[r] = res[r].alloc[g] /\ Column(g)'[r] = x.alloc[g]
    <3>1. /\ NRequest \in Nat /\ Request = 1..NRequest
          /\ \A i \in Request : Column(g)[i] = res[i].alloc[g]
          /\ \A i \in Request : Column(g)'[i] = res'[i].alloc[g]
      BY SizeAssumption DEF Request, Column
    <3>2. \A i \in Request : res[i].alloc[g] \in Nat /\ res'[i].alloc[g] \in Nat
      BY <1>1, <1>3 DEF Row
    <3> QED
      BY <1>2, <3>1, <3>2
  <2>3. Total(Column(g)', NRequest)
          = Total(Column(g), NRequest) + Column(g)'[r] - Column(g)[r]
    <3> HIDE DEF Column
    <3> QED
      BY <2>2, TotalChange
  <2>4. /\ Total(Column(g), NRequest) \in Int
        /\ Column(g)'[r] \in Int /\ Column(g)[r] \in Int
        /\ remaining'[g] \in Int /\ remaining[g] \in Int
    BY <1>1, <2>2, PrefixInt
  <2>5. remaining'[g] + Column(g)'[r] = remaining[g] + Column(g)[r]
    BY <2>2
  <2> QED
    BY <2>1, <2>3, <2>4, <2>5
<1> QED
  BY <1>3, <1>4, <1>5, <1>6

\* A hold is a row whose two parts make up its estimate.
LEMMA HeldRowFacts ==
  ASSUME TypeOK, NEW tokens \in Nat, NEW inc \in Nat, inc <= tokens,
         NEW t \in [GrantIds -> Nat]
  PROVE  LET x == HeldRow(tokens, inc, t)
         IN  /\ x \in Row
             /\ x.status = "reserved" /\ x.included = inc
             /\ x.credit = tokens - inc /\ x.estimated = tokens
             /\ x.alloc = t /\ x.window = CurrentWindow
             /\ x.cr = tokens - inc /\ x.cl = 0 /\ x.cx = 0
             /\ x.actual = 0 /\ x.included_settled = 0
             /\ x.credit_settled = 0 /\ x.undercharged = 0
<1>1. CurrentWindow \in [PeriodType -> Time] /\ tokens - inc \in Nat
  BY WindowType
<1> QED
  BY <1>1 DEF HeldRow, Row, NoRow

\* An id without a row has no tokens of any grant.
LEMMA FreshRow ==
  ASSUME Inv, NEW r \in Request, res[r].status = "none"
  PROVE  res[r] = NoRow /\ \A g \in GrantIds : res[r].alloc[g] = 0
<1>1. res[r] = NoRow
  BY DEF Inv, RowsAddUp, RowOK
<1> QED
  BY <1>1 DEF NoRow, NoTokens

\* Cell-wise arithmetic on token arrays.
LEMMA Cells ==
  ASSUME NEW a \in [GrantIds -> Nat], NEW b \in [GrantIds -> Nat], NEW g \in GrantIds
  PROVE  Plus(a, b)[g] = a[g] + b[g] /\ Minus(a, b)[g] = a[g] - b[g]
BY DEF Plus, Minus

(***************************************************************************)
(* The operations.                                                         *)
(***************************************************************************)

\* What reserve_ai_usage and charge_immediate compute before they write: the
\* plan's part, and a credit part the balance and the grants both have.
LEMMA SplitFacts ==
  ASSUME Inv, NEW r \in Request, NEW tokens \in Nat,
         NEW inc, inc = Least(tokens, IncludedAvailable(CurrentWindow, used, reserved)),
         Covered(r, tokens, inc)
  PROVE  LET need == tokens - inc
             t    == TakeFifo(remaining, need)
         IN  /\ inc \in Nat /\ inc <= tokens /\ need \in Nat
             /\ t \in [GrantIds -> Nat]
             /\ Total(t, NGrant) = need
             /\ Minus(remaining, t) \in [GrantIds -> Nat]
             /\ balance - need \in Nat
             /\ balance - need = Total(Minus(remaining, t), NGrant)
<1>1. /\ used \in Counters /\ reserved \in Counters /\ balance \in Nat
      /\ remaining \in [GrantIds -> Nat] /\ balance = Total(remaining, NGrant)
  BY DEF Inv, TypeOK, BalanceIsRemaining
<1>2. IncludedAvailable(CurrentWindow, used, reserved) \in Nat
  BY <1>1, WindowType, AvailableType DEF Inv
<1>3. inc \in Nat /\ inc <= tokens
  BY <1>2 DEF Least
<1>4. tokens - inc \in Nat /\ tokens - inc <= Total(remaining, NGrant)
  BY <1>1, <1>3 DEF Covered, CreditAvailable, Least
<1> DEFINE need == tokens - inc
<1> HIDE DEF need
<1>5. need \in Nat /\ need <= Total(remaining, NGrant)
  BY <1>4 DEF need
<1>6. /\ TakeFifo(remaining, need) \in [GrantIds -> Nat]
      /\ Minus(remaining, TakeFifo(remaining, need)) \in [GrantIds -> Nat]
      /\ Total(TakeFifo(remaining, need), NGrant) = need
      /\ Total(Minus(remaining, TakeFifo(remaining, need)), NGrant)
           = Total(remaining, NGrant) - need
  BY <1>1, <1>5, TakeFacts
<1>7. balance - need \in Nat
  BY <1>1, <1>5
<1> QED
  BY <1>1, <1>3, <1>5, <1>6, <1>7 DEF need

\* reserve_ai_usage preserves the invariant.
LEMMA ReserveStep ==
  ASSUME Inv, NEW r \in Request, NEW est \in Estimates, Reserve(r, est)
  PROVE  Inv'
<1> DEFINE inc  == Least(est, IncludedAvailable(CurrentWindow, used, reserved))
           need == est - inc
           t    == TakeFifo(remaining, need)
           x    == HeldRow(est, inc, t)
<1>1. /\ Covered(r, est, inc)
      /\ reserved' = Raise(reserved, CurrentWindow, inc)
      /\ remaining' = Minus(remaining, t)
      /\ balance' = balance - need
      /\ res' = [res EXCEPT ![r] = x]
      /\ UNCHANGED <<now, limits, used, amount>>
  BY DEF Reserve
<1>2. est \in Nat
  BY InputAssumption
<1>3. /\ inc \in Nat /\ inc <= est /\ need \in Nat
      /\ t \in [GrantIds -> Nat] /\ Total(t, NGrant) = need
      /\ Minus(remaining, t) \in [GrantIds -> Nat]
      /\ balance - need \in Nat
      /\ balance - need = Total(Minus(remaining, t), NGrant)
  <2> HIDE DEF inc
  <2> QED
    BY <1>1, <1>2, SplitFacts DEF inc
<1> HIDE DEF inc, t
<1>4. /\ x \in Row /\ x.status = "reserved" /\ x.included = inc
      /\ x.credit = need /\ x.estimated = est /\ x.alloc = t
      /\ x.cr = need /\ x.cl = 0 /\ x.cx = 0
      /\ x.included_settled = 0 /\ x.credit_settled = 0
  <2> HIDE DEF need
  <2>1. TypeOK
    BY DEF Inv
  <2>2. /\ x \in Row /\ x.status = "reserved" /\ x.included = inc
        /\ x.credit = est - inc /\ x.estimated = est /\ x.alloc = t
        /\ x.cr = est - inc /\ x.cl = 0 /\ x.cx = 0
        /\ x.included_settled = 0 /\ x.credit_settled = 0
    BY <1>2, <1>3, <2>1, HeldRowFacts
  <2> HIDE DEF x
  <2> QED
    BY <2>2 DEF need
<1> HIDE DEF x
<1>5. RowOK(x) /\ Total(x.alloc, NGrant) = CreditOf(x)
  BY <1>2, <1>3, <1>4 DEF CreditOf, RowOK
<1> HIDE DEF need
<1>10. \A g \in GrantIds :
         remaining'[g] + x.alloc[g] = remaining[g] + res[r].alloc[g]
  <2> SUFFICES ASSUME NEW g \in GrantIds
               PROVE  remaining'[g] + x.alloc[g] = remaining[g] + res[r].alloc[g]
    OBVIOUS
  <2>1. res[r].alloc[g] = 0
    BY <1>1, FreshRow DEF Covered
  <2>2. remaining \in [GrantIds -> Nat]
    BY DEF Inv, TypeOK
  <2>3. remaining'[g] = remaining[g] - t[g] /\ x.alloc[g] = t[g]
    BY <1>1, <1>3, <1>4, <2>2, Cells
  <2> QED
    BY <1>3, <2>1, <2>2, <2>3
<1>6. res' \in [Request -> Row] /\ AllocationsAddUp' /\ GrantConservation' /\ RowsAddUp'
  BY <1>1, <1>3, <1>4, <1>5, <1>10, RowUpdate
<1>7. reserved' \in Counters
  BY <1>1, <1>3, WindowType, CounterType DEF Inv, TypeOK
<1>8. TypeOK'
  BY <1>1, <1>3, <1>6, <1>7 DEF Inv, TypeOK
<1>9. BalanceIsRemaining'
  BY <1>1, <1>3 DEF BalanceIsRemaining
<1> QED
  BY <1>6, <1>8, <1>9 DEF Inv

\* charge_immediate preserves the invariant: what it settles is what it held.
LEMMA ChargeStep ==
  ASSUME Inv, NEW r \in Request, NEW tokens \in Estimates,
         ChargeImmediate(r, tokens)
  PROVE  Inv'
<1> DEFINE inc  == Least(tokens, IncludedAvailable(CurrentWindow, used, reserved))
           need == tokens - inc
           t    == TakeFifo(remaining, need)
           h    == HeldRow(tokens, inc, t)
           x    == [h EXCEPT !.status = "settled", !.actual = tokens,
                             !.included_settled = inc, !.credit_settled = need]
<1>1. /\ Covered(r, tokens, inc)
      /\ used' = Raise(used, CurrentWindow, inc)
      /\ remaining' = Minus(remaining, t)
      /\ balance' = balance - need
      /\ res' = [res EXCEPT ![r] = x]
      /\ UNCHANGED <<now, limits, reserved, amount>>
  BY DEF ChargeImmediate
<1>2. tokens \in Nat
  BY InputAssumption
<1>3. /\ inc \in Nat /\ inc <= tokens /\ need \in Nat
      /\ t \in [GrantIds -> Nat] /\ Total(t, NGrant) = need
      /\ Minus(remaining, t) \in [GrantIds -> Nat]
      /\ balance - need \in Nat
      /\ balance - need = Total(Minus(remaining, t), NGrant)
  <2> HIDE DEF inc
  <2> QED
    BY <1>1, <1>2, SplitFacts DEF inc
<1> HIDE DEF inc, t, x
<1>4. /\ h \in Row /\ h.included = inc /\ h.credit = need
      /\ h.estimated = tokens /\ h.alloc = t
      /\ h.cr = need /\ h.cl = 0 /\ h.cx = 0 /\ h.undercharged = 0
  <2> HIDE DEF need
  <2>1. TypeOK
    BY DEF Inv
  <2>2. /\ h \in Row /\ h.included = inc /\ h.credit = tokens - inc
        /\ h.estimated = tokens /\ h.alloc = t
        /\ h.cr = tokens - inc /\ h.cl = 0 /\ h.cx = 0
        /\ h.undercharged = 0
    BY <1>2, <1>3, <2>1, HeldRowFacts
  <2> HIDE DEF h
  <2> QED
    BY <2>2 DEF need
<1> HIDE DEF h
<1>5. /\ x \in Row /\ x.status = "settled" /\ x.included = inc
      /\ x.credit = need /\ x.credit_settled = need /\ x.estimated = tokens
      /\ x.alloc = t /\ x.actual = tokens /\ x.included_settled = inc
      /\ x.cr = need /\ x.cl = 0 /\ x.cx = 0 /\ x.undercharged = 0
  BY <1>2, <1>3, <1>4 DEF Row, x
<1>6. RowOK(x) /\ Total(x.alloc, NGrant) = CreditOf(x)
  BY <1>2, <1>3, <1>5 DEF CreditOf, RowOK
<1> HIDE DEF need
<1>11. \A g \in GrantIds :
         remaining'[g] + x.alloc[g] = remaining[g] + res[r].alloc[g]
  <2> SUFFICES ASSUME NEW g \in GrantIds
               PROVE  remaining'[g] + x.alloc[g] = remaining[g] + res[r].alloc[g]
    OBVIOUS
  <2>1. res[r].alloc[g] = 0
    BY <1>1, FreshRow DEF Covered
  <2>2. remaining \in [GrantIds -> Nat]
    BY DEF Inv, TypeOK
  <2>3. remaining'[g] = remaining[g] - t[g] /\ x.alloc[g] = t[g]
    BY <1>1, <1>3, <1>5, <2>2, Cells
  <2> QED
    BY <1>3, <2>1, <2>2, <2>3
<1>7. res' \in [Request -> Row] /\ AllocationsAddUp' /\ GrantConservation' /\ RowsAddUp'
  BY <1>1, <1>3, <1>5, <1>6, <1>11, RowUpdate
<1>8. used' \in Counters
  BY <1>1, <1>3, WindowType, CounterType DEF Inv, TypeOK
<1>9. TypeOK'
  BY <1>1, <1>3, <1>7, <1>8 DEF Inv, TypeOK
<1>10. BalanceIsRemaining'
  BY <1>1, <1>3 DEF BalanceIsRemaining
<1> QED
  BY <1>7, <1>9, <1>10 DEF Inv

\* What an open row says of itself.
LEMMA OpenRowFacts ==
  ASSUME Inv, NEW r \in Request, Open(r)
  PROVE  /\ res[r] \in Row
         /\ HoldWindow(res[r]) \in [PeriodType -> Time]
         /\ res[r].included \in Nat /\ res[r].credit \in Nat
         /\ res[r].estimated = res[r].included + res[r].credit
         /\ res[r].alloc \in [GrantIds -> Nat]
         /\ Total(res[r].alloc, NGrant) = res[r].credit
         /\ res[r].cr = res[r].credit /\ res[r].cl = 0 /\ res[r].cx = 0
         /\ res[r].included_settled = 0 /\ res[r].credit_settled = 0
<1>1. res[r] \in Row
  BY DEF Inv, TypeOK
<1>2. /\ HoldWindow(res[r]) \in [PeriodType -> Time]
      /\ res[r].included \in Nat /\ res[r].credit \in Nat
      /\ res[r].alloc \in [GrantIds -> Nat]
  BY <1>1 DEF Row, HoldWindow
<1>3. Total(res[r].alloc, NGrant) = res[r].credit
  BY DEF Open, Inv, AllocationsAddUp, CreditOf
<1>4. RowOK(res[r]) /\ res[r].status = "reserved"
  BY DEF Inv, RowsAddUp, Open
<1> QED
  BY <1>1, <1>2, <1>3, <1>4 DEF RowOK

\* release_ai_usage preserves the invariant: the refund is the whole hold.
LEMMA ReleaseStep ==
  ASSUME Inv, NEW r \in Request, Release(r)
  PROVE  Inv'
<1> DEFINE row  == res[r]
           back == RestoreTail(row.alloc, row.credit)
           x    == ReleasedRow(row, back)
<1>1. /\ Open(r)
      /\ reserved' = Lower(reserved, HoldWindow(row), row.included)
      /\ remaining' = Plus(remaining, back)
      /\ balance' = balance + row.credit
      /\ res' = [res EXCEPT ![r] = x]
      /\ UNCHANGED <<now, limits, used, amount>>
  BY DEF Release
<1>2. /\ used \in Counters /\ reserved \in Counters /\ balance \in Nat
      /\ remaining \in [GrantIds -> Nat] /\ balance = Total(remaining, NGrant)
  BY DEF Inv, TypeOK, BalanceIsRemaining
<1>3. /\ row \in Row /\ HoldWindow(row) \in [PeriodType -> Time]
      /\ row.included \in Nat /\ row.credit \in Nat
      /\ row.estimated = row.included + row.credit
      /\ row.alloc \in [GrantIds -> Nat]
      /\ Total(row.alloc, NGrant) = row.credit
      /\ row.cr = row.credit /\ row.cl = 0 /\ row.cx = 0
      /\ row.included_settled = 0 /\ row.credit_settled = 0
  BY <1>1, OpenRowFacts
<1> HIDE DEF row
<1>4. /\ back \in [GrantIds -> Nat]
      /\ Minus(row.alloc, back) \in [GrantIds -> Nat]
      /\ Plus(remaining, back) \in [GrantIds -> Nat]
      /\ Total(Minus(row.alloc, back), NGrant) = 0
      /\ Total(Plus(remaining, back), NGrant) = balance + row.credit
  <2>1. row.credit <= Total(row.alloc, NGrant) /\ row.credit - row.credit = 0
    BY <1>3
  <2> QED
    BY <1>2, <1>3, <2>1, RestoreFacts
<1> HIDE DEF back
<1>5. /\ x \in Row /\ x.status = "released" /\ x.included = row.included
      /\ x.credit = row.credit /\ x.estimated = row.estimated
      /\ x.alloc = Minus(row.alloc, back)
      /\ x.cr = row.cr /\ x.cl = row.credit /\ x.cx = row.cx
      /\ x.included_settled = row.included_settled
      /\ x.credit_settled = row.credit_settled
  BY <1>3, <1>4 DEF ReleasedRow, Row
<1> HIDE DEF x
<1>6. RowOK(x) /\ Total(x.alloc, NGrant) = CreditOf(x)
  BY <1>3, <1>4, <1>5 DEF CreditOf, RowOK
<1>11. \A g \in GrantIds :
         remaining'[g] + x.alloc[g] = remaining[g] + res[r].alloc[g]
  <2> SUFFICES ASSUME NEW g \in GrantIds
               PROVE  remaining'[g] + x.alloc[g] = remaining[g] + row.alloc[g]
    BY DEF row
  <2>1. /\ remaining'[g] = remaining[g] + back[g]
        /\ x.alloc[g] = row.alloc[g] - back[g]
    <3>1. Plus(remaining, back)[g] = remaining[g] + back[g]
      BY <1>2, <1>4, Cells
    <3>2. Minus(row.alloc, back)[g] = row.alloc[g] - back[g]
      BY <1>3, <1>4, Cells
    <3> QED
      BY <1>1, <1>5, <3>1, <3>2
  <2>2. remaining[g] \in Nat /\ row.alloc[g] \in Nat /\ back[g] \in Nat
    BY <1>2, <1>3, <1>4
  <2> QED
    BY <2>1, <2>2
<1>7. res' \in [Request -> Row] /\ AllocationsAddUp' /\ GrantConservation' /\ RowsAddUp'
  BY <1>1, <1>4, <1>5, <1>6, <1>11, RowUpdate
<1>8. reserved' \in Counters /\ balance' \in Nat
  BY <1>1, <1>2, <1>3, CounterType
<1>9. TypeOK'
  BY <1>1, <1>4, <1>7, <1>8 DEF Inv, TypeOK
<1>10. BalanceIsRemaining'
  BY <1>1, <1>4 DEF BalanceIsRemaining
<1> QED
  BY <1>7, <1>9, <1>10 DEF Inv

\* Cell-wise sums of token arrays.
LEMMA PlusFacts ==
  ASSUME NEW a \in [GrantIds -> Nat], NEW b \in [GrantIds -> Nat]
  PROVE  /\ Plus(a, b) \in [GrantIds -> Nat]
         /\ Total(Plus(a, b), NGrant) = Total(a, NGrant) + Total(b, NGrant)
<1>1. /\ Plus(a, b) \in [GrantIds -> Nat]
      /\ \A g \in GrantIds : Plus(a, b)[g] = a[g] + b[g]
  BY DEF Plus
<1>2. \A g \in 1..NGrant :
        a[g] \in Int /\ b[g] \in Int /\ Plus(a, b)[g] = a[g] + b[g]
  BY <1>1 DEF GrantIds
<1> QED
  BY <1>1, <1>2, TotalPlus, SizeAssumption

\* The hold splits into what the request used of it and what goes back.
LEMMA UsedFacts ==
  ASSUME Inv, NEW r \in Request, Open(r), NEW act \in Nat
  PROVE  /\ IncludedUsed(res[r], act) \in Nat
         /\ IncludedUsed(res[r], act) <= res[r].included
         /\ CreditUsed(res[r], act) \in Nat
         /\ UnusedCredit(res[r], act) \in Nat
         /\ CreditUsed(res[r], act) + UnusedCredit(res[r], act) = res[r].credit
         /\ IncludedUsed(res[r], act) + CreditUsed(res[r], act)
              + Monus(act, res[r].estimated) = act
<1>1. /\ res[r].included \in Nat /\ res[r].credit \in Nat
      /\ res[r].estimated = res[r].included + res[r].credit
  BY OpenRowFacts
<1> QED
  BY <1>1 DEF IncludedUsed, CreditUsed, UnusedCredit, Least, Monus

\* settle_ai_usage preserves the invariant: refund and extra charge both keep
\* the grants, the balance and the allocations in step.
LEMMA SettleStep ==
  ASSUME Inv, NEW r \in Request, NEW act \in Actuals, Settle(r, act)
  PROVE  Inv'
<1> DEFINE row     == res[r]
           w       == HoldWindow(row)
           iu      == IncludedUsed(row, act)
           cu      == CreditUsed(row, act)
           un      == UnusedCredit(row, act)
           back    == RestoreTail(row.alloc, un)
           holds   == Lower(reserved, w, row.included)
           charged == Raise(used, w, iu)
           bal     == balance + un
           rem     == Plus(remaining, back)
           extra   == Monus(act, row.estimated)
           ei      == Least(extra, IncludedAvailable(w, charged, holds))
           ec      == Least(extra - ei, CreditAvailable(bal, rem))
           taken   == TakeFifo(rem, ec)
           left    == Minus(row.alloc, back)
           x       == [row EXCEPT !.status = "settled", !.actual = act,
                         !.included_settled = iu + ei,
                         !.credit_settled = cu + ec,
                         !.undercharged = extra - ei - ec,
                         !.alloc = Plus(left, taken),
                         !.cl = un, !.cx = ec]
<1>1. /\ Open(r)
      /\ reserved' = holds
      /\ used' = Raise(charged, w, ei)
      /\ balance' = bal - ec
      /\ remaining' = Minus(rem, taken)
      /\ res' = [res EXCEPT ![r] = x]
      /\ UNCHANGED <<now, limits, amount>>
  BY DEF Settle
<1>2. /\ used \in Counters /\ reserved \in Counters /\ balance \in Nat
      /\ remaining \in [GrantIds -> Nat] /\ balance = Total(remaining, NGrant)
  BY DEF Inv, TypeOK, BalanceIsRemaining
<1>3. /\ row \in Row /\ w \in [PeriodType -> Time]
      /\ row.included \in Nat /\ row.credit \in Nat
      /\ row.estimated = row.included + row.credit
      /\ row.alloc \in [GrantIds -> Nat]
      /\ Total(row.alloc, NGrant) = row.credit
      /\ row.cr = row.credit /\ row.cl = 0 /\ row.cx = 0
      /\ row.included_settled = 0 /\ row.credit_settled = 0
  BY <1>1, OpenRowFacts
<1>4. act \in Nat
  BY InputAssumption
<1>5. /\ iu \in Nat /\ iu <= row.included /\ cu \in Nat /\ un \in Nat
      /\ cu + un = row.credit
      /\ iu + cu + Monus(act, row.estimated) = act
  BY <1>1, <1>4, UsedFacts
<1> HIDE DEF row, w, iu, cu, un
<1>6. /\ back \in [GrantIds -> Nat] /\ left \in [GrantIds -> Nat]
      /\ rem \in [GrantIds -> Nat]
      /\ Total(left, NGrant) = cu /\ Total(rem, NGrant) = bal /\ bal \in Nat
  <2>1. /\ un <= Total(row.alloc, NGrant) /\ un \in Nat
        /\ Total(row.alloc, NGrant) - un = cu
        /\ Total(remaining, NGrant) + un = bal /\ bal \in Nat
    BY <1>2, <1>3, <1>5
  <2>2. row.alloc \in [GrantIds -> Nat] /\ remaining \in [GrantIds -> Nat]
    BY <1>2, <1>3
  <2> QED
    BY <2>1, <2>2, RestoreFacts
<1> HIDE DEF back, left, bal, rem
<1>7. holds \in Counters /\ charged \in Counters
  BY <1>2, <1>3, <1>5, CounterType
<1> HIDE DEF holds, charged
<1>8. extra \in Nat /\ iu + cu + extra = act
  BY <1>3, <1>4, <1>5 DEF Monus
<1> HIDE DEF extra
<1>9. ei \in Nat /\ ei <= extra
  <2>1. IncludedAvailable(w, charged, holds) \in Nat
    BY <1>3, <1>7, AvailableType DEF Inv
  <2> QED
    BY <1>8, <2>1 DEF Least
<1> HIDE DEF ei
<1>10. ec \in Nat /\ ec <= extra - ei /\ ec <= bal
  BY <1>6, <1>8, <1>9 DEF Least, CreditAvailable
<1> HIDE DEF ec
<1>11. /\ taken \in [GrantIds -> Nat] /\ Minus(rem, taken) \in [GrantIds -> Nat]
       /\ Total(taken, NGrant) = ec
       /\ Total(Minus(rem, taken), NGrant) = bal - ec
  BY <1>6, <1>10, TakeFacts
<1> HIDE DEF taken
<1>12. /\ Plus(left, taken) \in [GrantIds -> Nat]
       /\ Total(Plus(left, taken), NGrant) = cu + ec
  BY <1>6, <1>11, PlusFacts
<1>13. /\ x \in Row /\ x.status = "settled" /\ x.included = row.included
       /\ x.credit = row.credit /\ x.estimated = row.estimated
       /\ x.credit_settled = cu + ec /\ x.alloc = Plus(left, taken)
       /\ x.included_settled = iu + ei /\ x.actual = act
       /\ x.undercharged = extra - ei - ec
       /\ x.cr = row.cr /\ x.cl = un /\ x.cx = ec
  <2>1. /\ iu + ei \in Nat /\ cu + ec \in Nat /\ extra - ei - ec \in Nat
    BY <1>5, <1>8, <1>9, <1>10
  <2> QED
    BY <1>3, <1>4, <1>5, <1>10, <1>12, <2>1 DEF Row
<1> HIDE DEF x
<1>14. RowOK(x) /\ Total(x.alloc, NGrant) = CreditOf(x)
  <2>1. CreditOf(x) = cu + ec
    BY <1>13 DEF CreditOf
  <2>2. x.actual = x.included_settled + x.credit_settled + x.undercharged
    BY <1>5, <1>8, <1>9, <1>10, <1>13
  <2>3. x.cr + x.cx = CreditOf(x) + x.cl
    BY <1>3, <1>5, <1>10, <1>13, <2>1
  <2> QED
    BY <1>3, <1>12, <1>13, <2>1, <2>2, <2>3 DEF RowOK
<1>19. \A g \in GrantIds :
         remaining'[g] + x.alloc[g] = remaining[g] + res[r].alloc[g]
  <2> SUFFICES ASSUME NEW g \in GrantIds
               PROVE  remaining'[g] + x.alloc[g] = remaining[g] + row.alloc[g]
    BY DEF row
  <2>1. /\ rem[g] = remaining[g] + back[g] /\ left[g] = row.alloc[g] - back[g]
    BY <1>2, <1>3, <1>6, Cells DEF rem, left
  <2>2. /\ remaining'[g] = rem[g] - taken[g]
        /\ x.alloc[g] = left[g] + taken[g]
    BY <1>1, <1>6, <1>11, <1>13, Cells
  <2>3. /\ remaining[g] \in Nat /\ row.alloc[g] \in Nat /\ back[g] \in Nat
        /\ taken[g] \in Nat
    BY <1>2, <1>3, <1>6, <1>11
  <2> QED
    BY <2>1, <2>2, <2>3
<1>15. res' \in [Request -> Row] /\ AllocationsAddUp' /\ GrantConservation' /\ RowsAddUp'
  BY <1>1, <1>11, <1>13, <1>14, <1>19, RowUpdate
<1>16. reserved' \in Counters /\ used' \in Counters /\ balance' \in Nat
  BY <1>1, <1>3, <1>6, <1>7, <1>9, <1>10, CounterType
<1>17. TypeOK'
  BY <1>1, <1>11, <1>15, <1>16 DEF Inv, TypeOK
<1>18. BalanceIsRemaining'
  BY <1>1, <1>11 DEF BalanceIsRemaining
<1> QED
  BY <1>15, <1>17, <1>18 DEF Inv

\* A grant raises the balance and one grant's remaining amount alike.
LEMMA GrantStep ==
  ASSUME Inv, NEW g \in GrantIds, NEW n \in GrantAmounts, Grant(g, n)
  PROVE  Inv'
<1>1. /\ remaining' = [remaining EXCEPT ![g] = n]
      /\ amount' = [amount EXCEPT ![g] = n]
      /\ balance' = balance + n
      /\ UNCHANGED <<now, limits, used, reserved, res>>
  BY DEF Grant
<1>2. /\ n \in Nat /\ balance \in Nat /\ remaining \in [GrantIds -> Nat]
      /\ amount \in [GrantIds -> Nat] /\ res \in [Request -> Row]
  BY InputAssumption DEF Inv, TypeOK
<1>7. \A h \in GrantIds : Total(Column(h), NRequest) \in Nat
  <2> SUFFICES ASSUME NEW h \in GrantIds
               PROVE  Total(Column(h), NRequest) \in Nat
    OBVIOUS
  <2>1. Column(h) \in [1..NRequest -> Nat]
    BY <1>2 DEF Column, Request, Row
  <2> QED
    BY <2>1, PrefixType, SizeAssumption
<1>8. \A h \in GrantIds : amount[h] = remaining[h] + Total(Column(h), NRequest)
  BY DEF Inv, GrantConservation, Column
<1>9. remaining[g] = 0
  <2>1. amount[g] = 0
    BY DEF Grant, Appendable
  <2> QED
    BY <1>2, <1>7, <1>8, <2>1
<1>3. Total(remaining', NGrant) = Total(remaining, NGrant) + n
  <2>1. /\ NGrant \in Nat /\ g \in 1..NGrant
        /\ remaining'[g] = n /\ remaining[g] = 0
        /\ \A i \in 1..NGrant : remaining'[i] \in Int /\ remaining[i] \in Int
        /\ \A i \in 1..NGrant : i # g => remaining'[i] = remaining[i]
    BY <1>1, <1>2, <1>9, SizeAssumption DEF GrantIds
  <2>2. Total(remaining', NGrant)
          = Total(remaining, NGrant) + remaining'[g] - remaining[g]
    BY <2>1, TotalChange
  <2>3. Total(remaining, NGrant) \in Int
    BY <2>1, PrefixInt
  <2> QED
    BY <1>2, <2>1, <2>2, <2>3
<1>4. TypeOK'
  BY <1>1, <1>2 DEF Inv, TypeOK
<1>5. BalanceIsRemaining'
  BY <1>1, <1>3 DEF Inv, BalanceIsRemaining
<1>6. AllocationsAddUp' /\ RowsAddUp'
  BY <1>1 DEF Inv, AllocationsAddUp, RowsAddUp, RowOK, CreditOf
<1>10. GrantConservation'
  <2> SUFFICES ASSUME NEW h \in GrantIds
               PROVE  amount'[h] = remaining'[h] + Total(Column(h)', NRequest)
    BY DEF GrantConservation, Column
  <2>1. Column(h)' = Column(h)
    BY <1>1 DEF Column
  <2>2. CASE h = g
    <3>1. /\ amount[g] = 0 /\ remaining[g] = 0
          /\ amount'[g] = n /\ remaining'[g] = n
      BY <1>1, <1>2, <1>9 DEF Grant, Appendable
    <3>2. Total(Column(g), NRequest) = 0
      BY <1>7, <1>8, <3>1
    <3> QED
      BY <1>2, <2>1, <2>2, <3>1, <3>2
  <2>3. CASE h # g
    BY <1>1, <1>2, <1>8, <2>1, <2>3
  <2> QED
    BY <2>2, <2>3
<1> QED
  BY <1>4, <1>5, <1>6, <1>10 DEF Inv

\* The remaining steps write nothing that is metered.
LEMMA OtherSteps ==
  ASSUME Inv, \/ \E l \in Limits : ChangeLimits(l)
              \/ Tick
              \/ UNCHANGED vars
  PROVE  Inv'
<1>1. /\ UNCHANGED <<used, reserved, balance, amount, remaining, res>>
      /\ now' \in Time /\ limits' \in PerPeriod
  BY SizeAssumption, InputAssumption
     DEF ChangeLimits, Tick, vars, Inv, TypeOK, Time
<1>2. TypeOK' /\ BalanceIsRemaining' /\ AllocationsAddUp' /\ RowsAddUp'
  BY <1>1 DEF Inv, TypeOK, BalanceIsRemaining, AllocationsAddUp, RowsAddUp,
              RowOK, CreditOf
<1>3. GrantConservation'
  BY <1>1 DEF Inv, GrantConservation
<1> QED
  BY <1>2, <1>3 DEF Inv

\* The empty ledger satisfies the invariant.
LEMMA InitInv == ASSUME Init PROVE Inv
<1>1. 0 \in Time /\ NRequest \in Nat /\ NGrant \in Nat
  BY SizeAssumption DEF Time
<1>2. \A r \in Request : res[r] = NoRow
  BY DEF Init
<1>3. TypeOK
  BY <1>1, NoRowType, InputAssumption
     DEF Init, TypeOK, Counters, PerPeriod, NoTokens
<1>4. Total(NoTokens, NGrant) = 0
  BY <1>1, TotalZero DEF NoTokens, GrantIds
<1>5. BalanceIsRemaining
  BY <1>4 DEF Init, BalanceIsRemaining
<1>6. AllocationsAddUp /\ RowsAddUp
  BY <1>2, <1>4 DEF AllocationsAddUp, RowsAddUp, RowOK, CreditOf, NoRow
<1>7. GrantConservation
  <2> SUFFICES ASSUME NEW g \in GrantIds
               PROVE  amount[g] = remaining[g] + Total(Column(g), NRequest)
    BY DEF GrantConservation, Column
  <2>1. \A r \in 1..NRequest : Column(g)[r] = 0
    BY <1>2 DEF Column, NoRow, NoTokens, Request
  <2>2. Total(Column(g), NRequest) = 0
    BY <1>1, <2>1, TotalZero
  <2> QED
    BY <2>2 DEF Init, NoTokens
<1> QED
  BY <1>3, <1>5, <1>6, <1>7 DEF Inv

\* Every step preserves the invariant.
LEMMA NextInv == ASSUME Inv, [Next]_vars PROVE Inv'
<1>1. CASE \E r \in Request, est \in Estimates : Reserve(r, est)
  BY <1>1, ReserveStep
<1>2. CASE \E r \in Request, act \in Actuals : Settle(r, act)
  BY <1>2, SettleStep
<1>3. CASE \E r \in Request : Release(r)
  BY <1>3, ReleaseStep
<1>4. CASE \E r \in Request, n \in Estimates : ChargeImmediate(r, n)
  BY <1>4, ChargeStep
<1>5. CASE \E g \in GrantIds, n \in GrantAmounts : Grant(g, n)
  BY <1>5, GrantStep
<1>6. CASE \/ \E l \in Limits : ChangeLimits(l)
           \/ Tick
           \/ UNCHANGED vars
  BY <1>6, OtherSteps
<1> QED
  BY <1>1, <1>2, <1>3, <1>4, <1>5, <1>6 DEF Next

\* The inductive invariant holds in every reachable state of the meter.
THEOREM Invariance == Spec => []Inv
<1>1. Init => Inv
  BY InitInv
<1>2. Inv /\ [Next]_vars => Inv'
  BY NextInv
<1> QED
  BY <1>1, <1>2, PTL DEF Spec

\* No order of reserve, settle, release, charge and grant drives a counter, a
\* balance, a grant or an allocation below zero.
THEOREM TypeCorrect == Spec => []TypeOK
<1>1. Inv => TypeOK
  BY DEF Inv
<1> QED
  BY <1>1, Invariance, PTL

\* The account's balance is always what the grants have left.
THEOREM BalanceMatchesGrants == Spec => []BalanceIsRemaining
<1>1. Inv => BalanceIsRemaining
  BY DEF Inv
<1> QED
  BY <1>1, Invariance, PTL

\* Every purchased token is in its grant or with exactly one reservation.
THEOREM GrantsConserved == Spec => [](GrantConservation /\ AllocationsAddUp)
<1>1. Inv => GrantConservation /\ AllocationsAddUp
  BY DEF Inv
<1> QED
  BY <1>1, Invariance, PTL

\* Reservation, allocations and ledger rows say the same of a request's credit.
THEOREM LedgersAgree == Spec => []LedgerAgrees
<1>1. Inv => LedgerAgrees
  BY DEF Inv, RowsAddUp, RowOK, LedgerAgrees, LedgerReconciles
<1> QED
  BY <1>1, Invariance, PTL

\* The ledger explains every balance change, and every settled token is billed
\* exactly once.
THEOREM BilledOnce == Spec => [](LedgerReconciles /\ ChargedExactly)
<1>1. Inv => LedgerReconciles /\ ChargedExactly
  BY DEF Inv, RowsAddUp, RowOK, LedgerReconciles, ChargedExactly
<1> QED
  BY <1>1, Invariance, PTL

-----------------------------------------------------------------------------
(***************************************************************************)
(* The effect of each operation on one row, the counters and the balance.  *)
(***************************************************************************)

\* reserve_ai_usage holds inc tokens of the plan and need credit tokens.
LEMMA ReserveEffect ==
  ASSUME Inv, NEW r \in Request, NEW est \in Estimates, Reserve(r, est)
  PROVE  \E inc \in Nat, need \in Nat :
           /\ reserved' = Raise(reserved, CurrentWindow, inc)
           /\ used' = used
           /\ balance' = balance - need
           /\ res' = [res EXCEPT ![r] = res'[r]]
           /\ res'[r].status = "reserved" /\ res'[r].window = CurrentWindow
           /\ res'[r].included = inc /\ res'[r].credit = need
           /\ res'[r].included_settled = 0 /\ res'[r].credit_settled = 0
           /\ res[r] = NoRow
<1> DEFINE inc  == Least(est, IncludedAvailable(CurrentWindow, used, reserved))
           need == est - inc
           t    == TakeFifo(remaining, need)
           x    == HeldRow(est, inc, t)
<1>1. /\ Covered(r, est, inc)
      /\ reserved' = Raise(reserved, CurrentWindow, inc)
      /\ balance' = balance - need
      /\ res' = [res EXCEPT ![r] = x]
      /\ used' = used
  BY DEF Reserve
<1>2. est \in Nat /\ res \in [Request -> Row]
  BY InputAssumption DEF Inv, TypeOK
<1>3. inc \in Nat /\ inc <= est /\ need \in Nat /\ t \in [GrantIds -> Nat]
  <2> HIDE DEF inc
  <2> QED
    BY <1>1, <1>2, SplitFacts DEF inc
<1> HIDE DEF inc, t
<1>4. /\ x.status = "reserved" /\ x.window = CurrentWindow
      /\ x.included = inc /\ x.credit = need
      /\ x.included_settled = 0 /\ x.credit_settled = 0
  BY <1>2, <1>3, HeldRowFacts DEF Inv
<1> HIDE DEF x
<1>5. res'[r] = x /\ res' = [res EXCEPT ![r] = res'[r]]
  BY <1>1, <1>2
<1>6. res[r] = NoRow
  BY <1>1, FreshRow DEF Covered
<1> QED
  BY <1>1, <1>3, <1>4, <1>5, <1>6

\* charge_immediate charges inc tokens to the plan and need to credit.
LEMMA ChargeEffect ==
  ASSUME Inv, NEW r \in Request, NEW tokens \in Estimates,
         ChargeImmediate(r, tokens)
  PROVE  \E inc \in Nat, need \in Nat :
           /\ reserved' = reserved
           /\ used' = Raise(used, CurrentWindow, inc)
           /\ balance' = balance - need
           /\ res' = [res EXCEPT ![r] = res'[r]]
           /\ res'[r].status = "settled" /\ res'[r].window = CurrentWindow
           /\ res'[r].included_settled = inc /\ res'[r].credit_settled = need
           /\ res[r] = NoRow
<1> DEFINE inc  == Least(tokens, IncludedAvailable(CurrentWindow, used, reserved))
           need == tokens - inc
           t    == TakeFifo(remaining, need)
           h    == HeldRow(tokens, inc, t)
           x    == [h EXCEPT !.status = "settled", !.actual = tokens,
                             !.included_settled = inc, !.credit_settled = need]
<1>1. /\ Covered(r, tokens, inc)
      /\ used' = Raise(used, CurrentWindow, inc)
      /\ balance' = balance - need
      /\ res' = [res EXCEPT ![r] = x]
      /\ reserved' = reserved
  BY DEF ChargeImmediate
<1>2. tokens \in Nat /\ res \in [Request -> Row]
  BY InputAssumption DEF Inv, TypeOK
<1>3. inc \in Nat /\ inc <= tokens /\ need \in Nat /\ t \in [GrantIds -> Nat]
  <2> HIDE DEF inc
  <2> QED
    BY <1>1, <1>2, SplitFacts DEF inc
<1> HIDE DEF inc, t
<1>4. h \in Row /\ h.window = CurrentWindow
  BY <1>2, <1>3, HeldRowFacts DEF Inv
<1> HIDE DEF h, need
<1>5. /\ x.status = "settled" /\ x.window = CurrentWindow
      /\ x.included_settled = inc /\ x.credit_settled = need
  BY <1>4 DEF Row
<1> HIDE DEF x
<1>6. res'[r] = x /\ res' = [res EXCEPT ![r] = res'[r]]
  BY <1>1, <1>2
<1>7. res[r] = NoRow
  BY <1>1, FreshRow DEF Covered
<1> QED
  BY <1>1, <1>3, <1>5, <1>6, <1>7

\* release_ai_usage undoes the hold.
LEMMA ReleaseEffect ==
  ASSUME Inv, NEW r \in Request, Release(r)
  PROVE  /\ reserved' = Lower(reserved, HoldWindow(res[r]), res[r].included)
         /\ used' = used
         /\ balance' = balance + res[r].credit
         /\ res' = [res EXCEPT ![r] = res'[r]]
         /\ res'[r].status = "released" /\ res'[r].window = res[r].window
         /\ res'[r].included_settled = 0 /\ res'[r].credit_settled = 0
         /\ Open(r)
<1> DEFINE row  == res[r]
           back == RestoreTail(row.alloc, row.credit)
           x    == ReleasedRow(row, back)
<1>1. /\ reserved' = Lower(reserved, HoldWindow(row), row.included)
      /\ used' = used
      /\ balance' = balance + row.credit
      /\ res' = [res EXCEPT ![r] = x]
      /\ Open(r)
  BY DEF Release
<1>2. /\ row \in Row /\ row.included_settled = 0 /\ row.credit_settled = 0
      /\ res \in [Request -> Row]
  BY <1>1, OpenRowFacts DEF Inv, TypeOK
<1> HIDE DEF row, back
<1>3. /\ x.status = "released" /\ x.window = row.window
      /\ x.included_settled = 0 /\ x.credit_settled = 0
  BY <1>2 DEF ReleasedRow, Row
<1> HIDE DEF x
<1>4. res'[r] = x /\ res' = [res EXCEPT ![r] = res'[r]]
  BY <1>1, <1>2
<1> QED
  BY <1>1, <1>3, <1>4 DEF row

\* settle_ai_usage, part by part: of the hold, iu plan and cu credit tokens are
\* used; of the tokens above the estimate, ei go to the plan as far as the
\* limits leave room after the hold is closed, ec to credit as far as the
\* balance goes after the refund, and the rest is undercharged.
Settlement(r, iu, cu, ei, ec, extra, bal, rem) ==
  LET row   == res[r]
      w     == HoldWindow(row)
      holds == Lower(reserved, w, row.included)
  IN  /\ Open(r)
      /\ reserved' = holds
      /\ used' = Raise(Raise(used, w, iu), w, ei)
      /\ iu <= row.included /\ cu <= row.credit
      /\ ei = Least(extra, IncludedAvailable(w, Raise(used, w, iu), holds))
      /\ ec = Least(extra - ei, bal)
      /\ bal = balance + row.credit - cu
      /\ balance' = bal - ec
      /\ \A g \in GrantIds : remaining[g] <= rem[g]
      /\ remaining' = Minus(rem, TakeFifo(rem, ec))
      /\ res' = [res EXCEPT ![r] = res'[r]]
      /\ res'[r].status = "settled" /\ res'[r].window = row.window
      /\ res'[r].included_settled = iu + ei
      /\ res'[r].credit_settled = cu + ec
      /\ res'[r].undercharged = extra - ei - ec

\* Every settlement has such parts.
LEMMA SettleParts ==
  ASSUME Inv, NEW r \in Request, NEW act \in Actuals, Settle(r, act)
  PROVE  \E iu \in Nat, cu \in Nat, ei \in Nat, ec \in Nat, extra \in Nat,
            bal \in Nat, rem \in [GrantIds -> Nat] :
           Settlement(r, iu, cu, ei, ec, extra, bal, rem)
<1> DEFINE row     == res[r]
           w       == HoldWindow(row)
           iu      == IncludedUsed(row, act)
           cu      == CreditUsed(row, act)
           un      == UnusedCredit(row, act)
           back    == RestoreTail(row.alloc, un)
           holds   == Lower(reserved, w, row.included)
           charged == Raise(used, w, iu)
           bal     == balance + un
           rem     == Plus(remaining, back)
           extra   == Monus(act, row.estimated)
           ei      == Least(extra, IncludedAvailable(w, charged, holds))
           ec      == Least(extra - ei, CreditAvailable(bal, rem))
           taken   == TakeFifo(rem, ec)
           left    == Minus(row.alloc, back)
           x       == [row EXCEPT !.status = "settled", !.actual = act,
                         !.included_settled = iu + ei,
                         !.credit_settled = cu + ec,
                         !.undercharged = extra - ei - ec,
                         !.alloc = Plus(left, taken),
                         !.cl = un, !.cx = ec]
<1>1. /\ Open(r)
      /\ reserved' = holds
      /\ used' = Raise(charged, w, ei)
      /\ balance' = bal - ec
      /\ remaining' = Minus(rem, taken)
      /\ res' = [res EXCEPT ![r] = x]
  BY DEF Settle
<1>2. /\ used \in Counters /\ reserved \in Counters /\ balance \in Nat
      /\ remaining \in [GrantIds -> Nat] /\ res \in [Request -> Row]
      /\ balance = Total(remaining, NGrant)
  BY DEF Inv, TypeOK, BalanceIsRemaining
<1>3. /\ row \in Row /\ w \in [PeriodType -> Time]
      /\ row.included \in Nat /\ row.credit \in Nat
      /\ row.estimated = row.included + row.credit
      /\ row.alloc \in [GrantIds -> Nat]
      /\ Total(row.alloc, NGrant) = row.credit
  BY <1>1, OpenRowFacts
<1>4. act \in Nat
  BY InputAssumption
<1>5. /\ iu \in Nat /\ cu \in Nat /\ un \in Nat
      /\ cu + un = row.credit /\ iu <= row.included
  BY <1>1, <1>4, UsedFacts
<1> HIDE DEF iu, cu, un, w, row
<1>6. /\ back \in [GrantIds -> Nat] /\ rem \in [GrantIds -> Nat]
      /\ Total(rem, NGrant) = bal /\ bal \in Nat
  <2>1. /\ un <= Total(row.alloc, NGrant)
        /\ Total(remaining, NGrant) + un = bal /\ bal \in Nat
    BY <1>2, <1>3, <1>5
  <2> QED
    BY <1>2, <1>3, <1>5, <2>1, RestoreFacts
<1>7. \A g \in GrantIds : remaining[g] <= rem[g]
  <2> SUFFICES ASSUME NEW g \in GrantIds
               PROVE  remaining[g] <= rem[g]
    OBVIOUS
  <2> HIDE DEF back
  <2>1. rem[g] = remaining[g] + back[g]
    BY <1>2, <1>6, Cells
  <2>2. remaining[g] \in Nat /\ back[g] \in Nat
    BY <1>2, <1>6
  <2> QED
    BY <2>1, <2>2
<1>8. holds \in Counters /\ charged \in Counters
  BY <1>2, <1>3, <1>5, CounterType
<1> HIDE DEF back, left, rem
<1>9. extra \in Nat
  BY <1>3, <1>4 DEF Monus
<1>10. ei \in Nat /\ ei <= extra
  <2> HIDE DEF holds, charged, extra
  <2>1. IncludedAvailable(w, charged, holds) \in Nat
    BY <1>3, <1>8, AvailableType DEF Inv
  <2> QED
    BY <1>9, <2>1 DEF Least
<1>11. ec \in Nat /\ ec = Least(extra - ei, bal)
  <2> HIDE DEF ei, extra, bal
  <2> QED
    BY <1>6, <1>9, <1>10 DEF Least, CreditAvailable
<1>12. ei = Least(extra, IncludedAvailable(w, charged, holds))
  OBVIOUS
<1>13. remaining' = Minus(rem, TakeFifo(rem, ec))
  BY <1>1
<1> HIDE DEF extra, ei, ec, taken
<1>14. /\ x.status = "settled" /\ x.window = row.window
       /\ x.included_settled = iu + ei /\ x.credit_settled = cu + ec
       /\ x.undercharged = extra - ei - ec
  BY <1>3 DEF Row
<1> HIDE DEF x
<1>15. res'[r] = x /\ res' = [res EXCEPT ![r] = res'[r]]
  BY <1>1, <1>2
<1>16. bal = balance + row.credit - cu /\ cu <= row.credit
  BY <1>2, <1>3, <1>5 DEF bal
<1> HIDE DEF bal
<1>17. Settlement(r, iu, cu, ei, ec, extra, bal, rem)
  BY <1>1, <1>5, <1>7, <1>11, <1>12, <1>13, <1>14, <1>15, <1>16
     DEF Settlement, row, w, holds, charged
<1> QED
  BY <1>5, <1>6, <1>9, <1>10, <1>11, <1>17

\* settle_ai_usage turns the hold into a charge of c1 + c2 tokens to the plan,
\* which raise the counters in two steps, and k credit tokens.
LEMMA SettleEffect ==
  ASSUME Inv, NEW r \in Request, NEW act \in Actuals, Settle(r, act)
  PROVE  \E c1 \in Nat, c2 \in Nat, k \in Nat :
           /\ reserved' = Lower(reserved, HoldWindow(res[r]), res[r].included)
           /\ used' = Raise(Raise(used, HoldWindow(res[r]), c1),
                            HoldWindow(res[r]), c2)
           /\ balance' = balance + res[r].credit - k
           /\ res' = [res EXCEPT ![r] = res'[r]]
           /\ res'[r].status = "settled" /\ res'[r].window = res[r].window
           /\ res'[r].included_settled = c1 + c2 /\ res'[r].credit_settled = k
           /\ Open(r)
<1> DEFINE w == HoldWindow(res[r])
<1>0. PICK iu \in Nat, cu \in Nat, ei \in Nat, ec \in Nat, extra \in Nat,
           bal \in Nat, rem \in [GrantIds -> Nat] :
         Settlement(r, iu, cu, ei, ec, extra, bal, rem)
  BY SettleParts
<1>1. /\ Open(r)
      /\ reserved' = Lower(reserved, w, res[r].included)
      /\ used' = Raise(Raise(used, w, iu), w, ei)
      /\ bal = balance + res[r].credit - cu
      /\ balance' = bal - ec
      /\ res' = [res EXCEPT ![r] = res'[r]]
      /\ res'[r].status = "settled" /\ res'[r].window = res[r].window
      /\ res'[r].included_settled = iu + ei
      /\ res'[r].credit_settled = cu + ec
  BY <1>0 DEF Settlement
<1>2. balance \in Nat /\ res[r].credit \in Nat
  BY <1>1, OpenRowFacts DEF Inv, TypeOK
<1>3. cu + ec \in Nat /\ balance' = balance + res[r].credit - (cu + ec)
  BY <1>1, <1>2
<1> QED
  BY <1>1, <1>3

(***************************************************************************)
(* The period counters.                                                    *)
(***************************************************************************)

HeldList(p, t)    == [r \in Request |-> HeldIn(res[r], p, t)]
ChargedList(p, t) == [r \in Request |-> ChargedIn(res[r], p, t)]

\* A row's share of a counter is a natural number.
LEMMA ShareType ==
  ASSUME NEW x \in Row, NEW p, NEW t
  PROVE  HeldIn(x, p, t) \in Nat /\ ChargedIn(x, p, t) \in Nat
BY DEF HeldIn, ChargedIn, Row

\* No share of a sum exceeds it.
LEMMA ShareInTotal ==
  ASSUME NEW n \in Nat, NEW a \in [1..n -> Nat], NEW r \in 1..n
  PROVE  a[r] <= Total(a, n)
<1>1. Prefix(a, n)[r] = Prefix(a, n)[r - 1] + a[r]
  BY PrefixDef
<1>2. r \in 0..n /\ r - 1 \in 0..n /\ n \in r..n
  OBVIOUS
<1>3. Prefix(a, n)[r] \in Nat /\ Prefix(a, n)[r - 1] \in Nat /\ a[r] \in Nat
  BY <1>2, PrefixType
<1>4. Prefix(a, n)[r] <= Prefix(a, n)[n]
  BY <1>2, PrefixMonotone
<1>5. Prefix(a, n)[n] \in Nat
  BY PrefixType DEF Total
<1> QED
  BY <1>1, <1>3, <1>4, <1>5 DEF Total

\* A raised or lowered counter table, cell by cell.
LEMMA CounterCell ==
  ASSUME NEW u \in Counters, NEW w \in [PeriodType -> Time], NEW n \in Nat,
         NEW p \in PeriodType, NEW t \in Time
  PROVE  /\ Raise(u, w, n)[p][t] = u[p][t] + (IF t = w[p] THEN n ELSE 0)
         /\ (t = w[p] => n <= u[p][t]) =>
              Lower(u, w, n)[p][t] = u[p][t] - (IF t = w[p] THEN n ELSE 0)
<1>1. u[p] \in [Time -> Nat] /\ w[p] \in Time /\ u[p][t] \in Nat
  BY DEF Counters
<1>2. Raise(u, w, n)[p] = [u[p] EXCEPT ![w[p]] = @ + n]
  BY DEF Raise
<1>3. Lower(u, w, n)[p] = [u[p] EXCEPT ![w[p]] = Monus(@, n)]
  BY DEF Lower
<1>4. CASE t = w[p]
  <2>1. Raise(u, w, n)[p][t] = u[p][t] + n
    BY <1>1, <1>2, <1>4
  <2>2. Lower(u, w, n)[p][t] = Monus(u[p][t], n)
    BY <1>1, <1>3, <1>4
  <2>3. n <= u[p][t] => Monus(u[p][t], n) = u[p][t] - n
    BY <1>1 DEF Monus
  <2> QED
    BY <1>4, <2>1, <2>2, <2>3
<1>5. CASE t # w[p]
  BY <1>1, <1>2, <1>3, <1>5
<1> QED
  BY <1>4, <1>5

\* An open hold is inside the reserved counter of each of its windows, so the
\* floor at zero of _nonneg is never reached.
LEMMA HoldCounted ==
  ASSUME Inv, CountersAddUp, NEW r \in Request, Open(r), NEW p \in PeriodType
  PROVE  res[r].included <= reserved[p][HoldWindow(res[r])[p]]
<1> DEFINE t == HoldWindow(res[r])[p]
<1>1. res \in [Request -> Row] /\ res[r].window \in [PeriodType -> Time]
      /\ t \in Time
  BY DEF Inv, TypeOK, Row, HoldWindow
<1>2. HeldList(p, t) \in [1..NRequest -> Nat] /\ NRequest \in Nat /\ r \in 1..NRequest
  BY <1>1, ShareType, SizeAssumption DEF HeldList, Request
<1>3. HeldList(p, t)[r] = res[r].included
  BY DEF HeldList, HeldIn, Open, HoldWindow
<1>4. HeldList(p, t)[r] <= Total(HeldList(p, t), NRequest)
  BY <1>2, ShareInTotal
<1>5. reserved[p][t] = Total(HeldList(p, t), NRequest)
  BY <1>1 DEF CountersAddUp, HeldList
<1> QED
  BY <1>3, <1>4, <1>5

\* A step that writes one row and moves each counter by the change of that row's
\* share keeps the counters equal to the sums.
LEMMA CounterUpdate ==
  ASSUME Inv, CountersAddUp, Inv', NEW r \in Request,
         res' = [res EXCEPT ![r] = res'[r]],
         \A p \in PeriodType, t \in Time :
           /\ reserved'[p][t] =
                reserved[p][t] + HeldIn(res'[r], p, t) - HeldIn(res[r], p, t)
           /\ used'[p][t] =
                used[p][t] + ChargedIn(res'[r], p, t) - ChargedIn(res[r], p, t)
  PROVE  CountersAddUp'
<1> SUFFICES ASSUME NEW p \in PeriodType, NEW t \in Time
             PROVE  /\ reserved'[p][t] =
                         Total([s \in Request |-> HeldIn(res'[s], p, t)], NRequest)
                    /\ used'[p][t] =
                         Total([s \in Request |-> ChargedIn(res'[s], p, t)], NRequest)
  BY DEF CountersAddUp, HeldIn, ChargedIn
<1> DEFINE h0 == [s \in Request |-> HeldIn(res[s], p, t)]
           h1 == [s \in Request |-> HeldIn(res'[s], p, t)]
           c0 == [s \in Request |-> ChargedIn(res[s], p, t)]
           c1 == [s \in Request |-> ChargedIn(res'[s], p, t)]
<1>1. res \in [Request -> Row] /\ res' \in [Request -> Row]
  BY DEF Inv, TypeOK
<1>2. \A s \in Request : s # r => res'[s] = res[s]
  BY <1>1
<1>3. /\ \A s \in Request : h0[s] = HeldIn(res[s], p, t) /\ h0[s] \in Nat
      /\ \A s \in Request : h1[s] = HeldIn(res'[s], p, t) /\ h1[s] \in Nat
      /\ \A s \in Request : c0[s] = ChargedIn(res[s], p, t) /\ c0[s] \in Nat
      /\ \A s \in Request : c1[s] = ChargedIn(res'[s], p, t) /\ c1[s] \in Nat
  BY <1>1, ShareType
<1>4. reserved[p][t] = Total(h0, NRequest) /\ used[p][t] = Total(c0, NRequest)
  BY DEF CountersAddUp
<1> HIDE DEF h0, h1, c0, c1
<1>5. NRequest \in Nat /\ r \in 1..NRequest
  BY SizeAssumption DEF Request
<1>6. /\ \A i \in 1..NRequest : h0[i] \in Int /\ h1[i] \in Int
      /\ \A i \in 1..NRequest : i # r => h1[i] = h0[i]
  BY <1>2, <1>3 DEF Request
<1>7. /\ \A i \in 1..NRequest : c0[i] \in Int /\ c1[i] \in Int
      /\ \A i \in 1..NRequest : i # r => c1[i] = c0[i]
  BY <1>2, <1>3 DEF Request
<1>8. /\ Total(h1, NRequest) = Total(h0, NRequest) + h1[r] - h0[r]
      /\ Total(c1, NRequest) = Total(c0, NRequest) + c1[r] - c0[r]
  <2>1. Total(h1, NRequest) = Total(h0, NRequest) + h1[r] - h0[r]
    BY <1>5, <1>6, TotalChange
  <2>2. Total(c1, NRequest) = Total(c0, NRequest) + c1[r] - c0[r]
    BY <1>5, <1>7, TotalChange
  <2> QED
    BY <2>1, <2>2
<1>9. reserved'[p][t] = Total(h1, NRequest) /\ used'[p][t] = Total(c1, NRequest)
  BY <1>3, <1>4, <1>8
<1> QED
  BY <1>9 DEF h1, c1

\* Every step keeps the counters equal to the sums of the reservations.
LEMMA CountersStep ==
  ASSUME Inv, CountersAddUp, Inv', [Next]_vars
  PROVE  CountersAddUp'
<1>1. /\ used \in Counters /\ reserved \in Counters /\ res \in [Request -> Row]
      /\ CurrentWindow \in [PeriodType -> Time]
  BY WindowType DEF Inv, TypeOK
<1>2. ASSUME NEW r \in Request, NEW est \in Estimates, Reserve(r, est)
      PROVE  CountersAddUp'
  <2>1. PICK inc \in Nat :
           /\ reserved' = Raise(reserved, CurrentWindow, inc)
           /\ used' = used
           /\ res' = [res EXCEPT ![r] = res'[r]]
           /\ res'[r].status = "reserved" /\ res'[r].window = CurrentWindow
           /\ res'[r].included = inc /\ res'[r].included_settled = 0
           /\ res[r] = NoRow
    BY <1>2, ReserveEffect
  <2>2. ASSUME NEW p \in PeriodType, NEW t \in Time
        PROVE  /\ reserved'[p][t] =
                    reserved[p][t] + HeldIn(res'[r], p, t) - HeldIn(res[r], p, t)
               /\ used'[p][t] =
                    used[p][t] + ChargedIn(res'[r], p, t) - ChargedIn(res[r], p, t)
    <3>1. HeldIn(res[r], p, t) = 0 /\ ChargedIn(res[r], p, t) = 0
      BY <2>1 DEF HeldIn, ChargedIn, NoRow
    <3>2. /\ HeldIn(res'[r], p, t) = IF t = CurrentWindow[p] THEN inc ELSE 0
          /\ ChargedIn(res'[r], p, t) = 0
      BY <2>1 DEF HeldIn, ChargedIn
    <3>3. reserved'[p][t] = reserved[p][t] + (IF t = CurrentWindow[p] THEN inc ELSE 0)
      BY <1>1, <2>1, CounterCell
    <3>4. reserved[p][t] \in Nat /\ used[p][t] \in Nat
      BY <1>1 DEF Counters
    <3> QED
      BY <2>1, <3>1, <3>2, <3>3, <3>4
  <2> QED
    BY <2>1, <2>2, CounterUpdate
<1>3. ASSUME NEW r \in Request, NEW act \in Actuals, Settle(r, act)
      PROVE  CountersAddUp'
  <2> DEFINE w == HoldWindow(res[r])
  <2>1. PICK c1 \in Nat, c2 \in Nat :
           /\ reserved' = Lower(reserved, w, res[r].included)
           /\ used' = Raise(Raise(used, w, c1), w, c2)
           /\ res' = [res EXCEPT ![r] = res'[r]]
           /\ res'[r].status = "settled" /\ res'[r].window = res[r].window
           /\ res'[r].included_settled = c1 + c2
           /\ Open(r)
    BY <1>3, SettleEffect
  <2>2. /\ w \in [PeriodType -> Time] /\ w = res[r].window
        /\ res[r].included \in Nat /\ res[r].included_settled = 0
        /\ res[r].status = "reserved"
    BY <2>1, OpenRowFacts DEF HoldWindow, Open
  <2>3. ASSUME NEW p \in PeriodType, NEW t \in Time
        PROVE  /\ reserved'[p][t] =
                    reserved[p][t] + HeldIn(res'[r], p, t) - HeldIn(res[r], p, t)
               /\ used'[p][t] =
                    used[p][t] + ChargedIn(res'[r], p, t) - ChargedIn(res[r], p, t)
    <3> HIDE DEF w
    <3>1. /\ HeldIn(res[r], p, t) = IF t = w[p] THEN res[r].included ELSE 0
          /\ ChargedIn(res[r], p, t) = 0
      BY <2>2 DEF HeldIn, ChargedIn
    <3>2. /\ HeldIn(res'[r], p, t) = 0
          /\ ChargedIn(res'[r], p, t) = IF t = w[p] THEN c1 + c2 ELSE 0
      BY <2>1, <2>2 DEF HeldIn, ChargedIn
    <3>3. reserved'[p][t] = reserved[p][t] - (IF t = w[p] THEN res[r].included ELSE 0)
      <4>1. t = w[p] => res[r].included <= reserved[p][t]
        BY <2>1, HoldCounted DEF w
      <4>2. Lower(reserved, w, res[r].included)[p][t]
              = reserved[p][t] - (IF t = w[p] THEN res[r].included ELSE 0)
        BY <1>1, <2>2, <4>1, CounterCell
      <4> QED
        BY <2>1, <4>2
    <3>4. used'[p][t] = used[p][t] + (IF t = w[p] THEN c1 ELSE 0)
                                   + (IF t = w[p] THEN c2 ELSE 0)
      <4>1. Raise(used, w, c1) \in Counters
        BY <1>1, <2>2, CounterType
      <4>2. Raise(used, w, c1)[p][t] = used[p][t] + (IF t = w[p] THEN c1 ELSE 0)
        BY <1>1, <2>2, CounterCell
      <4> QED
        BY <2>1, <2>2, <4>1, <4>2, CounterCell
    <3>5. reserved[p][t] \in Nat /\ used[p][t] \in Nat
      BY <1>1 DEF Counters
    <3> QED
      BY <2>2, <3>1, <3>2, <3>3, <3>4, <3>5
  <2> QED
    BY <2>1, <2>3, CounterUpdate
<1>4. ASSUME NEW r \in Request, Release(r)
      PROVE  CountersAddUp'
  <2> DEFINE w == HoldWindow(res[r])
  <2>1. /\ reserved' = Lower(reserved, w, res[r].included)
        /\ used' = used
        /\ res' = [res EXCEPT ![r] = res'[r]]
        /\ res'[r].status = "released" /\ res'[r].window = res[r].window
        /\ res'[r].included_settled = 0
        /\ Open(r)
    BY <1>4, ReleaseEffect
  <2>2. /\ w \in [PeriodType -> Time] /\ w = res[r].window
        /\ res[r].included \in Nat /\ res[r].included_settled = 0
        /\ res[r].status = "reserved"
    BY <2>1, OpenRowFacts DEF HoldWindow, Open
  <2>3. ASSUME NEW p \in PeriodType, NEW t \in Time
        PROVE  /\ reserved'[p][t] =
                    reserved[p][t] + HeldIn(res'[r], p, t) - HeldIn(res[r], p, t)
               /\ used'[p][t] =
                    used[p][t] + ChargedIn(res'[r], p, t) - ChargedIn(res[r], p, t)
    <3> HIDE DEF w
    <3>1. /\ HeldIn(res[r], p, t) = IF t = w[p] THEN res[r].included ELSE 0
          /\ ChargedIn(res[r], p, t) = 0
      BY <2>2 DEF HeldIn, ChargedIn
    <3>2. HeldIn(res'[r], p, t) = 0 /\ ChargedIn(res'[r], p, t) = 0
      BY <2>1 DEF HeldIn, ChargedIn
    <3>3. reserved'[p][t] = reserved[p][t] - (IF t = w[p] THEN res[r].included ELSE 0)
      <4>1. t = w[p] => res[r].included <= reserved[p][t]
        BY <2>1, HoldCounted DEF w
      <4>2. Lower(reserved, w, res[r].included)[p][t]
              = reserved[p][t] - (IF t = w[p] THEN res[r].included ELSE 0)
        BY <1>1, <2>2, <4>1, CounterCell
      <4> QED
        BY <2>1, <4>2
    <3>4. reserved[p][t] \in Nat /\ used[p][t] \in Nat
      BY <1>1 DEF Counters
    <3> QED
      BY <2>1, <2>2, <3>1, <3>2, <3>3, <3>4
  <2> QED
    BY <2>1, <2>3, CounterUpdate
<1>5. ASSUME NEW r \in Request, NEW n \in Estimates, ChargeImmediate(r, n)
      PROVE  CountersAddUp'
  <2>1. PICK inc \in Nat :
           /\ reserved' = reserved
           /\ used' = Raise(used, CurrentWindow, inc)
           /\ res' = [res EXCEPT ![r] = res'[r]]
           /\ res'[r].status = "settled" /\ res'[r].window = CurrentWindow
           /\ res'[r].included_settled = inc
           /\ res[r] = NoRow
    BY <1>5, ChargeEffect
  <2>2. ASSUME NEW p \in PeriodType, NEW t \in Time
        PROVE  /\ reserved'[p][t] =
                    reserved[p][t] + HeldIn(res'[r], p, t) - HeldIn(res[r], p, t)
               /\ used'[p][t] =
                    used[p][t] + ChargedIn(res'[r], p, t) - ChargedIn(res[r], p, t)
    <3>1. HeldIn(res[r], p, t) = 0 /\ ChargedIn(res[r], p, t) = 0
      BY <2>1 DEF HeldIn, ChargedIn, NoRow
    <3>2. /\ ChargedIn(res'[r], p, t) = IF t = CurrentWindow[p] THEN inc ELSE 0
          /\ HeldIn(res'[r], p, t) = 0
      BY <2>1 DEF HeldIn, ChargedIn
    <3>3. used'[p][t] = used[p][t] + (IF t = CurrentWindow[p] THEN inc ELSE 0)
      BY <1>1, <2>1, CounterCell
    <3>4. reserved[p][t] \in Nat /\ used[p][t] \in Nat
      BY <1>1 DEF Counters
    <3> QED
      BY <2>1, <3>1, <3>2, <3>3, <3>4
  <2> QED
    BY <2>1, <2>2, CounterUpdate
<1>6. ASSUME UNCHANGED <<used, reserved, res>>
      PROVE  CountersAddUp'
  BY <1>6 DEF CountersAddUp, HeldIn, ChargedIn
<1>7. CASE \E g \in GrantIds, n \in GrantAmounts : Grant(g, n)
  BY <1>7, <1>6 DEF Grant
<1>8. CASE \E l \in Limits : ChangeLimits(l)
  BY <1>8, <1>6 DEF ChangeLimits
<1>9. CASE Tick \/ UNCHANGED vars
  BY <1>9, <1>6 DEF Tick, vars
<1> QED
  BY <1>2, <1>3, <1>4, <1>5, <1>7, <1>8, <1>9 DEF Next

\* The counters the limits are enforced on are exact at all times: no hold or
\* charge is missing from its window or counted twice.
THEOREM CountersExact == Spec => []CountersAddUp
<1>1. Init => CountersAddUp
  <2> SUFFICES ASSUME Init, NEW p \in PeriodType, NEW t \in Time
               PROVE  /\ reserved[p][t] = Total(HeldList(p, t), NRequest)
                      /\ used[p][t] = Total(ChargedList(p, t), NRequest)
    BY DEF CountersAddUp, HeldList, ChargedList
  <2>1. \A r \in 1..NRequest : HeldList(p, t)[r] = 0 /\ ChargedList(p, t)[r] = 0
    BY DEF Init, HeldList, ChargedList, HeldIn, ChargedIn, NoRow, Request
  <2>2. Total(HeldList(p, t), NRequest) = 0 /\ Total(ChargedList(p, t), NRequest) = 0
    BY <2>1, TotalZero, SizeAssumption
  <2> QED
    BY <2>2 DEF Init
<1>2. Inv /\ Inv' /\ CountersAddUp /\ [Next]_vars => CountersAddUp'
  BY CountersStep
<1> QED
  BY <1>1, <1>2, Invariance, PTL DEF Spec

\* The wallet, its grants and the counters of every window are what the
\* reservations say, for any number of requests, grants and windows.
THEOREM WalletsAgree == Spec => []WalletAgrees
<1>1. Inv /\ CountersAddUp => WalletAgrees
  BY DEF Inv, WalletAgrees
<1> QED
  BY <1>1, Invariance, CountersExact, PTL

-----------------------------------------------------------------------------
(***************************************************************************)
(* What single steps may do to limits, grants and credit.                  *)
(***************************************************************************)

\* What a limit bounds: the tokens used and held in window t of period p.
Level(p, t) == used[p][t] + reserved[p][t]

\* What the plan still pays for fits in every window of a request, and taking
\* all of it fills one of them (_included_available: the minimum).
LEMMA AvailableFits ==
  ASSUME TypeOK, NEW u \in Counters, NEW h \in Counters,
         NEW w \in [PeriodType -> Time],
         NEW n, n = IncludedAvailable(w, u, h)
  PROVE  /\ \A p \in PeriodType, k \in Nat :
              0 < k /\ k <= n => u[p][w[p]] + h[p][w[p]] + k <= limits[p]
         /\ \E p \in PeriodType : u[p][w[p]] + h[p][w[p]] + n >= limits[p]
<1>1. \A p \in PeriodType :
        limits[p] \in Nat /\ u[p][w[p]] \in Nat /\ h[p][w[p]] \in Nat
  <2> SUFFICES ASSUME NEW p \in PeriodType
               PROVE  limits[p] \in Nat /\ u[p][w[p]] \in Nat /\ h[p][w[p]] \in Nat
    OBVIOUS
  <2>1. w[p] \in Time /\ limits[p] \in Nat
    BY DEF TypeOK, PerPeriod
  <2> QED
    BY <2>1 DEF Counters
<1>2. \A p \in PeriodType : Remaining(p, w, u, h) \in Nat
  BY <1>1 DEF Remaining, Monus
<1>3. \A p \in PeriodType : n <= Remaining(p, w, u, h)
  BY <1>2 DEF PeriodType, IncludedAvailable, Least
<1>4. \E p \in PeriodType : n = Remaining(p, w, u, h)
  BY DEF PeriodType, IncludedAvailable, Least
<1>5. n \in Nat
  BY <1>2, <1>4
<1>6. ASSUME NEW p \in PeriodType, NEW k \in Nat, 0 < k, k <= n
      PROVE  u[p][w[p]] + h[p][w[p]] + k <= limits[p]
  BY <1>1, <1>3, <1>5, <1>6 DEF Remaining, Monus
<1>7. \E p \in PeriodType : u[p][w[p]] + h[p][w[p]] + n >= limits[p]
  <2>1. PICK p \in PeriodType : n = Remaining(p, w, u, h)
    BY <1>4
  <2>2. u[p][w[p]] + h[p][w[p]] + n >= limits[p]
    BY <1>1, <1>5, <2>1 DEF Remaining, Monus
  <2> QED
    BY <2>2
<1> QED
  BY <1>6, <1>7

\* A walk that takes from a grant leaves the older ones empty.
LEMMA TakeOrder ==
  ASSUME NEW rem \in [GrantIds -> Nat], NEW need \in Nat,
         NEW g \in GrantIds, Minus(rem, TakeFifo(rem, need))[g] < rem[g],
         NEW h \in 1..(g - 1)
  PROVE  Minus(rem, TakeFifo(rem, need))[h] = 0
<1> DEFINE t == TakeFifo(rem, need)
<1>1. NGrant \in Nat /\ rem \in [1..NGrant -> Nat] /\ g \in 1..NGrant
      /\ h \in GrantIds
  BY SizeAssumption DEF GrantIds
<1>2. t \in [GrantIds -> Nat]
  BY <1>1, TakeFromFrontTotal DEF TakeFifo, GrantIds
<1>3. /\ Minus(rem, t)[g] = rem[g] - t[g]
      /\ Minus(rem, t)[h] = rem[h] - t[h]
  <2> HIDE DEF t
  <2> QED
    BY <1>1, <1>2, Cells
<1>4. rem[g] \in Nat /\ t[g] \in Nat /\ rem[h] \in Nat
  BY <1>1, <1>2
<1>5. t[g] > 0
  BY <1>3, <1>4
<1>6. t[h] = rem[h]
  BY <1>1, <1>5, TakeFromFrontOrder DEF TakeFifo
<1> QED
  BY <1>3, <1>4, <1>6

\* What reserve_ai_usage and charge_immediate have in common: inc tokens enter
\* the current windows, the rest is credit, nothing is undercharged.
LEMMA HoldParts ==
  ASSUME Inv, NEW r \in Request, NEW tokens \in Estimates,
         Reserve(r, tokens) \/ ChargeImmediate(r, tokens)
  PROVE  \E inc \in Nat, need \in Nat :
           /\ inc = Least(tokens, IncludedAvailable(CurrentWindow, used, reserved))
           /\ need = tokens - inc
           /\ remaining' = Minus(remaining, TakeFifo(remaining, need))
           /\ \/ used' = used /\ reserved' = Raise(reserved, CurrentWindow, inc)
              \/ used' = Raise(used, CurrentWindow, inc) /\ reserved' = reserved
           /\ res' = [res EXCEPT ![r] = res'[r]]
           /\ res'[r].window = CurrentWindow
           /\ CreditOf(res'[r]) = need
           /\ res'[r].undercharged = 0
           /\ res[r] = NoRow
<1> DEFINE inc  == Least(tokens, IncludedAvailable(CurrentWindow, used, reserved))
           need == tokens - inc
           t    == TakeFifo(remaining, need)
           h    == HeldRow(tokens, inc, t)
           x    == [h EXCEPT !.status = "settled", !.actual = tokens,
                             !.included_settled = inc, !.credit_settled = need]
<1>1. /\ Covered(r, tokens, inc)
      /\ remaining' = Minus(remaining, t)
      /\ \/ /\ used' = used /\ reserved' = Raise(reserved, CurrentWindow, inc)
            /\ res' = [res EXCEPT ![r] = h]
         \/ /\ used' = Raise(used, CurrentWindow, inc) /\ reserved' = reserved
            /\ res' = [res EXCEPT ![r] = x]
  BY DEF Reserve, ChargeImmediate
<1>2. tokens \in Nat /\ res \in [Request -> Row]
  BY InputAssumption DEF Inv, TypeOK
<1>3. inc \in Nat /\ inc <= tokens /\ need \in Nat /\ t \in [GrantIds -> Nat]
  <2> HIDE DEF inc
  <2> QED
    BY <1>1, <1>2, SplitFacts DEF inc
<1>4. /\ inc = Least(tokens, IncludedAvailable(CurrentWindow, used, reserved))
      /\ remaining' = Minus(remaining, TakeFifo(remaining, need))
  BY <1>1
<1> HIDE DEF inc, t
<1>5. /\ h \in Row /\ h.status = "reserved" /\ h.credit = need
      /\ h.window = CurrentWindow /\ h.undercharged = 0
  BY <1>2, <1>3, HeldRowFacts DEF Inv
<1>6. need = tokens - inc
  OBVIOUS
<1> HIDE DEF h, need
<1>7. /\ x.status = "settled" /\ x.window = CurrentWindow
      /\ x.credit_settled = need /\ x.undercharged = 0
  BY <1>5 DEF Row
<1> HIDE DEF x
<1>8. /\ res' = [res EXCEPT ![r] = res'[r]]
      /\ res'[r] = h \/ res'[r] = x
  BY <1>1, <1>2
<1>9. /\ res'[r].window = CurrentWindow
      /\ CreditOf(res'[r]) = need
      /\ res'[r].undercharged = 0
  <2>1. CASE res'[r] = h
    BY <1>5, <2>1 DEF CreditOf
  <2>2. CASE res'[r] = x
    BY <1>7, <2>2 DEF CreditOf
  <2> QED
    BY <1>8, <2>1, <2>2
<1>10. res[r] = NoRow
  BY <1>1, FreshRow DEF Covered
<1> QED
  BY <1>1, <1>3, <1>4, <1>6, <1>8, <1>9, <1>10

\* A hold or an immediate charge raises the levels of the current windows by the
\* plan's part and leaves every other one alone.
LEMMA HoldLevels ==
  ASSUME Inv, NEW inc \in Nat,
         \/ used' = used /\ reserved' = Raise(reserved, CurrentWindow, inc)
         \/ used' = Raise(used, CurrentWindow, inc) /\ reserved' = reserved,
         NEW p \in PeriodType, NEW t \in Time
  PROVE  Level(p, t)' = Level(p, t) + (IF t = CurrentWindow[p] THEN inc ELSE 0)
<1>1. /\ used \in Counters /\ reserved \in Counters
      /\ CurrentWindow \in [PeriodType -> Time]
  BY WindowType DEF Inv, TypeOK
<1>2. used[p][t] \in Nat /\ reserved[p][t] \in Nat
  BY <1>1 DEF Counters
<1>3. /\ Raise(used, CurrentWindow, inc)[p][t]
           = used[p][t] + (IF t = CurrentWindow[p] THEN inc ELSE 0)
      /\ Raise(reserved, CurrentWindow, inc)[p][t]
           = reserved[p][t] + (IF t = CurrentWindow[p] THEN inc ELSE 0)
  BY <1>1, CounterCell
<1> QED
  BY <1>2, <1>3 DEF Level

\* A settlement first lowers the levels of the hold's windows to those that the
\* room for the extra tokens is computed from, and then raises them by the extra
\* tokens the plan pays.
LEMMA SettleLevels ==
  ASSUME Inv, CountersAddUp, NEW r \in Request, Open(r),
         NEW iu \in Nat, iu <= res[r].included, NEW ei \in Nat,
         NEW w, w = HoldWindow(res[r]),
         NEW holds, holds = Lower(reserved, w, res[r].included),
         NEW charged, charged = Raise(used, w, iu),
         reserved' = holds, used' = Raise(charged, w, ei),
         NEW p \in PeriodType, NEW t \in Time
  PROVE  /\ charged[p][t] + holds[p][t] <= Level(p, t)
         /\ Level(p, t)' =
              charged[p][t] + holds[p][t] + (IF t = w[p] THEN ei ELSE 0)
<1>1. /\ used \in Counters /\ reserved \in Counters
      /\ w \in [PeriodType -> Time] /\ res[r].included \in Nat
  BY OpenRowFacts DEF Inv, TypeOK
<1>2. used[p][t] \in Nat /\ reserved[p][t] \in Nat
  BY <1>1 DEF Counters
<1>3. t = w[p] => res[r].included <= reserved[p][t]
  BY HoldCounted
<1>4. holds[p][t] = reserved[p][t] - (IF t = w[p] THEN res[r].included ELSE 0)
  BY <1>1, <1>3, CounterCell
<1>5. charged[p][t] = used[p][t] + (IF t = w[p] THEN iu ELSE 0)
  BY <1>1, CounterCell
<1>6. charged \in Counters
  BY <1>1, CounterType
<1>7. used'[p][t] = charged[p][t] + (IF t = w[p] THEN ei ELSE 0)
  BY <1>1, <1>6, CounterCell
<1> QED
  BY <1>1, <1>2, <1>3, <1>4, <1>5, <1>7 DEF Level

\* Every operation takes from the grants in order.
LEMMA OrderStep ==
  ASSUME Inv, Inv', [Next]_vars,
         NEW g \in GrantIds, remaining'[g] < remaining[g], NEW h \in 1..(g - 1)
  PROVE  remaining'[h] = 0
<1>1. remaining \in [GrantIds -> Nat] /\ remaining' \in [GrantIds -> Nat]
  BY DEF Inv, TypeOK
<1>2. ASSUME NEW r \in Request, NEW n \in Estimates,
             Reserve(r, n) \/ ChargeImmediate(r, n)
      PROVE  remaining'[h] = 0
  <2>1. PICK need \in Nat : remaining' = Minus(remaining, TakeFifo(remaining, need))
    BY <1>2, HoldParts
  <2> QED
    BY <1>1, <2>1, TakeOrder
<1>3. ASSUME NEW r \in Request, NEW act \in Actuals, Settle(r, act)
      PROVE  remaining'[h] = 0
  <2>0. PICK iu \in Nat, cu \in Nat, ei \in Nat, ec \in Nat, extra \in Nat,
             bal \in Nat, rem \in [GrantIds -> Nat] :
           Settlement(r, iu, cu, ei, ec, extra, bal, rem)
    BY <1>3, SettleParts
  <2>1. /\ \A i \in GrantIds : remaining[i] <= rem[i]
        /\ remaining' = Minus(rem, TakeFifo(rem, ec))
    BY <2>0 DEF Settlement
  <2>2. remaining'[g] < rem[g]
    BY <1>1, <2>1
  <2> QED
    BY <2>1, <2>2, TakeOrder
<1>4. ASSUME NEW r \in Request, Release(r)
      PROVE  FALSE
  <2> DEFINE back == RestoreTail(res[r].alloc, res[r].credit)
  <2>1. Open(r) /\ remaining' = Plus(remaining, back)
    BY <1>4 DEF Release
  <2>2. back \in [GrantIds -> Nat]
    BY <1>1, <2>1, OpenRowFacts, RestoreFacts
  <2> HIDE DEF back
  <2>3. remaining'[g] = remaining[g] + back[g]
    BY <1>1, <2>1, <2>2, Cells
  <2>4. remaining[g] \in Nat /\ back[g] \in Nat
    BY <1>1, <2>2
  <2> QED
    BY <2>3, <2>4
<1>5. ASSUME NEW i \in GrantIds, NEW n \in GrantAmounts, Grant(i, n)
      PROVE  FALSE
  <2>1. amount[i] = 0 /\ remaining' = [remaining EXCEPT ![i] = n] /\ n \in Nat
    BY <1>5, InputAssumption DEF Grant, Appendable
  <2>2. i = g /\ remaining'[g] = n
    BY <1>1, <2>1
  <2>3. amount[g] = remaining[g] + Total(Column(g), NRequest)
    BY DEF Inv, GrantConservation, Column
  <2>4. Total(Column(g), NRequest) \in Nat
    <3>1. res \in [Request -> Row]
      BY DEF Inv, TypeOK
    <3>2. Column(g) \in [1..NRequest -> Nat]
      BY <3>1 DEF Column, Row, Request
    <3> QED
      BY <3>2, PrefixType, SizeAssumption
  <2>5. remaining[g] \in Nat
    BY <1>1
  <2> QED
    BY <2>1, <2>2, <2>3, <2>4, <2>5
<1>6. CASE (\E l \in Limits : ChangeLimits(l)) \/ Tick \/ UNCHANGED vars
  <2>1. UNCHANGED remaining
    BY <1>6 DEF ChangeLimits, Tick, vars
  <2> QED
    BY <1>1, <2>1
<1> QED
  BY <1>2, <1>3, <1>4, <1>5, <1>6 DEF Next

\* Grants are spent oldest first: whatever holds, refunds and purchases came
\* before, a hold, a settlement or a charge that takes from a grant leaves
\* nothing in an older one (_consume_grants_fifo).
THEOREM OldestGrantsFirst == Spec => OldestGrantFirst
<1>1. Inv /\ Inv' /\ [Next]_vars =>
        [\A g \in GrantIds :
           remaining'[g] < remaining[g] => \A h \in 1..(g - 1) : remaining'[h] = 0]_vars
  BY OrderStep
<1> QED
  BY <1>1, Invariance, PTL DEF Spec, OldestGrantFirst

\* An operation that raises the level of a window stays within its limit.
LEMMA LimitStep ==
  ASSUME Inv, CountersAddUp, Inv', [Next]_vars,
         NEW p \in PeriodType, NEW t \in Time, Level(p, t)' > Level(p, t)
  PROVE  Level(p, t)' <= limits[p]
<1>1. /\ used \in Counters /\ reserved \in Counters /\ TypeOK
      /\ CurrentWindow \in [PeriodType -> Time]
  BY WindowType DEF Inv, TypeOK
<1>2. Level(p, t) \in Nat
  BY <1>1 DEF Counters, Level
<1>3. ASSUME NEW r \in Request, NEW n \in Estimates,
             Reserve(r, n) \/ ChargeImmediate(r, n)
      PROVE  Level(p, t)' <= limits[p]
  <2> DEFINE room == IncludedAvailable(CurrentWindow, used, reserved)
  <2>1. PICK inc \in Nat :
           /\ inc = Least(n, room)
           /\ \/ used' = used /\ reserved' = Raise(reserved, CurrentWindow, inc)
              \/ used' = Raise(used, CurrentWindow, inc) /\ reserved' = reserved
    BY <1>3, HoldParts
  <2>2. Level(p, t)' = Level(p, t) + (IF t = CurrentWindow[p] THEN inc ELSE 0)
    BY <2>1, HoldLevels
  <2>3. t = CurrentWindow[p] /\ 0 < inc
    BY <1>2, <2>2
  <2>4. room \in Nat /\ n \in Nat
    BY <1>1, AvailableType, InputAssumption
  <2>5. inc <= room
    <3> HIDE DEF room
    <3> QED
      BY <2>1, <2>4 DEF Least
  <2>6. used[p][t] + reserved[p][t] + inc <= limits[p]
    BY <1>1, <2>3, <2>5, AvailableFits
  <2> QED
    BY <2>2, <2>3, <2>6 DEF Level
<1>4. ASSUME NEW r \in Request, NEW act \in Actuals, Settle(r, act)
      PROVE  Level(p, t)' <= limits[p]
  <2> DEFINE w     == HoldWindow(res[r])
             holds == Lower(reserved, w, res[r].included)
  <2>0. PICK iu \in Nat, cu \in Nat, ei \in Nat, ec \in Nat, extra \in Nat,
             bal \in Nat, rem \in [GrantIds -> Nat] :
           Settlement(r, iu, cu, ei, ec, extra, bal, rem)
    BY <1>4, SettleParts
  <2>1. /\ Open(r)
        /\ reserved' = holds
        /\ used' = Raise(Raise(used, w, iu), w, ei)
        /\ iu <= res[r].included
        /\ ei = Least(extra, IncludedAvailable(w, Raise(used, w, iu), holds))
    BY <2>0 DEF Settlement
  <2> DEFINE charged == Raise(used, w, iu)
             room    == IncludedAvailable(w, charged, holds)
  <2>2. w \in [PeriodType -> Time] /\ res[r].included \in Nat
    BY <2>1, OpenRowFacts
  <2>3. holds \in Counters /\ charged \in Counters
    BY <1>1, <2>2, CounterType
  <2>4. /\ charged[p][t] + holds[p][t] <= Level(p, t)
        /\ Level(p, t)' =
             charged[p][t] + holds[p][t] + (IF t = w[p] THEN ei ELSE 0)
    BY <2>1, SettleLevels
  <2>5. ei = Least(extra, room)
    BY <2>1
  <2> HIDE DEF w, holds, charged
  <2>6. charged[p][t] + holds[p][t] \in Nat
    BY <2>3 DEF Counters
  <2>7. t = w[p] /\ 0 < ei
    BY <1>2, <2>4, <2>6
  <2>8. room \in Nat
    BY <1>1, <2>2, <2>3, AvailableType
  <2>9. ei <= room
    <3> HIDE DEF room
    <3> QED
      BY <2>5, <2>8 DEF Least
  <2>10. charged[p][t] + holds[p][t] + ei <= limits[p]
    BY <1>1, <2>2, <2>3, <2>7, <2>9, AvailableFits
  <2> QED
    BY <2>4, <2>7, <2>10
<1>5. ASSUME NEW r \in Request, Release(r)
      PROVE  FALSE
  <2> DEFINE w == HoldWindow(res[r])
  <2>1. reserved' = Lower(reserved, w, res[r].included) /\ used' = used /\ Open(r)
    BY <1>5, ReleaseEffect
  <2>2. w \in [PeriodType -> Time] /\ res[r].included \in Nat
    BY <2>1, OpenRowFacts
  <2>3. t = w[p] => res[r].included <= reserved[p][t]
    BY <2>1, HoldCounted
  <2> HIDE DEF w
  <2>4. reserved'[p][t]
          = reserved[p][t] - (IF t = w[p] THEN res[r].included ELSE 0)
    BY <1>1, <2>1, <2>2, <2>3, CounterCell
  <2>5. used[p][t] \in Nat /\ reserved[p][t] \in Nat
    BY <1>1 DEF Counters
  <2> QED
    BY <2>1, <2>2, <2>4, <2>5 DEF Level
<1>6. ASSUME UNCHANGED <<used, reserved>>
      PROVE  FALSE
  BY <1>2, <1>6 DEF Level
<1>7. CASE \E g \in GrantIds, n \in GrantAmounts : Grant(g, n)
  BY <1>6, <1>7 DEF Grant
<1>8. CASE (\E l \in Limits : ChangeLimits(l)) \/ Tick \/ UNCHANGED vars
  BY <1>6, <1>8 DEF ChangeLimits, Tick, vars
<1> QED
  BY <1>3, <1>4, <1>5, <1>7, <1>8 DEF Next

\* No step takes a window over the limit in force, for any limits, estimates and
\* actual counts: a hold takes what the limits leave, and a settlement above the
\* estimate charges the plan only what they leave once its hold is closed
\* (_included_available in reserve_ai_usage and settle_ai_usage).
THEOREM LimitsHold == Spec => NeverOverLimit
<1>1. Inv /\ CountersAddUp /\ Inv' /\ [Next]_vars =>
        [\A p \in PeriodType, t \in Time :
           used'[p][t] + reserved'[p][t] > used[p][t] + reserved[p][t]
             => used'[p][t] + reserved'[p][t] <= limits[p]]_vars
  BY LimitStep DEF Level
<1> QED
  BY <1>1, Invariance, CountersExact, PTL DEF Spec, NeverOverLimit

\* A step that takes credit for a request, or leaves tokens of it undercharged,
\* has filled one of its windows, and in the second case emptied the balance.
LEMMA LastResortStep ==
  ASSUME Inv, CountersAddUp, Inv', [Next]_vars, NEW r \in Request
  PROVE  /\ CreditOf(res'[r]) > CreditOf(res[r])
              => \E p \in PeriodType : Full(p, res'[r].window[p])
         /\ res'[r].undercharged > res[r].undercharged
              => balance' = 0 /\ \E p \in PeriodType : Full(p, res'[r].window[p])
<1> DEFINE Goal ==
      /\ CreditOf(res'[r]) > CreditOf(res[r])
           => \E p \in PeriodType : Full(p, res'[r].window[p])
      /\ res'[r].undercharged > res[r].undercharged
           => balance' = 0 /\ \E p \in PeriodType : Full(p, res'[r].window[p])
<1> SUFFICES Goal
  OBVIOUS
<1>1. /\ used \in Counters /\ reserved \in Counters /\ TypeOK
      /\ balance \in Nat /\ res \in [Request -> Row]
      /\ CurrentWindow \in [PeriodType -> Time]
  BY WindowType DEF Inv, TypeOK
<1>2. /\ CreditOf(res[r]) \in Nat /\ res[r].undercharged \in Nat
  BY <1>1 DEF CreditOf, Row
<1>3. ASSUME res'[r] = res[r]
      PROVE  Goal
  BY <1>2, <1>3
<1>4. ASSUME NEW s \in Request, NEW n \in Estimates,
             Reserve(s, n) \/ ChargeImmediate(s, n)
      PROVE  Goal
  <2> DEFINE w    == CurrentWindow
             room == IncludedAvailable(w, used, reserved)
  <2>1. PICK inc \in Nat, need \in Nat :
           /\ inc = Least(n, room) /\ need = n - inc
           /\ \/ used' = used /\ reserved' = Raise(reserved, w, inc)
              \/ used' = Raise(used, w, inc) /\ reserved' = reserved
           /\ res' = [res EXCEPT ![s] = res'[s]]
           /\ res'[s].window = w
           /\ CreditOf(res'[s]) = need
           /\ res'[s].undercharged = 0
    BY <1>4, HoldParts
  <2>2. CASE s # r
    BY <1>1, <1>3, <2>1, <2>2
  <2>3. CASE s = r
    <3>1. ASSUME CreditOf(res'[r]) > CreditOf(res[r])
          PROVE  \E p \in PeriodType : Full(p, res'[r].window[p])
      <4>1. need > 0
        BY <1>2, <2>1, <2>3, <3>1
      <4>2. room \in Nat /\ n \in Nat
        BY <1>1, AvailableType, InputAssumption
      <4>3. inc = room
        <5> HIDE DEF room
        <5> QED
          BY <2>1, <4>1, <4>2 DEF Least
      <4>4. PICK p \in PeriodType :
               used[p][w[p]] + reserved[p][w[p]] + inc >= limits[p]
        BY <1>1, <4>3, AvailableFits
      <4>5. w[p] \in Time
        BY <1>1
      <4>6. used'[p][w[p]] + reserved'[p][w[p]]
              = used[p][w[p]] + reserved[p][w[p]] + inc
        <5>1. \A t \in Time : used'[p][t] + reserved'[p][t] =
                used[p][t] + reserved[p][t] + (IF t = CurrentWindow[p] THEN inc ELSE 0)
          BY <2>1, HoldLevels DEF Level
        <5>2. used[p][w[p]] \in Nat /\ reserved[p][w[p]] \in Nat
          BY <1>1, <4>5 DEF Counters
        <5> QED
          BY <4>5, <5>1, <5>2
      <4>7. res'[r].window[p] = w[p]
        BY <2>1, <2>3
      <4> HIDE DEF w
      <4>8. Full(p, res'[r].window[p])
        BY <4>4, <4>6, <4>7 DEF Full
      <4> QED
        BY <4>8
    <3>2. ~ (res'[r].undercharged > res[r].undercharged)
      BY <1>2, <2>1, <2>3
    <3> QED
      BY <3>1, <3>2
  <2> QED
    BY <2>2, <2>3
<1>5. ASSUME NEW s \in Request, NEW act \in Actuals, Settle(s, act)
      PROVE  Goal
  <2> DEFINE w     == HoldWindow(res[s])
             holds == Lower(reserved, w, res[s].included)
  <2>0. PICK iu \in Nat, cu \in Nat, ei \in Nat, ec \in Nat, extra \in Nat,
             bal \in Nat, rem \in [GrantIds -> Nat] :
           Settlement(s, iu, cu, ei, ec, extra, bal, rem)
    BY <1>5, SettleParts
  <2>1. /\ Open(s)
        /\ reserved' = holds
        /\ used' = Raise(Raise(used, w, iu), w, ei)
        /\ iu <= res[s].included /\ cu <= res[s].credit
        /\ ei = Least(extra, IncludedAvailable(w, Raise(used, w, iu), holds))
        /\ ec = Least(extra - ei, bal)
        /\ balance' = bal - ec
        /\ res' = [res EXCEPT ![s] = res'[s]]
        /\ res'[s].status = "settled" /\ res'[s].window = res[s].window
        /\ res'[s].credit_settled = cu + ec
        /\ res'[s].undercharged = extra - ei - ec
    BY <2>0 DEF Settlement
  <2> DEFINE charged == Raise(used, w, iu)
             room    == IncludedAvailable(w, charged, holds)
  <2>2. /\ w \in [PeriodType -> Time] /\ w = res[s].window
        /\ res[s].included \in Nat /\ res[s].credit \in Nat
    BY <2>1, OpenRowFacts DEF HoldWindow
  <2>3. holds \in Counters /\ charged \in Counters
    BY <1>1, <2>2, CounterType
  <2>4. \A p \in PeriodType, t \in Time :
          used'[p][t] + reserved'[p][t] =
            charged[p][t] + holds[p][t] + (IF t = w[p] THEN ei ELSE 0)
    BY <2>1, SettleLevels DEF Level
  <2>5. ei = Least(extra, room)
    BY <2>1
  <2> HIDE DEF w, holds, charged
  <2>6. room \in Nat
    BY <1>1, <2>2, <2>3, AvailableType
  <2>7. ASSUME extra - ei > 0, s = r
        PROVE  \E p \in PeriodType : Full(p, res'[r].window[p])
    <3>1. ei = room
      <4> HIDE DEF room
      <4> QED
        BY <2>5, <2>6, <2>7 DEF Least
    <3>2. PICK p \in PeriodType : charged[p][w[p]] + holds[p][w[p]] + ei >= limits[p]
      BY <1>1, <2>2, <2>3, <3>1, AvailableFits
    <3>3. w[p] \in Time
      BY <2>2
    <3>4. used'[p][w[p]] + reserved'[p][w[p]] = charged[p][w[p]] + holds[p][w[p]] + ei
      BY <2>4, <3>3
    <3>5. res'[r].window[p] = w[p]
      BY <2>1, <2>2, <2>7
    <3>6. Full(p, res'[r].window[p])
      BY <3>2, <3>4, <3>5 DEF Full
    <3> QED
      BY <3>6
  <2> HIDE DEF room
  <2>8. CASE s # r
    BY <1>1, <1>3, <2>1, <2>8
  <2>9. CASE s = r
    <3>1. /\ CreditOf(res[r]) = res[r].credit
          /\ CreditOf(res'[r]) = cu + ec
      BY <2>1, <2>9 DEF Open, CreditOf
    <3>2. CreditOf(res'[r]) > CreditOf(res[r]) => extra - ei > 0
      BY <2>1, <2>2, <2>9, <3>1 DEF Least
    <3>3. res'[r].undercharged > res[r].undercharged
             => extra - ei > 0 /\ balance' = 0
      BY <1>2, <2>1, <2>9 DEF Least
    <3> QED
      BY <2>7, <2>9, <3>2, <3>3
  <2> QED
    BY <2>8, <2>9
<1>6. ASSUME NEW s \in Request, Release(s)
      PROVE  Goal
  <2>1. /\ res' = [res EXCEPT ![s] = res'[s]]
        /\ res'[s].status = "released"
    BY <1>6, ReleaseEffect
  <2>2. res'[s].undercharged = res[s].undercharged
    <3> DEFINE x == ReleasedRow(res[s], RestoreTail(res[s].alloc, res[s].credit))
    <3>1. res'[s] = x
      BY <1>1, <1>6 DEF Release
    <3>2. x.undercharged = res[s].undercharged
      BY <1>1 DEF ReleasedRow, Row
    <3> HIDE DEF x
    <3> QED
      BY <3>1, <3>2
  <2>3. CASE s # r
    BY <1>1, <1>3, <2>1, <2>3
  <2>4. CASE s = r
    <3>1. CreditOf(res'[r]) = 0
      BY <2>1, <2>4 DEF CreditOf
    <3> QED
      BY <1>2, <2>2, <2>4, <3>1
  <2> QED
    BY <2>3, <2>4
<1>7. ASSUME UNCHANGED res
      PROVE  Goal
  BY <1>3, <1>7
<1>8. CASE \E g \in GrantIds, n \in GrantAmounts : Grant(g, n)
  BY <1>7, <1>8 DEF Grant
<1>9. CASE (\E l \in Limits : ChangeLimits(l)) \/ Tick \/ UNCHANGED vars
  BY <1>7, <1>9 DEF ChangeLimits, Tick, vars
<1> HIDE DEF Goal
<1> QED
  BY <1>4, <1>5, <1>6, <1>8, <1>9 DEF Next

\* Purchased credit is the last resort: whoever is billed to credit has filled a
\* window of its own first, and tokens go undercharged only when the balance is
\* used up as well (reserve_ai_usage, settle_ai_usage).
THEOREM CreditComesLast == Spec => CreditIsLastResort
<1>1. Inv /\ CountersAddUp /\ Inv' /\ [Next]_vars =>
        [\A r \in Request :
           LET w == res'[r].window
           IN  /\ CreditOf(res'[r]) > CreditOf(res[r])
                    => \E p \in PeriodType : Full(p, w[p])
               /\ res'[r].undercharged > res[r].undercharged
                    => balance' = 0 /\ \E p \in PeriodType : Full(p, w[p])]_vars
  BY LastResortStep
<1> QED
  BY <1>1, Invariance, CountersExact, PTL DEF Spec, CreditIsLastResort

(***************************************************************************)
(* The refinement.                                                         *)
(***************************************************************************)

\* A step that writes one row changes the credit on hold and the credit spent by
\* what changes on that row.
LEMMA PurseUpdate ==
  ASSUME Inv, Inv', NEW r \in Request, res' = [res EXCEPT ![r] = res'[r]]
  PROVE  /\ HeldCredit \in Nat /\ HeldCredit' \in Nat
         /\ SpentCredit \in Nat /\ SpentCredit' \in Nat
         /\ HeldCredit' = HeldCredit + HeldBy(res'[r]) - HeldBy(res[r])
         /\ SpentCredit' =
              SpentCredit + res'[r].credit_settled - res[r].credit_settled
<1> DEFINE h0 == [s \in Request |-> HeldBy(res[s])]
           h1 == [s \in Request |-> HeldBy(res'[s])]
           c0 == [s \in Request |-> res[s].credit_settled]
           c1 == [s \in Request |-> res'[s].credit_settled]
<1>1. res \in [Request -> Row] /\ res' \in [Request -> Row]
  BY DEF Inv, TypeOK
<1>2. \A s \in Request : s # r => res'[s] = res[s]
  BY <1>1
<1>3. \A x \in Row : HeldBy(x) \in Nat /\ x.credit_settled \in Nat
  BY DEF HeldBy, Row
<1>4. /\ \A s \in Request : h0[s] = HeldBy(res[s]) /\ h0[s] \in Nat
      /\ \A s \in Request : h1[s] = HeldBy(res'[s]) /\ h1[s] \in Nat
      /\ \A s \in Request : c0[s] = res[s].credit_settled /\ c0[s] \in Nat
      /\ \A s \in Request : c1[s] = res'[s].credit_settled /\ c1[s] \in Nat
  BY <1>1, <1>3
<1>5. /\ HeldCredit = Total(h0, NRequest) /\ SpentCredit = Total(c0, NRequest)
      /\ HeldCredit' = Total(h1, NRequest) /\ SpentCredit' = Total(c1, NRequest)
  BY DEF HeldCredit, SpentCredit, HeldBy
<1>6. /\ h0 \in [1..NRequest -> Nat] /\ h1 \in [1..NRequest -> Nat]
      /\ c0 \in [1..NRequest -> Nat] /\ c1 \in [1..NRequest -> Nat]
  BY <1>4 DEF Request
<1> HIDE DEF h0, h1, c0, c1
<1>7. NRequest \in Nat /\ r \in 1..NRequest
  BY SizeAssumption DEF Request
<1>8. /\ \A i \in 1..NRequest : h0[i] \in Int /\ h1[i] \in Int
      /\ \A i \in 1..NRequest : i # r => h1[i] = h0[i]
  BY <1>2, <1>4 DEF Request
<1>9. /\ \A i \in 1..NRequest : c0[i] \in Int /\ c1[i] \in Int
      /\ \A i \in 1..NRequest : i # r => c1[i] = c0[i]
  BY <1>2, <1>4 DEF Request
<1>10. Total(h1, NRequest) = Total(h0, NRequest) + h1[r] - h0[r]
  BY <1>7, <1>8, TotalChange
<1>11. Total(c1, NRequest) = Total(c0, NRequest) + c1[r] - c0[r]
  BY <1>7, <1>9, TotalChange
<1>12. /\ Total(h0, NRequest) \in Nat /\ Total(h1, NRequest) \in Nat
       /\ Total(c0, NRequest) \in Nat /\ Total(c1, NRequest) \in Nat
  BY <1>6, <1>7, PrefixType
<1> QED
  BY <1>4, <1>5, <1>10, <1>11, <1>12

\* Every step of the meter is a step of the purse, or leaves the purse alone.
LEMMA PurseStep ==
  ASSUME Inv, Inv', [Next]_vars
  PROVE  [Purse!Next]_<<balance, HeldCredit, SpentCredit>>
<1> USE DEF Purse!Next, Purse!Buy, Purse!Hold, Purse!Close, Purse!Conserved
<1>1. balance \in Nat /\ balance' \in Nat
  BY DEF Inv, TypeOK
<1>2. ASSUME NEW r \in Request, NEW est \in Estimates, Reserve(r, est)
      PROVE  Purse!Next
  <2>1. PICK need \in Nat :
           /\ balance' = balance - need
           /\ res' = [res EXCEPT ![r] = res'[r]]
           /\ res'[r].status = "reserved" /\ res'[r].credit = need
           /\ res'[r].credit_settled = 0
           /\ res[r] = NoRow
    BY <1>2, ReserveEffect
  <2>2. /\ HeldBy(res'[r]) = need /\ HeldBy(res[r]) = 0
        /\ res[r].credit_settled = 0
    BY <2>1 DEF HeldBy, NoRow
  <2>3. /\ HeldCredit \in Nat /\ HeldCredit' \in Nat
        /\ SpentCredit \in Nat /\ SpentCredit' \in Nat
        /\ HeldCredit' = HeldCredit + need
        /\ SpentCredit' = SpentCredit
    BY <2>1, <2>2, PurseUpdate
  <2> QED
    BY <1>1, <2>1, <2>3
<1>3. ASSUME NEW r \in Request, NEW act \in Actuals, Settle(r, act)
      PROVE  Purse!Next
  <2>1. PICK k \in Nat :
           /\ balance' = balance + res[r].credit - k
           /\ res' = [res EXCEPT ![r] = res'[r]]
           /\ res'[r].status = "settled" /\ res'[r].credit_settled = k
           /\ Open(r)
    BY <1>3, SettleEffect
  <2>2. /\ HeldBy(res'[r]) = 0 /\ HeldBy(res[r]) = res[r].credit
        /\ res[r].credit_settled = 0 /\ res[r].credit \in Nat
    BY <2>1, OpenRowFacts DEF HeldBy, Open
  <2>3. /\ HeldCredit \in Nat /\ HeldCredit' \in Nat
        /\ SpentCredit \in Nat /\ SpentCredit' \in Nat
        /\ HeldCredit' = HeldCredit - res[r].credit
        /\ SpentCredit' = SpentCredit + k
    BY <2>1, <2>2, PurseUpdate
  <2> QED
    BY <1>1, <2>1, <2>2, <2>3
<1>4. ASSUME NEW r \in Request, Release(r)
      PROVE  Purse!Next
  <2>1. /\ balance' = balance + res[r].credit
        /\ res' = [res EXCEPT ![r] = res'[r]]
        /\ res'[r].status = "released" /\ res'[r].credit_settled = 0
        /\ Open(r)
    BY <1>4, ReleaseEffect
  <2>2. /\ HeldBy(res'[r]) = 0 /\ HeldBy(res[r]) = res[r].credit
        /\ res[r].credit_settled = 0 /\ res[r].credit \in Nat
    BY <2>1, OpenRowFacts DEF HeldBy, Open
  <2>3. /\ HeldCredit \in Nat /\ HeldCredit' \in Nat
        /\ SpentCredit \in Nat /\ SpentCredit' \in Nat
        /\ HeldCredit' = HeldCredit - res[r].credit
        /\ SpentCredit' = SpentCredit
    BY <2>1, <2>2, PurseUpdate
  <2> QED
    BY <1>1, <2>1, <2>2, <2>3
<1>5. ASSUME NEW r \in Request, NEW n \in Estimates, ChargeImmediate(r, n)
      PROVE  Purse!Next
  <2>1. PICK need \in Nat :
           /\ balance' = balance - need
           /\ res' = [res EXCEPT ![r] = res'[r]]
           /\ res'[r].status = "settled" /\ res'[r].credit_settled = need
           /\ res[r] = NoRow
    BY <1>5, ChargeEffect
  <2>2. /\ HeldBy(res'[r]) = 0 /\ HeldBy(res[r]) = 0
        /\ res[r].credit_settled = 0
    BY <2>1 DEF HeldBy, NoRow
  <2>3. /\ HeldCredit \in Nat /\ HeldCredit' \in Nat
        /\ SpentCredit \in Nat /\ SpentCredit' \in Nat
        /\ HeldCredit' = HeldCredit
        /\ SpentCredit' = SpentCredit + need
    BY <2>1, <2>2, PurseUpdate
  <2> QED
    BY <1>1, <2>1, <2>3
<1>6. ASSUME UNCHANGED res
      PROVE  UNCHANGED <<HeldCredit, SpentCredit>>
  BY <1>6 DEF HeldCredit, SpentCredit, HeldBy
<1>7. ASSUME NEW g \in GrantIds, NEW n \in GrantAmounts, Grant(g, n)
      PROVE  Purse!Next
  <2>1. balance' = balance + n /\ UNCHANGED res /\ n \in Nat \ {0}
    BY <1>7, InputAssumption DEF Grant
  <2> QED
    BY <1>1, <1>6, <2>1
<1>8. CASE \/ \E l \in Limits : ChangeLimits(l)
           \/ Tick
           \/ UNCHANGED vars
  <2>1. UNCHANGED <<balance, res>>
    BY <1>8 DEF ChangeLimits, Tick, vars
  <2> QED
    BY <1>6, <2>1
<1> QED
  BY <1>2, <1>3, <1>4, <1>5, <1>7, <1>8 DEF Next

\* The meter implements the purse: purchased tokens are free, held or spent,
\* enter by purchase only, and are never refunded once billed.
THEOREM Refinement == Spec => ImplementsPurse
<1>1. Init => Purse!Init
  <2> SUFFICES ASSUME Init
               PROVE  balance = 0 /\ HeldCredit = 0 /\ SpentCredit = 0
    BY DEF Purse!Init
  <2>1. /\ \A r \in 1..NRequest : [s \in Request |-> HeldBy(res[s])][r] = 0
        /\ \A r \in 1..NRequest : [s \in Request |-> res[s].credit_settled][r] = 0
    BY DEF Init, HeldBy, NoRow, Request
  <2>2. HeldCredit = 0 /\ SpentCredit = 0
    BY <2>1, TotalZero, SizeAssumption DEF HeldCredit, SpentCredit
  <2> QED
    BY <2>2 DEF Init
<1>2. Inv /\ Inv' /\ [Next]_vars => [Purse!Next]_<<balance, HeldCredit, SpentCredit>>
  BY PurseStep
<1> QED
  BY <1>1, <1>2, Invariance, PTL DEF Spec, ImplementsPurse, Purse!Spec
=============================================================================
