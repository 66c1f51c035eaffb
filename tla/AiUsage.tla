------------------------------ MODULE AiUsage ------------------------------
(***************************************************************************)
(* The AI-token meter of one workspace: AiUsageService.                    *)
(*                                                                         *)
(* Every operation runs in one database transaction that first takes the   *)
(* workspace's advisory lock and then the row locks of the credit account, *)
(* the grants and the period counters, so each is one action here.  Grants *)
(* come from billing, which takes the account's row lock only; that is     *)
(* enough to make a grant one action too.                                  *)
(***************************************************************************)
EXTENDS PrefixSum

CONSTANTS
  NRequest,     \* request ids that may be metered: 1..NRequest
  NGrant,       \* GRANT rows the ledger may get: 1..NGrant, in FIFO order
  MaxTime,      \* bound: the instants at which a request may be metered
  WindowStart,  \* the window a period type puts an instant in
  Limits,       \* token limits the entitlements may resolve to
  Estimates,    \* token estimates a caller may reserve
  Actuals,      \* token counts a caller may settle
  GrantAmounts  \* sizes of a credit grant

PeriodType == {"daily", "weekly", "monthly"}
Time       == 0..MaxTime
Request    == 1..NRequest
GrantIds   == 1..NGrant
PerPeriod  == [PeriodType -> Nat]
Counters   == [PeriodType -> [Time -> Nat]]
NoTokens   == [g \in GrantIds |-> 0]

ASSUME SizeAssumption ==
  NRequest \in Nat /\ NGrant \in Nat /\ MaxTime \in Nat

ASSUME WindowAssumption ==
  /\ WindowStart \in [PeriodType -> [Time -> Time]]
  /\ \A p \in PeriodType, t \in Time : WindowStart[p][t] <= t

ASSUME InputAssumption ==
  /\ Limits \subseteq PerPeriod /\ Limits # {}
  /\ Estimates \subseteq Nat
  /\ Actuals \subseteq Nat
  /\ GrantAmounts \subseteq Nat \ {0}

VARIABLES
  now,        \* the clock the windows are computed from
  limits,     \* the workspace's token limits, as QuotaService resolves them
  used,       \* usage_period_counters.used, per period type and window start
  reserved,   \* usage_period_counters.reserved
  balance,    \* credit_accounts.balance
  amount,     \* amount of each GRANT row; 0 until the row is appended
  remaining,  \* remaining_amount of each GRANT row
  res         \* ai_usage_reservations, with the ledger rows of each request

vars == <<now, limits, used, reserved, balance, amount, remaining, res>>

(***************************************************************************)
(* A reservation row.  cr, cl and cx are the amounts of the ledger rows    *)
(* "<request>:cr" (RESERVE), ":cl" (RELEASE) and ":cx" (CONSUME); a row    *)
(* that was not appended counts 0.                                         *)
(***************************************************************************)
Row == [status        : {"none", "reserved", "settled", "released"},
        window        : [PeriodType -> Time],
        estimated     : Nat,
        included      : Nat,
        credit        : Nat,
        alloc         : [GrantIds -> Nat],
        actual        : Nat,
        included_settled : Nat,
        credit_settled   : Nat,
        undercharged  : Nat,
        cr : Nat, cl : Nat, cx : Nat]

NoRow == [status |-> "none", window |-> [p \in PeriodType |-> 0],
          estimated |-> 0, included |-> 0, credit |-> 0, alloc |-> NoTokens,
          actual |-> 0, included_settled |-> 0, credit_settled |-> 0,
          undercharged |-> 0, cr |-> 0, cl |-> 0, cx |-> 0]

Init ==
  /\ now = 0
  /\ limits \in Limits
  /\ used = [p \in PeriodType |-> [t \in Time |-> 0]]
  /\ reserved = [p \in PeriodType |-> [t \in Time |-> 0]]
  /\ balance = 0
  /\ amount = NoTokens
  /\ remaining = NoTokens
  /\ res = [r \in Request |-> NoRow]
-----------------------------------------------------------------------------
(* Arithmetic of the service. *)

CurrentWindow == [p \in PeriodType |-> WindowStart[p][now]]

\* Faulty variants of the next definition: the limit counts as exclusive; holds
\* are not counted.
Remaining_Exclusive(p, w, u, h) == Monus(limits[p], u[p][w[p]] + h[p][w[p]] + 1)
Remaining_NoHolds(p, w, u, h) == Monus(limits[p], u[p][w[p]])

\* What the limit of period p leaves in window w, given the counters u and h.
Remaining(p, w, u, h) == Monus(limits[p], u[p][w[p]] + h[p][w[p]])

IncludedAvailable(w, u, h) ==
  Least(Remaining("daily", w, u, h),
        Least(Remaining("weekly", w, u, h), Remaining("monthly", w, u, h)))

\* Faulty variant: what was bought, not what is left.
CreditAvailable_Bought(bal, rem) == Total(amount, NGrant)

CreditAvailable(bal, rem) == Least(bal, Total(rem, NGrant))

\* A counter table with n more (or, floored at zero, n fewer) tokens in window w.
Raise(table, w, n) ==
  [p \in PeriodType |-> [table[p] EXCEPT ![w[p]] = @ + n]]
Lower(table, w, n) ==
  [p \in PeriodType |-> [table[p] EXCEPT ![w[p]] = Monus(@, n)]]

\* Faulty variants: youngest grant first; need not decremented along the walk;
\* the whole hold given back.
TakeFifo_Youngest(rem, need) == GiveFromTail(rem, NGrant, need)
TakeFifo_Repeated(rem, need) == [g \in GrantIds |-> Least(rem[g], need)]
RestoreTail_All(alloc, unused) == alloc

TakeFifo(rem, need) == TakeFromFront(rem, NGrant, need)
RestoreTail(alloc, unused) == GiveFromTail(alloc, NGrant, unused)

Plus(a, b)  == [g \in GrantIds |-> a[g] + b[g]]
Minus(a, b) == [g \in GrantIds |-> a[g] - b[g]]

\* Faulty variant: the part the plan paid is not deducted.
CreditUsed_Gross(row, act) == Least(act, row.credit)

\* The tokens of a request billed on the hold made for it.
IncludedUsed(row, act) == Least(act, row.included)
CreditUsed(row, act)   == Least(Monus(act, IncludedUsed(row, act)), row.credit)
UnusedCredit(row, act) == row.credit - CreditUsed(row, act)

\* The windows a row's counter ids point at.
HoldWindow(row) == row.window

\* Faulty variant: only the absence of a row is refused.
Open_AnyStatus(r) == res[r].status # "none"

Open(r) == res[r].status = "reserved"
-----------------------------------------------------------------------------
(***************************************************************************)
(* reserve_ai_usage.  A request id that has a row, in whatever status,     *)
(* gets it back unchanged, so only a fresh id makes a step.  If the credit *)
(* does not cover what the limits leave out, the call raises and changes   *)
(* nothing.                                                                *)
(***************************************************************************)
Covered(r, tokens, included) ==
  /\ res[r].status = "none"
  /\ tokens - included <= CreditAvailable(balance, remaining)

HeldRow(tokens, included, taken) ==
  [NoRow EXCEPT !.status = "reserved", !.window = CurrentWindow,
                !.estimated = tokens, !.included = included,
                !.credit = tokens - included, !.alloc = taken,
                !.cr = tokens - included]

Reserve(r, est) ==
  LET included == Least(est, IncludedAvailable(CurrentWindow, used, reserved))
      need     == est - included
      taken    == TakeFifo(remaining, need)
  IN  /\ Covered(r, est, included)
      /\ reserved' = Raise(reserved, CurrentWindow, included)
      /\ remaining' = Minus(remaining, taken)
      /\ balance' = balance - need
      /\ res' = [res EXCEPT ![r] = HeldRow(est, included, taken)]
      /\ UNCHANGED <<now, limits, used, amount>>

(***************************************************************************)
(* settle_ai_usage.  The hold pays first and what it does not use goes     *)
(* back to the youngest grants it came from.  Tokens above the estimate    *)
(* are taken from what the limits now leave in the windows of the hold,    *)
(* then from credit, and what neither covers is recorded as undercharged.  *)
(***************************************************************************)
Settle(r, act) ==
  LET row     == res[r]
      w       == HoldWindow(row)
      back    == RestoreTail(row.alloc, UnusedCredit(row, act))
      holds   == Lower(reserved, w, row.included)
      charged == Raise(used, w, IncludedUsed(row, act))
      bal     == balance + UnusedCredit(row, act)
      rem     == Plus(remaining, back)
      extra   == Monus(act, row.estimated)
      extraIncluded == Least(extra, IncludedAvailable(w, charged, holds))
      extraCredit   == Least(extra - extraIncluded, CreditAvailable(bal, rem))
      taken   == TakeFifo(rem, extraCredit)
  IN  /\ Open(r)
      /\ reserved' = holds
      /\ used' = Raise(charged, w, extraIncluded)
      /\ balance' = bal - extraCredit
      /\ remaining' = Minus(rem, taken)
      /\ res' = [res EXCEPT ![r] =
           [row EXCEPT !.status = "settled", !.actual = act,
              !.included_settled = IncludedUsed(row, act) + extraIncluded,
              !.credit_settled = CreditUsed(row, act) + extraCredit,
              !.undercharged = extra - extraIncluded - extraCredit,
              !.alloc = Plus(Minus(row.alloc, back), taken),
              !.cl = UnusedCredit(row, act), !.cx = extraCredit]]
      /\ UNCHANGED <<now, limits, amount>>

ReleasedRow(row, back) ==
  [row EXCEPT !.status = "released", !.cl = row.credit,
              !.alloc = Minus(row.alloc, back)]

(***************************************************************************)
(* release_ai_usage: the hold is undone.  A row that is not reserved is    *)
(* left alone.                                                             *)
(***************************************************************************)
Release(r) ==
  LET row  == res[r]
      back == RestoreTail(row.alloc, row.credit)
  IN  /\ Open(r)
      /\ reserved' = Lower(reserved, HoldWindow(row), row.included)
      /\ remaining' = Plus(remaining, back)
      /\ balance' = balance + row.credit
      /\ res' = [res EXCEPT ![r] = ReleasedRow(row, back)]
      /\ UNCHANGED <<now, limits, used, amount>>

(***************************************************************************)
(* charge_immediate: reserve and settle of the same count in the caller's  *)
(* one transaction.  On a fresh id the hold is exactly what is settled; on *)
(* an id somebody else reserved, the reserve is a replay and the settle    *)
(* closes that reservation, which is Settle(r, tokens).                    *)
(***************************************************************************)
ChargeImmediate(r, tokens) ==
  LET included == Least(tokens, IncludedAvailable(CurrentWindow, used, reserved))
      need     == tokens - included
      taken    == TakeFifo(remaining, need)
  IN  /\ tokens > 0
      /\ Covered(r, tokens, included)
      /\ used' = Raise(used, CurrentWindow, included)
      /\ remaining' = Minus(remaining, taken)
      /\ balance' = balance - need
      /\ res' = [res EXCEPT ![r] =
           [HeldRow(tokens, included, taken) EXCEPT
              !.status = "settled", !.actual = tokens,
              !.included_settled = included, !.credit_settled = need]]
      /\ UNCHANGED <<now, limits, reserved, amount>>

Appendable(g) == amount[g] = 0

(***************************************************************************)
(* CreditService.append of a GRANT.  The row's place in the FIFO order is  *)
(* its created_at, the start of the granting transaction, so a grant may   *)
(* commit after a younger one: any unused place may be filled next.        *)
(***************************************************************************)
Grant(g, n) ==
  /\ Appendable(g)
  /\ amount' = [amount EXCEPT ![g] = n]
  /\ remaining' = [remaining EXCEPT ![g] = n]
  /\ balance' = balance + n
  /\ UNCHANGED <<now, limits, used, reserved, res>>

\* A plan is assigned or an entitlement edited.
ChangeLimits(l) ==
  /\ limits' = l
  /\ UNCHANGED <<now, used, reserved, balance, amount, remaining, res>>

Tick ==
  /\ now < MaxTime
  /\ now' = now + 1
  /\ UNCHANGED <<limits, used, reserved, balance, amount, remaining, res>>

Next ==
  \/ \E r \in Request, est \in Estimates : Reserve(r, est)
  \/ \E r \in Request, act \in Actuals : Settle(r, act)
  \/ \E r \in Request : Release(r)
  \/ \E r \in Request, n \in Estimates : ChargeImmediate(r, n)
  \/ \E g \in GrantIds, n \in GrantAmounts : Grant(g, n)
  \/ \E l \in Limits : ChangeLimits(l)
  \/ Tick

Spec == Init /\ [][Next]_vars
-----------------------------------------------------------------------------
(* Properties. *)

\* Every counter, balance and allocation is a natural number: no order of
\* operations drives one below zero.
TypeOK ==
  /\ now \in Time
  /\ limits \in PerPeriod
  /\ used \in Counters
  /\ reserved \in Counters
  /\ balance \in Nat
  /\ amount \in [GrantIds -> Nat]
  /\ remaining \in [GrantIds -> Nat]
  /\ res \in [Request -> Row]

\* The account's balance and the grants' remaining amounts, two tables written
\* by different code, always say the same.
BalanceIsRemaining == balance = Total(remaining, NGrant)

\* The credit a row has on hold or has settled, and what its allocations say.
CreditOf(row) ==
  CASE row.status = "reserved" -> row.credit
    [] row.status = "settled"  -> row.credit_settled
    [] OTHER                   -> 0

\* A row's allocations name, grant by grant, exactly the credit it holds or has
\* been charged: a refund or an extra charge never leaves them out of step.
AllocationsAddUp ==
  \A r \in Request : Total(res[r].alloc, NGrant) = CreditOf(res[r])

\* No purchased token is lost or spent twice: each grant's amount is what
\* remains of it plus what the reservations have of it.
GrantConservation ==
  \A g \in GrantIds :
    amount[g] = remaining[g] + Total([r \in Request |-> res[r].alloc[g]], NRequest)

\* The three ledger rows of a request, which are what a statement of account
\* shows, add up to the credit the request holds or was charged.
LedgerReconciles ==
  \A r \in Request : res[r].cr + res[r].cx = CreditOf(res[r]) + res[r].cl

\* What the rows of a request say of its credit: reservation, allocations and
\* ledger, written by three functions, never disagree.
LedgerAgrees == AllocationsAddUp /\ LedgerReconciles

\* What a row contributes to the counters of period p's window t.
HeldIn(row, p, t) ==
  IF row.status = "reserved" /\ row.window[p] = t THEN row.included ELSE 0
ChargedIn(row, p, t) == IF row.window[p] = t THEN row.included_settled ELSE 0

\* A window's reserved counter is the sum of the open holds made in it, and its
\* used counter the sum of what the settled ones were charged, also when a hold
\* is closed in a later window than it was made in.
CountersAddUp ==
  \A p \in PeriodType, t \in Time :
    /\ reserved[p][t] = Total([r \in Request |-> HeldIn(res[r], p, t)], NRequest)
    /\ used[p][t] = Total([r \in Request |-> ChargedIn(res[r], p, t)], NRequest)

\* Whatever requests, top-ups and changes of the limits come in between, the
\* wallet, the grants behind it and the counters of every window are what the
\* reservations say (credits.py, ai_usage.py).
WalletAgrees == BalanceIsRemaining /\ GrantConservation /\ CountersAddUp

\* Every token of a settled request is billed once: to the plan, to credit, or
\* as undercharged.
ChargedExactly ==
  \A r \in Request :
    res[r].status = "settled" =>
      res[r].actual = res[r].included_settled + res[r].credit_settled
                        + res[r].undercharged

\* No step takes a window over the limit in force, even though a settlement may
\* charge more than was reserved.  (A window may be over after a downgrade.)
NeverOverLimit ==
  [][\A p \in PeriodType, t \in Time :
       used'[p][t] + reserved'[p][t] > used[p][t] + reserved[p][t]
         => used'[p][t] + reserved'[p][t] <= limits[p]]_vars

\* Grants are spent oldest first: a step that takes from a grant leaves nothing
\* in an older one.
OldestGrantFirst ==
  [][\A g \in GrantIds :
       remaining'[g] < remaining[g] => \A h \in 1..(g - 1) : remaining'[h] = 0]_vars

Full(p, t) == used'[p][t] + reserved'[p][t] >= limits[p]

\* Purchased credit is the last resort: a step that leaves a request with more
\* credit than before has filled one of the request's windows, and a step that
\* leaves tokens undercharged has also used up the balance.
CreditIsLastResort ==
  [][\A r \in Request :
       LET w == res'[r].window
       IN  /\ CreditOf(res'[r]) > CreditOf(res[r])
                => \E p \in PeriodType : Full(p, w[p])
           /\ res'[r].undercharged > res[r].undercharged
                => balance' = 0 /\ \E p \in PeriodType : Full(p, w[p])]_vars

\* The credit side of the meter implements CreditPurse: with the open holds
\* summed as held and the settled credit as spent, every operation buys, holds
\* or closes.
HeldBy(row) == IF row.status = "reserved" THEN row.credit ELSE 0

HeldCredit  == Total([r \in Request |-> HeldBy(res[r])], NRequest)
SpentCredit == Total([r \in Request |-> res[r].credit_settled], NRequest)

Purse == INSTANCE CreditPurse
           WITH free <- balance, held <- HeldCredit, spent <- SpentCredit

ImplementsPurse == Purse!Spec
=============================================================================
