----------------------------- MODULE Checkout -----------------------------
(***************************************************************************)
(* Purchases of one workspace: BillingService starts a checkout at the     *)
(* payment gateway, and completes it when the browser returns or when a    *)
(* platform admin reconciles it; PurchaseFulfillmentService hands over     *)
(* what was bought: a workspace plan, credits, the license of an app or    *)
(* months of an app's subscription.                                        *)
(*                                                                         *)
(* A completion reads the purchase twice in one session.  The second read  *)
(* waits for the lock of the row, but it returns the object of the first   *)
(* one, with the status that was read then.  The gateway is asked after    *)
(* that, under the lock.  Returns may be repeated, overlap, or die.        *)
(***************************************************************************)
EXTENDS Naturals, Sequences, FiniteSets

CONSTANTS
  Plan,          \* plans of the subscription app
  NoPlan,        \* no such plan
  Kinds,         \* kinds of purchases made, a subset of AllKinds
  MaxPurchases,  \* bound: checkouts ever started
  MaxRequests,   \* bound: completions under way at the same time
  MaxTime,       \* bound: months that pass
  MaxActs        \* bound: what platform admins give and take back

AllKinds == {"plan", "pack", "license", "subscribe", "renew"}

ASSUME KindAssumption == Kinds \subseteq AllKinds
ASSUME PlanAssumption == NoPlan \notin Plan
ASSUME SizeAssumption == MaxPurchases \in Nat /\ MaxRequests \in Nat
                         /\ MaxTime \in Nat /\ MaxActs \in Nat

VARIABLES
  purchases,  \* the purchase rows, in the order of their checkouts
  charge,     \* what the gateway knows of the transaction of each of them
  requests,   \* completions between their first read and their commit
  plan,       \* purchase of the workspace's active plan, 0 before there is one
  ledger,     \* request ids (purchases) that have a credit grant
  balance,    \* credits, counted in packs
  license,    \* the license of the one-time app
  sub,        \* the subscription of the other app, the month it ends, its latest
              \* purchase; history: months of it that an admin dropped, and months
              \* that no purchase added, since an admin gave them or since they
              \* passed before it was taken up again
  now,        \* months passed
  acts,       \* acts of admins so far
  given,      \* history: how often each purchase took effect
  again       \* history: completions of a purchase that was completed since they
              \* read it

vars == <<purchases, charge, requests, plan, ledger, balance, license, sub, now, acts, given, again>>
goods == <<plan, ledger, balance, license, sub, given, again>>

Ids == 1 .. MaxPurchases

\* PurchaseStatus; "pending" is never committed, and "failed" stands for
\* cancelled and expired as well.
Statuses == {"redirected", "paid", "failed"}

\* The gateway: the customer may try again after a refusal, and may pay an
\* amount or currency that is not the one of the purchase.
Unsettled == {"open", "declined"}
Settled == {"paid", "paid_other"}

Reconcilable == {"redirected"}
OpenFor(kind) ==
  \E p \in DOMAIN purchases : purchases[p].kind = kind /\ purchases[p].status = "redirected"

\* A subscription with months left, and one that admits to the app.
Valid(s) == s.end > now
Entitled(s) == s.status = "active" /\ Valid(s)

Init ==
  /\ purchases = <<>> /\ charge = <<>> /\ given = <<>>
  /\ requests = {}
  /\ plan = 0
  /\ ledger = {} /\ balance = 0
  /\ license = [status |-> "none", purchase |-> 0]
  /\ sub = [status |-> "none", plan |-> NoPlan, end |-> 0, latest |-> 0,
            dropped |-> 0, free |-> 0]
  /\ now = 0 /\ acts = 0 /\ again = 0

-----------------------------------------------------------------------------
\* What a checkout demands.  Renewals may be open side by side.
MayBuy(kind, item) ==
  CASE kind \in {"plan", "pack"} -> item = NoPlan
    [] kind = "license"   -> item = NoPlan /\ license.status # "active" /\ ~OpenFor(kind)
    [] kind = "subscribe" -> item \in Plan /\ ~Entitled(sub) /\ ~OpenFor(kind)
    [] kind = "renew"     -> item = sub.plan /\ sub.plan \in Plan

\* The row and the gateway's transaction are there when the checkout commits.
StartCheckout(kind, item) ==
  /\ Len(purchases) < MaxPurchases
  /\ MayBuy(kind, item)
  /\ purchases' = Append(purchases, [kind |-> kind, item |-> item, status |-> "redirected"])
  /\ charge' = Append(charge, "open")
  /\ given' = Append(given, 0)
  /\ UNCHANGED <<requests, plan, ledger, balance, license, sub, now, acts, again>>

\* The customer at the gateway's page; what is settled there stays so.
Gateway(p, answer) ==
  /\ charge[p] \in Unsettled /\ answer # charge[p]
  /\ charge' = [charge EXCEPT ![p] = answer]
  /\ UNCHANGED <<purchases, requests, now, acts, goods>>

\* The first read of a completion.  An admin's is only for open purchases.
Peek(p, by) ==
  /\ Cardinality(requests) < MaxRequests
  /\ requests' = requests \union
       {[purchase |-> p, by |-> by, seen |-> purchases[p].status]}
  /\ UNCHANGED <<purchases, charge, now, acts, goods>>

Drop(r) ==
  /\ requests' = requests \ {r}
  /\ UNCHANGED <<purchases, charge, now, acts, goods>>

\* The request dies, or the gateway does not answer: nothing is committed.
Die(r) == Drop(r)

-----------------------------------------------------------------------------
\* Hand-over.  The operators with an underscore are variants of the one after
\* them, with a defect a change could introduce.

\* CreditService.append: the request id is the purchase, a second one is ignored.
GrantCredits(p) ==
  IF p \in ledger THEN UNCHANGED <<ledger, balance>>
  ELSE ledger' = ledger \union {p} /\ balance' = balance + 1

\* An active license stays with its purchase; a revoked one is taken up again,
\* by another purchase than the one it was for.
Licensed(p) == license.status = "active" \/ license.purchase = p
GrantLicense(p) ==
  license' = IF Licensed(p) THEN license ELSE [status |-> "active", purchase |-> p]

Max(a, b) == IF a > b THEN a ELSE b
Lapsed(s) == Max(s.end, now) - s.end

\* A month more: after the paid ones as long as some are left, or from now.
Stacked(s, p) ==
  [s EXCEPT !.status = "active", !.end = Max(@, now) + 1, !.latest = p,
            !.free = @ + Lapsed(s)]
Extended_Switched(s, p) ==
  [Stacked(s, p) EXCEPT !.plan = IF purchases[p].kind = "subscribe" THEN purchases[p].item ELSE @]
Extended(s, p) ==
  [Stacked(s, p) EXCEPT
     !.plan = IF purchases[p].kind = "subscribe" /\ ~Valid(s) THEN purchases[p].item ELSE @]

\* A renewal of a plan that is no longer the subscription's raises an error.
Refused(p) == purchases[p].kind = "renew" /\ purchases[p].item # sub.plan

\* What a second completion of a purchase does not hand over again.
AlreadyHas(p) ==
  CASE purchases[p].kind = "plan" -> FALSE
    [] purchases[p].kind = "pack" -> p \in ledger
    [] purchases[p].kind = "license" -> Licensed(p)
    [] OTHER -> sub.latest = p

Fulfil(p) ==
  /\ given' = IF AlreadyHas(p) THEN given ELSE [given EXCEPT ![p] = @ + 1]
  /\ CASE purchases[p].kind = "plan" ->
            plan' = p /\ UNCHANGED <<ledger, balance, license, sub>>
       [] purchases[p].kind = "pack" ->
            GrantCredits(p) /\ UNCHANGED <<plan, license, sub>>
       [] purchases[p].kind = "license" ->
            GrantLicense(p) /\ UNCHANGED <<plan, ledger, balance, sub>>
       [] purchases[p].kind \in {"subscribe", "renew"} ->
            /\ sub' = IF sub.latest = p THEN sub ELSE Extended(sub, p)
            /\ UNCHANGED <<plan, ledger, balance, license>>

\* _purchase_status_for_gateway and the checks of the amount.
StatusOf_Raw(answer) == IF answer = "open" THEN "redirected" ELSE answer
StatusOf(answer) ==
  CASE answer = "open" -> "redirected"
    [] answer \in {"declined", "paid_other"} -> "failed"
    [] OTHER -> answer

(***************************************************************************)
(* The rest of the completion is one transaction under the row's lock:     *)
(* the status that was seen decides, then the gateway's answer.  A status  *)
(* equal to the one that was seen is no change of the object, and is not   *)
(* written.                                                                *)
(***************************************************************************)
Nothing(r) ==
  /\ r.seen = "paid" \/ (r.by = "admin" /\ r.seen \notin Reconcilable)
  /\ Drop(r)

Verified_Again(r) == r.by = "admin" => r.seen \in Reconcilable
Verified(r) == r.seen # "paid" /\ (r.by = "admin" => r.seen \in Reconcilable)

Record(r) ==
  LET status == StatusOf(charge[r.purchase])
  IN  /\ Verified(r)
      /\ status # "paid"
      /\ purchases' = IF status = r.seen THEN purchases
                      ELSE [purchases EXCEPT ![r.purchase].status = status]
      /\ requests' = requests \ {r}
      /\ UNCHANGED <<charge, now, acts, goods>>

Overtaken(r) == purchases[r.purchase].status = "paid" /\ r.seen # "paid"

Complete(r) ==
  /\ Verified(r)
  /\ StatusOf(charge[r.purchase]) = "paid" /\ ~Refused(r.purchase)
  /\ Fulfil(r.purchase)
  /\ again' = IF Overtaken(r) THEN again + 1 ELSE again
  /\ purchases' = [purchases EXCEPT ![r.purchase].status = "paid"]
  /\ requests' = requests \ {r}
  /\ UNCHANGED <<charge, now, acts>>

Refuse(r) ==
  /\ Verified(r)
  /\ StatusOf(charge[r.purchase]) = "paid" /\ Refused(r.purchase)
  /\ Drop(r)

\* What a platform admin gives and takes back.
Act == acts < MaxActs /\ acts' = acts + 1

AdminLicense ==
  /\ Act
  /\ license.status # "active"
  /\ license' = [status |-> "active", purchase |-> 0]
  /\ UNCHANGED <<purchases, charge, requests, plan, ledger, balance, sub, now, given, again>>

RevokeLicense ==
  /\ Act
  /\ license.status = "active"
  /\ license' = [license EXCEPT !.status = "revoked"]
  /\ UNCHANGED <<purchases, charge, requests, plan, ledger, balance, sub, now, given, again>>

\* A first or a new month; what was left of a revoked subscription is dropped.
GrantSubscription(item) ==
  /\ Act
  /\ ~Entitled(sub)
  /\ sub' = [sub EXCEPT !.status = "active", !.plan = item, !.end = now + 1,
                        !.dropped = @ + (IF sub.end > now THEN sub.end - now ELSE 0),
                        !.free = @ + Lapsed(sub) + 1]
  /\ UNCHANGED <<purchases, charge, requests, plan, ledger, balance, license, now, given, again>>

ExtendSubscription ==
  /\ Act
  /\ sub.status # "none"
  /\ sub' = [sub EXCEPT !.status = "active", !.end = Max(@, now) + 1,
                        !.free = @ + Lapsed(sub) + 1]
  /\ UNCHANGED <<purchases, charge, requests, plan, ledger, balance, license, now, given, again>>

RevokeSubscription ==
  /\ Act
  /\ sub.status = "active"
  /\ sub' = [sub EXCEPT !.status = "cancelled"]
  /\ UNCHANGED <<purchases, charge, requests, plan, ledger, balance, license, now, given, again>>

Tick ==
  /\ now < MaxTime
  /\ now' = now + 1
  /\ UNCHANGED <<purchases, charge, requests, acts, goods>>

Next ==
  \/ \E kind \in Kinds, item \in Plan \union {NoPlan} : StartCheckout(kind, item)
  \/ \E p \in DOMAIN purchases, answer \in Unsettled \union Settled : Gateway(p, answer)
  \/ \E p \in DOMAIN purchases, by \in {"return", "admin"} : Peek(p, by)
  \/ \E r \in requests :
       Die(r) \/ Nothing(r) \/ Record(r) \/ Complete(r) \/ Refuse(r)
  \/ AdminLicense \/ RevokeLicense
  \/ \E item \in Plan : GrantSubscription(item)
  \/ ExtendSubscription \/ RevokeSubscription
  \/ Tick

Spec == Init /\ [][Next]_vars

-----------------------------------------------------------------------------
TypeOK ==
  /\ purchases \in Seq([kind : Kinds, item : Plan \union {NoPlan}, status : Statuses])
  /\ Len(purchases) <= MaxPurchases
  /\ charge \in [DOMAIN purchases -> Unsettled \union Settled]
  /\ given \in [DOMAIN purchases -> Nat]
  /\ requests \subseteq [purchase : DOMAIN purchases, by : {"return", "admin"},
                         seen : Statuses]
  /\ plan \in {0} \union DOMAIN purchases
  /\ ledger \subseteq DOMAIN purchases /\ balance \in Nat
  /\ license \in [status : {"none", "active", "revoked"}, purchase : {0} \union DOMAIN purchases]
  /\ sub \in [status : {"none", "active", "cancelled"}, plan : Plan \union {NoPlan},
             end : Nat, latest : {0} \union DOMAIN purchases, dropped : Nat, free : Nat]
  /\ again \in Nat
  /\ now \in 0 .. MaxTime /\ acts \in 0 .. MaxActs

Paid == {p \in DOMAIN purchases : purchases[p].status = "paid"}
PaidFor(kinds) == {p \in Paid : purchases[p].kind \in kinds}

\* What the subscription should have had: a month for every paid purchase of the
\* app, and those that no purchase added.
Owed == Cardinality(PaidFor({"subscribe", "renew"})) + sub.free

\* Whatever returns are repeated, overlap or die, the workspace holds what was
\* paid for, at the gateway and in full.  A purchase takes effect once; only a
\* completion that read it before another one completed it makes it take effect
\* again, once.  In particular a paid plan was assigned; a paid pack is credited
\* exactly once, by its request id; the app of a paid license was licensed; and
\* the months of the subscription are those that are owed, no fewer, and no more
\* but one for each such completion (fulfillment.py; commerce.py:
\* fulfill_one_time_purchase, _apply_subscription_period).
GoodsArePaid ==
  /\ \A p \in DOMAIN purchases : given[p] <= IF p \in Paid THEN 1 + again ELSE 0
  /\ \A p \in Paid : charge[p] = "paid" /\ (purchases[p].kind # "license" => given[p] > 0)
  /\ ledger = PaidFor({"pack"}) /\ balance = Cardinality(ledger)
  /\ plan \in {0} \union PaidFor({"plan"})
  /\ license.purchase \in {0} \union PaidFor({"license"})
  /\ license.status = "none" => PaidFor({"license"}) = {}
  /\ sub.latest \in {0} \union PaidFor({"subscribe", "renew"})
  /\ sub.end + sub.dropped \in Owed .. Owed + again

\* No completion takes paid months away, or changes the plan of a subscription
\* that still has some; only an admin does, after revoking it.
MonthsKept ==
  [][sub'.end < sub.end \/ (Valid(sub) /\ sub'.plan # sub.plan)
       => sub.status = "cancelled" /\ purchases' = purchases /\ requests' = requests]_vars

\* A purchase takes effect at most once ("then fulfill at most once",
\* checkout.py:218), however often the browser returns.
FulfilledOnce == \A p \in DOMAIN purchases : given[p] <= 1
=============================================================================
