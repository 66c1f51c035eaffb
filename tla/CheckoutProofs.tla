--------------------------- MODULE CheckoutProofs ---------------------------
(***************************************************************************)
(* Proofs about Checkout for any number of purchases, overlapping returns, *)
(* months and admin acts: the workspace holds what it paid for, once if no *)
(* completion overtook another one of the same purchase, and no completion *)
(* takes a paid month away.                                                *)
(*                                                                         *)
(* The argument: a stale read may complete a purchase twice, but never     *)
(* with another answer of the gateway, where "paid" is final; so the set   *)
(* of paid purchases only grows, and what a second completion hands over   *)
(* is absorbed by the request id of a credit, by the license, or by the    *)
(* latest purchase of a subscription, or is counted as a repetition.       *)
(***************************************************************************)
EXTENDS Checkout, FiniteSetTheorems, SequenceTheorems, TLAPS

Purchase == [kind : Kinds, item : Plan \union {NoPlan}, status : Statuses]
License == [status : {"none", "active", "revoked"}, purchase : {0} \union DOMAIN purchases]
Subscription ==
  [status : {"none", "active", "cancelled"}, plan : Plan \union {NoPlan},
   end : Nat, latest : {0} \union DOMAIN purchases, dropped : Nat, free : Nat]
Months == {"subscribe", "renew"}

\* A subscription that nobody ever had has no months.
NeverHad == sub.status = "none" => sub.end = 0

Inv == TypeOK /\ GoodsArePaid /\ NeverHad

USE KindAssumption, PlanAssumption, SizeAssumption

-----------------------------------------------------------------------------
LEMMA Appended ==
  ASSUME NEW S, NEW s \in Seq(S), NEW e \in S, NEW n \in Nat, Len(s) = n
  PROVE  /\ Append(s, e) \in [1 .. n + 1 -> S]
         /\ \A i \in 1 .. n : Append(s, e)[i] = s[i]
         /\ Append(s, e)[n + 1] = e
<1> DEFINE t == Append(s, e)
<1>1. t \in Seq(S) /\ Len(t) = n + 1 /\ (\A i \in 1 .. n : t[i] = s[i]) /\ t[n + 1] = e
  BY AppendProperties
<1> HIDE DEF t
<1>2. t \in [1 .. Len(t) -> S]
  BY <1>1, LenProperties
<1>3. t \in [1 .. n + 1 -> S]
  BY <1>1, <1>2
<1> QED BY <1>1, <1>3 DEF t

LEMMA InitInv ==
  ASSUME Init
  PROVE  Inv
<1>1. DOMAIN purchases = {} /\ Len(purchases) = 0 /\ purchases \in Seq(Purchase)
  BY EmptySeq DEF Init
<1>2. charge \in [DOMAIN purchases -> Unsettled \union Settled]
      /\ given \in [DOMAIN purchases -> Nat]
  BY <1>1 DEF Init
<1>3. TypeOK
  BY <1>1, <1>2 DEF Init, TypeOK, Purchase
<1>4. Paid = {} /\ \A K : PaidFor(K) = {}
  BY <1>1 DEF Paid, PaidFor
<1>5. GoodsArePaid
  <2>1. \A K : Cardinality(PaidFor(K)) = 0
    BY <1>4, FS_EmptySet
  <2>2. /\ ledger = PaidFor({"pack"}) /\ balance = Cardinality(ledger)
        /\ sub.end + sub.dropped = 0 /\ sub.free = 0 /\ again = 0
    BY <1>4, FS_EmptySet DEF Init
  <2>3. sub.end + sub.dropped \in Owed .. Owed + again
    BY <2>1, <2>2 DEF Owed
  <2>4. plan = 0 /\ license.purchase = 0 /\ sub.latest = 0
    BY DEF Init
  <2> QED BY <1>1, <1>4, <2>2, <2>3, <2>4 DEF GoodsArePaid
<1> QED BY <1>3, <1>5 DEF Init, Inv, NeverHad

\* Purchases, and sets of them, are numbered.
LEMMA Numbered ==
  ASSUME TypeOK
  PROVE  /\ purchases \in Seq(Purchase) /\ Len(purchases) \in Nat
         /\ DOMAIN purchases = 1 .. Len(purchases)
         /\ \A p \in DOMAIN purchases : purchases[p] \in Purchase
         /\ IsFiniteSet(DOMAIN purchases)
         /\ \A S \in SUBSET DOMAIN purchases : IsFiniteSet(S) /\ Cardinality(S) \in Nat
<1>1. purchases \in Seq(Purchase)
  BY DEF TypeOK, Purchase
<1>2. /\ Len(purchases) \in Nat /\ DOMAIN purchases = 1 .. Len(purchases)
      /\ \A p \in DOMAIN purchases : purchases[p] \in Purchase
  BY <1>1, LenProperties, ElementOfSeq
<1>3. IsFiniteSet(DOMAIN purchases)
  BY <1>2, FS_Interval
<1>4. ASSUME NEW S \in SUBSET DOMAIN purchases
      PROVE  IsFiniteSet(S) /\ Cardinality(S) \in Nat
  BY <1>3, FS_Subset, FS_CardinalityType
<1> QED BY <1>1, <1>2, <1>3, <1>4

\* A step that completes nothing keeps the goods in order, if it does not
\* touch the charges of what is paid, and takes no month without noting it.
LEMMA SamePaid ==
  ASSUME GoodsArePaid,
         DOMAIN purchases \subseteq DOMAIN purchases',
         \A p \in DOMAIN purchases :
           /\ purchases'[p].kind = purchases[p].kind
           /\ purchases'[p].status = "paid" <=> purchases[p].status = "paid"
           /\ given'[p] = given[p]
           /\ p \in Paid => charge'[p] = charge[p],
         \A p \in DOMAIN purchases' \ DOMAIN purchases :
           purchases'[p].status # "paid" /\ given'[p] <= 0,
         UNCHANGED <<plan, ledger, balance, again>>,
         license'.purchase \in {license.purchase, 0}, sub'.latest = sub.latest,
         license'.status = "none" => license.status = "none",
         sub.end + sub.dropped \in Owed .. Owed + again =>
           LET owed == Cardinality(PaidFor(Months)) + sub'.free
           IN  sub'.end + sub'.dropped \in owed .. owed + again
  PROVE  GoodsArePaid'
<1>1. Paid' = Paid
  BY DEF Paid
<1>2. PaidFor({"pack"})' = PaidFor({"pack"}) /\ PaidFor({"plan"})' = PaidFor({"plan"})
      /\ PaidFor({"license"})' = PaidFor({"license"}) /\ PaidFor(Months)' = PaidFor(Months)
  BY <1>1 DEF PaidFor, Paid
<1>3. /\ \A p \in DOMAIN purchases' : given'[p] <= IF p \in Paid' THEN 1 + again' ELSE 0
      /\ \A p \in Paid' : charge'[p] = "paid"
           /\ (purchases'[p].kind # "license" => given'[p] > 0)
  BY <1>1 DEF GoodsArePaid, Paid
<1>4. sub'.end + sub'.dropped \in Owed' .. Owed' + again'
  <2>1. Owed' = Cardinality(PaidFor(Months)) + sub'.free
    BY <1>2 DEF Owed, Months
  <2> QED BY <2>1 DEF GoodsArePaid
<1>5. /\ ledger' = PaidFor({"pack"})' /\ balance' = Cardinality(ledger')
      /\ plan' \in {0} \union PaidFor({"plan"})'
      /\ license'.purchase \in {0} \union PaidFor({"license"})'
      /\ license'.status = "none" => PaidFor({"license"})' = {}
      /\ sub'.latest \in {0} \union PaidFor(Months)'
  BY <1>2 DEF GoodsArePaid, Months
<1> QED BY <1>3, <1>4, <1>5 DEF GoodsArePaid, Months

\* The same for the steps that leave everything else alone.
LEMMA Elsewhere ==
  ASSUME Inv, UNCHANGED <<purchases, goods>>, \A p \in Paid : charge'[p] = charge[p]
  PROVE  GoodsArePaid' /\ NeverHad'
<1>1. NeverHad'
  BY DEF Inv, NeverHad, goods
<1>2. UNCHANGED <<purchases, plan, ledger, balance, license, sub, given, again>>
  BY DEF goods
<1>3. sub.end + sub.dropped \in Owed .. Owed + again =>
        LET owed == Cardinality(PaidFor(Months)) + sub'.free
        IN  sub'.end + sub'.dropped \in owed .. owed + again
  BY <1>2 DEF Owed, Months
<1> QED BY <1>1, <1>2, <1>3, SamePaid DEF Inv

-----------------------------------------------------------------------------
\* A checkout adds a purchase that is not paid.
LEMMA StartInv ==
  ASSUME Inv, NEW kind \in Kinds, NEW item \in Plan \union {NoPlan},
         StartCheckout(kind, item)
  PROVE  Inv'
<1> DEFINE new == [kind |-> kind, item |-> item, status |-> "redirected"]
           n == Len(purchases)
<1>0. /\ TypeOK /\ purchases \in Seq(Purchase) /\ n \in Nat
      /\ DOMAIN purchases = 1 .. n /\ DOMAIN charge = 1 .. n /\ DOMAIN given = 1 .. n
      /\ charge \in Seq(Unsettled \union Settled) /\ given \in Seq(Nat)
      /\ Len(charge) = n /\ Len(given) = n /\ n + 1 <= MaxPurchases
  <2>1. TypeOK /\ purchases \in Seq(Purchase) /\ n \in Nat /\ DOMAIN purchases = 1 .. n
    BY Numbered DEF Inv
  <2>2. charge \in [1 .. n -> Unsettled \union Settled] /\ given \in [1 .. n -> Nat]
    BY <2>1 DEF TypeOK
  <2>3. charge \in Seq(Unsettled \union Settled) /\ given \in Seq(Nat)
    BY <2>1, <2>2, SeqDef
  <2>4. Len(charge) = n /\ Len(given) = n
    BY <2>1, <2>2, <2>3, LenProperties
  <2> QED BY <2>1, <2>2, <2>3, <2>4 DEF StartCheckout
<1>1. new \in Purchase /\ new.status = "redirected"
  BY DEF Purchase, Statuses
<1> HIDE DEF new
<1>2. /\ purchases' \in Seq(Purchase) /\ Len(purchases') = n + 1
      /\ DOMAIN purchases' = 1 .. n + 1
      /\ \A p \in 1 .. n : purchases'[p] = purchases[p]
      /\ purchases'[n + 1] = new
  <2>1. purchases' = Append(purchases, new)
    BY DEF StartCheckout, new
  <2> QED BY <1>0, <1>1, <2>1, AppendProperties, LenProperties
<1>3. /\ charge' \in [1 .. n + 1 -> Unsettled \union Settled]
      /\ \A p \in 1 .. n : charge'[p] = charge[p]
  <2>1. charge' = Append(charge, "open") /\ "open" \in Unsettled \union Settled
    BY DEF StartCheckout, Unsettled
  <2> QED BY <1>0, <2>1, Appended
<1>4. /\ given' \in [1 .. n + 1 -> Nat]
      /\ \A p \in 1 .. n : given'[p] = given[p]
      /\ given'[n + 1] = 0
  <2> DEFINE zero == 0
             N == Nat
  <2>1. given' = Append(given, zero) /\ zero \in N /\ given \in Seq(N)
    BY <1>0 DEF StartCheckout
  <2> HIDE DEF zero, N
  <2>2. /\ given' \in [1 .. n + 1 -> N] /\ given'[n + 1] = zero
        /\ \A p \in 1 .. n : given'[p] = given[p]
    BY <1>0, <2>1, Appended
  <2> QED BY <2>2 DEF zero, N
<1>5. UNCHANGED <<requests, plan, ledger, balance, license, sub, now, acts, again>>
  BY DEF StartCheckout
<1>6. DOMAIN purchases \subseteq DOMAIN purchases'
  BY <1>0, <1>2
<1>7. TypeOK'
  BY <1>0, <1>2, <1>3, <1>4, <1>5, <1>6 DEF TypeOK, Purchase
<1>8. GoodsArePaid'
  <2>1. \A p \in DOMAIN purchases :
           /\ purchases'[p].kind = purchases[p].kind
           /\ purchases'[p].status = "paid" <=> purchases[p].status = "paid"
           /\ given'[p] = given[p]
           /\ p \in Paid => charge'[p] = charge[p]
    BY <1>0, <1>2, <1>3, <1>4
  <2>2. \A p \in DOMAIN purchases' \ DOMAIN purchases :
           purchases'[p].status # "paid" /\ given'[p] <= 0
    <3>1. DOMAIN purchases' \ DOMAIN purchases = {n + 1}
      BY <1>0, <1>2
    <3> QED BY <1>1, <1>2, <1>4, <3>1
  <2>3. sub.end + sub.dropped \in Owed .. Owed + again =>
          LET owed == Cardinality(PaidFor(Months)) + sub'.free
          IN  sub'.end + sub'.dropped \in owed .. owed + again
    BY <1>5 DEF Owed, Months
  <2> QED BY <1>5, <1>6, <2>1, <2>2, <2>3, SamePaid DEF Inv
<1> QED BY <1>5, <1>7, <1>8 DEF Inv, NeverHad

-----------------------------------------------------------------------------
\* The gateway only changes what is not settled, and so not paid.
LEMMA GatewayInv ==
  ASSUME Inv, NEW p \in DOMAIN purchases, NEW answer \in Unsettled \union Settled,
         Gateway(p, answer)
  PROVE  Inv'
<1>1. TypeOK'
  BY DEF Inv, TypeOK, Gateway, goods
<1>2. \A q \in Paid : charge'[q] = charge[q]
  BY DEF Inv, GoodsArePaid, Gateway, Unsettled, TypeOK
<1>3. UNCHANGED <<purchases, goods>>
  BY DEF Gateway
<1> QED BY <1>1, <1>2, <1>3, Elsewhere DEF Inv

\* Reads, deaths, refusals and months that pass change neither goods nor rows.
LEMMA IdleInv ==
  ASSUME Inv,
         \/ \E p \in DOMAIN purchases, by \in {"return", "admin"} : Peek(p, by)
         \/ \E r \in requests : Die(r) \/ Nothing(r) \/ Refuse(r)
         \/ Tick
         \/ UNCHANGED vars
  PROVE  Inv'
<1>1. UNCHANGED <<purchases, charge, goods>>
  BY DEF Peek, Die, Nothing, Refuse, Drop, Tick, vars, goods
<1>2. TypeOK'
  <2>1. requests' \subseteq [purchase : DOMAIN purchases, by : {"return", "admin"},
                             seen : Statuses]
    <3>1. ASSUME NEW p \in DOMAIN purchases, NEW by \in {"return", "admin"}, Peek(p, by)
          PROVE  requests' \subseteq [purchase : DOMAIN purchases, by : {"return", "admin"},
                                      seen : Statuses]
      <4>1. purchases[p].status \in Statuses
        BY Numbered DEF Inv, Purchase
      <4> QED BY <3>1, <4>1 DEF Peek, Inv, TypeOK
    <3> QED BY <3>1 DEF Inv, TypeOK, Die, Nothing, Refuse, Drop, Tick, vars
  <2>2. now' \in 0 .. MaxTime /\ acts' \in 0 .. MaxActs
    BY DEF Inv, TypeOK, Peek, Die, Nothing, Refuse, Drop, Tick, vars
  <2> QED BY <1>1, <2>1, <2>2 DEF Inv, TypeOK, goods
<1>3. GoodsArePaid' /\ NeverHad'
  BY <1>1, Elsewhere
<1> QED BY <1>2, <1>3 DEF Inv

\* What is recorded other than "paid" is not of a paid purchase: the gateway
\* does not change its mind.
LEMMA RecordInv ==
  ASSUME Inv, NEW r \in requests, Record(r)
  PROVE  Inv'
<1> DEFINE p == r.purchase
           status == StatusOf(charge[p])
<1>0. /\ p \in DOMAIN purchases /\ charge[p] \in Unsettled \union Settled
      /\ purchases \in Seq(Purchase) /\ DOMAIN purchases = 1 .. Len(purchases)
      /\ purchases[p] \in Purchase
  BY Numbered DEF Inv, TypeOK
<1>1. status \in Statuses /\ status # "paid" /\ charge[p] # "paid"
  BY <1>0 DEF Record, StatusOf, Statuses, Unsettled, Settled
<1>2. p \notin Paid
  BY <1>1 DEF Inv, GoodsArePaid
<1>3. UNCHANGED <<charge, now, acts, goods>> /\ requests' \subseteq requests
  BY DEF Record
<1> DEFINE row == [purchases[p] EXCEPT !.status = status]
<1>4. row \in Purchase /\ row.kind = purchases[p].kind /\ row.status = status
  BY <1>0, <1>1 DEF Purchase
<1>5. purchases' = purchases \/ purchases' = [purchases EXCEPT ![p] = row]
  BY DEF Record
<1> HIDE DEF row, status
<1>6. /\ purchases' \in Seq(Purchase) /\ Len(purchases') = Len(purchases)
      /\ DOMAIN purchases' = DOMAIN purchases
  BY <1>0, <1>4, <1>5, ExceptSeq
<1>7. TypeOK'
  BY <1>3, <1>6 DEF Inv, TypeOK, goods, Purchase
<1>8. \A q \in DOMAIN purchases : /\ purchases'[q].kind = purchases[q].kind
                                  /\ purchases'[q].status = "paid" <=> purchases[q].status = "paid"
  BY <1>0, <1>1, <1>2, <1>4, <1>5 DEF Paid
<1>9. GoodsArePaid'
  <2>1. sub.end + sub.dropped \in Owed .. Owed + again =>
          LET owed == Cardinality(PaidFor(Months)) + sub'.free
          IN  sub'.end + sub'.dropped \in owed .. owed + again
    BY <1>3 DEF Owed, Months, goods
  <2> QED BY <1>3, <1>6, <1>8, <2>1, SamePaid DEF Inv, goods
<1> QED BY <1>3, <1>7, <1>9 DEF Inv, NeverHad, goods

\* What admins give and take back is not bought; months that they give and drop
\* are noted.
LEMMA AdminInv ==
  ASSUME Inv,
         \/ AdminLicense \/ RevokeLicense
         \/ \E item \in Plan : GrantSubscription(item)
         \/ ExtendSubscription \/ RevokeSubscription
  PROVE  Inv'
<1>0. /\ TypeOK /\ sub \in Subscription /\ license \in License /\ now \in Nat
      /\ sub.end \in Nat /\ sub.dropped \in Nat /\ sub.free \in Nat
      /\ 0 \in {0} \union DOMAIN purchases /\ again \in Nat
      /\ Cardinality(PaidFor(Months)) \in Nat
  <2>1. PaidFor(Months) \in SUBSET DOMAIN purchases
    BY DEF PaidFor, Paid
  <2> QED BY <2>1, Numbered DEF Inv, TypeOK, Subscription, License
<1>1. acts' \in 0 .. MaxActs
      /\ UNCHANGED <<purchases, charge, requests, plan, ledger, balance, now, given,
                     again>>
  <2>1. Act /\ UNCHANGED <<purchases, charge, requests, plan, ledger, balance, now, given,
                           again>>
    BY DEF AdminLicense, RevokeLicense, GrantSubscription, ExtendSubscription,
           RevokeSubscription
  <2>2. acts \in 0 .. MaxActs
    BY <1>0 DEF TypeOK
  <2> QED BY <2>1, <2>2 DEF Act
<1>2. license' \in License /\ license'.purchase \in {license.purchase, 0}
      /\ (license'.status = "none" => license.status = "none")
  <2>1. \/ license' = license
        \/ license' = [status |-> "active", purchase |-> 0]
        \/ license' = [license EXCEPT !.status = "revoked"]
    BY DEF AdminLicense, RevokeLicense, GrantSubscription, ExtendSubscription,
           RevokeSubscription
  <2>2. DOMAIN purchases' = DOMAIN purchases
    BY <1>1
  <2> QED BY <1>0, <2>1, <2>2 DEF License
<1>3. /\ sub' \in Subscription /\ sub'.latest = sub.latest
      /\ sub'.end + sub'.dropped + sub.free = sub.end + sub.dropped + sub'.free
      /\ sub'.status = "none" => sub' = sub
  <2> DEFINE lapsed == Lapsed(sub)
             end == Max(sub.end, now)
  <2>0. /\ end \in Nat /\ lapsed \in Nat /\ end = sub.end + lapsed
        /\ (sub.end > now => lapsed = 0) /\ (~(sub.end > now) => end = now)
    BY <1>0 DEF Lapsed, Max
  <2>1. CASE AdminLicense \/ RevokeLicense
    BY <1>0, <2>1 DEF AdminLicense, RevokeLicense
  <2>2. ASSUME NEW item \in Plan, GrantSubscription(item)
        PROVE  /\ sub' \in Subscription /\ sub'.latest = sub.latest
               /\ sub'.end + sub'.dropped + sub.free = sub.end + sub.dropped + sub'.free
               /\ sub'.status = "none" => sub' = sub
    <3> DEFINE lost == IF sub.end > now THEN sub.end - now ELSE 0
    <3>1. lost \in Nat /\ now + lost = sub.end + lapsed
      BY <1>0, <2>0
    <3>2. sub' = [sub EXCEPT !.status = "active", !.plan = item, !.end = now + 1,
                             !.dropped = sub.dropped + lost,
                             !.free = sub.free + lapsed + 1]
      BY <2>2 DEF GrantSubscription
    <3> HIDE DEF lost, lapsed, end
    <3>3. /\ sub'.status = "active" /\ sub'.latest = sub.latest
          /\ sub'.end = now + 1 /\ sub'.dropped = sub.dropped + lost
          /\ sub'.free = sub.free + lapsed + 1
      BY <1>0, <3>2 DEF Subscription
    <3>4. now + 1 \in Nat /\ sub.dropped + lost \in Nat /\ sub.free + lapsed + 1 \in Nat
      BY <1>0, <2>0, <3>1
    <3>5. sub' \in Subscription
      BY <1>0, <3>2, <3>4 DEF Subscription
    <3> QED BY <1>0, <2>0, <3>1, <3>3, <3>5
  <2>3. CASE ExtendSubscription
    <3>1. sub' = [sub EXCEPT !.status = "active", !.end = end + 1,
                             !.free = sub.free + lapsed + 1]
      BY <2>3 DEF ExtendSubscription
    <3> HIDE DEF lapsed, end
    <3>3. end + 1 \in Nat /\ sub.free + lapsed + 1 \in Nat
      BY <1>0, <2>0
    <3>2. /\ sub' \in Subscription /\ sub'.latest = sub.latest /\ sub'.status = "active"
          /\ sub'.end = end + 1 /\ sub'.dropped = sub.dropped
          /\ sub'.free = sub.free + lapsed + 1
      BY <1>0, <3>1, <3>3 DEF Subscription
    <3> QED BY <1>0, <2>0, <3>2
  <2>4. CASE RevokeSubscription
    BY <1>0, <2>4 DEF RevokeSubscription, Subscription
  <2> QED BY <2>1, <2>2, <2>3, <2>4
<1>4. TypeOK'
  BY <1>0, <1>1, <1>2, <1>3 DEF TypeOK, License, Subscription
<1>5. GoodsArePaid'
  <2>1. sub'.end \in Nat /\ sub'.dropped \in Nat /\ sub'.free \in Nat
    BY <1>3 DEF Subscription
  <2>2. sub.end + sub.dropped \in Owed .. Owed + again =>
          LET owed == Cardinality(PaidFor(Months)) + sub'.free
          IN  sub'.end + sub'.dropped \in owed .. owed + again
    <3> DEFINE paid == Cardinality(PaidFor(Months))
    <3>1. Owed = paid + sub.free /\ paid \in Nat
      BY <1>0 DEF Owed, Months
    <3> HIDE DEF paid
    <3>2. sub.end + sub.dropped \in Owed .. Owed + again =>
            sub'.end + sub'.dropped \in paid + sub'.free .. paid + sub'.free + again
      BY <1>0, <1>3, <2>1, <3>1
    <3> QED BY <3>2 DEF paid
  <2> QED BY <1>1, <1>2, <1>3, <2>2, SamePaid DEF Inv
<1>6. NeverHad'
  BY <1>3 DEF Inv, NeverHad
<1> QED BY <1>4, <1>5, <1>6 DEF Inv

-----------------------------------------------------------------------------
\* What a completion makes of a subscription.
LEMMA ExtendedSub ==
  ASSUME TypeOK, NEW p \in DOMAIN purchases
  PROVE  LET s == Extended(sub, p)
         IN  /\ s \in Subscription /\ s.status = "active" /\ s.latest = p
             /\ s.end > sub.end /\ s.dropped = sub.dropped
             /\ s.end + sub.free = sub.end + s.free + 1
             /\ Valid(sub) => s.plan = sub.plan
<1>0. /\ sub \in Subscription /\ now \in Nat /\ sub.end \in Nat /\ sub.free \in Nat
      /\ purchases[p].item \in Plan \union {NoPlan}
  BY Numbered DEF TypeOK, Subscription, Purchase
<1> DEFINE end == Max(sub.end, now) + 1
           pl == IF purchases[p].kind = "subscribe" /\ ~Valid(sub)
                 THEN purchases[p].item ELSE sub.plan
           free == sub.free + Lapsed(sub)
           stacked == [sub EXCEPT !.status = "active", !.end = end, !.latest = p,
                                  !.free = free]
<1>1. end \in Nat /\ end > sub.end /\ free \in Nat /\ end + sub.free = sub.end + free + 1
  BY <1>0 DEF Max, Lapsed
<1>2. pl \in Plan \union {NoPlan} /\ (Valid(sub) => pl = sub.plan)
  BY <1>0 DEF Subscription
<1> HIDE DEF end, free
<1>3. stacked \in Subscription /\ stacked.plan = sub.plan /\ stacked.status = "active"
      /\ stacked.latest = p /\ stacked.end = end /\ stacked.dropped = sub.dropped
      /\ stacked.free = free
  BY <1>0, <1>1 DEF Subscription
<1>4. Extended(sub, p) = [stacked EXCEPT !.plan = pl]
  BY <1>3 DEF Extended, Stacked, end, free
<1> HIDE DEF pl, stacked
<1>5. [stacked EXCEPT !.plan = pl] \in Subscription
  BY <1>2, <1>3 DEF Subscription
<1> DEFINE s == [stacked EXCEPT !.plan = pl]
<1>6. s.plan = pl /\ s.status = "active" /\ s.latest = p /\ s.end = end
      /\ s.dropped = sub.dropped /\ s.free = free
  BY <1>3 DEF Subscription
<1> HIDE DEF s
<1> QED BY <1>1, <1>2, <1>4, <1>5, <1>6 DEF s

\* A month more, for a purchase that was not paid before, or is repeated.
LEMMA OneMonthMore ==
  ASSUME NEW e \in Nat, NEW f \in Nat, NEW e1 \in Nat, NEW f1 \in Nat,
         NEW dropped \in Nat, NEW paid \in Nat, NEW n \in Nat,
         e1 + f = e + f1 + 1, e + dropped \in paid + f .. paid + f + n
  PROVE  /\ e1 + dropped \in paid + 1 + f1 .. paid + 1 + f1 + n
         /\ e1 + dropped \in paid + f1 .. paid + f1 + (n + 1)
  OBVIOUS

\* A completion, the first one or one that did not see the first.
LEMMA CompleteInv ==
  ASSUME Inv, NEW r \in requests, Complete(r)
  PROVE  Inv'
<1> DEFINE p == r.purchase
           kind == purchases[p].kind
<1>0. /\ TypeOK /\ p \in DOMAIN purchases /\ charge[p] \in Unsettled \union Settled
      /\ purchases \in Seq(Purchase) /\ DOMAIN purchases = 1 .. Len(purchases)
      /\ purchases[p] \in Purchase /\ kind \in AllKinds
      /\ \A q \in DOMAIN purchases : purchases[q] \in Purchase /\ given[q] \in Nat
      /\ license \in License /\ sub \in Subscription /\ balance \in Nat
      /\ sub.end \in Nat /\ sub.dropped \in Nat /\ sub.free \in Nat /\ again \in Nat
      /\ p # 0
  BY Numbered DEF Inv, TypeOK, License, Subscription, Purchase
<1>1. charge[p] = "paid"
  BY <1>0 DEF Complete, StatusOf, Unsettled, Settled
<1>2. /\ UNCHANGED <<charge, now, acts>> /\ requests' \subseteq requests
      /\ Fulfil(p) /\ r.seen # "paid"
      /\ again' = IF Overtaken(r) THEN again + 1 ELSE again
  BY DEF Complete, Verified
<1> DEFINE row == [purchases[p] EXCEPT !.status = "paid"]
<1>3. row \in Purchase /\ row.kind = kind /\ row.status = "paid"
  BY <1>0 DEF Purchase, Statuses
<1>4. purchases' = [purchases EXCEPT ![p] = row]
  BY DEF Complete
<1> HIDE DEF row
<1>5. /\ purchases' \in Seq(Purchase) /\ Len(purchases') = Len(purchases)
      /\ DOMAIN purchases' = DOMAIN purchases
      /\ purchases'[p] = row /\ \A q \in DOMAIN purchases : q # p => purchases'[q] = purchases[q]
  BY <1>0, <1>3, <1>4, ExceptSeq
<1>6. Paid' = Paid \union {p}
      /\ \A q \in DOMAIN purchases : purchases'[q].kind = purchases[q].kind
  BY <1>0, <1>3, <1>5 DEF Paid
<1>7. ASSUME NEW K
      PROVE  PaidFor(K)' = IF kind \in K THEN PaidFor(K) \union {p} ELSE PaidFor(K)
  BY <1>0, <1>6 DEF PaidFor, Paid
<1>8. \A K : IsFiniteSet(PaidFor(K)) /\ Cardinality(PaidFor(K)) \in Nat
  <2>1. \A K : PaidFor(K) \in SUBSET DOMAIN purchases
    BY DEF PaidFor, Paid
  <2> QED BY <1>0, <2>1, Numbered
<1>9. /\ given' = IF AlreadyHas(p) THEN given ELSE [given EXCEPT ![p] = @ + 1]
      /\ given' \in [DOMAIN purchases -> Nat]
  BY <1>0, <1>2 DEF Fulfil, TypeOK
<1>21. again' = (IF p \in Paid THEN again + 1 ELSE again) /\ again' \in Nat
  BY <1>0, <1>2 DEF Overtaken, Paid
<1>10. \A q \in DOMAIN purchases' : given'[q] <= IF q \in Paid' THEN 1 + again' ELSE 0
  <2>1. SUFFICES ASSUME NEW q \in DOMAIN purchases
                 PROVE  given'[q] <= IF q \in Paid' THEN 1 + again' ELSE 0
    BY <1>5
  <2>2. given[q] <= IF q \in Paid THEN 1 + again ELSE 0
    BY DEF Inv, GoodsArePaid
  <2>3. given'[q] = given[q] \/ (q = p /\ given'[q] = given[q] + 1)
    BY <1>0, <1>9 DEF TypeOK
  <2> QED BY <1>0, <1>6, <1>21, <2>2, <2>3
<1>11. \A q \in Paid' : q # p =>
         charge'[q] = "paid" /\ (purchases'[q].kind # "license" => given'[q] > 0)
  <2>1. SUFFICES ASSUME NEW q \in Paid', q # p
                 PROVE  charge[q] = "paid" /\ (purchases'[q].kind # "license" => given'[q] > 0)
    BY <1>2
  <2>2. q \in Paid /\ q \in DOMAIN purchases
    BY <1>6, <2>1 DEF Paid
  <2>3. purchases'[q].kind = purchases[q].kind
    BY <1>6, <2>2
  <2>4. given'[q] = given[q]
    BY <1>0, <1>9, <2>1, <2>2 DEF TypeOK
  <2>5. charge[q] = "paid" /\ (purchases[q].kind # "license" => given[q] > 0)
    BY <2>2 DEF Inv, GoodsArePaid
  <2> QED BY <2>3, <2>4, <2>5
<1>12. kind # "license" => given'[p] > 0
  <2>1. CASE ~AlreadyHas(p)
    BY <1>0, <1>9, <2>1 DEF TypeOK
  <2>2. CASE AlreadyHas(p) /\ kind # "license"
    <3>1. p \in ledger \/ sub.latest = p
      BY <1>0, <2>2 DEF AlreadyHas, AllKinds
    <3>2. p \in Paid
      BY <1>0, <3>1 DEF Inv, GoodsArePaid, PaidFor
    <3>3. given[p] > 0
      BY <2>2, <3>2 DEF Inv, GoodsArePaid
    <3> QED BY <1>9, <2>2, <3>3
  <2> QED BY <2>1, <2>2
<1>13. \A q \in Paid' : charge'[q] = "paid"
         /\ (purchases'[q].kind # "license" => given'[q] > 0)
  BY <1>0, <1>1, <1>2, <1>6, <1>11, <1>12
<1>14. /\ ledger' = PaidFor({"pack"})' /\ balance' = Cardinality(ledger')
       /\ ledger' \subseteq DOMAIN purchases /\ balance' \in Nat
  <2>1. ledger = PaidFor({"pack"}) /\ balance = Cardinality(ledger)
        /\ ledger \subseteq DOMAIN purchases
    BY DEF Inv, GoodsArePaid, TypeOK
  <2>2. CASE kind # "pack"
    <3>1. ledger' = ledger /\ balance' = balance
      BY <1>0, <1>2, <2>2 DEF Fulfil, AllKinds
    <3>2. PaidFor({"pack"})' = PaidFor({"pack"})
      BY <1>7, <2>2
    <3> QED BY <1>0, <2>1, <3>1, <3>2
  <2>3. CASE kind = "pack"
    <3>1. GrantCredits(p)
      BY <1>2, <2>3 DEF Fulfil
    <3>2. PaidFor({"pack"})' = ledger \union {p}
      BY <1>7, <2>1, <2>3
    <3>3. CASE p \in ledger
      BY <1>0, <2>1, <3>1, <3>2, <3>3 DEF GrantCredits
    <3>4. CASE p \notin ledger
      <4>1. ledger' = ledger \union {p} /\ balance' = balance + 1
        BY <3>1, <3>4 DEF GrantCredits
      <4>2. Cardinality(ledger \union {p}) = Cardinality(ledger) + 1
        BY <1>8, <2>1, <3>4, FS_AddElement
      <4> QED BY <1>0, <2>1, <3>2, <4>1, <4>2
    <3> QED BY <3>3, <3>4
  <2> QED BY <2>2, <2>3
<1>15. plan' \in {0} \union PaidFor({"plan"})'
  <2>1. plan' = IF kind = "plan" THEN p ELSE plan
    BY <1>0, <1>2 DEF Fulfil, AllKinds
  <2> QED BY <1>7, <2>1 DEF Inv, GoodsArePaid
<1>16. license'.purchase \in {0} \union PaidFor({"license"})' /\ license' \in License
  <2>1. license.purchase \in {0} \union PaidFor({"license"})
    BY DEF Inv, GoodsArePaid
  <2>2. CASE kind # "license"
    <3>1. license' = license
      BY <1>0, <1>2, <2>2 DEF Fulfil, AllKinds
    <3> QED BY <1>0, <1>7, <2>1, <2>2, <3>1
  <2>3. CASE kind = "license"
    <3>1. license' = license \/ license' = [status |-> "active", purchase |-> p]
      BY <1>2, <2>3 DEF Fulfil, GrantLicense
    <3>2. PaidFor({"license"})' = PaidFor({"license"}) \union {p}
      BY <1>7, <2>3
    <3> QED BY <1>0, <2>1, <3>1, <3>2 DEF License
  <2> QED BY <2>2, <2>3
<1>22. license'.status = "none" => PaidFor({"license"})' = {}
  <2>1. CASE kind # "license"
    <3>1. license' = license
      BY <1>0, <1>2, <2>1 DEF Fulfil, AllKinds
    <3>2. PaidFor({"license"})' = PaidFor({"license"})
      BY <1>7, <2>1
    <3> QED BY <3>1, <3>2 DEF Inv, GoodsArePaid
  <2>2. CASE kind = "license"
    <3>1. license' = IF Licensed(p) THEN license ELSE [status |-> "active", purchase |-> p]
      BY <1>2, <2>2 DEF Fulfil, GrantLicense
    <3>2. license.purchase = p => license.status # "none"
      BY <1>0 DEF Inv, GoodsArePaid
    <3> QED BY <3>1, <3>2 DEF Licensed
  <2> QED BY <2>1, <2>2
<1>17. /\ sub' \in Subscription /\ sub'.latest \in {0} \union PaidFor(Months)'
       /\ sub'.end + sub'.dropped \in Owed' .. Owed' + again'
       /\ NeverHad'
  <2> DEFINE paid == Cardinality(PaidFor(Months))
             end == sub.end + sub.dropped
  <2>1. /\ sub.latest \in {0} \union PaidFor(Months)
        /\ end \in paid + sub.free .. paid + sub.free + again
    BY DEF Inv, GoodsArePaid, Owed, Months
  <2>9. paid \in Nat /\ end \in Nat /\ Owed' = Cardinality(PaidFor(Months)') + sub'.free
    BY <1>0, <1>8 DEF Owed, Months
  <2> HIDE DEF end
  <2>2. CASE kind \notin Months
    <3>1. sub' = sub
      BY <1>0, <1>2, <2>2 DEF Fulfil, AllKinds, Months
    <3>2. PaidFor(Months)' = PaidFor(Months)
      BY <1>7, <2>2
    <3>3. Owed' = paid + sub.free /\ sub'.end + sub'.dropped = end
      BY <2>9, <3>1, <3>2 DEF end
    <3> QED BY <1>0, <1>21, <2>1, <2>9, <3>1, <3>2, <3>3 DEF Inv, NeverHad
  <2>3. CASE kind \in Months /\ sub.latest = p
    <3>1. sub' = sub
      BY <1>2, <2>3 DEF Fulfil, Months
    <3>2. PaidFor(Months)' = PaidFor(Months)
      BY <1>0, <1>7, <2>1, <2>3
    <3>3. Owed' = paid + sub.free /\ sub'.end + sub'.dropped = end
      BY <2>9, <3>1, <3>2 DEF end
    <3> QED BY <1>0, <1>21, <2>1, <2>9, <3>1, <3>2, <3>3 DEF Inv, NeverHad
  <2>4. CASE kind \in Months /\ sub.latest # p
    <3>1. sub' = Extended(sub, p)
      BY <1>2, <2>4 DEF Fulfil, Months
    <3>2. /\ sub' \in Subscription /\ sub'.latest = p /\ sub'.status = "active"
          /\ sub'.end + sub.free = sub.end + sub'.free + 1 /\ sub'.dropped = sub.dropped
      BY <1>0, <3>1, ExtendedSub
    <3>3. PaidFor(Months)' = PaidFor(Months) \union {p}
      BY <1>7, <2>4
    <3>4. Cardinality(PaidFor(Months)') = IF p \in PaidFor(Months) THEN paid ELSE paid + 1
      <4> DEFINE S == PaidFor(Months)
      <4>1. IsFiniteSet(S)
        BY <1>8
      <4> HIDE DEF S
      <4>2. Cardinality(S \union {p}) = IF p \in S THEN Cardinality(S) ELSE Cardinality(S) + 1
        BY <4>1, FS_AddElement
      <4> QED BY <3>3, <4>2 DEF S
    <3>5. p \in PaidFor(Months) <=> p \in Paid
      BY <2>4 DEF PaidFor
    <3>6. sub'.end \in Nat /\ sub'.free \in Nat
      BY <3>2 DEF Subscription
    <3> HIDE DEF paid
    <3>7. sub'.end + sub'.dropped \in Owed' .. Owed' + again'
      <4>1. /\ sub'.end + sub.dropped \in paid + 1 + sub'.free .. paid + 1 + sub'.free + again
            /\ sub'.end + sub.dropped \in paid + sub'.free .. paid + sub'.free + (again + 1)
        <5>1. /\ sub.end + sub.dropped \in paid + sub.free .. paid + sub.free + again
              /\ sub'.end + sub.free = sub.end + sub'.free + 1 /\ paid \in Nat
              /\ sub.end \in Nat /\ sub.free \in Nat /\ sub.dropped \in Nat /\ again \in Nat
          BY <1>0, <2>1, <2>9, <3>2 DEF end
        <5> QED BY <3>6, <5>1, OneMonthMore
      <4>2. CASE p \in Paid
        <5>1. Owed' = paid + sub'.free /\ again' = again + 1
          BY <1>21, <2>9, <3>4, <3>5, <4>2
        <5> QED BY <3>2, <4>1, <5>1
      <4>3. CASE p \notin Paid
        <5>1. Owed' = paid + 1 + sub'.free /\ again' = again
          BY <1>21, <2>9, <3>4, <3>5, <4>3
        <5> QED BY <3>2, <4>1, <5>1
      <4> QED BY <4>2, <4>3
    <3> QED BY <3>2, <3>3, <3>7 DEF NeverHad
  <2> QED BY <2>2, <2>3, <2>4
<1>18. GoodsArePaid'
  BY <1>5, <1>10, <1>13, <1>14, <1>15, <1>16, <1>17, <1>22 DEF GoodsArePaid, Months
<1>19. plan' \in {0} \union DOMAIN purchases'
  BY <1>15 DEF PaidFor, Paid
<1>20. TypeOK'
  BY <1>0, <1>2, <1>5, <1>9, <1>14, <1>16, <1>17, <1>19, <1>21
     DEF TypeOK, Purchase, License, Subscription
<1> QED BY <1>17, <1>18, <1>20 DEF Inv

-----------------------------------------------------------------------------
LEMMA StepInv ==
  ASSUME Inv, [Next]_vars
  PROVE  Inv'
<1>1. ASSUME NEW kind \in Kinds, NEW item \in Plan \union {NoPlan}, StartCheckout(kind, item)
      PROVE  Inv'
  BY <1>1, StartInv
<1>2. ASSUME NEW p \in DOMAIN purchases, NEW answer \in Unsettled \union Settled,
             Gateway(p, answer)
      PROVE  Inv'
  BY <1>2, GatewayInv
<1>3. ASSUME NEW r \in requests, Record(r) PROVE Inv'
  BY <1>3, RecordInv
<1>4. ASSUME NEW r \in requests, Complete(r) PROVE Inv'
  BY <1>4, CompleteInv
<1>5. CASE \/ \E p \in DOMAIN purchases, by \in {"return", "admin"} : Peek(p, by)
           \/ \E r \in requests : Die(r) \/ Nothing(r) \/ Refuse(r)
           \/ Tick
           \/ UNCHANGED vars
  BY <1>5, IdleInv
<1>6. CASE \/ AdminLicense \/ RevokeLicense
           \/ \E item \in Plan : GrantSubscription(item)
           \/ ExtendSubscription \/ RevokeSubscription
  BY <1>6, AdminInv
<1> QED BY <1>1, <1>2, <1>3, <1>4, <1>5, <1>6 DEF Next

LEMMA AlwaysInv == Spec => []Inv
<1>1. Init => Inv
  BY InitInv
<1>2. Inv /\ [Next]_vars => Inv'
  BY StepInv
<1> QED BY <1>1, <1>2, PTL DEF Spec

\* The variables have their types, for any number of purchases and returns.
THEOREM TypeCorrect == Spec => []TypeOK
<1>1. Inv => TypeOK
  BY DEF Inv
<1> QED BY <1>1, AlwaysInv, PTL

\* The workspace holds what it paid for, and all of it, in whichever order and
\* however often returns come; what takes effect twice, or is a month too many,
\* is accounted for by a completion that read the purchase before another one
\* completed it, so that without one the goods are exactly those paid for
\* (checkout.py: complete_on_return; fulfillment.py; commerce.py:
\* fulfill_one_time_purchase, _apply_subscription_period).
THEOREM GoodsAreAlwaysPaid == Spec => []GoodsArePaid
<1>1. Inv => GoodsArePaid
  BY DEF Inv
<1> QED BY <1>1, AlwaysInv, PTL

\* Paid months are not taken away or switched, but by an admin who revoked the
\* subscription before (commerce.py; admin_grants.py).
THEOREM MonthsAreKept == Spec => MonthsKept
<1> DEFINE A == sub'.end < sub.end \/ (Valid(sub) /\ sub'.plan # sub.plan)
                  => sub.status = "cancelled" /\ purchases' = purchases /\ requests' = requests
<1>1. ASSUME Inv, [Next]_vars PROVE [A]_vars
  <2>0. /\ TypeOK /\ sub \in Subscription /\ sub.end \in Nat /\ now \in Nat
        /\ sub.status \in {"none", "active", "cancelled"}
    BY <1>1 DEF Inv, TypeOK, Subscription
  <2>1. CASE sub' = sub
    BY <2>0, <2>1
  <2>2. ASSUME NEW r \in requests, Complete(r), sub' # sub PROVE A
    <3>1. r.purchase \in DOMAIN purchases /\ purchases[r.purchase].kind \in AllKinds
      BY <2>0, Numbered DEF TypeOK, Purchase
    <3>2. sub' = Extended(sub, r.purchase)
      BY <2>2, <3>1 DEF Complete, Fulfil, AllKinds
    <3>3. sub'.end > sub.end /\ (Valid(sub) => sub'.plan = sub.plan) /\ sub'.end \in Nat
      BY <2>0, <3>1, <3>2, ExtendedSub DEF Subscription
    <3> QED BY <2>0, <3>3
  <2>3. ASSUME NEW item \in Plan, GrantSubscription(item) PROVE A
    <3>1. sub'.end = now + 1
      BY <2>0, <2>3 DEF GrantSubscription, Subscription
    <3>2. sub'.end < sub.end \/ Valid(sub) => sub.status = "cancelled"
      BY <1>1, <2>0, <2>3, <3>1 DEF GrantSubscription, Entitled, Valid, Inv, NeverHad
    <3> QED BY <2>3, <3>2 DEF GrantSubscription
  <2>4. CASE ExtendSubscription
    <3>1. sub'.end = Max(sub.end, now) + 1 /\ sub'.plan = sub.plan
      BY <2>0, <2>4 DEF ExtendSubscription, Subscription
    <3>2. ~(Max(sub.end, now) + 1 < sub.end)
      BY <2>0 DEF Max
    <3> QED BY <3>1, <3>2
  <2>5. CASE RevokeSubscription
    <3>1. sub'.end = sub.end /\ sub'.plan = sub.plan
      BY <2>0, <2>5 DEF RevokeSubscription, Subscription
    <3> QED BY <2>0, <3>1
  <2>6. CASE sub' # sub /\ \/ \E r \in requests : Complete(r)
                           \/ \E item \in Plan : GrantSubscription(item)
                           \/ ExtendSubscription \/ RevokeSubscription
    BY <2>2, <2>3, <2>4, <2>5, <2>6
  <2>7. \/ sub' = sub
        \/ \E r \in requests : Complete(r)
        \/ \E item \in Plan : GrantSubscription(item)
        \/ ExtendSubscription \/ RevokeSubscription
    BY <1>1 DEF Next, vars, goods, StartCheckout, Gateway, Peek, Die, Nothing, Record, Refuse,
                Drop, AdminLicense, RevokeLicense, Tick
  <2> QED BY <2>1, <2>6, <2>7
<1> QED BY <1>1, AlwaysInv, PTL DEF Spec, MonthsKept
=============================================================================
