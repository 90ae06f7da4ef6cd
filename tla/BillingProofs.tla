----------------------------- MODULE BillingProofs -----------------------------
(***************************************************************************)
(* Proofs about Billing: the rows keep their types, balances never become  *)
(* negative, and the subscription row is the outcome of the newest event   *)
(* the webhook recorded, for any number of subscriptions, packs, requests  *)
(* and overviews, and events delivered in any order.                       *)
(***************************************************************************)
EXTENDS Billing, FiniteSums

Events == [at : Clock \ {0}, type : {"transaction", "subscription"}, sub : Subscriptions,
           status : Status \cup {None}, period : Clock \cup {None}, bound : BOOLEAN]

\* What the provider may have sent: transactions carry no status, subscription
\* events do, and both belong to a checkout the workspace opened.
ProviderInv ==
  /\ sent \subseteq Events
  /\ \A e \in sent :
       /\ e.type = "subscription" => e.status \in Status \ {"FREE"}
       /\ checkout[e.sub] \in Paid
  /\ paddle \in [Subscriptions -> [status : Status \cup {None}, period : Clock \cup {None},
                                   first : Clock \cup {None}]]
  /\ \A s \in Subscriptions : paddle[s].status # None => checkout[s] \in Paid

IInv == TypeOK /\ ProviderInv /\ RowIsNewest

-----------------------------------------------------------------------------
(* What the operators return.                                               *)

\* syncLocked leaves an account of the right type, for a row read at any time.
LEMMA SyncedType ==
  ASSUME account \in {None} \cup Accounts, NEW s \in Snapshot
  PROVE  Synced(s) \in Accounts
<1>1. EffectivePlan(s) \in Plans
  BY DEF EffectivePlan, Snapshot, Plans
<1>2. PeriodStart(s) \in Clock \cup {None}
  BY DEF PeriodStart, Snapshot
<1>3. Allowance[EffectivePlan(s)] \in Nat
  BY <1>1, PlansAssumption DEF Plans
<1>4. CASE account = None
  BY <1>1, <1>2, <1>3, <1>4 DEF Synced, Accounts
<1>5. CASE account \in Accounts /\ account # None
  BY <1>1, <1>2, <1>3, <1>5 DEF Synced, Accounts
<1>. QED  BY <1>4, <1>5

\* An event that is applied gives a row of the right type, with a plan that
\* is Free exactly when the event ends the subscription.
LEMMA UpdateType ==
  ASSUME IInv, NEW e \in sent
  PROVE  /\ SubscriptionUpdate(e) \in Snapshot
         /\ (SubscriptionUpdate(e).plan = "FREE") = (StatusOf(e) = "CANCELED")
<1>1. e \in Events /\ checkout[e.sub] \in Paid /\ row \in Snapshot
  BY DEF IInv, ProviderInv, TypeOK
<1>2. StatusOf(e) \in Status
  BY <1>1 DEF IInv, ProviderInv, StatusOf, Events, Status
<1>3. checkout[e.sub] # "FREE"
  BY <1>1, PlansAssumption
<1>. QED  BY <1>1, <1>2, <1>3 DEF SubscriptionUpdate, Snapshot, Plans, Events

-----------------------------------------------------------------------------
(* Initially and step by step.                                              *)

LEMMA InitIInv == Init => IInv
BY ProviderAssumption DEF Init, IInv, TypeOK, ProviderInv, RowIsNewest, Unsubscribed, Snapshot,
   Plans, Status, Clock

\* The provider reports a change of a subscription the workspace pays for.
LEMMA ReportIInv ==
  ASSUME IInv, NEW s \in Subscriptions, paddle[s].status # None,
         NEW status \in Status \ {"FREE"}, NEW period \in Clock \cup {None},
         Report(s, status, period)
  PROVE  IInv'
<1>. USE DEF IInv
<1>1. clock' = clock + 1 /\ clock + 1 \in Clock \ {0}
  BY ProviderAssumption DEF Report, TypeOK, Clock
<1>2. PICK bound \in BOOLEAN :
        sent' = sent \cup {Event(clock + 1, "subscription", s, status, period, bound)}
  BY ProviderAssumption DEF Report
<1>. DEFINE e == Event(clock + 1, "subscription", s, status, period, bound)
<1>3. e \in Events /\ e.status = status /\ e.sub = s
  BY <1>1 DEF Event, Events
<1>4. /\ UNCHANGED <<row, recorded, granted, checkout, account, ledger, overview, paid>>
      /\ paddle' = [paddle EXCEPT ![s] =
           [status |-> status, period |-> IF period = None THEN @.period ELSE period,
            first |-> @.first]]
  BY DEF Report, api, credits
<1>5. checkout[s] \in Paid
  BY DEF ProviderInv
<1>. HIDE DEF e
<1>6. TypeOK'
  BY <1>1, <1>2, <1>4 DEF TypeOK, Snapshot
<1>7. ProviderInv'
  <2>1. sent' \subseteq Events
    BY <1>2, <1>3 DEF ProviderInv, e
  <2>2. \A x \in sent' : /\ x.type = "subscription" => x.status \in Status \ {"FREE"}
                         /\ checkout'[x.sub] \in Paid
    BY <1>2, <1>3, <1>4, <1>5 DEF ProviderInv, e
  <2>3. paddle' \in [Subscriptions -> [status : Status \cup {None}, period : Clock \cup {None},
                                       first : Clock \cup {None}]]
    BY <1>4 DEF ProviderInv
  <2>4. \A x \in Subscriptions : paddle'[x].status # None => checkout'[x] \in Paid
    BY <1>4, <1>5 DEF ProviderInv
  <2>. QED  BY <2>1, <2>2, <2>3, <2>4 DEF ProviderInv
<1>8. RowIsNewest'
  BY <1>4 DEF RowIsNewest, StatusOf
<1>. QED  BY <1>6, <1>7, <1>8

LEMMA ChangeIInv ==
  ASSUME IInv, NEW s \in Subscriptions, Change(s)
  PROVE  IInv'
<1>1. clock \in Clock /\ paddle[s].period \in Clock \cup {None} /\ MaxClock \in Nat
  BY ProviderAssumption DEF IInv, TypeOK, ProviderInv
<1>2. \A status, period : Report(s, status, period) => clock + 1 \in Clock
  BY <1>1 DEF Report, Clock
<1>3. \A status \in {"ACTIVE", "PAST_DUE", "PAUSED", "CANCELED"} : status \in Status \ {"FREE"}
  BY DEF Status
<1>4. paddle[s].status # None
  BY NoneAssumption DEF Change, Status
<1>5. PICK status \in Status \ {"FREE"}, period \in Clock \cup {None} : Report(s, status, period)
  <2>1. CASE "renew" \in Moves /\ Report(s, "ACTIVE", clock + 1)
    BY <1>2, <1>3, <2>1
  <2>2. CASE "past_due" \in Moves /\ Report(s, "PAST_DUE", paddle[s].period)
    BY <1>1, <1>3, <2>2
  <2>3. CASE "pause" \in Moves /\ Report(s, "PAUSED", None)
    BY <1>3, <2>3
  <2>4. CASE \E start \in {paddle[s].period, clock + 1} : Report(s, "ACTIVE", start)
    BY <1>1, <1>2, <1>3, <2>4
  <2>5. CASE "cancel" \in Moves /\ Report(s, "CANCELED", None)
    BY <1>3, <2>5
  <2>. QED  BY <2>1, <2>2, <2>3, <2>4, <2>5 DEF Change
<1>. QED  BY <1>4, <1>5, ReportIInv

LEMMA StartCheckoutIInv ==
  ASSUME IInv, NEW s \in Subscriptions, StartCheckout(s)
  PROVE  IInv'
<1>. USE DEF IInv
<1>1. PICK plan \in Paid : checkout' = [checkout EXCEPT ![s] = plan]
  BY DEF StartCheckout
<1>2. UNCHANGED <<row, recorded, granted, account, ledger, overview, paddle, sent, paid, clock>>
  BY DEF StartCheckout, credits, provider
<1>3. TypeOK'
  BY <1>1, <1>2 DEF TypeOK, Snapshot
<1>4. ProviderInv'
  <2>1. \A x \in Subscriptions : checkout[x] \in Paid => checkout'[x] \in Paid
    BY <1>1 DEF TypeOK
  <2>2. \A x \in sent : x.sub \in Subscriptions
    BY DEF ProviderInv, Events
  <2>. QED  BY <1>2, <2>1, <2>2 DEF ProviderInv
<1>5. RowIsNewest'
  BY <1>2 DEF RowIsNewest, StatusOf
<1>. QED  BY <1>3, <1>4, <1>5

LEMMA PayIInv ==
  ASSUME IInv, NEW s \in Subscriptions, Pay(s)
  PROVE  IInv'
<1>. USE DEF IInv
<1>1. clock' = clock + 2 /\ {clock + 1, clock + 2} \subseteq Clock \ {0} /\ clock' \in Clock
  BY ProviderAssumption DEF Pay, TypeOK, Clock
<1>2. PICK t \in {clock + 1, clock + 2}, u \in {clock + 1, clock + 2} :
        sent' = sent \cup {Event(t, "transaction", s, None, None, TRUE),
                           Event(u, "subscription", s, "ACTIVE", clock + 1, TRUE)}
  BY DEF Pay
<1>3. /\ UNCHANGED <<row, recorded, granted, checkout, account, ledger, overview, paid>>
      /\ paddle' = [paddle EXCEPT ![s] = [status |-> "ACTIVE", period |-> clock + 1,
                                          first |-> clock + 1]]
      /\ checkout[s] \in Paid
  BY DEF Pay, api, credits, TypeOK
<1>4. TypeOK'
  BY <1>1, <1>2, <1>3 DEF TypeOK, Snapshot
<1>5. ProviderInv'
  <2>1. \A x \in sent' \ sent : /\ x \in Events /\ x.sub = s
                                /\ x.type = "subscription" => x.status \in Status \ {"FREE"}
    <3>1. clock + 1 \in Clock \ {0} /\ t \in Clock \ {0} /\ u \in Clock \ {0}
      BY <1>1
    <3>2. \A x \in sent' \ sent : \/ x = Event(t, "transaction", s, None, None, TRUE)
                                 \/ x = Event(u, "subscription", s, "ACTIVE", clock + 1, TRUE)
      BY <1>2
    <3>3. Event(t, "transaction", s, None, None, TRUE) \in Events
      BY <3>1 DEF Event, Events
    <3>4. Event(u, "subscription", s, "ACTIVE", clock + 1, TRUE) \in Events
      BY <3>1 DEF Event, Events, Status
    <3>5. "ACTIVE" \in Status \ {"FREE"}
      BY DEF Status
    <3>6. /\ Event(t, "transaction", s, None, None, TRUE).sub = s
          /\ Event(t, "transaction", s, None, None, TRUE).type = "transaction"
          /\ Event(u, "subscription", s, "ACTIVE", clock + 1, TRUE).sub = s
          /\ Event(u, "subscription", s, "ACTIVE", clock + 1, TRUE).status = "ACTIVE"
      BY DEF Event
    <3>. QED  BY <3>2, <3>3, <3>4, <3>5, <3>6
  <2>2. \A x \in sent' : /\ x \in Events
                         /\ x.type = "subscription" => x.status \in Status \ {"FREE"}
                         /\ checkout'[x.sub] \in Paid
    BY <1>3, <2>1 DEF ProviderInv
  <2>3. paddle' \in [Subscriptions -> [status : Status \cup {None}, period : Clock \cup {None},
                                       first : Clock \cup {None}]]
    BY <1>1, <1>3 DEF ProviderInv, Status
  <2>4. \A x \in Subscriptions : paddle'[x].status # None => checkout'[x] \in Paid
    BY <1>3 DEF ProviderInv
  <2>. QED  BY <2>2, <2>3, <2>4 DEF ProviderInv
<1>6. RowIsNewest'
  BY <1>3 DEF RowIsNewest, StatusOf
<1>. QED  BY <1>4, <1>5, <1>6

\* A newer event replaces the row, an older one is only recorded: both keep
\* the row the outcome of the newest recorded event.
LEMMA WebhookIInv ==
  ASSUME IInv, NEW e \in sent, Webhook(e)
  PROVE  IInv'
<1>. USE DEF IInv
<1>1. /\ UNCHANGED <<granted, checkout, account, ledger, overview, paddle, sent, paid, clock>>
      /\ recorded' = recorded \cup {e}
  BY DEF Webhook, credits, provider
<1>2. row.last \in Nat /\ e.at \in Nat /\ \A x \in sent : x.at \in Nat
  BY DEF TypeOK, Snapshot, ProviderInv, Events, Clock
<1>3. ProviderInv'
  BY <1>1 DEF ProviderInv
<1>4. CASE Stale(e)
  <2>1. row' = row /\ e.at <= row.last
    BY <1>4 DEF Webhook, Stale
  <2>2. TypeOK'
    BY <1>1, <2>1 DEF TypeOK, Snapshot
  <2>3. RowIsNewest'
    BY <1>1, <2>1 DEF RowIsNewest, StatusOf
  <2>. QED  BY <1>3, <2>2, <2>3
<1>5. CASE ~Stale(e)
  <2>1. row' = SubscriptionUpdate(e) /\ row.last <= e.at
    BY <1>2, <1>5 DEF Webhook, Stale
  <2>2. row' \in Snapshot /\ (row'.plan = "FREE") = (StatusOf(e) = "CANCELED")
    BY <2>1, UpdateType
  <2>3. row'.last = e.at /\ row'.id = e.sub /\ row'.status = StatusOf(e)
    BY <2>1 DEF SubscriptionUpdate
  <2>4. TypeOK'
    BY <1>1, <2>2 DEF TypeOK, Snapshot
  <2>5. \A x \in recorded' : x.at <= row'.last
    <3>1. \A x \in recorded : x.at \in Nat /\ x.at <= row.last
      BY <1>2 DEF RowIsNewest, TypeOK
    <3>. QED  BY <1>1, <1>2, <2>1, <2>3, <3>1
  <2>6. RowIsNewest'
    BY <1>1, <2>2, <2>3, <2>5 DEF RowIsNewest, StatusOf
  <2>. QED  BY <1>3, <2>4, <2>6
<1>. QED  BY <1>4, <1>5

\* What touches only the account keeps the rest of the invariant.
LEMMA AccountIInv ==
  ASSUME IInv, UNCHANGED <<row, recorded, checkout, paddle, sent, clock>>,
         granted' \subseteq Packs \X Deliveries,
         account' \in {None} \cup Accounts,
         overview' \in [Readers -> Snapshot \cup {None}]
  PROVE  IInv'
BY DEF IInv, TypeOK, ProviderInv, RowIsNewest, StatusOf, Snapshot, Accounts

LEMMA OverviewIInv ==
  ASSUME IInv, NEW o \in Readers, ReadOverview(o) \/ Balance(o)
  PROVE  IInv'
<1>1. CASE ReadOverview(o)
  BY <1>1, AccountIInv DEF IInv, TypeOK, ReadOverview, api, credits, provider, Accounts
<1>2. CASE Balance(o)
  <2>1. overview[o] \in Snapshot
    BY <1>2 DEF Balance, IInv, TypeOK
  <2>2. account' \in {None} \cup Accounts
    BY <1>2, <2>1, SyncedType DEF Balance, IInv, TypeOK, Accounts, credits
  <2>. QED  BY <1>2, <2>2, AccountIInv DEF Balance, IInv, TypeOK, api, provider
<1>. QED  BY <1>1, <1>2

\* The guard on the sum and the split keep both balances from going negative.
LEMMA ConsumeIInv ==
  ASSUME IInv, NEW k \in Requests, Consume(k)
  PROVE  IInv'
<1>. DEFINE a == Synced(row)
            used == IncludedUsed(a, Quantity[k])
<1>1. a \in Accounts
  BY SyncedType DEF IInv, TypeOK, Accounts
<1>2. Quantity[k] \in Nat
  BY CreditsAssumption
<1>. HIDE DEF a
<1>3. CASE Previous(k)
  <2>1. account' = a
    BY <1>3 DEF Consume, a
  <2>. QED  BY <1>1, <2>1, AccountIInv DEF Consume, IInv, TypeOK, api, provider
<1>4. CASE ~Previous(k)
  <2>1. /\ a.included + a.purchased >= Quantity[k]
        /\ account' = [a EXCEPT !.included = @ - used, !.purchased = @ - (Quantity[k] - used)]
    BY <1>4 DEF Consume, a
  <2>2. a.included - used \in Nat /\ a.purchased - (Quantity[k] - used) \in Nat
    BY <1>1, <1>2, <2>1 DEF IncludedUsed, Accounts
  <2>3. account' \in Accounts
    BY <1>1, <2>1, <2>2 DEF Accounts
  <2>. QED  BY <2>3, AccountIInv DEF Consume, IInv, TypeOK, api, provider
<1>. QED  BY <1>3, <1>4

LEMMA PackIInv ==
  ASSUME IInv, NEW p \in Packs, PayPack(p) \/ \E d \in Deliveries : PackWebhook(p, d)
  PROVE  IInv'
<1>1. CASE PayPack(p)
  BY <1>1, AccountIInv DEF PayPack, IInv, TypeOK, api, credits, Accounts
<1>2. ASSUME NEW d \in Deliveries, PackWebhook(p, d) PROVE IInv'
  <2>1. Synced(row) \in Accounts
    BY SyncedType DEF IInv, TypeOK, Accounts
  <2>2. account' \in {None} \cup Accounts
    <3>1. CASE Granted(p)
      BY <1>2, <3>1 DEF PackWebhook, credits, IInv, TypeOK, Accounts
    <3>2. CASE ~Granted(p)
      BY <1>2, <2>1, <3>2, CreditsAssumption DEF PackWebhook, Accounts
    <3>. QED  BY <3>1, <3>2
  <2>3. granted' \subseteq Packs \X Deliveries
    BY <1>2 DEF PackWebhook, IInv, TypeOK
  <2>. QED  BY <1>2, <2>2, <2>3, AccountIInv DEF PackWebhook, IInv, TypeOK, provider
<1>. QED  BY <1>1, <1>2

LEMMA NextIInv == IInv /\ [Next]_vars => IInv'
<1>1. ASSUME IInv, UNCHANGED vars PROVE IInv'
  BY <1>1, AccountIInv DEF vars, api, credits, provider, IInv, TypeOK, Accounts
<1>2. ASSUME IInv, NEW s \in Subscriptions, StartCheckout(s) \/ Pay(s) \/ Change(s) PROVE IInv'
  BY <1>2, StartCheckoutIInv, PayIInv, ChangeIInv
<1>. QED  BY <1>1, <1>2, WebhookIInv, PackIInv, OverviewIInv, ConsumeIInv DEF Next

-----------------------------------------------------------------------------
(* The ledger: sums of its entries.                                         *)

\* The quantities of a set of entries, and of those of a bucket.
QuantitySum(S) == MapThenSumSet(LAMBDA x : x.quantity, S)
Booked(S, bucket) == QuantitySum({x \in S : x.bucket = bucket})

\* The entries a request's consumption has in a ledger.
ConsumedIn(S, k) == {x \in S : x.key[1] = "consume" /\ x.key[2] = k}

Bookable(S) ==
  IsFiniteSet(S) /\ \A x \in S : x.quantity \in Int /\ x.bucket \in {"INCLUDED", "PURCHASED"}

\* What the account held before it is brought up to date.
Included == IF account = None THEN 0 ELSE account.included
Purchased == IF account = None THEN 0 ELSE account.purchased

\* The ledger sums up to the balances, from the first use of the account on.
LedgerInv ==
  /\ Bookable(ledger)
  /\ Booked(ledger, "INCLUDED") = Included /\ Booked(ledger, "PURCHASED") = Purchased
  /\ \A k \in Requests :
       ConsumedIn(ledger, k) # {} => QuantitySum(ConsumedIn(ledger, k)) = 0 - Quantity[k]

LEMMA QuantityIsSum ==
  ASSUME NEW D, IsFiniteSet(D)
  PROVE  \A S \in SUBSET D : QuantitySum(S) = Sum([x \in D |-> x.quantity], S)
<1>. TAKE S \in SUBSET D
<1>. DEFINE f == [x \in D |-> x.quantity]
<1>0. IsFiniteSet(S)
  BY FS_Subset
<1>. DEFINE P(g) == g = [s \in SUBSET S |->
                          IF s = {} THEN 0
                          ELSE (CHOOSE x \in s : TRUE).quantity + g[s \ {CHOOSE x \in s : TRUE}]]
<1>1. QuantitySum(S) = (CHOOSE g : P(g))[S]
  BY DEF QuantitySum, MapThenSumSet, MapThenFoldSet
<1>2. \A g : IsSum(f, S, g) <=> P(g)
  <2>. TAKE g
  <2>1. \A s \in SUBSET S : s # {} => f[Chosen(s)] = Chosen(s).quantity
    BY ChosenIn
  <2>. HIDE DEF f
  <2>. QED  BY <2>1 DEF IsSum, Chosen
<1>. HIDE DEF P, f
<1>3. IsSum(f, S, CHOOSE g : P(g))
  BY <1>0, <1>2, SumExists
<1>4. PICK g : IsSum(f, S, g) /\ Sum(f, S) = g[S]
  BY <1>0, SumIsSum
<1>5. QuantitySum(S) = Sum(f, S)
  BY <1>0, <1>1, <1>3, <1>4, SumsAgree
<1>. QED  BY <1>5 DEF f

\* Sums of entries: none, one, and those of two sets without a common entry.
LEMMA QuantityFacts ==
  /\ QuantitySum({}) = 0
  /\ \A x : x.quantity \in Int => QuantitySum({x}) = x.quantity
  /\ \A S : Bookable(S) => QuantitySum(S) \in Int
  /\ \A S, T : Bookable(S) /\ Bookable(T) /\ S \cap T = {} =>
       QuantitySum(S \cup T) = QuantitySum(S) + QuantitySum(T)
<1>1. QuantitySum({}) = 0
  BY QuantityIsSum, SumEmpty, FS_EmptySet
<1>2. ASSUME NEW x, x.quantity \in Int PROVE QuantitySum({x}) = x.quantity
  <2>. DEFINE f == [y \in {x} |-> y.quantity]
  <2>1. IsFiniteSet({x}) /\ {x} \ {x} = {}
    BY FS_Singleton
  <2>2. QuantitySum({x}) = Sum(f, {x})
    BY <2>1, QuantityIsSum
  <2>3. f[x] = x.quantity /\ \A y \in {x} : f[y] \in Int
    BY <1>2
  <2>. HIDE DEF f
  <2>4. Sum(f, {x}) = f[x] + Sum(f, {x} \ {x})
    BY <2>1, <2>3, SumRemove
  <2>. QED  BY <1>2, <2>1, <2>2, <2>3, <2>4, SumEmpty
<1>3. ASSUME NEW S, Bookable(S) PROVE QuantitySum(S) \in Int
  <2>. DEFINE f == [y \in S |-> y.quantity]
  <2>1. IsFiniteSet(S) /\ \A y \in S : f[y] \in Int
    BY <1>3 DEF Bookable
  <2>2. QuantitySum(S) = Sum(f, S)
    BY <2>1, QuantityIsSum
  <2>. HIDE DEF f
  <2>. QED  BY <2>1, <2>2, SumInt
<1>4. ASSUME NEW S, NEW T, Bookable(S), Bookable(T), S \cap T = {}
      PROVE  QuantitySum(S \cup T) = QuantitySum(S) + QuantitySum(T)
  <2>. DEFINE D == S \cup T
              f == [y \in D |-> y.quantity]
  <2>1. IsFiniteSet(S) /\ IsFiniteSet(T) /\ IsFiniteSet(D)
    BY <1>4, FS_Union DEF Bookable
  <2>2. \A y \in D : f[y] \in Int
    BY <1>4 DEF Bookable
  <2>3. /\ QuantitySum(S) = Sum(f, S) /\ QuantitySum(T) = Sum(f, T)
        /\ QuantitySum(S \cup T) = Sum(f, S \cup T)
    BY <2>1, QuantityIsSum
  <2>4. \A y \in S \cup T : f[y] \in Int
    BY <2>2
  <2>. HIDE DEF f, D
  <2>5. Sum(f, S \cup T) = Sum(f, S) + Sum(f, T)
    BY <1>4, <2>1, <2>4, SumUnion
  <2>. QED  BY <2>3, <2>5
<1>. QED  BY <1>1, <1>2, <1>3, <1>4

\* New entries add what they book to each bucket.
Together(S, T, bucket) ==
  /\ Booked(S \cup T, bucket) = Booked(S, bucket) + Booked(T, bucket)
  /\ Booked(S, bucket) \in Int /\ Booked(T, bucket) \in Int

LEMMA BookedAdds ==
  ASSUME NEW S, Bookable(S), NEW T, Bookable(T), S \cap T = {}, NEW bucket
  PROVE  Together(S, T, bucket) /\ Bookable(S \cup T)
<1>. DEFINE In(D) == {x \in D : x.bucket = bucket}
<1>1. In(S \cup T) = In(S) \cup In(T) /\ In(S) \cap In(T) = {}
  OBVIOUS
<1>2. Bookable(In(S)) /\ Bookable(In(T))
  BY FS_Subset DEF Bookable
<1>3. Bookable(S \cup T)
  BY FS_Union DEF Bookable
<1>. HIDE DEF In
<1>4. QuantitySum(In(S \cup T)) = QuantitySum(In(S)) + QuantitySum(In(T))
  BY <1>1, <1>2, QuantityFacts
<1>5. QuantitySum(In(S)) \in Int /\ QuantitySum(In(T)) \in Int
  BY <1>2, QuantityFacts
<1>. QED  BY <1>3, <1>4, <1>5 DEF Together, Booked, In

\* One entry books its quantity in its bucket and nothing in the other.
LEMMA OneEntry ==
  ASSUME NEW key, NEW bucket \in {"INCLUDED", "PURCHASED"}, NEW quantity \in Int
  PROVE  LET S == {Entry(key, bucket, quantity)} IN
         /\ Bookable(S) /\ QuantitySum(S) = quantity
         /\ \A b \in {"INCLUDED", "PURCHASED"} :
              Booked(S, b) = IF b = bucket THEN quantity ELSE 0
<1>. DEFINE x == Entry(key, bucket, quantity)
<1>1. x.bucket = bucket /\ x.quantity = quantity
  BY DEF Entry
<1>. HIDE DEF x
<1>2. Bookable({x})
  BY <1>1, FS_Singleton DEF Bookable
<1>3. QuantitySum({x}) = quantity
  BY <1>1, QuantityFacts
<1>4. ASSUME NEW b \in {"INCLUDED", "PURCHASED"}
      PROVE  Booked({x}, b) = IF b = bucket THEN quantity ELSE 0
  <2>1. CASE b = bucket
    <3>1. {y \in {x} : y.bucket = b} = {x}
      BY <1>1, <2>1
    <3>. QED  BY <1>3, <2>1, <3>1 DEF Booked
  <2>2. CASE b # bucket
    <3>1. {y \in {x} : y.bucket = b} = {}
      BY <1>1, <2>2
    <3>. QED  BY <2>2, <3>1, QuantityFacts DEF Booked
  <2>. QED  BY <2>1, <2>2
<1>. QED  BY <1>2, <1>3, <1>4 DEF x

LEMMA NoEntry == Bookable({}) /\ \A b : Booked({}, b) = 0
<1>1. \A b : {x \in {} : x.bucket = b} = {}
  OBVIOUS
<1>. QED  BY <1>1, QuantityFacts, FS_EmptySet DEF Bookable, Booked

\* Bringing the account up to date books in the ledger what it changes in the
\* included balance; it does not consume.
LEMMA SyncBooks ==
  ASSUME account \in {None} \cup Accounts, NEW s \in Snapshot
  PROVE  /\ Bookable(SyncEntries(s))
         /\ Booked(SyncEntries(s), "INCLUDED") = Synced(s).included - Included
         /\ Booked(SyncEntries(s), "PURCHASED") = Synced(s).purchased - Purchased
         /\ \A x \in SyncEntries(s) : x.key[1] \in {"initial", "reset"}
<1>. DEFINE initial == <<"initial", EffectivePlan(s), PeriodStart(s)>>
            reset == <<"reset", EffectivePlan(s), PeriodStart(s)>>
            delta == Synced(s).included - account.included
<1>1. Synced(s) \in Accounts
  BY SyncedType
<1>2. initial[1] = "initial" /\ reset[1] = "reset"
  OBVIOUS
<1>3. CASE account = None
  <2>1. SyncEntries(s) = {Entry(initial, "INCLUDED", Synced(s).included)}
    BY <1>3 DEF SyncEntries
  <2>2. Synced(s).purchased = 0
    BY <1>3 DEF Synced
  <2>3. Synced(s).included \in Int
    BY <1>1 DEF Accounts
  <2>4. \A x \in SyncEntries(s) : x.key = initial
    BY <2>1 DEF Entry
  <2>. HIDE DEF initial
  <2>5. /\ Bookable(SyncEntries(s)) /\ Booked(SyncEntries(s), "INCLUDED") = Synced(s).included
        /\ Booked(SyncEntries(s), "PURCHASED") = 0
    BY <2>1, <2>3, OneEntry
  <2>6. Included = 0 /\ Purchased = 0
    BY <1>3 DEF Included, Purchased
  <2>. QED  BY <1>2, <2>2, <2>3, <2>4, <2>5, <2>6
<1>4. CASE account # None
  <2>1. account \in Accounts
    BY <1>4
  <2>2. Synced(s).purchased = account.purchased
    BY <1>4, <2>1 DEF Synced, Accounts
  <2>3. delta \in Int /\ account.included \in Int /\ account.purchased \in Int
    BY <1>1, <2>1 DEF Accounts
  <2>4. CASE Outdated(account, s) /\ delta # 0
    <3>1. SyncEntries(s) = {Entry(reset, "INCLUDED", delta)}
      BY <1>4, <2>4 DEF SyncEntries
    <3>2. \A x \in SyncEntries(s) : x.key = reset
      BY <3>1 DEF Entry
    <3>3. delta = Synced(s).included - account.included
      OBVIOUS
    <3>. HIDE DEF reset, delta
    <3>4. /\ Bookable(SyncEntries(s)) /\ Booked(SyncEntries(s), "INCLUDED") = delta
          /\ Booked(SyncEntries(s), "PURCHASED") = 0
      BY <2>3, <3>1, OneEntry
    <3>. QED  BY <1>2, <1>4, <2>2, <2>3, <3>2, <3>3, <3>4 DEF Included, Purchased
  <2>5. CASE ~(Outdated(account, s) /\ delta # 0)
    <3>1. SyncEntries(s) = {}
      BY <1>4, <2>5 DEF SyncEntries
    <3>2. Synced(s).included = account.included
      <4>1. CASE Outdated(account, s)
        BY <1>1, <2>1, <2>3, <2>5, <4>1 DEF Accounts
      <4>2. CASE ~Outdated(account, s)
        BY <1>4, <2>1, <4>2 DEF Synced, Accounts
      <4>. QED  BY <4>1, <4>2
    <3>. QED  BY <1>4, <2>2, <2>3, <3>1, <3>2, NoEntry DEF Included, Purchased
  <2>. QED  BY <2>4, <2>5
<1>. QED  BY <1>3, <1>4

\* A consumption books what it takes from each bucket, in all its quantity.
LEMMA ConsumptionBooks ==
  ASSUME NEW a \in Accounts, NEW k \in Requests
  PROVE  LET used == IncludedUsed(a, Quantity[k])
             S == Consumption(a, k)
         IN /\ Bookable(S) /\ used \in Int
            /\ Booked(S, "INCLUDED") = 0 - used
            /\ Booked(S, "PURCHASED") = 0 - (Quantity[k] - used)
            /\ QuantitySum(S) = 0 - Quantity[k]
            /\ \A x \in S : x.key[1] = "consume" /\ x.key[2] = k
<1>. DEFINE used == IncludedUsed(a, Quantity[k])
            rest == Quantity[k] - used
            key(bucket) == <<"consume", k, bucket>>
            Part(bucket, q) == IF q = 0 THEN {} ELSE {Entry(key(bucket), bucket, 0 - q)}
<1>1. used \in Int /\ rest \in Int /\ Quantity[k] \in Int
  BY CreditsAssumption DEF IncludedUsed, Accounts
<1>2. Consumption(a, k) = Part("INCLUDED", used) \cup Part("PURCHASED", rest)
  BY DEF Consumption
<1>3. ASSUME NEW bucket \in {"INCLUDED", "PURCHASED"}, NEW q \in Int
      PROVE  /\ Bookable(Part(bucket, q)) /\ QuantitySum(Part(bucket, q)) = 0 - q
             /\ \A b \in {"INCLUDED", "PURCHASED"} :
                  Booked(Part(bucket, q), b) = IF b = bucket THEN 0 - q ELSE 0
             /\ \A x \in Part(bucket, q) :
                  x.key[1] = "consume" /\ x.key[2] = k /\ x.bucket = bucket
  <2>1. CASE q = 0
    <3>1. Part(bucket, q) = {}
      BY <2>1
    <3>. HIDE DEF Part
    <3>. QED  BY <2>1, <3>1, NoEntry, QuantityFacts
  <2>2. CASE q # 0
    <3>1. Part(bucket, q) = {Entry(key(bucket), bucket, 0 - q)} /\ 0 - q \in Int
      BY <2>2
    <3>2. \A x \in Part(bucket, q) : x.key = key(bucket) /\ x.bucket = bucket
      BY <3>1 DEF Entry
    <3>3. key(bucket)[1] = "consume" /\ key(bucket)[2] = k
      OBVIOUS
    <3>. HIDE DEF Part, key
    <3>. QED  BY <3>1, <3>2, <3>3, OneEntry
  <2>. QED  BY <2>1, <2>2
<1>. DEFINE I == Part("INCLUDED", used)
            P == Part("PURCHASED", rest)
<1>4. /\ Bookable(I) /\ QuantitySum(I) = 0 - used
      /\ Booked(I, "INCLUDED") = 0 - used /\ Booked(I, "PURCHASED") = 0
      /\ \A x \in I : x.key[1] = "consume" /\ x.key[2] = k /\ x.bucket = "INCLUDED"
  BY <1>1, <1>3
<1>5. /\ Bookable(P) /\ QuantitySum(P) = 0 - rest
      /\ Booked(P, "INCLUDED") = 0 /\ Booked(P, "PURCHASED") = 0 - rest
      /\ \A x \in P : x.key[1] = "consume" /\ x.key[2] = k /\ x.bucket = "PURCHASED"
  BY <1>1, <1>3
<1>6. rest = Quantity[k] - used
  OBVIOUS
<1>. HIDE DEF used, rest, Part
<1>7. Consumption(a, k) = I \cup P
  BY <1>2
<1>. HIDE DEF I, P
<1>8. I \cap P = {}
  BY <1>4, <1>5
<1>9. /\ Bookable(I \cup P) /\ QuantitySum(I \cup P) = QuantitySum(I) + QuantitySum(P)
      /\ Booked(I \cup P, "INCLUDED") = Booked(I, "INCLUDED") + Booked(P, "INCLUDED")
      /\ Booked(I \cup P, "PURCHASED") = Booked(I, "PURCHASED") + Booked(P, "PURCHASED")
  <2>1. /\ Bookable(I \cup P)
        /\ Together(I, P, "INCLUDED") /\ Together(I, P, "PURCHASED")
    BY <1>4, <1>5, <1>8, BookedAdds
  <2>2. QuantitySum(I \cup P) = QuantitySum(I) + QuantitySum(P)
    BY <1>4, <1>5, <1>8, QuantityFacts
  <2>. QED  BY <2>1, <2>2 DEF Together
<1>10. /\ Bookable(Consumption(a, k)) /\ used \in Int
       /\ Booked(Consumption(a, k), "INCLUDED") = 0 - used
       /\ Booked(Consumption(a, k), "PURCHASED") = 0 - (Quantity[k] - used)
       /\ QuantitySum(Consumption(a, k)) = 0 - Quantity[k]
       /\ \A x \in Consumption(a, k) : x.key[1] = "consume" /\ x.key[2] = k
  BY <1>1, <1>4, <1>5, <1>6, <1>7, <1>9
<1>. QED  BY <1>10 DEF used

\* The unique index: what can be inserted is not there yet.
LEMMA InsertableIsNew == ASSUME NEW S, Insertable(S) PROVE ledger \cap S = {}
BY DEF Insertable

\* Entries that book what the account gains keep the ledger balanced; a
\* consumption among them is one that was not there.
LEMMA LedgerGains ==
  ASSUME LedgerInv, NEW S, Bookable(S), Insertable(S), ledger' = ledger \cup S,
         Booked(S, "INCLUDED") = Included' - Included,
         Booked(S, "PURCHASED") = Purchased' - Purchased,
         Included \in Int, Included' \in Int, Purchased \in Int, Purchased' \in Int,
         \A k \in Requests :
           \/ ConsumedIn(S, k) = {}
           \/ ConsumedIn(ledger, k) = {} /\ QuantitySum(ConsumedIn(S, k)) = 0 - Quantity[k]
  PROVE  LedgerInv'
<1>1. ledger \cap S = {} /\ Bookable(ledger)
  BY InsertableIsNew DEF LedgerInv
<1>2. /\ Bookable(ledger')
      /\ Booked(ledger', "INCLUDED") = Booked(ledger, "INCLUDED") + Booked(S, "INCLUDED")
      /\ Booked(ledger', "PURCHASED") = Booked(ledger, "PURCHASED") + Booked(S, "PURCHASED")
  <2>1. /\ Bookable(ledger \cup S)
        /\ Together(ledger, S, "INCLUDED") /\ Together(ledger, S, "PURCHASED")
    BY <1>1, BookedAdds
  <2>. QED  BY <2>1 DEF Together
<1>3. Booked(ledger', "INCLUDED") = Included' /\ Booked(ledger', "PURCHASED") = Purchased'
  BY <1>2 DEF LedgerInv
<1>4. ASSUME NEW k \in Requests, ConsumedIn(ledger', k) # {}
      PROVE  QuantitySum(ConsumedIn(ledger', k)) = 0 - Quantity[k]
  <2>1. ConsumedIn(ledger', k) = ConsumedIn(ledger, k) \cup ConsumedIn(S, k)
    BY DEF ConsumedIn
  <2>2. CASE ConsumedIn(S, k) = {}
    BY <1>4, <2>1, <2>2 DEF LedgerInv
  <2>3. CASE ConsumedIn(ledger, k) = {} /\ QuantitySum(ConsumedIn(S, k)) = 0 - Quantity[k]
    BY <2>1, <2>3
  <2>. QED  BY <2>2, <2>3
<1>. QED  BY <1>2, <1>3, <1>4 DEF LedgerInv

\* The account in use holds what its columns say.
LEMMA BalanceOf ==
  ASSUME account \in {None} \cup Accounts
  PROVE  /\ Included \in Int /\ Purchased \in Int
         /\ account \in Accounts => Included = account.included /\ Purchased = account.purchased
BY NoneAssumption DEF Included, Purchased, Accounts

LEMMA BalanceOfNext ==
  ASSUME account' \in {None} \cup Accounts
  PROVE  /\ Included' \in Int /\ Purchased' \in Int
         /\ account' \in Accounts => Included' = account'.included /\ Purchased' = account'.purchased
BY NoneAssumption DEF Included, Purchased, Accounts

\* Bringing the account up to date, alone.
LEMMA SyncLedger ==
  ASSUME IInv, LedgerInv, NEW s \in Snapshot, Insertable(SyncEntries(s)),
         account' = Synced(s), ledger' = ledger \cup SyncEntries(s)
  PROVE  LedgerInv'
<1>1. account \in {None} \cup Accounts /\ account' \in Accounts
  BY SyncedType DEF IInv, TypeOK
<1>2. /\ Included \in Int /\ Purchased \in Int /\ Included' \in Int /\ Purchased' \in Int
      /\ Included' = Synced(s).included /\ Purchased' = Synced(s).purchased
  BY <1>1, BalanceOf, BalanceOfNext
<1>3. /\ Bookable(SyncEntries(s))
      /\ Booked(SyncEntries(s), "INCLUDED") = Included' - Included
      /\ Booked(SyncEntries(s), "PURCHASED") = Purchased' - Purchased
      /\ \A x \in SyncEntries(s) : x.key[1] \in {"initial", "reset"}
  BY <1>1, <1>2, SyncBooks
<1>4. \A k \in Requests : ConsumedIn(SyncEntries(s), k) = {}
  BY <1>3 DEF ConsumedIn
<1>. QED  BY <1>2, <1>3, <1>4, LedgerGains

\* Bringing it up to date and then taking or adding credits.
LEMMA SyncAndBook ==
  ASSUME IInv, LedgerInv, NEW S, Bookable(S), Insertable(SyncEntries(row) \cup S),
         \A x \in S : x.key[1] \notin {"initial", "reset"},
         account' \in Accounts, ledger' = ledger \cup (SyncEntries(row) \cup S),
         Booked(S, "INCLUDED") = account'.included - Synced(row).included,
         Booked(S, "PURCHASED") = account'.purchased - Synced(row).purchased,
         \A k \in Requests :
           \/ ConsumedIn(S, k) = {}
           \/ ConsumedIn(ledger, k) = {} /\ QuantitySum(ConsumedIn(S, k)) = 0 - Quantity[k]
  PROVE  LedgerInv'
<1>. DEFINE D == SyncEntries(row)
<1>1. account \in {None} \cup Accounts /\ row \in Snapshot /\ Synced(row) \in Accounts
  BY SyncedType DEF IInv, TypeOK
<1>2. /\ Included \in Int /\ Purchased \in Int /\ Included' \in Int /\ Purchased' \in Int
      /\ Included' = account'.included /\ Purchased' = account'.purchased
  BY <1>1, BalanceOf, BalanceOfNext
<1>3. /\ Bookable(D) /\ \A x \in D : x.key[1] \in {"initial", "reset"}
      /\ Booked(D, "INCLUDED") = Synced(row).included - Included
      /\ Booked(D, "PURCHASED") = Synced(row).purchased - Purchased
  BY <1>1, SyncBooks
<1>4. Synced(row).included \in Int /\ Synced(row).purchased \in Int
  BY <1>1 DEF Accounts
<1>. HIDE DEF D
<1>5. D \cap S = {}
  BY <1>3
<1>6. Bookable(D \cup S) /\ Together(D, S, "INCLUDED") /\ Together(D, S, "PURCHASED")
  BY <1>3, <1>5, BookedAdds
<1>7. /\ Booked(D \cup S, "INCLUDED") = Included' - Included
      /\ Booked(D \cup S, "PURCHASED") = Purchased' - Purchased
  BY <1>2, <1>3, <1>4, <1>6 DEF Together
<1>8. \A k \in Requests : ConsumedIn(D \cup S, k) = ConsumedIn(S, k)
  BY <1>3 DEF ConsumedIn
<1>9. Insertable(D \cup S) /\ ledger' = ledger \cup (D \cup S)
  BY DEF D
<1>. QED  BY <1>2, <1>6, <1>7, <1>8, <1>9, LedgerGains

LEMMA ConsumeLedger ==
  ASSUME IInv, LedgerInv, NEW k \in Requests, Consume(k)
  PROVE  LedgerInv'
<1>. DEFINE a == Synced(row)
            used == IncludedUsed(a, Quantity[k])
            S == Consumption(a, k)
<1>1. row \in Snapshot /\ a \in Accounts
  BY SyncedType DEF IInv, TypeOK
<1>2. CASE Previous(k)
  <2>1. account' = a /\ ledger' = ledger \cup SyncEntries(row) /\ Insertable(SyncEntries(row))
    BY <1>2 DEF Consume
  <2>. QED  BY <1>1, <2>1, SyncLedger
<1>3. CASE ~Previous(k)
  <2>1. /\ Insertable(SyncEntries(row) \cup S) /\ ledger' = ledger \cup (SyncEntries(row) \cup S)
        /\ account' = [a EXCEPT !.included = @ - used, !.purchased = @ - (Quantity[k] - used)]
        /\ a.included + a.purchased >= Quantity[k]
    BY <1>3 DEF Consume
  <2>2. /\ Bookable(S) /\ used \in Int
        /\ Booked(S, "INCLUDED") = 0 - used
        /\ Booked(S, "PURCHASED") = 0 - (Quantity[k] - used)
        /\ QuantitySum(S) = 0 - Quantity[k]
        /\ \A x \in S : x.key[1] = "consume" /\ x.key[2] = k
    BY <1>1, ConsumptionBooks
  <2>3. /\ a.included \in Int /\ a.purchased \in Int /\ Quantity[k] \in Int
        /\ account'.included = a.included - used
        /\ account'.purchased = a.purchased - (Quantity[k] - used)
    BY <1>1, <2>1, CreditsAssumption DEF Accounts
  <2>4. account' \in Accounts
    <3>1. a.included - used \in Nat /\ a.purchased - (Quantity[k] - used) \in Nat
      BY <1>1, <2>1, CreditsAssumption DEF IncludedUsed, Accounts
    <3>. HIDE DEF a, used
    <3>. QED  BY <1>1, <2>1, <3>1 DEF Accounts
  <2>5. ASSUME NEW j \in Requests
        PROVE  \/ ConsumedIn(S, j) = {}
               \/ ConsumedIn(ledger, j) = {} /\ QuantitySum(ConsumedIn(S, j)) = 0 - Quantity[j]
    <3>. HIDE DEF S, a
    <3>1. CASE j = k
      <4>1. ConsumedIn(S, j) = S /\ ConsumedIn(ledger, j) = {}
        BY <1>3, <2>2, <3>1 DEF ConsumedIn, Previous
      <4>. QED  BY <2>2, <3>1, <4>1
    <3>2. CASE j # k
      BY <2>2, <3>2 DEF ConsumedIn
    <3>. QED  BY <3>1, <3>2
  <2>6. /\ Booked(S, "INCLUDED") = account'.included - a.included
        /\ Booked(S, "PURCHASED") = account'.purchased - a.purchased
    <3>. HIDE DEF S, a, used
    <3>. QED  BY <2>2, <2>3
  <2>7. \A x \in S : x.key[1] \notin {"initial", "reset"}
    BY <2>2
  <2>8. /\ Booked(S, "INCLUDED") = account'.included - Synced(row).included
        /\ Booked(S, "PURCHASED") = account'.purchased - Synced(row).purchased
    BY <2>6
  <2>. HIDE DEF S, a, used
  <2>. QED  BY <2>1, <2>2, <2>4, <2>5, <2>7, <2>8, SyncAndBook
<1>. QED  BY <1>2, <1>3

LEMMA PackLedger ==
  ASSUME IInv, LedgerInv, NEW p \in Packs, NEW d \in Deliveries, PackWebhook(p, d), ~Granted(p)
  PROVE  LedgerInv'
<1>. DEFINE S == {Entry(<<"purchase", p>>, "PURCHASED", PackCredits)}
<1>1. /\ Insertable(SyncEntries(row) \cup S) /\ ledger' = ledger \cup (SyncEntries(row) \cup S)
      /\ account' = [Synced(row) EXCEPT !.purchased = @ + PackCredits]
  BY DEF PackWebhook
<1>2. Synced(row) \in Accounts /\ PackCredits \in Nat
  BY SyncedType, CreditsAssumption DEF IInv, TypeOK
<1>3. /\ account' \in Accounts
      /\ account'.included = Synced(row).included
      /\ account'.purchased = Synced(row).purchased + PackCredits
      /\ Synced(row).included \in Int /\ Synced(row).purchased \in Int
  BY <1>1, <1>2 DEF Accounts
<1>4. Bookable(S) /\ Booked(S, "INCLUDED") = 0 /\ Booked(S, "PURCHASED") = PackCredits
  BY <1>2, OneEntry
<1>5. \A x \in S : x.key[1] = "purchase"
  <2>1. \A x \in S : x.key = <<"purchase", p>>
    BY DEF Entry
  <2>2. <<"purchase", p>>[1] = "purchase"
    OBVIOUS
  <2>. QED  BY <2>1, <2>2
<1>. HIDE DEF S
<1>6. \A k \in Requests : ConsumedIn(S, k) = {}
  BY <1>5 DEF ConsumedIn
<1>7. /\ Booked(S, "INCLUDED") = account'.included - Synced(row).included
      /\ Booked(S, "PURCHASED") = account'.purchased - Synced(row).purchased
  BY <1>2, <1>3, <1>4
<1>8. \A x \in S : x.key[1] \notin {"initial", "reset"}
  BY <1>5
<1>. QED  BY <1>1, <1>3, <1>4, <1>6, <1>7, <1>8, SyncAndBook

LEMMA NextLedgerInv == IInv /\ LedgerInv /\ [Next]_vars => LedgerInv'
<1>. SUFFICES ASSUME IInv, LedgerInv, [Next]_vars PROVE LedgerInv'
  OBVIOUS
<1>1. ASSUME UNCHANGED credits PROVE LedgerInv'
  BY <1>1 DEF credits, LedgerInv, Included, Purchased
<1>2. ASSUME NEW o \in Readers, Balance(o) PROVE LedgerInv'
  <2>1. overview[o] \in Snapshot
    BY <1>2 DEF Balance, IInv, TypeOK
  <2>2. CASE Insertable(SyncEntries(overview[o]))
    BY <1>2, <2>1, <2>2, SyncLedger DEF Balance
  <2>3. CASE ~Insertable(SyncEntries(overview[o]))
    BY <1>1, <1>2, <2>3 DEF Balance
  <2>. QED  BY <2>2, <2>3
<1>3. ASSUME NEW p \in Packs, NEW d \in Deliveries, PackWebhook(p, d) PROVE LedgerInv'
  BY <1>1, <1>3, PackLedger DEF PackWebhook
<1>4. ASSUME NEW s \in Subscriptions, StartCheckout(s) \/ Pay(s) \/ Change(s) PROVE LedgerInv'
  BY <1>1, <1>4 DEF StartCheckout, Pay, Change, Report
<1>5. ASSUME NEW e \in sent, Webhook(e) PROVE LedgerInv'
  BY <1>1, <1>5 DEF Webhook
<1>6. ASSUME NEW p \in Packs, PayPack(p) PROVE LedgerInv'
  BY <1>1, <1>6 DEF PayPack
<1>7. ASSUME NEW o \in Readers, ReadOverview(o) PROVE LedgerInv'
  BY <1>1, <1>7 DEF ReadOverview
<1>8. ASSUME NEW k \in Requests, Consume(k) PROVE LedgerInv'
  BY <1>8, ConsumeLedger
<1>9. CASE UNCHANGED vars
  BY <1>1, <1>9 DEF vars
<1>. QED  BY <1>2, <1>3, <1>4, <1>5, <1>6, <1>7, <1>8, <1>9 DEF Next

LEMMA InitLedgerInv == Init => LedgerInv
<1>. SUFFICES ASSUME Init PROVE LedgerInv
  OBVIOUS
<1>1. ledger = {} /\ Included = 0 /\ Purchased = 0
  BY DEF Init, Included, Purchased
<1>2. \A k : ConsumedIn(ledger, k) = {}
  BY <1>1 DEF ConsumedIn
<1>. QED  BY <1>1, <1>2, NoEntry DEF LedgerInv

\* The invariant says what the properties say.
LEMMA LedgerSays == LedgerInv => LedgerBalances /\ ConsumedOnce
<1>. SUFFICES ASSUME LedgerInv PROVE LedgerBalances /\ ConsumedOnce
  OBVIOUS
<1>1. \A bucket : Total(bucket) = Booked(ledger, bucket)
  BY DEF Total, Booked, QuantitySum
<1>2. LedgerBalances
  BY <1>1 DEF LedgerBalances, LedgerInv, Included, Purchased
<1>3. ConsumedOnce
  BY DEF ConsumedOnce, LedgerInv, ConsumedIn, QuantitySum
<1>. QED  BY <1>2, <1>3

-----------------------------------------------------------------------------
(* The row and the provider.                                                *)

\* The provider's newest event tells the state of its subscription, and the
\* row has the plan of the subscription it names.
NewestInv ==
  /\ \A e \in sent : e.at <= clock
  /\ \A s \in Subscriptions : paddle[s].status # None => sent # {}
  /\ \A e \in sent : (\A f \in sent : f.at <= e.at) => StatusOf(e) = paddle[e.sub].status
  /\ row.last # 0 => row.plan = IF row.status = "CANCELED" THEN "FREE" ELSE checkout[row.id]

\* Events newer than all before them, of one subscription and with its new
\* state, are the newest.
LEMMA NewerEvents ==
  ASSUME IInv, IInv', NewestInv, UNCHANGED <<row, checkout>>,
         NEW s \in Subscriptions, sent \subseteq sent', sent' # {}, clock < clock',
         \E e \in sent' : e \notin sent,
         \A e \in sent' \ sent :
           /\ clock < e.at /\ e.at <= clock' /\ e.sub = s
           /\ StatusOf(e) = paddle'[s].status
  PROVE  NewestInv'
<1>1. /\ clock \in Nat /\ clock' \in Nat
      /\ \A e \in sent' : e.at \in Nat
  BY DEF IInv, TypeOK, ProviderInv, Events, Clock
<1>2. \A e \in sent' : e.at <= clock'
  BY <1>1 DEF NewestInv
<1>3. ASSUME NEW e \in sent', \A f \in sent' : f.at <= e.at
      PROVE  StatusOf(e) = paddle'[e.sub].status
  <2>1. e \notin sent
    BY <1>1, <1>3 DEF NewestInv
  <2>. QED  BY <2>1
<1>4. \A e : StatusOf(e)' = StatusOf(e)
  BY DEF StatusOf
<1>. QED  BY <1>2, <1>3, <1>4 DEF NewestInv

LEMMA ReportNewest ==
  ASSUME IInv, IInv', NewestInv, NEW s \in Subscriptions, NEW status, NEW period,
         Report(s, status, period)
  PROVE  NewestInv'
<1>1. /\ UNCHANGED <<row, checkout>> /\ clock' = clock + 1 /\ clock \in Nat
      /\ paddle'[s].status = status
  BY DEF Report, api, IInv, TypeOK, ProviderInv, Clock
<1>2. PICK bound \in Bindings :
        sent' = sent \cup {Event(clock + 1, "subscription", s, status, period, bound)}
  BY DEF Report
<1>. DEFINE e == Event(clock + 1, "subscription", s, status, period, bound)
<1>3. e.at = clock + 1 /\ e.sub = s /\ StatusOf(e) = status
  BY DEF Event, StatusOf
<1>4. sent' = sent \cup {e}
  BY <1>2
<1>. HIDE DEF e
<1>5. e \notin sent
  BY <1>1, <1>3 DEF NewestInv
<1>. QED  BY <1>1, <1>3, <1>4, <1>5, NewerEvents

LEMMA PayNewest ==
  ASSUME IInv, IInv', NewestInv, NEW s \in Subscriptions, Pay(s)
  PROVE  NewestInv'
<1>1. /\ UNCHANGED <<row, checkout>> /\ clock' = clock + 2 /\ clock \in Nat
      /\ paddle'[s].status = "ACTIVE"
  BY DEF Pay, api, IInv, TypeOK, ProviderInv, Clock
<1>2. PICK t \in {clock + 1, clock + 2}, u \in {clock + 1, clock + 2} :
        sent' = sent \cup {Event(t, "transaction", s, None, None, TRUE),
                           Event(u, "subscription", s, "ACTIVE", clock + 1, TRUE)}
  BY DEF Pay
<1>. DEFINE e == Event(t, "transaction", s, None, None, TRUE)
            f == Event(u, "subscription", s, "ACTIVE", clock + 1, TRUE)
<1>3. /\ e.at = t /\ e.sub = s /\ StatusOf(e) = "ACTIVE"
      /\ f.at = u /\ f.sub = s /\ StatusOf(f) = "ACTIVE"
  BY DEF Event, StatusOf
<1>4. sent' = sent \cup {e, f}
  BY <1>2
<1>. HIDE DEF e, f
<1>5. e \notin sent
  BY <1>1, <1>2, <1>3 DEF NewestInv
<1>6. \A x \in sent' \ sent : clock < x.at /\ x.at <= clock' /\ x.sub = s /\ StatusOf(x) = "ACTIVE"
  <2>1. clock < t /\ t <= clock' /\ clock < u /\ u <= clock'
    BY <1>1
  <2>2. \A x \in sent' \ sent : x = e \/ x = f
    BY <1>4
  <2>. QED  BY <1>3, <2>1, <2>2
<1>. QED  BY <1>1, <1>4, <1>5, <1>6, NewerEvents

LEMMA NextNewestInv == IInv /\ IInv' /\ NewestInv /\ [Next]_vars => NewestInv'
<1>. SUFFICES ASSUME IInv, IInv', NewestInv, [Next]_vars PROVE NewestInv'
  OBVIOUS
<1>0. \A e : StatusOf(e)' = StatusOf(e)
  BY DEF StatusOf
<1>1. ASSUME UNCHANGED <<row, checkout, paddle, sent, clock>> PROVE NewestInv'
  BY <1>0, <1>1 DEF NewestInv
<1>2. ASSUME NEW s \in Subscriptions, Pay(s) \/ Change(s) PROVE NewestInv'
  BY <1>2, PayNewest, ReportNewest DEF Change
<1>3. ASSUME NEW s \in Subscriptions, StartCheckout(s) PROVE NewestInv'
  <2>1. UNCHANGED <<row, paddle, sent, clock>>
    BY <1>3 DEF StartCheckout, provider
  <2>2. row.last # 0 => row.id \in Subscriptions /\ checkout[row.id] \in Paid
    BY DEF IInv, TypeOK, ProviderInv, RowIsNewest, Events
  <2>3. row.last # 0 => checkout'[row.id] = checkout[row.id]
    BY <1>3, <2>2, NoneAssumption DEF StartCheckout, Plans, IInv, TypeOK
  <2>. QED  BY <1>0, <2>1, <2>3 DEF NewestInv
<1>4. ASSUME NEW e \in sent, Webhook(e) PROVE NewestInv'
  <2>1. UNCHANGED <<checkout, paddle, sent, clock>>
    BY <1>4 DEF Webhook, provider
  <2>2. CASE row' = row
    BY <1>0, <2>1, <2>2 DEF NewestInv
  <2>3. CASE row' = SubscriptionUpdate(e)
    BY <1>0, <2>1, <2>3 DEF NewestInv, SubscriptionUpdate
  <2>. QED  BY <1>4, <2>2, <2>3 DEF Webhook
<1>5. ASSUME NEW p \in Packs, PayPack(p) \/ \E d \in Deliveries : PackWebhook(p, d) PROVE NewestInv'
  BY <1>1, <1>5 DEF PayPack, PackWebhook, api, provider
<1>6. ASSUME NEW o \in Readers, ReadOverview(o) \/ Balance(o) PROVE NewestInv'
  BY <1>1, <1>6 DEF ReadOverview, Balance, api, provider
<1>7. ASSUME NEW k \in Requests, Consume(k) PROVE NewestInv'
  BY <1>1, <1>7 DEF Consume, api, provider
<1>8. CASE UNCHANGED vars
  BY <1>1, <1>8 DEF vars, api, provider
<1>. QED  BY <1>2, <1>3, <1>4, <1>5, <1>6, <1>7, <1>8 DEF Next

LEMMA InitNewestInv == Init => NewestInv
BY DEF Init, NewestInv, Unsubscribed

\* When everything was received, the row is of the newest event, which tells
\* the state of the only subscription.
LEMMA NewestAgrees ==
  ASSUME \A s, t \in Subscriptions : s = t, IInv, NewestInv
  PROVE  AgreesWithProvider
<1>. SUFFICES ASSUME NEW s \in Subscriptions, paddle[s].status # None, sent = recorded
              PROVE  /\ row.status = paddle[s].status
                     /\ EffectivePlan(row) =
                          IF paddle[s].status \in {"ACTIVE", "PAST_DUE"} THEN checkout[s] ELSE "FREE"
  BY DEF AgreesWithProvider
<1>1. PICK f : f \in sent
  BY DEF NewestInv
<1>2. row.last # 0
  BY <1>1 DEF IInv, ProviderInv, Events, RowIsNewest, Clock, TypeOK, Snapshot
<1>3. PICK e \in recorded : e.at = row.last /\ e.sub = row.id /\ row.status = StatusOf(e)
  BY <1>2 DEF IInv, RowIsNewest
<1>4. row.status = paddle[e.sub].status
  BY <1>3 DEF IInv, RowIsNewest, NewestInv
<1>5. e.sub = s
  BY <1>3 DEF IInv, ProviderInv, Events
<1>6. row.plan = IF row.status = "CANCELED" THEN "FREE" ELSE checkout[s]
  BY <1>2, <1>3, <1>5 DEF NewestInv
<1>. QED  BY <1>4, <1>5, <1>6 DEF EffectivePlan

-----------------------------------------------------------------------------
(* The theorems.                                                            *)

LEMMA Invariance == Spec => []IInv
BY InitIInv, NextIInv, PTL DEF Spec

\* The rows hold values of their columns and no balance is ever negative,
\* whatever is consumed, granted and reset in whatever order.
THEOREM TypeCorrect == Spec => []TypeOK
BY Invariance, PTL DEF IInv

\* The subscription row is the outcome of the newest event the webhook has
\* recorded, for any events delivered in any order.
THEOREM RowIsNewestHolds == Spec => []RowIsNewest
BY Invariance, PTL DEF IInv

\* The balances are the sums of the ledger's entries, for any allowances,
\* purchases, consumptions and overviews in any order.
THEOREM LedgerBalancesHolds == Spec => []LedgerBalances
<1>1. Spec => []LedgerInv
  BY Invariance, InitLedgerInv, NextLedgerInv, PTL DEF Spec
<1>. QED  BY <1>1, LedgerSays, PTL

\* A consumption is in the ledger once and in its whole quantity, however
\* often its key is repeated and from whatever buckets it was taken.
THEOREM ConsumedOnceHolds == Spec => []ConsumedOnce
<1>1. Spec => []LedgerInv
  BY Invariance, InitLedgerInv, NextLedgerInv, PTL DEF Spec
<1>. QED  BY <1>1, LedgerSays, PTL

\* With one subscription, the workspace has the state and the plan the
\* provider has, as soon as the webhook has recorded all its events: for any
\* length of the subscription's history, received in any order.
THEOREM AgreesWithProviderHolds ==
  ASSUME \A s, t \in Subscriptions : s = t
  PROVE  Spec => []AgreesWithProvider
<1>1. Spec => []NewestInv
  BY Invariance, InitNewestInv, NextNewestInv, PTL DEF Spec
<1>2. IInv /\ NewestInv => AgreesWithProvider
  BY NewestAgrees
<1>. QED  BY <1>1, <1>2, Invariance, PTL

================================================================================
