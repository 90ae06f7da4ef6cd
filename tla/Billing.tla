------------------------------- MODULE Billing -------------------------------
(***************************************************************************)
(* A workspace's subscription and its message credits: the Paddle webhook  *)
(* that keeps the subscription row, and the credit account with its        *)
(* ledger, brought up to date lazily from the subscription by whoever      *)
(* touches it next (the billing overview, a consumption, a purchase).      *)
(*                                                                         *)
(* Paddle is external: it numbers what happens to its subscriptions and    *)
(* delivers each event at least once, in any order. Webhooks of one        *)
(* workspace are serialized by an advisory lock, users of the account by   *)
(* another; an overview reads the subscription before it takes the lock.   *)
(***************************************************************************)
EXTENDS Naturals, Integers, FiniteSetsExt

CONSTANTS
  Subscriptions,  \* subscriptions the provider may create for the workspace
  Paid,           \* the paid plans
  Allowance,      \* MESSAGING_CREDITS of each plan
  Packs,          \* credit pack transactions the owner may pay for
  PackCredits,    \* credits of a pack
  Deliveries,     \* event ids under which a pack's completion may arrive
  Requests,       \* idempotency keys of consumptions
  Quantity,       \* the quantity each of them consumes
  Readers,        \* concurrent billing overviews
  Moves,          \* what may happen to a subscription at the provider
  Bindings,       \* may later events carry the checkout's assignment token
  MaxClock,       \* bound on the provider's events
  None            \* NULL

ASSUME PlansAssumption == /\ "FREE" \notin Paid
                          /\ Allowance \in [Paid \cup {"FREE"} -> Nat \ {0}]
ASSUME CreditsAssumption == /\ PackCredits \in Nat \ {0}
                            /\ Quantity \in [Requests -> Nat \ {0}]
ASSUME ProviderAssumption ==
  /\ Moves \subseteq {"renew", "past_due", "pause", "resume", "cancel"}
  /\ Bindings \subseteq BOOLEAN /\ MaxClock \in Nat
Plans == Paid \cup {"FREE"}
Status == {"FREE", "ACTIVE", "PAST_DUE", "PAUSED", "CANCELED"}
Clock == 0 .. MaxClock

Accounts == [included : Nat, purchased : Nat, plan : Plans, period : Clock \cup {None}]

ASSUME NoneAssumption ==
  None \notin Nat \cup Subscriptions \cup Plans \cup Status /\ None \notin Accounts

VARIABLES
  row,        \* workspace_subscriptions
  recorded,   \* workspace_billing_provider_events, of subscriptions
  granted,    \* ... and of credit packs
  checkout,   \* the plan of the checkout that starts a subscription
  account,    \* workspace_message_credit_accounts, None before the first use
  ledger,     \* workspace_message_credit_entries
  overview,   \* the subscription an overview has read, None when idle
  paddle,     \* the provider's subscriptions
  sent,       \* the provider's subscription events
  paid,       \* the pack transactions completed at the provider
  clock       \* occurred_at of the provider's latest event

api == <<row, recorded, granted, checkout>>
credits == <<account, ledger>>
provider == <<paddle, sent, paid, clock>>
vars == <<api, credits, overview, provider>>

Unsubscribed == [plan |-> "FREE", status |-> "FREE", period |-> None, last |-> 0, id |-> None]

Init ==
  /\ row = Unsubscribed
  /\ recorded = {} /\ granted = {}
  /\ checkout = [s \in Subscriptions |-> None]
  /\ account = None /\ ledger = {}
  /\ overview = [o \in Readers |-> None]
  /\ paddle = [s \in Subscriptions |-> [status |-> None, period |-> None, first |-> None]]
  /\ sent = {} /\ paid = {} /\ clock = 0

-----------------------------------------------------------------------------
(* The provider, external.                                                  *)

Event(at, type, s, status, period, bound) ==
  [at |-> at, type |-> type, sub |-> s, status |-> status, period |-> period, bound |-> bound]

\* The owner pays a subscription checkout: the transaction and the new
\* subscription are reported in either order or with the same time.
Pay(s) ==
  /\ checkout[s] # None /\ paddle[s].status = None
  /\ clock + 2 <= MaxClock /\ clock' = clock + 2
  /\ LET start == clock + 1 IN
       /\ paddle' = [paddle EXCEPT ![s] = [status |-> "ACTIVE", period |-> start, first |-> start]]
       /\ \E t, u \in {clock + 1, clock + 2} :
            sent' = sent \cup {Event(t, "transaction", s, None, None, TRUE),
                              Event(u, "subscription", s, "ACTIVE", start, TRUE)}
  /\ UNCHANGED <<api, credits, overview, paid>>

\* The subscription changes at the provider, which reports it.
Report(s, status, period) ==
  /\ clock < MaxClock /\ clock' = clock + 1
  /\ paddle' = [paddle EXCEPT ![s] =
       [status |-> status, period |-> IF period = None THEN @.period ELSE period, first |-> @.first]]
  /\ \E bound \in Bindings :
       sent' = sent \cup {Event(clock + 1, "subscription", s, status, period, bound)}
  /\ UNCHANGED <<api, credits, overview, paid>>

Change(s) ==
  \/ /\ "renew" \in Moves /\ paddle[s].status \in {"ACTIVE", "PAST_DUE"}
     /\ Report(s, "ACTIVE", clock + 1)
  \/ /\ "past_due" \in Moves /\ paddle[s].status = "ACTIVE"
     /\ Report(s, "PAST_DUE", paddle[s].period)
  \/ /\ "pause" \in Moves /\ paddle[s].status = "ACTIVE"
     /\ Report(s, "PAUSED", None)
  \/ /\ "resume" \in Moves /\ paddle[s].status = "PAUSED"
     /\ \E start \in {paddle[s].period, clock + 1} : Report(s, "ACTIVE", start)
  \/ /\ "cancel" \in Moves /\ paddle[s].status \in {"ACTIVE", "PAST_DUE", "PAUSED"}
     /\ Report(s, "CANCELED", None)

PayPack(p) ==
  /\ p \notin paid /\ paid' = paid \cup {p}
  /\ UNCHANGED <<api, credits, overview, paddle, sent, clock>>

-----------------------------------------------------------------------------
(* The subscription row: workspace-billing.service.                         *)

\* startCheckout: a workspace with a subscription is sent to the portal.
StartCheckout(s) ==
  /\ row.id = None /\ checkout[s] = None
  /\ \E plan \in Paid : checkout' = [checkout EXCEPT ![s] = plan]
  /\ UNCHANGED <<row, recorded, granted, credits, overview, provider>>

\* weddingos_resolve_workspace_billing_event: by the checkout's token or
\* transaction, else by the subscription id on the row.
Resolved(e) == e.bound \/ row.id = e.sub

StatusOf(e) == IF e.type = "transaction" THEN "ACTIVE" ELSE e.status

\* subscriptionUpdate: a missing billing period leaves the recorded one.
SubscriptionUpdate(e) ==
  [plan   |-> IF StatusOf(e) = "CANCELED" THEN "FREE" ELSE checkout[e.sub],
   status |-> StatusOf(e),
   period |-> IF e.period = None THEN row.period ELSE e.period,
   last   |-> e.at,
   id     |-> e.sub]

\* Mutant: events are applied as they come.
StaleNever(e) == FALSE

Stale(e) == e.at <= row.last

\* The webhook, one transaction. An event that resolves to no workspace, and
\* a duplicate, change nothing.
Webhook(e) ==
  /\ e \in sent \ recorded /\ Resolved(e)
  /\ row' = IF Stale(e) THEN row ELSE SubscriptionUpdate(e)
  /\ recorded' = recorded \cup {e}
  /\ UNCHANGED <<granted, checkout, credits, overview, provider>>

-----------------------------------------------------------------------------
(* The account: message-credit.service.                                     *)

EffectivePlan(s) == IF s.status \in {"ACTIVE", "PAST_DUE"} THEN s.plan ELSE "FREE"

Entry(key, bucket, quantity) == [key |-> key, bucket |-> bucket, quantity |-> quantity]

PeriodStart(s) == IF EffectivePlan(s) = "FREE" THEN None ELSE s.period

\* The plan or the paid period differs from the one of the last allowance.
Outdated(a, s) ==
  \/ a.plan # EffectivePlan(s)
  \/ /\ EffectivePlan(s) # "FREE" /\ a.period # None
     /\ PeriodStart(s) # None /\ a.period # PeriodStart(s)

\* syncLocked: the account after the allowance of subscription s.
Synced(s) ==
  LET plan == EffectivePlan(s) IN
  IF account = None
  THEN [included |-> Allowance[plan], purchased |-> 0, plan |-> plan, period |-> PeriodStart(s)]
  ELSE IF Outdated(account, s)
  THEN [account EXCEPT !.included = IF plan = "FREE" THEN 0 ELSE Allowance[plan],
                       !.plan = plan, !.period = PeriodStart(s)]
  ELSE IF plan # "FREE" /\ account.period = None
  THEN [account EXCEPT !.period = PeriodStart(s)]
  ELSE account

\* Mutant: a reset books the whole allowance.
SyncEntriesFull(s) ==
  LET key(reason) == <<reason, EffectivePlan(s), PeriodStart(s)>>
      booked == Synced(s).included
  IN IF account = None
     THEN {Entry(key("initial"), "INCLUDED", booked)}
     ELSE IF Outdated(account, s) /\ booked # 0
     THEN {Entry(key("reset"), "INCLUDED", booked)} ELSE {}

\* ... and the ledger entries it writes.
SyncEntries(s) ==
  LET key(reason) == <<reason, EffectivePlan(s), PeriodStart(s)>>
      delta == Synced(s).included - account.included
  IN IF account = None
     THEN {Entry(key("initial"), "INCLUDED", Synced(s).included)}
     ELSE IF Outdated(account, s) /\ delta # 0
     THEN {Entry(key("reset"), "INCLUDED", delta)} ELSE {}

\* The unique index on idempotency_key: otherwise the transaction fails.
Insertable(entries) == \A x \in entries : \A y \in ledger : x.key # y.key

\* The overview reads the subscription ...
ReadOverview(o) ==
  /\ overview[o] = None
  /\ overview' = [overview EXCEPT ![o] = row]
  /\ UNCHANGED <<api, credits, provider>>

\* ... and then, under the account's lock, its balance.
Balance(o) ==
  /\ overview[o] # None
  /\ IF Insertable(SyncEntries(overview[o]))
     THEN account' = Synced(overview[o]) /\ ledger' = ledger \cup SyncEntries(overview[o])
     ELSE UNCHANGED credits
  /\ overview' = [overview EXCEPT ![o] = None]
  /\ UNCHANGED <<api, provider>>

\* Mutant: only the included part of an earlier consumption is looked for.
PreviousIncluded(k) == \E x \in ledger : x.key = <<"consume", k, "INCLUDED">>

Previous(k) == \E x \in ledger : x.key[1] = "consume" /\ x.key[2] = k

\* Mutant: a consumption is taken from the included credits alone.
IncludedUsedAll(a, q) == q

\* allocateMessageCreditConsumption.
IncludedUsed(a, q) == IF a.included < q THEN a.included ELSE q

Consumption(a, k) ==
  LET used == IncludedUsed(a, Quantity[k])
      part(bucket, q) == IF q = 0 THEN {} ELSE {Entry(<<"consume", k, bucket>>, bucket, 0 - q)}
  IN part("INCLUDED", used) \cup part("PURCHASED", Quantity[k] - used)

\* consume, under the lock; a repeated key is answered with the balance.
Consume(k) ==
  LET a == Synced(row)
      used == IncludedUsed(a, Quantity[k])
      entries == IF Previous(k) THEN SyncEntries(row) ELSE SyncEntries(row) \cup Consumption(a, k)
  IN /\ Previous(k) \/ a.included + a.purchased >= Quantity[k]
     /\ Insertable(entries)
     /\ account' = IF Previous(k) THEN a
                   ELSE [a EXCEPT !.included = @ - used, !.purchased = @ - (Quantity[k] - used)]
     /\ ledger' = ledger \cup entries
     /\ UNCHANGED <<api, overview, provider>>

\* Mutant: any earlier purchase counts as this one.
GrantedAny(p) == \E x \in ledger : x.key[1] = "purchase"

Granted(p) == \E x \in ledger : x.key = <<"purchase", p>>

\* The webhook of a completed pack, with grantPurchase.
PackWebhook(p, d) ==
  /\ p \in paid /\ <<p, d>> \notin granted
  /\ IF Granted(p)
     THEN UNCHANGED credits
     ELSE LET entries == SyncEntries(row) \cup {Entry(<<"purchase", p>>, "PURCHASED", PackCredits)} IN
          /\ Insertable(entries)
          /\ account' = [Synced(row) EXCEPT !.purchased = @ + PackCredits]
          /\ ledger' = ledger \cup entries
  /\ granted' = granted \cup {<<p, d>>}
  /\ UNCHANGED <<row, recorded, checkout, overview, provider>>

-----------------------------------------------------------------------------

Next ==
  \/ \E s \in Subscriptions : StartCheckout(s) \/ Pay(s) \/ Change(s)
  \/ \E e \in sent : Webhook(e)
  \/ \E p \in Packs : PayPack(p) \/ \E d \in Deliveries : PackWebhook(p, d)
  \/ \E o \in Readers : ReadOverview(o) \/ Balance(o)
  \/ \E k \in Requests : Consume(k)

Spec == Init /\ [][Next]_vars

\* The provider redelivers what was not answered with success.
Fairness == \A p \in Packs, d \in Deliveries : WF_vars(PackWebhook(p, d))

FairSpec == Spec /\ Fairness

-----------------------------------------------------------------------------
(* Properties.                                                              *)

Snapshot == [plan : Plans, status : Status, period : Clock \cup {None}, last : Clock,
             id : Subscriptions \cup {None}]

\* The rows hold values of their columns; no balance is negative.
TypeOK ==
  /\ row \in Snapshot
  /\ recorded \subseteq sent /\ granted \subseteq Packs \X Deliveries
  /\ checkout \in [Subscriptions -> Paid \cup {None}]
  /\ account \in {None} \cup Accounts
  /\ overview \in [Readers -> Snapshot \cup {None}]
  /\ clock \in Clock

\* "Events are idempotent and monotone" (docs/adr ADR 0054): the row is the
\* outcome of the latest event that was recorded, in whatever order they came.
RowIsNewest ==
  /\ \A e \in recorded : e.at <= row.last
  /\ row.last # 0 =>
       \E e \in recorded :
         /\ e.at = row.last /\ e.sub = row.id
         /\ row.status = StatusOf(e) /\ (row.plan = "FREE") = (StatusOf(e) = "CANCELED")

\* With one subscription, the workspace's access is the provider's as soon as
\* all its events were received, in whatever order.
AgreesWithProvider ==
  \A s \in Subscriptions :
    paddle[s].status # None /\ sent = recorded =>
      /\ row.status = paddle[s].status
      /\ EffectivePlan(row) =
           IF paddle[s].status \in {"ACTIVE", "PAST_DUE"} THEN checkout[s] ELSE "FREE"

Total(bucket) ==
  MapThenSumSet(LAMBDA x : x.quantity, {x \in ledger : x.bucket = bucket})

\* The balances are the sums of the ledger: no allowance, purchase or
\* consumption is booked on one side only, concurrent overviews included.
LedgerBalances ==
  account # None =>
    account.included = Total("INCLUDED") /\ account.purchased = Total("PURCHASED")

\* A consumption repeated with its key, also after a renewal or a purchase
\* changed what it would be taken from, is booked once.
ConsumedOnce ==
  \A k \in Requests :
    LET booked == {x \in ledger : x.key[1] = "consume" /\ x.key[2] = k}
    IN booked # {} => MapThenSumSet(LAMBDA x : x.quantity, booked) = 0 - Quantity[k]

\* A pack the owner has paid for is credited.
PurchaseEventuallyCredited ==
  \A p \in Packs : p \in paid ~> \E x \in ledger : x.key[1] = "purchase" /\ x.key[2] = p

-----------------------------------------------------------------------------
(* What documentation says and the code does not do.                        *)

\* The included credits are per month: entering a later paid period of a
\* subscription brings its full allowance.
RenewalGrants ==
  [][account # None /\ account' # account
     /\ account'.plan \in Paid /\ account'.period # account.period
     /\ (\A s \in Subscriptions : account'.period # paddle[s].first)
       => account'.included = Allowance[account'.plan] \/ account'.plan # account.plan]_vars

\* Included credits are those of the recorded plan: an account that has the
\* allowance of the subscription keeps it until the subscription changes.
AllowanceFollowsSubscription ==
  [][account # None /\ account.plan = EffectivePlan(row) /\ row' = row /\ account' # account
       => account'.plan = account.plan]_vars

\* "ACTIVE and PAST_DUE retain the recorded paid plan": while a subscription
\* of the workspace is paid for, the workspace is not Free.
ActiveRetained ==
  (\E s \in Subscriptions : paddle[s].status \in {"ACTIVE", "PAST_DUE"}) /\ sent = recorded
    => EffectivePlan(row) # "FREE"

=============================================================================
