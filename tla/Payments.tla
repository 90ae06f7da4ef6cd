------------------------------ MODULE Payments -------------------------------
(***************************************************************************)
(* Online payments of one payment schedule entry: hosted checkouts, the    *)
(* provider's webhook, refunds and the append-only payment ledger          *)
(* (secure-commerce.service.ts).                                           *)
(*                                                                         *)
(* The provider is called between transactions, never inside one: a        *)
(* request may die at any point around the call, and be repeated with its  *)
(* idempotency key while its first execution is still under way. The       *)
(* webhook takes no lock; a refund takes an advisory lock per transaction, *)
(* which the webhook does not. PostgreSQL runs READ COMMITTED, so what a   *)
(* transaction has read may be old when it writes.                         *)
(*                                                                         *)
(* A checkout stands for its idempotency key and for its one payment at    *)
(* the provider, a refund for its key. Optimistic versions (If-Match) are  *)
(* left out: a caller with an old version is refused and reads again.      *)
(***************************************************************************)
EXTENDS Integers, FiniteSetsExt

CONSTANTS
  Checkouts,  \* idempotency keys of checkouts of the schedule entry
  Refunds,    \* idempotency keys of refund requests
  PaymentOf,  \* the checkout whose payment a refund request names
  Price,      \* the amount of the schedule entry
  Calls,      \* API requests under way at a time
  Hooks,      \* webhook requests under way at a time
  Types,      \* the event types the provider sends
  None

ASSUME DataAssumption ==
  /\ PaymentOf \in [Refunds -> Checkouts]
  /\ Checkouts \cap Refunds = {}
  /\ Price \in Nat \ {0}
  /\ Types \subseteq {"captured", "failed", "disputed", "dispute_won", "dispute_lost"}

ASSUME RefundsAssumption == IsFiniteSet(Refunds)

Active == {"CREATING", "OPEN"}
Reserving == {"REQUESTED", "PROCESSING", "SUCCEEDED"}
CheckoutStatus == Active \cup {"COMPLETED", "FAILED", "EXPIRED"}
Status == {"PENDING", "CAPTURED", "PARTIALLY_REFUNDED", "REFUNDED", "FAILED", "DISPUTED"}
AtProvider == {"OPEN", "EXPIRED", "CAPTURED", "FAILED"}

ASSUME NoneAssumption == None \notin CheckoutStatus \cup Status \cup AtProvider \cup Reserving

VARIABLES
  paid,      \* payment_schedule_entries.paid_minor
  checkout,  \* online_payment_checkouts
  trx,       \* online_payment_transactions, one per checkout
  refund,    \* online_payment_refunds
  ledger,    \* payment_records: a checkout is its PAYMENT, a refund its REFUND
  inbox,     \* payment_provider_events
  calls,     \* API requests: what each knows and does next
  hooks,     \* webhook requests: the event and the transaction as read
  payment,   \* at the provider: state of each payment
  dispute,   \* ... and of its dispute
  returned   \* ... and of each refund it accepted

tables == <<paid, checkout, trx, refund, ledger, inbox>>
provider == <<payment, dispute, returned>>
vars == <<tables, calls, hooks, provider>>

Amounts == 1 .. Price
Idle == [pc |-> "idle"]
NoTrx == [status |-> None, captured |-> 0, refunded |-> 0]

Init ==
  /\ paid = 0
  /\ checkout = [c \in Checkouts |-> [status |-> None, hosted |-> FALSE, amount |-> 0]]
  /\ trx = [c \in Checkouts |-> NoTrx]
  /\ refund = [r \in Refunds |-> [status |-> None, amount |-> 0]]
  /\ ledger = {} /\ inbox = {}
  /\ calls = [k \in Calls |-> Idle]
  /\ hooks = [h \in Hooks |-> None]
  /\ payment = [c \in Checkouts |-> None]
  /\ dispute = [c \in Checkouts |-> None]
  /\ returned = [r \in Refunds |-> None]

-----------------------------------------------------------------------------
(* The provider, external.                                                  *)

\* The buyer pays on the hosted page, whose address is the checkout's
\* hosted_url; the payment is captured or refused.
Pay(c) ==
  /\ payment[c] = "OPEN" /\ checkout[c].hosted
  /\ \E outcome \in {"CAPTURED", "FAILED"} : payment' = [payment EXCEPT ![c] = outcome]
  /\ UNCHANGED <<tables, calls, hooks, dispute, returned>>

\* The hosted page's time is over.
Lapse(c) ==
  /\ payment[c] = "OPEN" /\ payment' = [payment EXCEPT ![c] = "EXPIRED"]
  /\ UNCHANGED <<tables, calls, hooks, dispute, returned>>

Dispute(c) ==
  /\ "disputed" \in Types
  /\ \/ /\ payment[c] = "CAPTURED" /\ dispute[c] = None
        /\ dispute' = [dispute EXCEPT ![c] = "disputed"]
     \/ /\ dispute[c] = "disputed"
        /\ \E outcome \in Types \cap {"dispute_won", "dispute_lost"} :
             dispute' = [dispute EXCEPT ![c] = outcome]
  /\ UNCHANGED <<tables, calls, hooks, payment, returned>>

\* What has happened to a payment is reported, again and in any order.
Sent ==
  [c : {c \in Checkouts : payment[c] = "CAPTURED"}, type : {"captured"}]
  \cup [c : {c \in Checkouts : payment[c] = "FAILED"}, type : {"failed"}]
  \cup [c : {c \in Checkouts : dispute[c] # None}, type : {"disputed"}]
  \cup {[c |-> c, type |-> dispute[c]] : c \in {d \in Checkouts : dispute[d] # None}}

-----------------------------------------------------------------------------
(* Checkouts.                                                               *)

At(k, pc) == calls[k].pc = pc
Goto(k, state) == calls' = [calls EXCEPT ![k] = state]
SetCheckout(c, status) == checkout' = [checkout EXCEPT ![c].status = status]

\* online_checkout_one_active_per_schedule
OtherActive(c) == \E d \in Checkouts \ {c} : checkout[d].status \in Active

Outstanding == Price - paid

\* createCheckout, first transaction up to its insert: a replay goes on with
\* the provider call its first execution may not have finished; a new request
\* derives its amount from the outstanding balance.
RequestCheckout(k, c) ==
  /\ At(k, "idle") /\ ~checkout[c].hosted
  /\ \/ /\ checkout[c].status # None
        /\ Goto(k, [pc |-> "host", c |-> c])
     \/ /\ checkout[c].status = None
        /\ \E amount \in Amounts :
             /\ amount <= Outstanding
             /\ Goto(k, [pc |-> "insert", c |-> c, amount |-> amount])
  /\ UNCHANGED <<tables, hooks, provider>>

\* ... its insert, which a unique index refuses: the key, or the one active
\* checkout of the schedule entry.
InsertCheckout(k) ==
  /\ At(k, "insert")
  /\ LET c == calls[k].c IN
       IF checkout[c].status # None \/ OtherActive(c)
       THEN Goto(k, Idle) /\ UNCHANGED checkout
       ELSE /\ checkout' = [checkout EXCEPT ![c] =
                 [status |-> "CREATING", hosted |-> FALSE, amount |-> calls[k].amount]]
            /\ Goto(k, [pc |-> "host", c |-> c])
  /\ UNCHANGED <<paid, trx, refund, ledger, inbox, hooks, provider>>

\* payments.createCheckout; the checkout's id is the provider's identity of it.
Host(k) ==
  /\ At(k, "host")
  /\ payment' = [payment EXCEPT ![calls[k].c] = IF @ = None THEN "OPEN" ELSE @]
  /\ Goto(k, [calls[k] EXCEPT !.pc = "open"])
  /\ UNCHANGED <<tables, hooks, dispute, returned>>

\* createCheckout, second transaction: the checkout is opened by its id,
\* whatever has become of it.
OpenCheckout(k) ==
  /\ At(k, "open")
  /\ LET c == calls[k].c IN
       IF OtherActive(c) THEN UNCHANGED checkout
       ELSE checkout' = [checkout EXCEPT ![c].status = "OPEN", ![c].hosted = TRUE]
  /\ Goto(k, Idle)
  /\ UNCHANGED <<paid, trx, refund, ledger, inbox, hooks, provider>>

\* expireCheckout, first transaction.
RequestExpiry(k, c) ==
  /\ At(k, "idle")
  /\ checkout[c].status \in Active /\ checkout[c].hosted
  /\ Goto(k, [pc |-> "expire", c |-> c])
  /\ UNCHANGED <<tables, hooks, provider>>

\* payments.expireCheckout: refused for a page that was paid.
ExpireHosted(k) ==
  /\ At(k, "expire")
  /\ LET c == calls[k].c IN
       IF payment[c] \in {"OPEN", "EXPIRED"}
       THEN /\ payment' = [payment EXCEPT ![c] = "EXPIRED"]
            /\ Goto(k, [pc |-> "expired", c |-> c])
       ELSE Goto(k, Idle) /\ UNCHANGED payment
  /\ UNCHANGED <<tables, hooks, dispute, returned>>

\* expireCheckout, second transaction.
SaveExpiry(k) ==
  /\ At(k, "expired") /\ SetCheckout(calls[k].c, "EXPIRED") /\ Goto(k, Idle)
  /\ UNCHANGED <<paid, trx, refund, ledger, inbox, hooks, provider>>

-----------------------------------------------------------------------------
(* The webhook: applyPaymentProviderEvent.                                  *)

\* The context is found by the provider's checkout id, a replay by the event's
\* id; two deliveries of one event wait for each other at its unique index.
Receive(h, e) ==
  /\ hooks[h] = None
  /\ e.type \in Types /\ checkout[e.c].hosted /\ e \notin inbox
  /\ \A i \in Hooks : hooks[i] # None => hooks[i].event # e
  /\ hooks' = [hooks EXCEPT ![h] = [event |-> e, seen |-> trx[e.c]]]
  /\ UNCHANGED <<tables, calls, provider>>

Opening == {None, "PENDING"}
\* Mutant: only a transaction that an earlier event created is captured.
CaptureAllowedExisting(e, seen) == e.type = "captured" /\ seen.status = "PENDING"

CaptureAllowed(e, seen) == e.type = "captured" /\ seen.status \in Opening \cup {"CAPTURED"}
FailureAllowed(e, seen) == e.type = "failed" /\ seen.status \in Opening \cup {"FAILED"}

NextStatus(e, seen) ==
  CASE CaptureAllowed(e, seen) -> "CAPTURED"
    [] FailureAllowed(e, seen) -> "FAILED"
    [] e.type = "disputed" /\ seen.status # "REFUNDED" -> "DISPUTED"
    [] e.type = "dispute_won" /\ seen.status = "DISPUTED" -> "CAPTURED"
    [] e.type = "dispute_lost" /\ seen.status = "DISPUTED" -> "REFUNDED"
    [] OTHER -> IF seen.status = None THEN "PENDING" ELSE seen.status

\* Mutant: winning the dispute restores the amount, not the record.
UpdatedRestoring(e, seen) ==
  [status   |-> NextStatus(e, seen),
   captured |-> IF e.type \in {"captured", "dispute_won"} THEN checkout[e.c].amount ELSE seen.captured,
   refunded |-> seen.refunded]

\* Mutant: losing the dispute comes on top of what was refunded.
UpdatedAdding(e, seen) ==
  [status   |-> NextStatus(e, seen),
   captured |-> IF CaptureAllowed(e, seen) THEN checkout[e.c].amount ELSE seen.captured,
   refunded |-> IF e.type = "dispute_lost" THEN seen.refunded + seen.captured ELSE seen.refunded]

\* The row is written whole, from the row that was read.
Updated(e, seen) ==
  [status   |-> NextStatus(e, seen),
   captured |-> IF CaptureAllowed(e, seen) THEN checkout[e.c].amount ELSE seen.captured,
   refunded |-> IF e.type = "dispute_lost" /\ seen.status = "DISPUTED"
                THEN seen.captured ELSE seen.refunded]

AmountOf(x) == IF x \in Checkouts THEN checkout[x].amount ELSE refund[x].amount
Total(S) == MapThenSumSet(AmountOf, S)

\* The transaction commits; it fails when it was to create a row that exists
\* by then, and the provider sends the event again.
Apply(h) ==
  /\ hooks[h] # None
  /\ LET e == hooks[h].event
         seen == hooks[h].seen
         effect == CaptureAllowed(e, seen) /\ e.c \notin ledger
     IN IF seen.status = None /\ trx[e.c].status # None
        THEN UNCHANGED <<paid, checkout, trx, ledger, inbox>>
        ELSE /\ inbox' = inbox \cup {e}
             /\ trx' = IF NextStatus(e, seen) = seen.status THEN trx
                       ELSE [trx EXCEPT ![e.c] = Updated(e, seen)]
             /\ IF effect
                THEN /\ ledger' = ledger \cup {e.c}
                     /\ paid' = Total(ledger')
                     /\ SetCheckout(e.c, "COMPLETED")
                ELSE /\ UNCHANGED <<ledger, paid>>
                     /\ IF FailureAllowed(e, seen) THEN SetCheckout(e.c, "FAILED")
                        ELSE UNCHANGED checkout
  /\ hooks' = [hooks EXCEPT ![h] = None]
  /\ UNCHANGED <<refund, calls, provider>>

\* The request dies and its transaction is rolled back.
DropHook(h) ==
  /\ hooks[h] # None /\ hooks' = [hooks EXCEPT ![h] = None]
  /\ UNCHANGED <<tables, calls, provider>>

-----------------------------------------------------------------------------
(* Refunds.                                                                 *)

\* pg_advisory_xact_lock of a transaction's id.
LockFree(c) == \A k \in Calls : At(k, "completing") => PaymentOf[calls[k].r] # c

RefundsOf(c) == {r \in Refunds : PaymentOf[r] = c}
\* Mutant: refunds the provider has accepted no longer reserve.
ReservedRequested(c) == Total({r \in RefundsOf(c) : refund[r].status = "REQUESTED"})

Reserved(c) == Total({r \in RefundsOf(c) : refund[r].status \in Reserving})

\* refund, first transaction: a request not known to have succeeded is called
\* again; a new one must fit into what is captured and not yet reserved.
RequestRefund(k, r) ==
  /\ At(k, "idle")
  /\ \/ /\ refund[r].status \in {"REQUESTED", "PROCESSING"}
        /\ UNCHANGED refund
     \/ LET c == PaymentOf[r] IN
        /\ refund[r].status = None /\ LockFree(c)
        /\ trx[c].status \in {"CAPTURED", "PARTIALLY_REFUNDED"}
        /\ \E amount \in Amounts :
             /\ Reserved(c) + amount <= trx[c].captured
             /\ refund' = [refund EXCEPT ![r] = [status |-> "REQUESTED", amount |-> amount]]
  /\ Goto(k, [pc |-> "call", r |-> r])
  /\ UNCHANGED <<paid, checkout, trx, ledger, inbox, hooks, provider>>

\* payments.refundPayment: the refund's id is the provider's idempotency key.
CallRefund(k) ==
  /\ At(k, "call")
  /\ LET r == calls[k].r IN
       \E answer \in IF returned[r] = "SUCCEEDED" THEN {"SUCCEEDED"}
                     ELSE {"PROCESSING", "SUCCEEDED"} :
         /\ returned' = [returned EXCEPT ![r] = answer]
         /\ Goto(k, [pc |-> "answered", r |-> r, answer |-> answer])
  /\ UNCHANGED <<tables, hooks, payment, dispute>>

\* Mutant: any answer of the provider is taken for a success.
BeginCompletionAlways(k) ==
  /\ At(k, "answered")
  /\ LET r == calls[k].r IN
       /\ LockFree(PaymentOf[r])
       /\ Goto(k, [pc |-> "completing", r |-> r, seen |-> trx[PaymentOf[r]]])
  /\ UNCHANGED <<tables, hooks, provider>>

\* refund, second transaction: it takes the lock, writes the refund and, if
\* the provider succeeded, reads the transaction it will write.
BeginCompletion(k) ==
  /\ At(k, "answered")
  /\ LET r == calls[k].r IN
       /\ LockFree(PaymentOf[r])
       /\ IF calls[k].answer = "PROCESSING"
          THEN /\ refund' = [refund EXCEPT ![r].status = "PROCESSING"]
               /\ Goto(k, Idle)
          ELSE /\ Goto(k, [pc |-> "completing", r |-> r, seen |-> trx[PaymentOf[r]]])
               /\ UNCHANGED refund
  /\ UNCHANGED <<paid, checkout, trx, ledger, inbox, hooks, provider>>

\* ... its writes; the amounts are checked against the row that was read, and
\* by the table's constraint against the row that is there; a refund's record
\* needs the payment's.
NetTotal(S) == Total(S \cap Checkouts) - Total(S \cap Refunds)

FinishRefund(k) ==
  /\ At(k, "completing")
  /\ LET r == calls[k].r
         c == PaymentOf[r]
         seen == calls[k].seen
         total == seen.refunded + refund[r].amount
     IN IF total > seen.captured \/ total > trx[c].captured \/ c \notin ledger
        THEN UNCHANGED <<paid, trx, refund, ledger>>
        ELSE /\ refund' = [refund EXCEPT ![r].status = "SUCCEEDED"]
             /\ trx' = [trx EXCEPT ![c].refunded = total,
                                   ![c].status = IF total = seen.captured THEN "REFUNDED"
                                                 ELSE "PARTIALLY_REFUNDED"]
             /\ ledger' = ledger \cup {r}
             /\ paid' = NetTotal(ledger')
  /\ Goto(k, Idle)
  /\ UNCHANGED <<checkout, inbox, hooks, provider>>

\* The request dies, or the provider's answer is lost; what it committed and
\* what the provider did stays.
DropCall(k) ==
  /\ ~At(k, "idle") /\ Goto(k, Idle)
  /\ UNCHANGED <<tables, hooks, provider>>

\* reconcilePayments: the transactions it reports as LEDGER_MISMATCH.
Mismatch(c) ==
  /\ trx[c].status \in {"CAPTURED", "PARTIALLY_REFUNDED", "REFUNDED"}
  /\ Total(ledger \cap ({c} \cup IF c \in ledger THEN RefundsOf(c) ELSE {}))
       # trx[c].captured - trx[c].refunded

-----------------------------------------------------------------------------
Next ==
  \/ \E c \in Checkouts : Pay(c) \/ Lapse(c) \/ Dispute(c)
  \/ \E k \in Calls :
       \/ \E c \in Checkouts : RequestCheckout(k, c) \/ RequestExpiry(k, c)
       \/ \E r \in Refunds : RequestRefund(k, r)
       \/ InsertCheckout(k) \/ Host(k) \/ OpenCheckout(k)
       \/ ExpireHosted(k) \/ SaveExpiry(k)
       \/ CallRefund(k) \/ BeginCompletion(k) \/ FinishRefund(k) \/ DropCall(k)
  \/ \E h \in Hooks : Apply(h) \/ DropHook(h) \/ \E e \in Sent : Receive(h, e)

Spec == Init /\ [][Next]_vars

-----------------------------------------------------------------------------
(* Properties.                                                              *)

Transactions == [status : {None} \cup Status, captured : 0 .. Price, refunded : 0 .. Price]
Events == [c : Checkouts, type : Types]
CallStates ==
  {Idle}
  \cup [pc : {"insert"}, c : Checkouts, amount : Amounts]
  \cup [pc : {"host", "open", "expire", "expired"}, c : Checkouts]
  \cup [pc : {"call"}, r : Refunds]
  \cup [pc : {"answered"}, r : Refunds, answer : {"PROCESSING", "SUCCEEDED"}]
  \cup [pc : {"completing"}, r : Refunds, seen : Transactions]

\* Every column and every request keeps its type: in particular no amount
\* leaves the range of the schedule entry's price.
TypeOK ==
  /\ checkout \in [Checkouts ->
       [status : {None} \cup CheckoutStatus,
        hosted : BOOLEAN, amount : 0 .. Price]]
  /\ trx \in [Checkouts -> Transactions]
  /\ refund \in [Refunds -> [status : {None} \cup Reserving, amount : 0 .. Price]]
  /\ ledger \subseteq Checkouts \cup Refunds /\ inbox \subseteq Events
  /\ calls \in [Calls -> CallStates]
  /\ hooks \in [Hooks -> {None} \cup [event : Events, seen : Transactions]]
  /\ payment \in [Checkouts -> {None} \cup AtProvider]
  /\ dispute \in [Checkouts -> {None, "disputed", "dispute_won", "dispute_lost"}]
  /\ returned \in [Refunds -> {None, "PROCESSING", "SUCCEEDED"}]

\* The provider is never asked to give back more than it took: two requests,
\* repeated requests, late answers and disputes in between do not make the
\* refunds of a payment exceed it (refund's reservation, ADR 0031).
RefundsWithinCapture ==
  \A c \in Checkouts :
    Total({r \in RefundsOf(c) : returned[r] # None})
      <= IF payment[c] = "CAPTURED" THEN checkout[c].amount ELSE 0

\* The ledger tells only of money that moved: a PAYMENT of a payment the
\* provider captured, a REFUND of one it has paid back, of a recorded payment.
RecordsHappened ==
  /\ \A c \in ledger \cap Checkouts : payment[c] = "CAPTURED"
  /\ \A r \in ledger \cap Refunds :
       returned[r] = "SUCCEEDED" /\ PaymentOf[r] \in ledger

\* A transaction with a captured amount has its record, of that amount, for any
\* order of captures, disputes and their outcomes: refunds and settlements
\* start from the transaction, schedule and budget from the record.
CapturedIsRecorded ==
  \A c \in Checkouts :
    trx[c].captured > 0 => c \in ledger /\ trx[c].captured = checkout[c].amount

\* A refund shown as succeeded is in the ledger, also when its request died
\* and was repeated.
SucceededIsRecorded == \A r \in Refunds : refund[r].status = "SUCCEEDED" => r \in ledger

\* The provider sends an event until it is answered with success, and the API
\* does not die in every single delivery.
Fairness ==
  \A c \in Checkouts :
    LET e == [c |-> c, type |-> "captured"] IN
      /\ WF_vars(\E h \in Hooks : e \in Sent /\ Receive(h, e))
      /\ SF_vars(\E h \in Hooks : hooks[h] # None /\ hooks[h].event = e /\ Apply(h))

FairSpec == Spec /\ Fairness

\* A captured payment that is not disputed reaches the ledger, although its
\* event is lost with dying requests and its checkout is expired, reopened or
\* refused by other requests meanwhile.
CaptureRecorded ==
  \A c \in Checkouts :
    payment[c] = "CAPTURED" ~> (c \in ledger \/ dispute[c] # None)

-----------------------------------------------------------------------------
(* Claims the code does not keep.                                           *)

\* ADR 0031: a request left REQUESTED or PROCESSING resumes, and the binding to
\* the refund's id makes its effect idempotent.
RefundedMatchesLedger ==
  \A c \in Checkouts : trx[c].refunded = Total(RefundsOf(c) \cap ledger)

\* ADR 0031: terminal states do not regress.
SucceededIsFinal ==
  [][\A r \in Refunds : refund[r].status = "SUCCEEDED" => refund'[r].status = "SUCCEEDED"]_vars
CompletedIsFinal ==
  [][\A c \in Checkouts : checkout[c].status = "COMPLETED" => checkout'[c].status = "COMPLETED"]_vars

\* ADR 0031: the debit sign is derived from the entry's type.
PaidIsNet == paid = NetTotal(ledger)
ReconciliationFindsNothing ==
  \A c \in Checkouts :
    trx[c].captured = checkout[c].amount /\ trx[c].refunded = Total(RefundsOf(c) \cap ledger)
      => ~Mismatch(c)

\* createCheckout: the amount is within the outstanding balance.
NeverOvercharged ==
  Total({c \in Checkouts : payment[c] = "CAPTURED"}) <= Price + Total(ledger \cap Refunds)

\* ADR 0031: events arrive out of order, and the first capture creates the record.
CaptureAlwaysRecorded ==
  \A c \in Checkouts : payment[c] = "CAPTURED" ~> c \in ledger

=============================================================================
