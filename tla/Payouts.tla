------------------------------- MODULE Payouts -------------------------------
(***************************************************************************)
(* What a vendor has earned and what it is paid: the append-only payable   *)
(* ledger, settlements, payouts and the payout provider's webhook          *)
(* (trust-monetization.service.ts).                                        *)
(*                                                                         *)
(* One vendor and one currency, whose payout account stays ACTIVE.  The    *)
(* payment transactions it earns from are those of module Payments, seen   *)
(* from here as an environment.  Settlements are serialized by an advisory *)
(* lock of the organization, the two transactions of a payout by locks of  *)
(* their own; the webhook and the balance take neither, and what was read  *)
(* may be old when it is written (READ COMMITTED).                         *)
(*                                                                         *)
(* A settlement stands for its idempotency key; its period ends when it is *)
(* calculated or, if the request says so, later, when every hold is over.  *)
(* Allocations are their PAYMENT_EARNED entries: the columns of the row    *)
(* that are recomputed from the entries are left out, and so are the       *)
(* statuses of payout attempts.                                            *)
(***************************************************************************)
EXTENDS Integers, FiniteSetsExt

CONSTANTS
  Transactions,  \* captured booking payments
  Refunds,       \* refunds of them
  TransactionOf, \* the transaction of a refund
  Gross,         \* captured amount of a transaction
  Fee,           \* its platform fee, by the policy in force
  Refunded,      \* amount of a refund
  Outcomes,      \* the transaction statuses that disputes end in
  Settlements,   \* idempotency keys of settlements
  Minimum,       \* PAYOUT_MINIMUM_MINOR
  PeriodEnds,    \* the ends of a settlement's period that requests ask for
  Keys,          \* idempotency keys of payout requests, by settlement
  MaxTransfers,  \* how often the provider tries a payout that failed
  Calls,         \* API requests under way at a time
  Hooks,         \* webhook requests under way at a time
  Types,         \* the event types the provider sends
  None

ASSUME DataAssumption ==
  /\ TransactionOf \in [Refunds -> Transactions]
  /\ Gross \in [Transactions -> Nat \ {0}]
  /\ Fee \in [Transactions -> Nat]
  /\ \A t \in Transactions : Fee[t] <= Gross[t]
  /\ Refunded \in [Refunds -> Nat \ {0}] /\ Outcomes \subseteq {"CAPTURED", "REFUNDED"}
  /\ DOMAIN Keys = Settlements /\ PeriodEnds \subseteq {"now", "later"}
  /\ Minimum \in Nat \ {0} /\ MaxTransfers \in Nat \ {0}
  /\ Types \subseteq {"processing", "paid", "failed", "returned"}

TransactionStatus == {"CAPTURED", "PARTIALLY_REFUNDED", "REFUNDED", "DISPUTED"}
SettlementStatus == {"READY", "FINALIZED", "PAYOUT_PENDING", "PAID", "FAILED"}
PayoutStatus == {"REQUESTED", "PROCESSING", "PAID", "FAILED", "RETURNED"}
AtBank == {"PROCESSING", "PAID", "FAILED", "RETURNED"}

ASSUME NoneAssumption ==
  /\ None \notin Settlements
  /\ None \notin TransactionStatus \cup SettlementStatus \cup PayoutStatus \cup AtBank

VARIABLES
  trx,        \* online_payment_transactions of the vendor's bookings
  refunds,    \* the refunds that succeeded
  mature,     \* transactions whose hold of PAYOUT_HOLD_DAYS is over
  entries,    \* vendor_payable_entries
  settlement, \* vendor_settlements with their lines
  payout,     \* vendor_payouts, one per settlement
  attempts,   \* vendor_payout_attempts: the keys used
  inbox,      \* payout_provider_events that are PROCESSED
  calls,      \* API requests: what each knows and does next
  hooks,      \* webhook requests
  bank,       \* at the provider: each payout
  reports     \* ... and what it has to tell about them

earnings == <<trx, refunds, mature>>
provider == <<bank, reports>>
vars == <<earnings, entries, settlement, payout, attempts, inbox, calls, hooks, provider>>

Idle == [pc |-> "idle"]

Init ==
  /\ trx = [t \in Transactions |-> None] /\ refunds = {} /\ mature = {}
  /\ entries = {}
  /\ settlement = [s \in Settlements |-> [status |-> None, net |-> 0, lines |-> {}]]
  /\ payout = [s \in Settlements |-> [status |-> None, known |-> FALSE]]
  /\ attempts = [s \in Settlements |-> {}]
  /\ inbox = {}
  /\ calls = [k \in Calls |-> Idle] /\ hooks = [h \in Hooks |-> Idle]
  /\ bank = [s \in Settlements |-> [status |-> None, n |-> 0]] /\ reports = {}

-----------------------------------------------------------------------------
(* The payments a vendor earns from.                                        *)

RefundsOf(t) == {r \in Refunds : TransactionOf[r] = t}
Sum(S) == MapThenSumSet(LAMBDA r : Refunded[r], S)

Transact(t, status) ==
  /\ trx' = [trx EXCEPT ![t] = status]
  /\ UNCHANGED <<mature, entries, settlement, payout, attempts, inbox, calls, hooks, provider>>

Capture(t) == trx[t] = None /\ Transact(t, "CAPTURED") /\ UNCHANGED refunds

\* A refund may complete after the payment's dispute was opened.
Refund(r) ==
  LET t == TransactionOf[r]
      total == Sum((refunds \cup {r}) \cap RefundsOf(t))
  IN /\ r \notin refunds /\ trx[t] \in {"CAPTURED", "PARTIALLY_REFUNDED", "DISPUTED"}
     /\ total <= Gross[t]
     /\ refunds' = refunds \cup {r}
     /\ Transact(t, IF total = Gross[t] THEN "REFUNDED" ELSE "PARTIALLY_REFUNDED")

Dispute(t) ==
  /\ Outcomes # {}
  /\ \/ trx[t] \in {"CAPTURED", "PARTIALLY_REFUNDED"} /\ Transact(t, "DISPUTED")
     \/ trx[t] = "DISPUTED" /\ \E status \in Outcomes : Transact(t, status)
  /\ UNCHANGED refunds

Mature(t) ==
  /\ trx[t] # None /\ t \notin mature /\ mature' = mature \cup {t}
  /\ UNCHANGED <<trx, refunds, entries, settlement, payout, attempts, inbox, calls, hooks, provider>>

-----------------------------------------------------------------------------
(* The payable ledger.                                                      *)

Entry(type, source, amount) == [type |-> type, source |-> source, amount |-> amount]
EarnedTypes == {"PAYMENT_EARNED", "PLATFORM_FEE"}
Credits == {"PAYMENT_EARNED", "DISPUTE_RELEASE", "PAYOUT_REVERSAL"}

payableEntrySign(e) == IF e.type \in Credits THEN e.amount ELSE -e.amount
Net(E) == MapThenSumSet(payableEntrySign, E)

\* The unique index of vendor_payable_entries, skipDuplicates.
Bound(E, type, source) == {e \in E : e.type = type /\ e.source = source}
Append(E, new) == E \cup {e \in new : Bound(E, e.type, e.source) = {}}

\* The entries one transaction calls for, by its status as read and the refunds
\* that have succeeded since.  A lost dispute is a REFUNDED transaction without
\* a refund.
Due(t, status) ==
  LET done == refunds \cap RefundsOf(t)
      lost == status = "REFUNDED" /\ done = {}
      open == Gross[t] - Fee[t] - Sum(done)
      held == status = "DISPUTED" /\ open > 0
  IN {Entry("PAYMENT_EARNED", t, Gross[t]), Entry("PLATFORM_FEE", t, Fee[t])}
     \cup {Entry("REFUND_ADJUSTMENT", r, Refunded[r]) : r \in done}
     \cup (IF lost THEN {Entry("REFUND_ADJUSTMENT", t, Gross[t])} ELSE {})
     \cup (IF held THEN {Entry("DISPUTE_HOLD", t, open)}
           ELSE {Entry("DISPUTE_RELEASE", t, e.amount) : e \in Bound(entries, "DISPUTE_HOLD", t)})

syncAllocations(seen) ==
  Append(entries, UNION {Due(t, seen[t]) : t \in {u \in Transactions : seen[u] # None}})

\* vendor_payable_positive_amount: an entry of zero rolls all back.
Positive(E) == \A e \in E : e.amount > 0

At(k, pc) == calls[k].pc = pc
Goto(k, state) == calls' = [calls EXCEPT ![k] = state]

\* balance, settlement calculation: syncAllocations reads the transactions; a
\* calculation does it under the organization's lock and not for a replay.
BeginBalance(k) ==
  /\ At(k, "idle") /\ Goto(k, [pc |-> "sync", seen |-> trx])
  /\ UNCHANGED <<earnings, entries, settlement, payout, attempts, inbox, hooks, provider>>

\* ... and writes what they call for.
FinishBalance(k) ==
  /\ At(k, "sync")
  /\ LET E == syncAllocations(calls[k].seen) IN
       entries' = IF Positive(E) THEN E ELSE entries
  /\ Goto(k, Idle)
  /\ UNCHANGED <<earnings, settlement, payout, attempts, inbox, hooks, provider>>

-----------------------------------------------------------------------------
(* Settlements.                                                             *)

\* Mutant: the calculations of an organization are not serialized.
BeginSettlementUnlocked(k, s) ==
  /\ At(k, "idle") /\ settlement[s].status = None
  /\ Goto(k, [pc |-> "settle", s |-> s, seen |-> trx,
              settled |-> UNION {settlement[q].lines : q \in Settlements}])
  /\ UNCHANGED <<earnings, entries, settlement, payout, attempts, inbox, hooks, provider>>

BeginSettlement(k, s) ==
  /\ At(k, "idle") /\ settlement[s].status = None
  /\ \A other \in Calls : ~At(other, "settle")
  /\ Goto(k, [pc |-> "settle", s |-> s, seen |-> trx,
              settled |-> UNION {settlement[q].lines : q \in Settlements}])
  /\ UNCHANGED <<earnings, entries, settlement, payout, attempts, inbox, hooks, provider>>

\* What a payment has earned is available when its hold is over, the other
\* entries at once: availableAt against the period's end.
Available(e, end) == e.type \in EarnedTypes /\ end = "now" => e.source \in mature

\* Mutant: what the calculation synchronized is not saved with its lines.
FinishSettlementUnsaved(k) ==
  /\ At(k, "settle")
  /\ \E end \in PeriodEnds :
       LET E == syncAllocations(calls[k].seen)
           eligible == {e \in E : Available(e, end)} \ calls[k].settled
       IN IF Positive(E) /\ Net(eligible) >= Minimum
          THEN settlement' = [settlement EXCEPT ![calls[k].s] =
                 [status |-> "READY", net |-> Net(eligible), lines |-> eligible]]
          ELSE UNCHANGED settlement
  /\ Goto(k, Idle)
  /\ UNCHANGED <<earnings, entries, payout, attempts, inbox, hooks, provider>>

\* calculateSettlement: the entries in no line of an earlier settlement make
\* the new one, unless they are worth less than the minimum.
FinishSettlement(k) ==
  /\ At(k, "settle")
  /\ \E end \in PeriodEnds :
       LET E == syncAllocations(calls[k].seen)
           eligible == {e \in E : Available(e, end)} \ calls[k].settled
       IN IF Positive(E) /\ Net(eligible) >= Minimum
          THEN /\ entries' = E
               /\ settlement' = [settlement EXCEPT ![calls[k].s] =
                    [status |-> "READY", net |-> Net(eligible), lines |-> eligible]]
          ELSE UNCHANGED <<entries, settlement>>
  /\ Goto(k, Idle)
  /\ UNCHANGED <<earnings, payout, attempts, inbox, hooks, provider>>

SetSettlement(s, status) == settlement' = [settlement EXCEPT ![s].status = status]

\* finalizeSettlement: it is READY when it is read, and FINALIZED by its id.
BeginFinalize(k, s) ==
  /\ At(k, "idle") /\ settlement[s].status = "READY"
  /\ Goto(k, [pc |-> "finalize", s |-> s])
  /\ UNCHANGED <<earnings, entries, settlement, payout, attempts, inbox, hooks, provider>>

FinishFinalize(k) ==
  /\ At(k, "finalize") /\ SetSettlement(calls[k].s, "FINALIZED") /\ Goto(k, Idle)
  /\ UNCHANGED <<earnings, entries, payout, attempts, inbox, hooks, provider>>

-----------------------------------------------------------------------------
(* Payouts.                                                                 *)

\* Mutant: only what was returned is final.
PermittedUntilReturned(s, row) == payout[s].status = "RETURNED" => row.status = "RETURNED"

\* weddingos_guard_terminal_payout: a PAID or RETURNED row keeps its provider's
\* id, and PAID gives way to RETURNED only.
Permitted(s, row) ==
  /\ payout[s].status \in {"PAID", "RETURNED"} => row.known = payout[s].known
  /\ payout[s].status = "RETURNED" => row.status = "RETURNED"
  /\ payout[s].status = "PAID" => row.status \in {"PAID", "RETURNED"}

\* The locks payout:settlementId of the first and payout:id of the second
\* transaction.
Locked(pc, s) == \E k \in Calls : At(k, pc) /\ calls[k].s = s

\* createPayout, first transaction: the one payout of a finalized settlement,
RequestPayout(k, s, key) ==
  /\ At(k, "idle") /\ ~Locked("reserve", s)
  /\ payout[s].status = None /\ settlement[s].status = "FINALIZED"
  /\ payout' = [payout EXCEPT ![s] = [status |-> "REQUESTED", known |-> FALSE]]
  /\ attempts' = [attempts EXCEPT ![s] = {key}]
  /\ SetSettlement(s, "PAYOUT_PENDING")
  /\ Goto(k, [pc |-> "transfer", s |-> s])
  /\ UNCHANGED <<earnings, entries, inbox, hooks, provider>>

\* ... or the one whose request did not get as far as the provider's answer,
ResumePayout(k, s) ==
  /\ At(k, "idle") /\ ~Locked("reserve", s)
  /\ payout[s].status = "REQUESTED" /\ ~payout[s].known
  /\ Goto(k, [pc |-> "transfer", s |-> s])
  /\ UNCHANGED <<earnings, entries, settlement, payout, attempts, inbox, hooks, provider>>

\* ... or a new attempt of one that failed, under a new key.
BeginRetry(k, s, key) ==
  /\ At(k, "idle") /\ ~Locked("reserve", s)
  /\ payout[s].status = "FAILED" /\ key \notin attempts[s]
  /\ Goto(k, [pc |-> "reserve", s |-> s, key |-> key])
  /\ UNCHANGED <<earnings, entries, settlement, payout, attempts, inbox, hooks, provider>>

Reset == [status |-> "REQUESTED", known |-> FALSE]

\* The row is reset by its id; the trigger refuses it if the payout was paid
\* after all.
Reserve(k) ==
  /\ At(k, "reserve")
  /\ LET s == calls[k].s IN
       IF Permitted(s, Reset)
       THEN /\ payout' = [payout EXCEPT ![s] = Reset]
            /\ attempts' = [attempts EXCEPT ![s] = @ \cup {calls[k].key}]
            /\ SetSettlement(s, "PAYOUT_PENDING")
            /\ Goto(k, [pc |-> "transfer", s |-> s])
       ELSE Goto(k, Idle) /\ UNCHANGED <<payout, attempts, settlement>>
  /\ UNCHANGED <<earnings, entries, inbox, hooks, provider>>

Report(s, n, type) == [s |-> s, n |-> n, type |-> type]
Told(status) ==
  CASE status = "PAID" -> "paid" [] status = "FAILED" -> "failed"
    [] status = "RETURNED" -> "returned" [] OTHER -> "processing"
Tell(s, n, status) ==
  reports' = reports \cup {e \in {Report(s, n, Told(status))} : e.type \in Types}

\* Mutant: a transfer that was accepted is taken for one that arrived.
AnswerAccepted(status) == IF status \in {"RETURNED", "PROCESSING"} THEN "PAID" ELSE status

Answer(status) == IF status = "RETURNED" THEN "PAID" ELSE status

\* payoutProvider.createPayout: the payout's id is its identity at the provider,
\* which starts it, tries one that failed again, and else says how it stands.
Transfer(k) ==
  /\ At(k, "transfer")
  /\ LET s == calls[k].s
         b == bank[s]
         Answered(status) == Goto(k, [pc |-> "answered", s |-> s, answer |-> Answer(status)])
     IN IF b.status \in {None, "FAILED"} /\ b.n < MaxTransfers
        THEN \E status \in {"PROCESSING", "PAID", "FAILED"} :
               /\ bank' = [bank EXCEPT ![s] = [status |-> status, n |-> b.n + 1]]
               /\ Tell(s, b.n + 1, status)
               /\ Answered(status)
        ELSE Answered(b.status) /\ UNCHANGED provider
  /\ UNCHANGED <<earnings, entries, settlement, payout, attempts, inbox, hooks>>

\* The provider goes on with a payout: it arrives, fails, or comes back.
Progress(s) ==
  /\ \E status \in AtBank :
       /\ <<bank[s].status, status>> \in
            {<<"PROCESSING", "PAID">>, <<"PROCESSING", "FAILED">>, <<"PAID", "RETURNED">>}
       /\ bank' = [bank EXCEPT ![s].status = status]
       /\ Tell(s, bank[s].n, status)
  /\ UNCHANGED <<earnings, entries, settlement, payout, attempts, inbox, calls, hooks>>

\* createPayout, second transaction: the answer counts if the payout is still
\* REQUESTED and without its provider's id when it is read.
BeginRecord(k) ==
  /\ At(k, "answered") /\ ~Locked("record", calls[k].s)
  /\ Goto(k, IF payout[calls[k].s] = Reset THEN [calls[k] EXCEPT !.pc = "record"] ELSE Idle)
  /\ UNCHANGED <<earnings, entries, settlement, payout, attempts, inbox, hooks, provider>>

PaidEntry(s) == Entry("PAYOUT", s, settlement[s].net)
ReturnedEntry(s) == Entry("PAYOUT_REVERSAL", s, settlement[s].net)

Follow(s, status) ==
  IF status \in {"PAID", "FAILED"} THEN SetSettlement(s, status) ELSE UNCHANGED settlement

\* Mutant: the entry is a transaction of its own, before the payout's.
RecordInTwo(k) ==
  /\ At(k, "record")
  /\ LET s == calls[k].s
         row == [status |-> calls[k].answer, known |-> TRUE]
     IN /\ entries' = IF row.status = "PAID" THEN Append(entries, {PaidEntry(s)}) ELSE entries
        /\ \/ Permitted(s, row) /\ payout' = [payout EXCEPT ![s] = row] /\ Follow(s, row.status)
           \/ UNCHANGED <<payout, settlement>>
  /\ Goto(k, Idle)
  /\ UNCHANGED <<earnings, attempts, inbox, hooks, provider>>

\* The payout, its PAYOUT entry and the settlement are written, or, if a report
\* was faster and the trigger or the entry's unique index refuses, nothing.
Record(k) ==
  /\ At(k, "record")
  /\ LET s == calls[k].s
         row == [status |-> calls[k].answer, known |-> TRUE]
     IN IF Permitted(s, row) /\ (row.status = "PAID" => Bound(entries, "PAYOUT", s) = {})
        THEN /\ payout' = [payout EXCEPT ![s] = row]
             /\ entries' = IF row.status = "PAID" THEN entries \cup {PaidEntry(s)} ELSE entries
             /\ Follow(s, row.status)
        ELSE UNCHANGED <<payout, entries, settlement>>
  /\ Goto(k, Idle)
  /\ UNCHANGED <<earnings, attempts, inbox, hooks, provider>>

\* The request dies; what it committed and what the provider did stays.
DropCall(k) ==
  /\ ~At(k, "idle") /\ Goto(k, Idle)
  /\ UNCHANGED <<earnings, entries, settlement, payout, attempts, inbox, hooks, provider>>

-----------------------------------------------------------------------------
(* The webhook: payoutWebhook and applyPayoutEvent.                         *)

\* The payout is found by its provider's id and read in the transaction that
\* waits for the event's lock; a replay ends there.
Receive(h, e) ==
  /\ hooks[h] = Idle /\ e \in reports \ inbox
  /\ \A i \in Hooks : hooks[i] # Idle => hooks[i].event # e
  /\ hooks' = [hooks EXCEPT ![h] =
       [pc |-> "apply", event |-> e, found |-> payout[e.s].known, seen |-> payout[e.s].status]]
  /\ UNCHANGED <<earnings, entries, settlement, payout, attempts, inbox, calls, provider>>

\* The event does not concern what is returned, or paid and not returned.
Ignored(seen, type) == seen = "RETURNED" \/ (seen = "PAID" /\ type # "returned")
StatusOf(type) ==
  CASE type = "paid" -> "PAID" [] type = "failed" -> "FAILED"
    [] type = "returned" -> "RETURNED" [] OTHER -> "PROCESSING"

\* applyPayoutEvent writes the payout by its id; the trigger rolls it back, and
\* the provider sends the event again.
Apply(h) ==
  /\ hooks[h].pc = "apply"
  /\ LET e == hooks[h].event
         s == e.s
         row == [payout[s] EXCEPT !.status = StatusOf(e.type)]
     IN IF ~hooks[h].found \/ Ignored(hooks[h].seen, e.type)
        THEN inbox' = inbox \cup {e} /\ UNCHANGED <<payout, entries, settlement>>
        ELSE IF Permitted(s, row)
        THEN /\ inbox' = inbox \cup {e}
             /\ payout' = [payout EXCEPT ![s] = row]
             /\ entries' = Append(entries, CASE e.type = "paid" -> {PaidEntry(s)}
                                             [] e.type = "returned" -> {ReturnedEntry(s)}
                                             [] OTHER -> {})
             /\ Follow(s, row.status)
        ELSE UNCHANGED <<inbox, payout, entries, settlement>>
  /\ hooks' = [hooks EXCEPT ![h] = Idle]
  /\ UNCHANGED <<earnings, attempts, calls, provider>>

DropHook(h) ==
  /\ hooks[h] # Idle /\ hooks' = [hooks EXCEPT ![h] = Idle]
  /\ UNCHANGED <<earnings, entries, settlement, payout, attempts, inbox, calls, provider>>

-----------------------------------------------------------------------------
Next ==
  \/ \E t \in Transactions : Capture(t) \/ Dispute(t) \/ Mature(t)
  \/ \E r \in Refunds : Refund(r)
  \/ \E k \in Calls :
       \/ BeginBalance(k) \/ FinishBalance(k) \/ FinishSettlement(k) \/ FinishFinalize(k)
       \/ \E s \in Settlements :
            \/ BeginSettlement(k, s) \/ BeginFinalize(k, s) \/ ResumePayout(k, s)
            \/ \E key \in Keys[s] : RequestPayout(k, s, key) \/ BeginRetry(k, s, key)
       \/ Reserve(k) \/ Transfer(k) \/ BeginRecord(k) \/ Record(k) \/ DropCall(k)
  \/ \E s \in Settlements : Progress(s)
  \/ \E h \in Hooks : Apply(h) \/ DropHook(h) \/ \E e \in reports : Receive(h, e)

Spec == Init /\ [][Next]_vars

-----------------------------------------------------------------------------
(* Properties.                                                              *)

Sources == Transactions \cup Refunds \cup Settlements
EntryTypes ==
  EarnedTypes \cup {"REFUND_ADJUSTMENT", "DISPUTE_HOLD", "DISPUTE_RELEASE", "PAYOUT", "PAYOUT_REVERSAL"}
Reports == [s : Settlements, n : Nat, type : {"processing", "paid", "failed", "returned"}]
AllKeys == UNION {Keys[s] : s \in Settlements}
Seen == [Transactions -> {None} \cup TransactionStatus]
CallStates ==
  {Idle}
  \cup [pc : {"sync"}, seen : Seen]
  \cup [pc : {"settle"}, s : Settlements, seen : Seen, settled : SUBSET entries]
  \cup [pc : {"finalize", "transfer"}, s : Settlements]
  \cup {[pc |-> "reserve", s |-> s, key |-> key] : s \in Settlements, key \in AllKeys}
  \cup [pc : {"answered", "record"}, s : Settlements, answer : {"PROCESSING", "PAID", "FAILED"}]
HookStates ==
  {Idle}
  \cup [pc : {"apply"}, event : reports, found : BOOLEAN, seen : {None} \cup PayoutStatus]

\* Every column and every request keeps its type: lines are of entries there
\* are, keys of the settlement's requests, and what is handled was reported.
TypeOK ==
  /\ trx \in Seen /\ refunds \subseteq Refunds /\ mature \subseteq Transactions
  /\ \A e \in entries : e.type \in EntryTypes /\ e.source \in Sources
  /\ \A s \in Settlements :
       /\ settlement[s].status \in {None} \cup SettlementStatus
       /\ settlement[s].lines \subseteq entries
  /\ payout \in [Settlements -> [status : {None} \cup PayoutStatus, known : BOOLEAN]]
  /\ attempts \in [Settlements -> SUBSET AllKeys]
  /\ inbox \subseteq reports /\ reports \subseteq Reports
  /\ bank \in [Settlements -> [status : {None} \cup AtBank, n : 0 .. MaxTransfers]]
  /\ calls \in [Calls -> CallStates] /\ hooks \in [Hooks -> HookStates]

\* SLICE_7_HANDOFF: lines claim eligible ledger entries once, whoever calculates
\* at the same time.
SettledOnce ==
  \A s, q \in Settlements : s # q => settlement[s].lines \cap settlement[q].lines = {}

\* SLICE_7_HANDOFF: provider confirmation is required before PAID.  No late
\* answer, stale report or repeated request makes a payout look paid, or
\* returned, that the provider has not paid, or returned.
ConfirmedByProvider ==
  \A s \in Settlements :
    /\ payout[s].status = "PAID" => bank[s].status \in {"PAID", "RETURNED"}
    /\ payout[s].status = "RETURNED" => bank[s].status = "RETURNED"

\* A payout's one PAYOUT entry is there when it is PAID and its one
\* PAYOUT_REVERSAL when it is RETURNED, and neither for any other payout: the
\* row, overwritten by retries, answers and reports, and the ledger, which is
\* never edited, do not part.
LedgerTellsPayout ==
  \A s \in Settlements :
    /\ payout[s].status = "PAID" => Bound(entries, "PAYOUT", s) = {PaidEntry(s)}
    /\ Bound(entries, "PAYOUT", s) # {} => payout[s].status \in {"PAID", "RETURNED"}
    /\ payout[s].status = "RETURNED" <=> Bound(entries, "PAYOUT_REVERSAL", s) # {}

\* ADR 0036 and 0038: entries are never edited, a settlement's lines and net
\* never change, and a payout leaves PAID for RETURNED only and RETURNED never.
HistoryKept ==
  [][/\ entries \subseteq entries'
     /\ \A s \in Settlements :
          /\ settlement[s].status # None =>
               /\ settlement'[s].lines = settlement[s].lines
               /\ settlement'[s].net = settlement[s].net
          /\ payout[s].status = "PAID" => payout'[s].status \in {"PAID", "RETURNED"}
          /\ payout[s].status = "RETURNED" => payout'[s].status = "RETURNED"]_vars

-----------------------------------------------------------------------------
(* Claims the code does not keep.                                           *)

\* SLICE_7_HANDOFF: signed payout events are recoverable after provider success
\* before internal acknowledgement.
PaidReportCounts ==
  \A e \in inbox : e.type = "paid" => payout[e.s].status \in {"PAID", "RETURNED"}

\* calculateSettlement refuses with "Eligible balance is below payout threshold":
\* when every settlement so far was paid, the balance is what can be settled.
RefusedBelowThreshold ==
  [][\A k \in Calls :
       LET E == syncAllocations(calls[k].seen) IN
       /\ FinishSettlement(k) /\ settlement' = settlement /\ Positive(E)
       /\ \A s \in Settlements : settlement[s].status # None => payout[s].status = "PAID"
       => Net({e \in E : Available(e, "now")}) < Minimum]_vars

\* SLICE_7_IMPLEMENTATION_PLAN: the hold period determines eligibility; no
\* payment is settled before its hold is over.
HoldPeriodKept ==
  \A s \in Settlements : \A e \in settlement[s].lines :
    e.type = "PAYMENT_EARNED" => e.source \in mature

\* ADR 0038: payout calculation excludes held funds; a hold is released when
\* the dispute is won.
HeldWhileDisputed ==
  [][\A t \in Transactions :
       /\ Bound(entries, "DISPUTE_RELEASE", t) = {} /\ Bound(entries', "DISPUTE_RELEASE", t) # {}
       => trx[t] # "DISPUTED"]_vars

\* ADR 0038: a lost dispute creates the final negative adjustment.
Adjusted(E, t) == {e \in E : e.type = "REFUND_ADJUSTMENT" /\ e.source \in {t} \cup RefundsOf(t)}
LostIsAdjusted ==
  [][\A k \in Calls : FinishBalance(k) =>
       \A t \in Transactions :
         calls[k].seen[t] = "REFUNDED" => Net(Adjusted(entries', t)) = -Gross[t]]_vars

\* ADR 0036: every captured booking payment creates one allocation.
BalanceAllocates ==
  [][\A k \in Calls : FinishBalance(k) =>
       \A t \in Transactions : calls[k].seen[t] # None => Bound(entries', "PAYMENT_EARNED", t) # {}]_vars

\* A settlement whose payout is PAID is PAID.
SettlementFollowsPayout ==
  \A s \in Settlements : payout[s].status = "PAID" => settlement[s].status = "PAID"

=============================================================================
