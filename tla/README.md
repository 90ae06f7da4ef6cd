# Sarbato: TLA+ models and proofs

Sarbato (package name *weddingos*) is a wedding-planning service: a Next.js front end
(`src/src`), a NestJS API over PostgreSQL (`src/apps/api`), a worker process that
carries out what the API has promised (`src/apps/worker`), and shared packages
(`src/packages`). This directory holds TLA+ models of its concurrent core, TLC
configurations that check them on small instances, and TLAPS proofs about them.
`PROJECT.json` is the index: components, runs, mutants, the source lines behind every
definition, findings, hazards and theorems.

    tlasany Outbox.tla                                     # parse
    tlc -workers 2 -config outbox_live.cfg MCOutbox.tla    # check one run
    tlapm OutboxProofs.tla                                 # check the proofs

## 1. Inventory

What the system keeps, does and has to get right, part by part. "Hard" names the
behaviour that unit tests reach badly.

| Part | State | Operations | Correct when | Hard |
|---|---|---|---|---|
| Outbox producer (`apps/api/src/async/async.service.ts`, `packages/jobs`) | `outbox_messages`, one `outbox_consumer_executions` row per consumer, optional `background_jobs` | `record` inside the mutation's transaction | every committed mutation has its rows | - |
| Consumer ledger (SQL functions in `packages/database/prisma/migrations`) | the same rows: status, attempts, lock, availability | claim, begin, fail_enqueue, reconcile | a settled row stays settled, event and job summarize the rows | interleaving of two workers and two siblings, stale locks |
| Dispatcher and processor (`apps/worker/src/main.ts`) | timers, BullMQ workers (5 handlers a process) | dispatch, processConsumer, completeConsumer, failConsumer | at-least-once, repeats only after faults | crash between any two steps, zombies, lost acknowledgements |
| Redis/BullMQ (external) | jobs by id, locks, delays | add, take, retry, stalled check, eviction | - | data loss, stalls |
| Campaigns (`guests/invitation-campaign.service.ts`, worker, webhook SQL) | campaign, recipients, delivery executions, provider events | send, schedule, cancel, archive, retry, publish, fan-out, deliver, report, finalize | nobody is sent to after a withdrawal; progress follows recipients | e-mail call inside a transaction, late reports, redelivery |
| Workspace subscription (`workspace-billing/`) | subscription row, provider events, checkouts | checkout, webhook, overview | access is what the provider last said | events out of order or repeated |
| Message credits (`workspace-billing/message-credit.service.ts`) | account, ledger entries | synchronize allowance, consume, purchase | balances are the ledger's sums, requests are booked once | stale subscription, repeated keys |
| Secure commerce (`secure-commerce/`) | checkouts, transactions, refunds, payment records | create and expire checkouts, provider events, refund, reconcile | ledger agrees with the provider, refunds never exceed captures | provider calls between transactions, a webhook without a lock |
| Trust and monetization (`trust-monetization/`) | allocations, payable entries, settlements, payouts; reviews, subscriptions | synchronize, settle, finalize, pay out, retry, payout webhook | an entry is settled once, PAID only what the provider paid | answers against reports, retries against late reports |
| Event day (`event-day/`) | check-ins, devices, snapshots, moments | online check-in, offline batches | one attendance per guest, commands applied once | two devices, late batches |
| RSVP and menus, guest CRM (`guests/`) | submissions, responses, households | submit, edit, publish form, import, merge | every active member answers every active event | two members, publication in between |
| Commercial (`commercial/`) | RFQs, recipients, offers and versions, bookings, contracts | send, answer, draft, submit, review, accept, acknowledge | one award per RFQ, versions immutable | status checked before the lock, rows written by id |
| Planning, operations (`planning/`, `operations/`) | tasks, dependencies, proposals, documents | edits under `If-Match` versions, apply | acyclic dependencies, a proposal applied once | - |
| Copilot (`intelligence/`) | proposals, executions, memory | approve, execute | an approved proposal is executed once | long transactions |
| Platform, auth, team, onboarding, notifications, the web application, ops | see `PROJECT.json` | | | mostly one transaction each |

The parts interact through PostgreSQL: every API mutation with a later consequence
records an event in its own transaction; the worker's timer claims the event's rows,
puts a BullMQ job for each into Redis, and the job's handler performs the effect and
settles the row; reconciliation derives the event and the user-visible job from the
rows. Provider webhooks enter through the API and write the rows of campaigns, billing
and payments under locks of their own.

## 2. Modules

| Module | Models | Built on |
|---|---|---|
| `Outbox` | producer, ledger, dispatcher, processor, BullMQ, visible job, for one event | refines `Delivery` |
| `Delivery` | what ADR 0005 promises of an event: performed before acknowledged, acknowledged or given up in the end | - |
| `OutboxProofs` | 6 theorems about `Outbox` with every fault | `Outbox` |
| `OutboxOnceProofs` | 6 theorems about `Outbox` without zombie faults, the refinement of `Delivery` among them | `OutboxProofs`, `Delivery` |
| `Campaign` | one e-mail campaign from the organizer's request to the last provider report | assumes of executions what `Outbox` shows: one run at a time, again until terminal |
| `CampaignProofs` | 7 theorems about `Campaign` | `Campaign` |
| `Billing` | a workspace's subscription and its message credits | - |
| `BillingProofs` | 5 theorems about `Billing` | `Billing`, `FiniteSums` |
| `Payments` | the online payments of one schedule entry: checkouts, provider events, refunds, ledger | - |
| `PaymentsProofs` | 5 theorems about `Payments` | `Payments`, `FiniteSums` |
| `Payouts` | what a vendor earns and is paid: payable ledger, settlements, payouts, webhook | sees the transactions of `Payments` as its environment |
| `PayoutsProofs` | 5 theorems about `Payouts` | `Payouts` |
| `Award` | a request for quotes, its offers, the award; the worker's `rfq_delivery` | assumes of executions what `Outbox` shows |
| `AwardProofs` | 4 theorems about `Award` | `Award` |
| `FiniteSums` | sums over finite sets, for the models that keep a ledger | - |
| `MCOutbox`, `MCCampaign`, `MCBilling`, `MCPayments`, `MCPayouts`, `MCAward` | model values, symmetry and constants for TLC | |

### Outbox

One event with its `Consumers`. State is the columns that control the protocol:
`status`, `attempts`, `lockedBy`, `due` (available_at has come) and `stale` (the lock
is older than two minutes) of the rows; `outbox` and `command` of the event; the
visible `job`; the BullMQ record of each row (`bull`); each worker's dispatch pass and
each handler's program counter. Times are abstracted to the comparisons the SQL makes,
with actions `BecomeDue` and `LockAges` for their becoming true.

An action is one transaction, one Redis call or one provider call. The dispatch timer does
not wait for the pass it started before, so the passes of one worker may overlap
(`Passes`, `Dispatchers`). `Claim` is
`weddingos_claim_consumer_executions`; `Lookup`, `Remove`, `Add`, `FailEnqueue` are the
dispatch loop's steps for a claimed row; `Begin`, `Mark`, `Work`, `Complete`, `Fail` are
`processConsumer` from its row lock to the settlement, `Settle` what BullMQ does with
the handler's outcome. `CommitCompletion` and `CommitFailure` contain `Reconcile`, as
the code's transactions do. The environment may crash a worker, fail Redis or the
database, lose a provider's answer or a commit's acknowledgement, let BullMQ lose a
handler's lock, or lose Redis' data; `faults` counts these against `MaxFaults`.
Handlers that live on after a stall, a lost acknowledgement or a Redis loss are
"zombies": they keep running and write what the code lets them write.

Not modelled here: the payload, what each consumer does (an effect inside the ledger's
transaction or outside it, `External`), the deletion of old rows, and row locks held
across steps (a deadlock is a rolled back transaction, `RollBack`). Redis keeps a job's
id until `Evict`, which stands for removeOnComplete and removeOnFail.

### Campaign

State: the campaign's status, publication of the site, every recipient's status and
message, the outbox row and the run of every fan-out and delivery, the provider's
reports received (`hooks`), and two histories, messages accepted (`mails`) and `faults`.
PostgreSQL runs READ COMMITTED, so a transaction is split where another can come between
its statements: `ReadTransition`/`WriteTransition` (CANCEL and ARCHIVE read the campaign
and later update it by id), `ReadFanout`/`WriteFanout`, `Lock`/`Call`/`Record`/`Count`/
`Commit` for a delivery, whose provider call lies inside the transaction that holds the
lifecycle lock (`SiteFree`, `HoldsSite`). `Count` is two reads, `CountActive` of who is
pending and then `CountFailed` of who has failed, between which reports may be committed.
`FinalFree` is the finalization lock and
`RowFree` the row lock the webhook needs. `TimeOut` is Prisma ending a transaction after
60 s: the locks are gone and the call goes on (`ReturnLate`).

Abstractions: drafts, audience filters, address resolution and access grants; statuses
FAILED and PAUSED of a campaign exist in the schema and are never written; the
`campaign_summary` consumer is never emitted. A message is reported at most once per kind, and
reports of any message come at any later time. The idempotency key sent to the provider
is ignored, so `mails` is an upper bound. `NoSuccessfulResend` is checked with failure
reports only: a late delivery report during the provider call is the known race of
`OpenedIsTerminal` (section 3).

### Billing

State: the subscription `row`, the provider events `recorded` and packs `granted`, the
open `checkout`s, the credit `account` and `ledger`, what each concurrent `overview` has
read, and the provider's own state. `Webhook` is one transaction under the workspace's
billing lock; an event is ignored when it is not newer than the row (`Stale`), recorded
in any case. `Synced`/`SyncEntries` are `syncLocked`; `Consume`, `PackWebhook` and
`Balance` contain them, and do nothing when the ledger's unique index refuses an entry
(`Insertable`): the transaction fails. `ReadOverview` and `Balance` are two steps,
because Prisma's upsert with an empty update reads the row without locking it, and the
credit lock is taken later.

Paddle is external: it numbers what happens, gives the two events of a first payment any
order or the same time, and delivers each event when it likes. A later event may or may
not carry the checkout's assignment token (`Bindings`). One price per subscription:
changes of plan in the portal, `INCOMPLETE` and trials are not modelled. An event that
resolves to no workspace is answered with success and does nothing; the model leaves it
undelivered. `consume` is exported and tested; no module of the repository calls it yet.

### Payments

State: the schedule entry's `paid`, the `checkout`s with their transactions (`trx`), the
`refund`s, the append-only `ledger` of payment records, the `inbox` of provider events, the
API requests (`calls`) and webhook requests (`hooks`) under way with what they have read,
and the provider's own `payment`, `dispute` and `returned`. The provider is called between
transactions, so every operation is several actions: `RequestCheckout`, `InsertCheckout`,
`Host` (the call), `OpenCheckout`; `RequestExpiry`, `ExpireHosted`, `SaveExpiry`;
`RequestRefund`, `CallRefund`, `BeginCompletion`, `FinishRefund`; `Receive` and `Apply`.
`DropCall` and `DropHook` are a process that dies at any of those points; the request may
be repeated with its key. The advisory lock of a transaction (`LockFree`) is taken by
refunds and not by the webhook. `Mismatch` is what `reconcilePayments` would report.

One payment per checkout, one refund per key. Left out: optimistic versions, the attempts'
and reconciliation's rows, the budget item's copy of `paid`. The sums a step needs are read
and written in that step. The provider is external: it is idempotent by checkout and refund
id, refuses to expire a paid page, and a page can be paid only once its address was saved.

### Payouts

State: the payment transactions and refunds a vendor earns from (`trx`, `refunds`,
`mature`: the hold is over), the payable `entries`, `settlement`s with their lines, the
`payout` of each, `attempts`, the `inbox`, requests and webhook requests under way, and the
provider's `bank` and `reports`. `Append` and `syncAllocations` compute the entries a
synchronization adds, as a fold over the transactions it has read (`BeginBalance`,
`BeginSettlement`) and the entries that are there when it writes (`FinishBalance`,
`FinishSettlement`). `RequestPayout`, `ResumePayout` and `BeginRetry`/`Reserve` begin a
payout; `Transfer` calls the provider, `BeginRecord`/`Record` record its answer;
`Receive`/`Apply` is the webhook, under no lock. `Permitted` is the database trigger
`weddingos_guard_terminal_payout`, which is what stops a late writer.

One vendor and currency with an ACTIVE account; a settlement is its idempotency key. The
period's end, a date of the request, is compared with entries only as far as their hold is
concerned (`Available`): it is `now`, the default, or `later`, after every hold. A date in
the past, which leaves younger entries to the next settlement, is left out. Left out besides: recomputed columns of allocations, statuses of
attempts, keys shared by settlements, and the race of two balance requests for the unique
index, which is a `DropCall`. The provider identifies a payout by its id and tries it again
at most `MaxTransfers` times.

### Award

State: the request (`rfq`), the `recipient` and `offer` of every vendor, the `booking` that
an acceptance makes, the `rfq_delivery` consumer of every recipient, and the API requests
under way. READ COMMITTED again: each operation reads a row and checks its status (`Begin...`),
and later writes it by its id. Only acceptance takes a lock, and after the check
(`LockAward`, then `AcceptOffer`). `CountAnswers`/`SubmitOffer` are split because the SQL
function that derives the request's status counts committed answers only; between the two
the submission holds the rows it has written (`Unlocked`). Replacing the recipients is two
statements. `DeleteRecipients` deletes the rows it sees, and their offers by cascade, which
the trigger `offer_versions_immutable` refuses when there are any; `InsertRecipients` adds
the new ones. Rows that an overlapping replacement commits in between are `spared`: the
request then has both sets of recipients, or, when they share a vendor, the unique key
rolls the second back.

One request, one offer per vendor; an offer's content is its version number. A booking
stands for the contract and budget item made with it. Replays, If-Match, expiry,
availability, currency and publication checks are requests that end without an effect
(`DropCall`). Left out: `deleteRfq`, negotiation threads, what happens to a booking later.

## 3. Runs and bounds

Every bound is a CONSTANT in a cfg. Two of everything that competes (workers, handlers,
sibling consumers, recipients, requests) are what the races of this code need; faults are
counted rather than timed, and the counts are those at which the states of interest occur
(a crash of the replacement as well as of the first handler; a lost answer and its
retry). `CHECK_DEADLOCK FALSE` is in every cfg: a settled event, a finished campaign and
an idle workspace really stop.

| Run | Instance | Shows |
|---|---|---|
| `outbox_redelivery` | 1 e-mail row, 2 workers with 2 overlapping dispatch passes each, 3 faults that leave no zombie | rows re-claimed behind live handlers: no run twice at a time (`SingleRun`), no attempt and no repeated effect without a fault paying for it, the command kept while needed, terminal is final |
| `outbox_siblings` | 2 rows, one of them the e-mail's, 2 handlers, visible job, 1 zombie fault | the event is PROCESSED exactly when all rows are COMPLETED, success follows the effect, and a settled row's command is gone, even with zombies |
| `outbox_live` | 2 rows, 1 fault, fair | every row settles, event and job come to agree, and `Outbox` implements `Delivery` (refinement mapping `DebtOf`) |
| `campaign_reports` | 2 recipients, all reports, cancel, archive, 1 fault | COMPLETED hides nobody unsettled; a cancelled campaign has nobody left to send to; repeats have faults behind them |
| `campaign_retries` | 2 recipients, 2 requests, 1 crash | no orphan in QUEUED, no resend after success |
| `campaign_settles` | cancel, schedule, unpublish, publish, no fault, fair | every request leaves QUEUED and SENDING; nothing is sent after a withdrawal |
| `billing_ledger` | 4 provider events in any order, 1 overview, 1 request repeated, 1 pack completed twice | the row ends as the provider's state; balances are the ledger's sums and never negative; a request is booked once |
| `billing_purchases` | 2 packs, fair redelivery | paid packs are credited |
| `payments` | 1 checkout of price 2, 2 refunds, 2 API requests, 2 webhook requests, all event types, fair redelivery | refunds stay within the capture, the ledger tells what happened and what the transactions show, every undisputed capture is recorded |
| `payouts` | 1 payment with a refund and a dispute, 2 settlements for periods that end now or later, 1 payout with 2 keys and 2 transfers, 2 API requests, 1 webhook request | an entry is settled once, PAID and RETURNED are the provider's, entries and payouts agree, nothing is rewritten |
| `award` | 2 vendors, any non-empty set of them as recipients, 2 API requests, 2 versions, moves `MARK_READY`, `SEND`, `CANCEL`, `REOPEN`, `REQUEST_REVISION`, 1 detour: a worker death, a reopening or a repeated sending | one award, booked, of a version there is; it stays, and no version is lost to a replacement or written over |
| `finding_payout_balance` | 2 payments, 2 settlements, 1 request | see below |

`SYMMETRY` is used with safety runs only, over workers, slots, recipients, requests or
vendors, which no property tells apart.

Fairness. `Outbox!Fairness`: the dispatch timer, BullMQ's timers and time itself go on,
handlers return because every provider call has a timeout. Nothing is assumed about
faults, and one WF for all the steps of a worker or handler is enough as each has at most
one program counter. `Campaign!Fairness`: a begun request finishes, executions are run
while they are not terminal, which is `EventuallyTerminal` of `Outbox`.
`EverySendSettles` is checked without faults only: a redelivered fan-out can set SENDING
over COMPLETED (`FinalizedStays` below). `Billing!Fairness`: Paddle redelivers what was not
answered with success; nothing is assumed of owners or overviews. `Payments!Fairness`: the
provider redelivers a capture until it is answered, and its webhook requests do not die every
single time (SF of `Apply`); nothing is assumed of buyers or API requests. `Payouts` and
`Award` state safety only: nobody is obliged to repeat a request or a retry.

### Where code and documentation disagree

`finding_payout_balance` checks what the refusal of a settlement says, "Eligible balance is
below payout threshold". A settlement takes every confirmed entry that is in no settlement's
lines, and the PAYOUT entry of an earlier one is such an entry; the earnings it paid are in
lines already, so the same amount is subtracted twice. Two payments of net 1, the first
settled and paid out: the second is refused although the balance shows it.

The last section of each module states further claims the code does not keep. They have no
run of their own; each is refuted by TLC on the instance given here, which differs from the
module's runs as said.

| Property | Claim | Instance that refutes it |
|---|---|---|
| `Outbox!CompletedNeverRerun` | docs/adr/0005:15, a completed consumer never runs again | 1 row, 2 workers, one `redis_loss`: a zombie turns COMPLETED into FAILED |
| `Outbox!AttemptsWithinLimit` | docs/SLICE_2A_HANDOFF.md:154, maximum 5 attempts | `outbox_redelivery`: runs that die are restarted past `max_attempts` |
| `Outbox!OutboxTerminalIsFinal` | docs/SLICE_2A_HANDOFF.md:155, dead letter is terminal | 2 rows, one `redis_error`: a failed enqueue takes the event out of DEAD_LETTER |
| `Outbox!JobEventuallyAgrees` | docs/adr/0005:19, the job summarizes its consumers | 1 row, `stall` and `crash`: a zombie's RUNNING mark is never reconciled (without zombies it holds, `outbox_live`) |
| `Outbox!JobTerminalIsFinal` | apps/worker/test/jobs.spec.ts:40, a dead letter does not run again | 2 rows, no fault: a sibling's handler sets the DEAD_LETTER job to RUNNING |
| `Campaign!DeliveriesIndependent` | docs/adr/0015:15, deliveries are independent | 2 recipients, `failed`: PARTIAL after an early bounce refuses the other delivery for good |
| `Campaign!OpenedIsTerminal` | apps/api/test/slice-3.integration-spec.ts:2283 | 2 requests, `failed` and `opened`: a late report during a retry's provider call is overwritten by SENT |
| `Campaign!FanoutRecovers` | docs/adr/0015:26, crash recovery covers fan-out | 1 recipient, 2 attempts, one `crash`: the redelivered fan-out of a finished campaign is a dead letter |
| `Campaign!CancelledFromActive` | docs/adr/0015:19, transitions are a state machine | reports and `cancel`: CANCEL of a campaign that became PARTIAL |
| `Campaign!NothingSentAfterWithdrawal` | worker main.ts:3583, no withdrawal between check and e-mail | 1 recipient, `cancel`, one `tx_timeout`: a message leaves after CANCEL |
| `Campaign!PartialHasFailure` | webhook migration:3, a retry can target FAILED recipients | 1 recipient, `delivered` then `failed`: PARTIAL with nobody failed |
| `Campaign!ProgressFollowsRecipients` | docs/adr/0015:15, progress is derived from recipients | 2 requests, late `delivered`: SENDING for ever |
| `Campaign!CompletedMeansSettled` | worker main.ts:3984, sent to all recipients | 2 requests, one `crash`: COMPLETED with a PENDING recipient (with one request it holds) |
| `Campaign!FinalizedStays` | docs/SLICE_3_HANDOFF.md:37, finalization is protected | 1 recipient, 2 attempts, one `crash`: COMPLETED becomes SENDING |
| `Billing!RenewalGrants` | settings page:766, included credits renew with the plan | `renew`, MaxClock 4: an account whose period was unknown gets no credits |
| `Billing!AllowanceFollowsSubscription` | docs/SARBATO_SUBSCRIPTION_PLANS.md:61 | 1 overview, MaxClock 2: a delayed overview resets a paid allowance to Free |
| `Billing!ActiveRetained` | docs/SARBATO_SUBSCRIPTION_PLANS.md:61 | 2 subscriptions, `cancel`: two checkouts, one row |
| `Billing!PurchaseEventuallyCredited` | settings page:767, purchased credits stay in the balance | `billing_purchases` with `pause` and `resume`, MaxClock 5: the second reset in a period needs a key that exists, and every use of the account fails |
| `Payments!RefundedMatchesLedger` | docs/adr/0031:19, a resumed refund has one effect | `payments` without disputes: request and repetition both add to `amount_refunded_minor`, the ledger has the refund once |
| `Payments!SucceededIsFinal`, `CompletedIsFinal` | docs/adr/0031, terminal states do not regress | `payments`: a repetition's PROCESSING answer over SUCCEEDED; a late answer of createCheckout over COMPLETED |
| `Payments!PaidIsNet` | docs/adr/0031, the sign comes from the entry's type | `payments`, 2 checkouts, 1 refund, captures only: the second capture sums the first's refund as a positive amount |
| `Payments!ReconciliationFindsNothing` | the same | `payments`, 1 refund: the reconciliation sums refunds as positive amounts and reports a mismatch |
| `Payments!CaptureAlwaysRecorded` | docs/adr/0031:13, events in any order | `payments`: a dispute reported before its capture leaves it without a record |
| `Payments!NeverOvercharged` | createCheckout, secure-commerce.service.ts:3408 | 2 checkouts: the outstanding amount is read before another payment is recorded |
| `Payouts!PaidReportCounts` | docs/SLICE_7_HANDOFF.md:36, provider success is recovered | `payouts`: a `paid` report before the payout's row has its provider id is consumed |
| `Payouts!HeldWhileDisputed` | docs/adr/0038, held funds are excluded | `payouts`: a balance that read the transaction before the dispute releases the hold |
| `Payouts!HoldPeriodKept` | docs/SLICE_7_IMPLEMENTATION_PLAN.md:50, the hold period determines eligibility | `payouts`: a period that ends later takes in a payment whose hold is not over (with `now` alone it holds) |
| `Payouts!LostIsAdjusted` | docs/adr/0038, a lost dispute is the final adjustment | `payouts`, outcome `REFUNDED`, a refund of half: a refund before the loss leaves the rest unadjusted |
| `Payouts!SettlementFollowsPayout` | the settlement's status is its payout's | `payouts`: a repeated finalization, checked while the settlement was READY, writes FINALIZED over PAID |
| `Payouts!BalanceAllocates` | docs/adr/0036:13, every payment has its allocation | a fee of 0: its PLATFORM_FEE entry violates `vendor_payable_positive_amount` and the whole synchronization fails |
| `Award!LosersClosed` | docs/SLICE_5_HANDOFF.md:37, competing offers transition consistently | `award`: a submission after the award |
| `Award!AwardedIsAccepted` | the winner's offer is ACCEPTED | `award`: a stale draft, withdrawal or review over ACCEPTED |
| `Award!SubmittedStays` | docs/adr/0023:17, a submitted version cannot be edited | `award`: a late edit returns the offer to DRAFT |
| `Award!ArchivedStays` | docs/adr/0023:15, archived requests | `award` with the move `ARCHIVE` of a RESPONDED request: a submission sets the request RESPONDED |
| `Award!QueuedIsDelivered` | a recipient is delivered to when queued | `award`: a second SEND's event, after a reopening or of an overlapping request, is deduplicated (async.service.ts:45) and the recipient stays QUEUED |

## 4. Proofs

All theorems are about `Spec` without fairness and for every value of the constants that
satisfies the named assumptions of the module: finite non-empty consumers, any workers,
dispatch passes and slots, any bounds; finitely many recipients and refunds; a NULL that is none of the
values of its columns. TLC evaluates those assumptions in every run. A theorem that needs
more of the environment than that states it as its own hypothesis.

Every safety property of the runs is stated by a theorem.

**Outbox.** `TypeCorrect`: `TypeOK` is not inductive alone, since a handler's later steps
write what an earlier one remembered; `Shape` adds that a busy handler holds a consumer
and a dispatching worker a row it claimed (`Assigned`). On top of `Shape`, `LedgerInv`
carries the four ledger theorems (`ProcessedExactlyHolds`, `JobCompletedHolds`,
`CommandScrubbed`, `TerminalUnlockedHolds`): the event summarizes the rows after every
transaction because only `CommitCompletion` and `CommitFailure` end in `Reconcile`
(`ReconcileExact`), a terminal row has no lock, so neither a claim nor an enqueue failure
touches it, and only `CommitCompletion` makes a row COMPLETED. `EffectInv` adds that a
handler at its completion step has performed the effect (`PerformedBeforeComplete`) and
gives `CompletedWasPerformedHolds`. All hold with zombies.

The theorems of `OutboxOnceProofs` assume `NoZombies`: lost answers, crashes and failed
calls may happen in any number, but none of the faults in `ZombieFaults`. They rest on
`LockHeld`: a busy handler holds the BullMQ lock of its consumer and only active records
are locked, so that neither a second claim nor a second add of a stale row hands it out
again (`SingleRunHolds`). With one handler a row, whoever is about to commit finds its row
open (`RowOpen`), hence `TerminalIsFinalHolds`, although the commits have no condition, and
`CommandKept`. `AttemptsPaid` needs to know that the working handler carries the row's last
attempt number and that an open row nobody works for has an attempt left or a fault that
pays for it (`AttemptsInv`); `RepeatsPaid` that an effect is recorded, about to be, or paid
for (`RepeatsInv`). `RefinesDelivery` maps `Init` and every step to `Delivery`: the commit
of a completion to `Acknowledge`, of a terminal failure to `GiveUp`, a provider call to
`Perform`, everything else to a stutter. The assumption cannot be dropped: the table of
section 3 gives the zombie behaviours that break these properties.

**Campaign.** `CancellationSettles`: a cancelled campaign has nobody PENDING or QUEUED, for
any interleaving and all faults. `CancelledIsSettled` is not inductive: what keeps a
fan-out or a delivery from writing after the cancellation is that the lifecycle lock is
held from check to write. `SiteInv` says so in three conjuncts: an API request and a
delivery are never both inside the lock (`RequestAlone`), a recipient's write is pending
only at the transaction's end (`WriteAtEnd`), and what the holder of the lock has checked
stays true (`CheckedUnderLock`). `WithdrawalRespected` adds the assumption that no
transaction expires under its call (`"tx_timeout" \notin Faults`), under which no provider
call outlives its lock (`NoOrphan`); the table above shows that the assumption is needed.

`QueuedHasDeliveryHolds` and `RepeatsPaid` hold with all faults. `RunsInv` says that only
owed executions run, that a recipient is written only at a transaction's end and that the
lifecycle lock has one holder. For `QueuedHasDeliveryHolds`, `IntentsInv` bounds a
recipient's delivery intents by the requests, so that a fan-out always has a fresh
execution for whom it queues, and a queued recipient has a `Useful` delivery: owed and not
about to end without settling its recipient. For `RepeatsPaid`, `Paid` keeps a balance for
each recipient: accepted messages, plus the provider calls that lost their lock
(`Orphans`), plus one while another message may still be accepted (`Open`), are at most
the requests and faults. An expiring transaction moves its message to the orphans and
brings a fault; a commit closes the recipient because the lock kept fan-outs and other
calls away between the acceptance and the commit.

`CompletedSettles` is about a campaign of one request (`MaxSends = 1`), with all faults; with
two requests TLC refutes the property (section 3). `OnceInv` says what one request brings: a
recipient that can be sent to has no message yet, one that a fan-out has read is still
PENDING (it has no delivery, so nobody else writes it), one that a failing delivery writes
off is still active. `SettleInv` then follows a delivery from its count to its commit, the
steps between which reports, fan-outs and cancellations come: there is no verdict before the
commit (`UndecidedCount`), and when the first read found nobody active there is nobody at the
second (`NobodyActive`); a count that found somebody to wait for still does
(`UnsettledCount`), a count of COMPLETED still has nobody active, and failures only where a
report arrived that made the campaign PARTIAL (`SettledCount`, `CompleteCount`). The step
that could undo this is a redelivered fan-out,
which writes SENDING over PARTIAL; `OpenWaits` rules it out: while the fan-out runs somebody
waits or has failed without a message, so the count was not COMPLETED.

`SuccessfulNotResent` has two cases, and in both `CallsUnsuccessful` is the invariant: a call
under way is for a recipient that has not become successful since the last check. With any
number of requests it needs that no transaction expires, so that another delivery of the
recipient cannot commit SENT meanwhile (`OneHolder`), and that reports are bounces: a late
`delivered` of an earlier message does make the recipient successful during the call
(`OpenedIsTerminal` in the table). With one request neither matters, as the recipient has no
other delivery and no message that could be reported (`CallsUnsent`).

**Billing.** `IInv` joins `TypeOK`, `RowIsNewest` and what the provider may have sent
(`ProviderInv`: events belong to checkouts with a paid plan, so an applied event yields
FREE exactly when it cancels). `RowIsNewestHolds` splits on `Stale`; `TypeCorrect`
includes that both balances stay natural numbers, which rests on the guard of `Consume`
and the split of `IncludedUsed`. `LedgerInv` adds the sums: each balance is the sum of its
bucket's entries, and what a request has booked adds up to its quantity. A step adds to the
ledger the entries of `SyncEntries`, a consumption or a purchase, and `Insertable` makes them
new ones, so that their sum is added (`SumUnion`); a repeated consumption finds its entries
and adds none. `LedgerBalancesHolds` and `ConsumedOnceHolds` follow. `AgreesWithProviderHolds`
assumes one subscription (with two, `ActiveRetained` of section 3 is the counterexample):
the provider's newest event tells its subscription's state (`NewestInv`), the first payment's
two events of the same time included, and the row is the outcome of the newest one recorded.

**Payments.** `IInv` joins the four properties: what is under way agrees with the provider
(`UnderWay`: an event being applied was sent, a refund being completed was paid), and what a
webhook has read of a transaction claims no more than the table does (`ReadIsRecorded`);
the latter is why a webhook that writes its old copy over a newer row still leaves a
recorded amount. `TypeCorrect` includes that captured and refunded amounts stay within the
price. `SucceededIsRecordedHolds` is not among the runs' properties; TLC checks it as a
part of the argument only. `RefundsWithinCaptureHolds` rests on `ReserveInv`: whatever the
provider is asked to give back was reserved by its row first (`Asked`), and the rows of a
payment never reserve more than its record allows. A reservation is made under the lock of
the transaction, against the sum of those there are, and outlives every answer; so the
refunds the provider knows are among the reserved ones and their sum is not larger
(`SumMonotonic`).

**Payouts.** `IInv` says of the tables that payouts belong to settlements and agree with
their entries, of the provider that its reports are true (`ReportsTrue`: what it has told
it does not take back), of the requests what each relies on until it writes (`Knows`: a
settlement being calculated sees all lines there are) and that calculations are serialized
(`Serialized`). `SettledOnceHolds` follows from the two last; `ConfirmedByProviderHolds`
from true reports and answers; `LedgerTellsPayoutHolds` and `HistoryKeptHolds` from the
trigger `Permitted`. What the entries' amounts add up to is left open, also in `TypeOK`.

**Award.** `IInv` is the tables' types, `AwardIsBooked` and what calls may rely on
(`Sound`: the offer read still exists, with at least the version read; who holds the lock
may be awarded, and `OneAward` holds it). Every step but acceptance is `Quiet`: it awards
nothing, accepts nothing and loses no version, so one lemma serves them all. `Sound` needs
that an offer somebody has read is never deleted: `DeleteRecipients` goes on only when the
trigger finds no version, and a request that had read a deleted row ends when the
replacement commits (`AfterReplacement`).

**Sums.** The models sum over ledgers and refunds with the library's `MapThenSumSet`, a
recursive function over the subsets of a finite set. `FiniteSums` proves what the models use
of it: a sum is an integer, an element that joins adds its value whatever the order of
summation (`SumAdd`), disjoint sets add up (`SumUnion`), part of a set of natural numbers
sums to no more (`SumMonotonic`). The induction theorems of the library take a predicate as
a parameter; here induction is a fact about sets instead: a non-empty family of finite sets
has a member no removal of one element keeps in the family (`SmallestSet`, from the
well-foundedness of the natural numbers), applied to the family of counterexamples.

Model-checked only: all liveness (`EventuallyTerminal`, `OutboxEventuallyAgrees`,
`JobEventuallyAgrees`, `EverySendSettles`, `PurchaseEventuallyCredited`, `CaptureRecorded`)
and the fairness part of `ImplementsDelivery`; TLAPS proves neither ENABLED nor liveness
here.

## 5. Plan

What would come next, ordered by what matters most to the users of the system.

1. `CheckIn` (event-day): online check-in against offline batches of two devices, repeated
   and reordered; properties: commands applied once, sequence never goes back.
2. `Rsvp`: two members' submissions, form publication, closing date.
3. Contracts and bookings after `Award`: acknowledgement by both parties, cancellation; then
   the Copilot executor as a client of the modelled services.
4. `OutboxLocks`: the row locks of completion, enqueue failure and reconciliation held
   across statements, to decide whether lock orders can deadlock.
5. `Billing`, second version: plan changes in the portal, accounting rows, entitlements.
6. Planning: the dependency graph's cycle check, as a function against reachability and as
   two concurrent edits.

Theorems: what the lines of a settlement of `Payouts` add up to, now that `FiniteSums` can
say it; `CompletedMeansSettled` for several requests under conditions that exclude the
counterexample of section 3.

## 6. Not modelled

The front end, HTTP parsing and authorization, row-level security (a `withContext` call is
an atomic step that sees its workspace), payload contents and encryption, backups,
artifact cleanup and scheduled automations, and the parts marked `not_modelled` in
`PROJECT.json`, each with its reason.

The models stand for a small share of the repository's 186 000 lines. Most of those have no
state a model could hold: pages and components of the front end (the largest part), mapping
of rows to responses, input validation, controllers, generated code and SQL policies. Each
protocol that does keep state across transactions is a few hundred lines, most of them
payloads and wording of events; the seven modules here are the ones in which several
processes or an outside provider take part.
