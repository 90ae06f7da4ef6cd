------------------------------ MODULE Campaign ------------------------------
(***************************************************************************)
(* One e-mail campaign: the organizer's transitions in the API, the        *)
(* fan-out and delivery consumers of the worker, the provider that accepts *)
(* messages and reports on them later, and the finalization of the         *)
(* campaign from its recipients.                                           *)
(*                                                                         *)
(* A transaction is split where another one can come between its           *)
(* statements (READ COMMITTED). Two advisory locks order them: the         *)
(* lifecycle lock of the workspace's invitation site and the finalization  *)
(* lock of the campaign. An execution of the outbox is run again until its *)
(* row is COMPLETED or DEAD_LETTER, one run at a time (module Outbox).     *)
(***************************************************************************)
EXTENDS Naturals, FiniteSets

CONSTANTS
  Recipients,    \* invitation recipients the audience can contain
  MaxSends,      \* bound on the send, schedule and retry requests
  MaxAttempts,   \* max_attempts of every execution
  Events,        \* what the provider may report of an accepted message
  Operations,    \* what the organizer may do besides sending and retrying
  Reminder,      \* the campaign's purpose is RSVP_REMINDER
  Faults,        \* the faults the environment may produce
  MaxFaults,     \* bound on the number of faults in a behaviour
  None           \* NULL; also the recipient of a fan-out execution

ASSUME RecipientsAssumption == IsFiniteSet(Recipients) /\ None \notin Recipients
ASSUME BoundsAssumption == /\ MaxSends \in Nat \ {0}
                           /\ MaxAttempts \in Nat \ {0}
                           /\ MaxFaults \in Nat
ASSUME ChoicesAssumption ==
  /\ Events \subseteq {"delivered", "opened", "failed"}
  /\ Operations \subseteq {"schedule", "cancel", "archive", "unpublish", "publish"}
  /\ Faults \subseteq {"crash", "db_error", "tx_timeout"}
  /\ Reminder \in BOOLEAN

CampaignStatus == {"DRAFT", "SCHEDULED", "QUEUED", "SENDING", "COMPLETED",
                   "PARTIAL", "CANCELLED", "ARCHIVED"}
RecipientStatus == {"PENDING", "QUEUED", "SENT", "DELIVERED", "OPENED", "FAILED", "CANCELLED"}

Active == {"PENDING", "QUEUED"}
Successful == {"SENT", "DELIVERED", "OPENED"}

Fanouts == {None} \X (1 .. MaxSends)
Deliveries == Recipients \X (1 .. MaxSends)
Executions == Fanouts \cup Deliveries

ASSUME NoneAssumption ==
  None \notin RecipientStatus \cup Deliveries
                 \cup {"owed", "COMPLETED", "PARTIAL", "DEAD_LETTER", "CANCEL", "ARCHIVE"}

VARIABLES
  campaign,    \* campaigns.status
  published,   \* the site is PUBLISHED with a published version
  rec,         \* campaign_recipients.status, None before the snapshot
  msg,         \* campaign_recipients.provider_message_id: the execution that sent it
  sends,       \* accepted send, schedule and retry requests
  api,         \* a CANCEL or ARCHIVE request between its read and its writes
  row,         \* outbox_consumer_executions.status, None before it exists
  tries,       \* attempts, counted up to MaxAttempts
  pc, err,     \* the run of an execution: its step and error class
  picked,      \* the PENDING recipients the running fan-out has read
  write,       \* the uncommitted status of an execution's recipient
  verdict,     \* the uncommitted status of the campaign
  hooks,       \* provider_webhook_events
  mails,       \* history: messages the provider accepted, by recipient
  faults       \* history: faults so far

domain == <<campaign, published, rec, msg, sends, api>>
ledger == <<row, tries>>
runs == <<pc, err, picked, write, verdict>>
history == <<hooks, mails, faults>>
vars == <<domain, ledger, runs, history>>

Init ==
  /\ campaign = "DRAFT" /\ published = TRUE
  /\ rec = [r \in Recipients |-> None]
  /\ msg = [r \in Recipients |-> None]
  /\ sends = 0 /\ api = None
  /\ row = [e \in Executions |-> None]
  /\ tries = [e \in Executions |-> 0]
  /\ pc = [e \in Executions |-> "idle"]
  /\ err = [e \in Executions |-> None]
  /\ picked = {}
  /\ write = [e \in Executions |-> None]
  /\ verdict = [e \in Executions |-> None]
  /\ hooks = {} /\ mails = [r \in Recipients |-> 0] /\ faults = 0

Fault(kind) == kind \in Faults /\ faults < MaxFaults /\ faults' = faults + 1

-----------------------------------------------------------------------------
(* Locks: held from a step of a transaction to its end.                     *)

\* The lifecycle lock: fan-outs, deliveries around the provider call, the API.
HoldsSite(e) ==
  \/ pc[e] \in {"fanout", "sending", "accepted"}
  \/ pc[e] \in {"count", "recount", "commit"} /\ write[e] \in {"SENT", "CANCELLED"}

\* Mutant: the delivery does not take the lifecycle lock.
SiteFreeOfApi == api = None

SiteFree == api = None /\ \A e \in Executions : ~HoldsSite(e)

\* Mutant: finalization is not serialized.
FinalFreeAlways == TRUE

\* The finalization lock: from the count to the commit.
FinalFree == \A e \in Executions : pc[e] \notin {"recount", "commit"}

\* No transaction has an uncommitted version of the recipient's row.
RowFree(r) == \A n \in 1 .. MaxSends : write[<<r, n>>] = None

-----------------------------------------------------------------------------
(* The organizer: invitation-campaign.service.                              *)

Queue(status) ==
  /\ sends < MaxSends
  /\ campaign' = status
  /\ sends' = sends + 1
  /\ row' = [row EXCEPT ![<<None, sends + 1>>] = "owed"]
  /\ UNCHANGED <<published, msg, api, tries, runs, history>>

\* SEND_NOW and SCHEDULE: the audience is resolved again; new recipients join
\* as PENDING, the failed ones of a retried campaign become PENDING.
Send ==
  /\ SiteFree /\ campaign \in {"DRAFT", "FAILED", "PARTIAL"}
  /\ \E audience \in SUBSET Recipients :
       rec' = [r \in Recipients |->
                IF r \in audience /\ (rec[r] = None \/ (rec[r] = "FAILED" /\ campaign # "DRAFT"))
                THEN "PENDING" ELSE rec[r]]
  /\ \E r \in Recipients : rec'[r] = "PENDING"
  /\ \/ Queue("QUEUED")
     \/ "schedule" \in Operations /\ Queue("SCHEDULED")

RetryFailed ==
  /\ SiteFree /\ campaign \in {"FAILED", "PARTIAL"}
  /\ \A r \in Recipients : rec[r] \notin Active
  /\ \E r \in Recipients : rec[r] = "FAILED"
  /\ rec' = [r \in Recipients |-> IF rec[r] = "FAILED" THEN "PENDING" ELSE rec[r]]
  /\ Queue("QUEUED")

\* campaignTransition on the status that was read, under the lifecycle lock.
ReadTransition ==
  /\ SiteFree
  /\ \/ /\ "cancel" \in Operations /\ api' = "CANCEL"
        /\ campaign \in {"SENDING", "QUEUED", "SCHEDULED", "PAUSED"}
     \/ /\ "archive" \in Operations /\ api' = "ARCHIVE"
        /\ campaign \in {"COMPLETED", "PARTIAL", "FAILED"}
  /\ UNCHANGED <<campaign, published, rec, msg, sends, ledger, runs, history>>

\* Mutant: CANCEL leaves the queued recipients alone.
WriteTransitionOfCampaign ==
  /\ api # None
  /\ campaign' = IF api = "CANCEL" THEN "CANCELLED" ELSE "ARCHIVED"
  /\ api' = None
  /\ UNCHANGED <<published, rec, msg, sends, ledger, runs, history>>

\* The writes: the campaign by its id alone, then its active recipients.
WriteTransition ==
  /\ api # None
  /\ \A r \in Recipients : RowFree(r)
  /\ campaign' = IF api = "CANCEL" THEN "CANCELLED" ELSE "ARCHIVED"
  /\ rec' = [r \in Recipients |->
              IF api = "CANCEL" /\ rec[r] \in Active THEN "CANCELLED" ELSE rec[r]]
  /\ api' = None
  /\ UNCHANGED <<published, msg, sends, ledger, runs, history>>

\* publish and unpublish of the invitation site.
Publish ==
  /\ SiteFree
  /\ IF published THEN "unpublish" \in Operations ELSE "publish" \in Operations
  /\ published' = ~published
  /\ UNCHANGED <<campaign, rec, msg, sends, api, ledger, runs, history>>

-----------------------------------------------------------------------------
(* Runs of an execution.                                                    *)

Goto(e, step) == pc' = [pc EXCEPT ![e] = step]
FailWith(e, class) == Goto(e, "fail") /\ err' = [err EXCEPT ![e] = class]

\* The transaction and the run of e end without a trace.
Forget(e, step, class) ==
  /\ Goto(e, step)
  /\ err' = [err EXCEPT ![e] = class]
  /\ picked' = IF pc[e] = "fanout" THEN {} ELSE picked
  /\ write' = [write EXCEPT ![e] = None]
  /\ verdict' = [verdict EXCEPT ![e] = None]

Start(e) ==
  /\ row[e] = "owed" /\ pc[e] = "idle"
  /\ tries' = [tries EXCEPT ![e] = IF @ < MaxAttempts THEN @ + 1 ELSE @]

\* processCampaignFanout: the checks, and the recipients to queue.
ReadFanout(e) ==
  /\ SiteFree
  /\ Start(e)
  /\ IF campaign \in {"QUEUED", "SCHEDULED", "SENDING"}
     THEN /\ picked' = {r \in Recipients : rec[r] = "PENDING"}
          /\ Goto(e, "fanout") /\ UNCHANGED err
     ELSE FailWith(e, "permanent") /\ UNCHANGED picked
  /\ UNCHANGED <<domain, row, write, verdict, history>>

Intent(r) == <<r, Cardinality({n \in 1 .. MaxSends : row[<<r, n>>] # None}) + 1>>

\* ... and the writes: one delivery intent for each recipient that was read.
WriteFanout(e) ==
  /\ pc[e] = "fanout"
  /\ \A r \in picked : RowFree(r)
  /\ campaign' = "SENDING"
  /\ rec' = [r \in Recipients |-> IF r \in picked THEN "QUEUED" ELSE rec[r]]
  /\ row' = [x \in Executions |-> IF x \in {Intent(r) : r \in picked} THEN "owed" ELSE row[x]]
  /\ Forget(e, "complete", None)
  /\ UNCHANGED <<published, msg, sends, api, tries, history>>

\* processCampaignDelivery: the transaction that prepares the delivery. A
\* revoked invitation or a missing household refuse it for good.
Prepare(d) ==
  /\ Start(d)
  /\ \/ rec[d[1]] \in Successful \cup {"CANCELLED"} /\ Goto(d, "count") /\ UNCHANGED err
     \/ /\ rec[d[1]] \in {"PENDING", "QUEUED", "FAILED"} /\ campaign # "CANCELLED"
        /\ Goto(d, "lock") /\ UNCHANGED err
     \/ rec[d[1]] \in {"PENDING", "QUEUED", "FAILED"} /\ FailWith(d, "permanent")
  /\ UNCHANGED <<domain, row, picked, write, verdict, history>>

\* Mutant: a settled or withdrawn campaign is not looked at again.
DeliverableAnytime(d) == TRUE

Deliverable(d) ==
  campaign \in {"QUEUED", "SENDING"} /\ rec[d[1]] \in Active /\ published

\* The lifecycle lock, then the last eligibility check. A reminder to someone
\* who answered is cancelled; a changed address is refused.
Lock(d) ==
  /\ pc[d] = "lock" /\ SiteFree
  /\ \/ ~Deliverable(d) /\ FailWith(d, "inactive") /\ UNCHANGED write
     \/ Deliverable(d) /\ Goto(d, "sending") /\ UNCHANGED <<err, write>>
     \/ Deliverable(d) /\ FailWith(d, "permanent") /\ UNCHANGED write
     \/ /\ Deliverable(d) /\ Reminder /\ RowFree(d[1])
        /\ write' = [write EXCEPT ![d] = "CANCELLED"]
        /\ Goto(d, "count") /\ UNCHANGED err
  /\ UNCHANGED <<domain, ledger, picked, verdict, history>>

\* Mutant: an accepted message can be taken for a failed one.
CallDistrusting(d) ==
  /\ pc[d] = "sending"
  /\ \/ Goto(d, "accepted") /\ UNCHANGED err
     \/ FailWith(d, "retryable")
  /\ mails' = [mails EXCEPT ![d[1]] = @ + 1]
  /\ UNCHANGED <<domain, ledger, picked, write, verdict, hooks, faults>>

\* The provider call, inside the transaction.
Call(d) ==
  /\ pc[d] = "sending"
  /\ \/ /\ Goto(d, "accepted") /\ UNCHANGED err
        /\ mails' = [mails EXCEPT ![d[1]] = @ + 1]
     \/ \E class \in {"retryable", "permanent"} : FailWith(d, class) /\ UNCHANGED mails
  /\ UNCHANGED <<domain, ledger, picked, write, verdict, hooks, faults>>

\* SENT, whatever the recipient's status has become during the call.
Record(d) ==
  /\ pc[d] = "accepted" /\ RowFree(d[1])
  /\ write' = [write EXCEPT ![d] = "SENT"]
  /\ Goto(d, "count")
  /\ UNCHANGED <<domain, ledger, err, picked, verdict, history>>

-----------------------------------------------------------------------------
(* finalizeCampaignIfSettled, at the end of a transaction of a delivery.    *)

\* The recipient's status as the transaction of d sees it.
Seen(d, r) == IF r = d[1] /\ write[d] # None THEN write[d] ELSE rec[r]

\* Under the finalization lock, two statements: who is still to be reached ...
CountActive(d) ==
  /\ pc[d] = "count" /\ FinalFree
  /\ Goto(d, IF \E r \in Recipients : Seen(d, r) \in Active THEN "commit" ELSE "recount")
  /\ UNCHANGED <<domain, ledger, err, picked, write, verdict, history>>

\* ... and, when nobody is, who failed: together they decide the status.
CountFailed(d) ==
  /\ pc[d] = "recount"
  /\ verdict' = [verdict EXCEPT ![d] =
       IF \E r \in Recipients : Seen(d, r) = "FAILED" THEN "PARTIAL" ELSE "COMPLETED"]
  /\ Goto(d, "commit")
  /\ UNCHANGED <<domain, ledger, err, picked, write, history>>

Count(d) == CountActive(d) \/ CountFailed(d)

Finalized(d) ==
  IF verdict[d] # None /\ campaign \in {"QUEUED", "SENDING"} THEN verdict[d] ELSE campaign

\* The commit. The transaction of failConsumer also settles the ledger row.
Commit(d) ==
  /\ pc[d] = "commit"
  /\ campaign' = Finalized(d)
  /\ rec' = [r \in Recipients |-> Seen(d, r)]
  /\ msg' = IF write[d] = "SENT" THEN [msg EXCEPT ![d[1]] = d] ELSE msg
  /\ IF write[d] = "FAILED"
     THEN row' = [row EXCEPT ![d] = "DEAD_LETTER"] /\ Forget(d, "idle", None)
     ELSE Forget(d, "complete", None) /\ UNCHANGED row
  /\ UNCHANGED <<published, sends, api, tries, history>>

Complete(e) ==
  /\ pc[e] = "complete"
  /\ row' = [row EXCEPT ![e] = "COMPLETED"]
  /\ Forget(e, "idle", None)
  /\ UNCHANGED <<domain, tries, history>>

Terminal(e) == err[e] # "retryable" \/ tries[e] >= MaxAttempts

\* Mutant: a dead delivery leaves its recipient queued.
FailWithoutRecipient(e) ==
  /\ pc[e] = "fail"
  /\ row' = [row EXCEPT ![e] = IF Terminal(e) THEN "DEAD_LETTER" ELSE @]
  /\ Forget(e, "idle", None)
  /\ UNCHANGED <<domain, tries, history>>

\* failConsumer: a dead delivery fails its recipient if it is still active.
Fail(e) ==
  /\ pc[e] = "fail"
  /\ IF Terminal(e) /\ e \in Deliveries /\ rec[e[1]] \in Active
     THEN /\ RowFree(e[1])
          /\ write' = [write EXCEPT ![e] = "FAILED"]
          /\ Goto(e, "count") /\ UNCHANGED <<row, err, picked, verdict>>
     ELSE /\ row' = [row EXCEPT ![e] = IF Terminal(e) THEN "DEAD_LETTER" ELSE @]
          /\ Forget(e, "idle", None)
  /\ UNCHANGED <<domain, tries, history>>

-----------------------------------------------------------------------------
(* The provider's report on an accepted message, external in its order and  *)
(* delay; weddingos_apply_provider_webhook, one transaction.                *)

\* Mutant: the provider's word is stored as it comes.
ReportedVerbatim(status, event) == event

Reported(status, event) ==
  IF event = "opened" THEN "OPENED"
  ELSE IF event = "delivered" /\ status \notin {"OPENED", "FAILED"} THEN "DELIVERED"
  ELSE IF event = "failed" /\ status \notin {"DELIVERED", "OPENED"} THEN "FAILED"
  ELSE status

\* Mutant: the campaign does not learn of the bounce.
WebhookOfRecipient(d, event) ==
  /\ msg[d[1]] = d /\ <<d, event>> \notin hooks
  /\ hooks' = hooks \cup {<<d, event>>}
  /\ rec' = [rec EXCEPT ![d[1]] = Reported(@, event)]
  /\ UNCHANGED <<campaign, published, msg, sends, api, ledger, runs, mails, faults>>

\* A message that is not on record, and a replayed event, change nothing.
Webhook(d, event) ==
  /\ msg[d[1]] = d /\ RowFree(d[1])
  /\ <<d, event>> \notin hooks
  /\ hooks' = hooks \cup {<<d, event>>}
  /\ rec' = [rec EXCEPT ![d[1]] = Reported(@, event)]
  /\ campaign' = IF event = "failed" /\ campaign \in {"QUEUED", "SENDING", "COMPLETED"}
                 THEN "PARTIAL" ELSE campaign
  /\ UNCHANGED <<published, msg, sends, api, ledger, runs, mails, faults>>

-----------------------------------------------------------------------------
(* Faults.                                                                  *)

\* The process of a run dies; the outbox starts the execution again.
Crash(e) ==
  /\ Fault("crash")
  /\ pc[e] # "idle"
  /\ Forget(e, "idle", None)
  /\ UNCHANGED <<domain, ledger, hooks, mails>>

\* A transaction is rolled back (an error, a deadlock, Prisma's timeout):
\* failConsumer records it, unless the failing transaction is failConsumer's.
RollBack(e) ==
  /\ Fault("db_error")
  /\ \/ pc[e] \in {"fanout", "lock", "accepted", "complete"} /\ Forget(e, "fail", "retryable")
     \/ pc[e] \in {"count", "recount", "commit"} /\ write[e] # "FAILED" /\ Forget(e, "fail", "retryable")
     \/ /\ pc[e] = "fail" \/ write[e] = "FAILED"
        /\ Forget(e, "idle", None)
  /\ UNCHANGED <<domain, ledger, hooks, mails>>

\* Prisma ends the transaction after 60 s, the wait for the lock included:
\* the lifecycle lock is released while the provider call goes on.
TimeOut(d) ==
  /\ Fault("tx_timeout")
  /\ pc[d] = "sending"
  /\ Goto(d, "orphan")
  /\ UNCHANGED <<domain, ledger, err, picked, write, verdict, hooks, mails>>

\* The call returns; the next statement fails with the closed transaction.
ReturnLate(d) ==
  /\ pc[d] = "orphan"
  /\ FailWith(d, "retryable")
  /\ \/ mails' = [mails EXCEPT ![d[1]] = @ + 1]
     \/ UNCHANGED mails
  /\ UNCHANGED <<domain, ledger, picked, write, verdict, hooks, faults>>

-----------------------------------------------------------------------------

FanoutStep(e) == ReadFanout(e) \/ WriteFanout(e) \/ Complete(e) \/ Fail(e)

DeliveryStep(d) ==
  \/ Prepare(d) \/ Lock(d) \/ Call(d) \/ ReturnLate(d) \/ Record(d)
  \/ Count(d) \/ Commit(d) \/ Complete(d) \/ Fail(d)

Next ==
  \/ Send \/ RetryFailed \/ ReadTransition \/ WriteTransition \/ Publish
  \/ \E e \in Fanouts : FanoutStep(e)
  \/ \E d \in Deliveries : DeliveryStep(d) \/ TimeOut(d)
  \/ \E d \in Deliveries, event \in Events : Webhook(d, event)
  \/ \E e \in Executions : Crash(e) \/ RollBack(e)

Spec == Init /\ [][Next]_vars

\* The outbox keeps running what is owed, provider calls and API requests end.
Fairness ==
  /\ WF_vars(WriteTransition)
  /\ \A e \in Fanouts : WF_vars(FanoutStep(e))
  /\ \A d \in Deliveries : WF_vars(DeliveryStep(d))

FairSpec == Spec /\ Fairness

-----------------------------------------------------------------------------
(* Properties.                                                              *)

\* The variables hold values of their columns and of the runs' steps.
TypeOK ==
  /\ campaign \in CampaignStatus /\ published \in BOOLEAN
  /\ rec \in [Recipients -> RecipientStatus \cup {None}]
  /\ msg \in [Recipients -> Deliveries \cup {None}]
  /\ sends \in 0 .. MaxSends
  /\ api \in {"CANCEL", "ARCHIVE", None}
  /\ row \in [Executions -> {"owed", "COMPLETED", "DEAD_LETTER", None}]
  /\ tries \in [Executions -> 0 .. MaxAttempts]
  /\ pc \in [Executions -> {"idle", "fanout", "lock", "sending", "orphan", "accepted",
                            "count", "recount", "commit", "complete", "fail"}]
  /\ err \in [Executions -> {"retryable", "permanent", "inactive", None}]
  /\ picked \subseteq Recipients
  /\ write \in [Executions -> {"SENT", "CANCELLED", "FAILED", None}]
  /\ verdict \in [Executions -> {"PARTIAL", "COMPLETED", None}]
  /\ hooks \subseteq Deliveries \X Events
  /\ mails \in [Recipients -> Nat]
  /\ faults \in 0 .. MaxFaults

\* A campaign is COMPLETED ("sent to every recipient", finalizeCampaignIf-
\* Settled) only while no recipient is pending, queued or failed, although
\* reports of the provider and failing deliveries change recipients without
\* the lifecycle lock.
CompletedMeansSettled ==
  campaign = "COMPLETED" => \A r \in Recipients : rec[r] \notin Active \cup {"FAILED"}

\* A queued recipient always has a live execution that will settle it: no
\* retry, redelivery, cancellation or late report orphans it.
QueuedHasDelivery ==
  \A r \in Recipients : rec[r] = "QUEUED" => \E n \in 1 .. MaxSends : row[<<r, n>>] = "owed"

\* "A campaign must survive retries and partial failures without sending
\* successful recipients twice" (docs/adr ADR 0015): the provider accepts a
\* message only for a recipient that is not SENT, DELIVERED or OPENED.
NoSuccessfulResend ==
  [][\A r \in Recipients : mails'[r] # mails[r] => rec[r] \notin Successful]_vars

\* A recipient gets more messages than requests only when a fault lost the
\* record of an accepted one.
RepeatsPaidByFaults ==
  \A r \in Recipients : mails[r] <= sends + faults

\* No message is accepted after the site was unpublished or the campaign
\* cancelled ("an invitation cannot be withdrawn (or a campaign cancelled)
\* between the last eligibility check and the external email side effect").
NothingSentAfterWithdrawal ==
  [][~published \/ campaign = "CANCELLED" => mails' = mails]_vars

\* A CANCELLED campaign has no recipient left to send to: no redelivered
\* fan-out, failing delivery or late report brings one back.
CancelledIsSettled ==
  campaign = "CANCELLED" => \A r \in Recipients : rec[r] \notin Active

\* Every request ends: the campaign does not stay QUEUED or SENDING.
EverySendSettles == [](campaign \in {"QUEUED", "SENDING"} => <>(campaign \notin {"QUEUED", "SENDING"}))

-----------------------------------------------------------------------------
(* What documentation and tests say and the code does not do.               *)

\* "Recipient deliveries retry independently": a delivery is refused at its
\* last check only for its own recipient, a withdrawal or a cancellation.
DeliveriesIndependent ==
  [][\A d \in Deliveries :
       pc[d] = "lock" /\ err'[d] = "inactive" =>
         ~published \/ campaign = "CANCELLED" \/ rec[d[1]] \notin Active]_vars

\* A campaign whose recipients are all settled does not stay SENDING
\* ("campaign progress is derived from recipient rows", docs/adr ADR 0015).
ProgressFollowsRecipients ==
  [](campaign = "SENDING" /\ (\A r \in Recipients : rec[r] \notin Active)
     => <>(campaign # "SENDING" \/ \E r \in Recipients : rec[r] \in Active))

\* "OPENED is terminal and cannot be downgraded".
OpenedIsTerminal == [][\A r \in Recipients : rec[r] = "OPENED" => rec'[r] = "OPENED"]_vars

\* "Crash recovery covers fan-out": no fan-out of a campaign that was sent to
\* every recipient ends as a dead letter.
FanoutRecovers ==
  \A e \in Fanouts : row[e] = "DEAD_LETTER" => campaign # "COMPLETED"

\* campaignTransition: only a campaign that is scheduled or being sent can
\* become CANCELLED.
CancelledFromActive ==
  [][(campaign' = "CANCELLED" /\ campaign # "CANCELLED")
       => campaign \in {"SENDING", "QUEUED", "SCHEDULED", "PAUSED"}]_vars

\* "Campaign finalization is protected by an advisory lock": a finalized
\* campaign is sent again only by a new request.
FinalizedStays ==
  [][(campaign \in {"COMPLETED", "PARTIAL"} /\ campaign' \in {"QUEUED", "SENDING"})
       => sends' # sends]_vars

\* "Partial failure and retry operate only on failed recipients": a PARTIAL
\* campaign has a recipient that failed or is still active.
PartialHasFailure ==
  campaign = "PARTIAL" => \E r \in Recipients : rec[r] \in Active \cup {"FAILED"}

=============================================================================
