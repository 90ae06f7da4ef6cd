--------------------------- MODULE CampaignProofs ---------------------------
(***************************************************************************)
(* Theorems about Campaign for every set of recipients, every number of    *)
(* requests and attempts, every report and every set of faults: types and  *)
(* withdrawal first, then what the runs of executions share, the delivery  *)
(* a queued recipient has, the messages that are paid for, the completion  *)
(* of a campaign of one request, and the successful recipients.            *)
(***************************************************************************)
EXTENDS Campaign, FiniteSetTheorems, TLAPS

-----------------------------------------------------------------------------
(* Lemmas about the helpers of a run.                                       *)

RunsOK ==
  /\ pc \in [Executions -> {"idle", "fanout", "lock", "sending", "orphan", "accepted",
                            "count", "recount", "commit", "complete", "fail"}]
  /\ err \in [Executions -> {"retryable", "permanent", "inactive", None}]
  /\ picked \subseteq Recipients
  /\ write \in [Executions -> {"SENT", "CANCELLED", "FAILED", None}]
  /\ verdict \in [Executions -> {"PARTIAL", "COMPLETED", None}]

LEMMA ForgetType ==
  ASSUME RunsOK, NEW e \in Executions, NEW step \in {"idle", "complete", "fail"},
         NEW class \in {"retryable", None}, Forget(e, step, class)
  PROVE  RunsOK'
BY DEF RunsOK, Forget, Goto

LEMMA GotoType ==
  ASSUME RunsOK, NEW e \in Executions,
         NEW step \in {"fanout", "lock", "sending", "orphan", "accepted", "count",
                       "recount", "commit", "complete", "fail"},
         Goto(e, step)
  PROVE  pc' \in [Executions -> {"idle", "fanout", "lock", "sending", "orphan", "accepted",
                                 "count", "recount", "commit", "complete", "fail"}]
BY DEF RunsOK, Goto

LEMMA FailWithType ==
  ASSUME RunsOK, NEW e \in Executions, NEW class \in {"retryable", "permanent", "inactive"},
         FailWith(e, class), UNCHANGED <<picked, write, verdict>>
  PROVE  RunsOK'
BY DEF RunsOK, FailWith, Goto

LEMMA ReportedType ==
  ASSUME NEW status \in RecipientStatus \cup {None}, NEW event \in Events
  PROVE  Reported(status, event) \in RecipientStatus \cup {None}
BY DEF Reported, RecipientStatus

\* A report never makes a settled recipient active.
LEMMA ReportedInactive ==
  ASSUME NEW status, NEW event, Reported(status, event) \in Active
  PROVE  status \in Active
BY DEF Reported, Active

-----------------------------------------------------------------------------
(* Type correctness: one lemma for each group of actions.                   *)

LEMMA InitType == Init => TypeOK
<1> SUFFICES ASSUME Init PROVE TypeOK
  OBVIOUS
<1>1. 0 \in 0 .. MaxSends /\ 0 \in 0 .. MaxAttempts /\ 0 \in 0 .. MaxFaults
  BY BoundsAssumption
<1> QED
  BY <1>1 DEF Init, TypeOK, CampaignStatus

LEMMA RunsOfType == TypeOK => RunsOK
BY DEF TypeOK, RunsOK

LEMMA QueueType ==
  ASSUME TypeOK, NEW status \in {"QUEUED", "SCHEDULED"}, Queue(status),
         rec' \in [Recipients -> RecipientStatus \cup {None}]
  PROVE  TypeOK'
<1>1. sends' \in 0 .. MaxSends
  BY BoundsAssumption DEF TypeOK, Queue
<1>2. row' \in [Executions -> {"owed", "COMPLETED", "DEAD_LETTER", None}]
  BY DEF TypeOK, Queue
<1> QED
  BY <1>1, <1>2 DEF TypeOK, Queue, CampaignStatus, runs, history

LEMMA OrganizerType ==
  ASSUME TypeOK, Send \/ RetryFailed \/ ReadTransition \/ WriteTransition \/ Publish
  PROVE  TypeOK'
<1>1. CASE Send
  <2>1. rec' \in [Recipients -> RecipientStatus \cup {None}]
    BY <1>1 DEF Send, TypeOK, RecipientStatus
  <2> QED BY <1>1, <2>1, QueueType DEF Send
<1>2. CASE RetryFailed
  <2>1. rec' \in [Recipients -> RecipientStatus \cup {None}]
    BY <1>2 DEF RetryFailed, TypeOK, RecipientStatus
  <2> QED BY <1>2, <2>1, QueueType DEF RetryFailed
<1>3. CASE ReadTransition
  BY <1>3 DEF ReadTransition, TypeOK, ledger, runs, history
<1>4. CASE WriteTransition
  <2>1. rec' \in [Recipients -> RecipientStatus \cup {None}]
    BY <1>4 DEF WriteTransition, TypeOK, RecipientStatus
  <2>2. campaign' \in CampaignStatus /\ api' \in {"CANCEL", "ARCHIVE", None}
    BY <1>4 DEF WriteTransition, CampaignStatus
  <2> QED BY <1>4, <2>1, <2>2 DEF WriteTransition, TypeOK, ledger, runs, history
<1>5. CASE Publish
  BY <1>5 DEF Publish, TypeOK, ledger, runs, history
<1> QED
  BY <1>1, <1>2, <1>3, <1>4, <1>5

LEMMA StartType ==
  ASSUME TypeOK, NEW e \in Executions, Start(e)
  PROVE  tries' \in [Executions -> 0 .. MaxAttempts]
BY BoundsAssumption DEF TypeOK, Start

\* What a step that only moves runs has to show.
LEMMA RunStepType ==
  ASSUME TypeOK, UNCHANGED domain, UNCHANGED <<row, hooks, faults>>, RunsOK',
         tries' \in [Executions -> 0 .. MaxAttempts],
         mails' \in [Recipients -> Nat]
  PROVE  TypeOK'
BY DEF TypeOK, domain, RunsOK

LEMMA SettleType ==
  ASSUME TypeOK, NEW e \in Executions, Complete(e) \/ Fail(e)
  PROVE  TypeOK'
<1>r. RunsOK
  BY RunsOfType
<1>1. CASE Complete(e)
  <2>1. RunsOK'
    BY <1>1, <1>r, ForgetType DEF Complete
  <2> QED BY <1>1, <2>1 DEF Complete, TypeOK, RunsOK, domain, history
<1>2. CASE Fail(e)
  <2>1. CASE write' = [write EXCEPT ![e] = "FAILED"] /\ Goto(e, "count")
             /\ UNCHANGED <<row, err, picked, verdict>>
    <3>1. RunsOK'
      BY <2>1, <1>r, GotoType DEF RunsOK
    <3> QED BY <1>2, <2>1, <3>1 DEF Fail, TypeOK, RunsOK, domain, history
  <2>2. CASE row' = [row EXCEPT ![e] = IF Terminal(e) THEN "DEAD_LETTER" ELSE @]
             /\ Forget(e, "idle", None)
    <3>1. RunsOK'
      BY <2>2, <1>r, ForgetType
    <3>2. row' \in [Executions -> {"owed", "COMPLETED", "DEAD_LETTER", None}]
      BY <2>2 DEF TypeOK
    <3> QED BY <1>2, <3>1, <3>2 DEF Fail, TypeOK, RunsOK, domain, history
  <2> QED BY <1>2, <2>1, <2>2 DEF Fail
<1> QED BY <1>1, <1>2

LEMMA FanoutType ==
  ASSUME TypeOK, NEW e \in Fanouts, ReadFanout(e) \/ WriteFanout(e)
  PROVE  TypeOK'
<1>r. RunsOK /\ e \in Executions
  BY RunsOfType DEF Executions
<1>1. CASE ReadFanout(e)
  <2>1. tries' \in [Executions -> 0 .. MaxAttempts]
    BY <1>1, <1>r, StartType DEF ReadFanout
  <2>2. RunsOK'
    <3>1. CASE campaign \in {"QUEUED", "SCHEDULED", "SENDING"}
      <4>1. pc' \in [Executions -> {"idle", "fanout", "lock", "sending", "orphan",
                       "accepted", "count", "recount", "commit", "complete", "fail"}]
        BY <1>1, <1>r, <3>1, GotoType DEF ReadFanout
      <4> QED BY <1>1, <1>r, <3>1, <4>1 DEF ReadFanout, RunsOK
    <3>2. CASE campaign \notin {"QUEUED", "SCHEDULED", "SENDING"}
      BY <1>1, <1>r, <3>2, FailWithType DEF ReadFanout
    <3> QED BY <3>1, <3>2
  <2>3. UNCHANGED domain /\ UNCHANGED <<row, hooks, faults>> /\ mails' \in [Recipients -> Nat]
    BY <1>1 DEF ReadFanout, history, TypeOK
  <2> QED BY <2>1, <2>2, <2>3, RunStepType
<1>2. CASE WriteFanout(e)
  <2>1. RunsOK'
    BY <1>2, <1>r, ForgetType DEF WriteFanout
  <2>2. rec' \in [Recipients -> RecipientStatus \cup {None}]
    BY <1>2 DEF WriteFanout, TypeOK, RecipientStatus
  <2>3. row' \in [Executions -> {"owed", "COMPLETED", "DEAD_LETTER", None}]
    BY <1>2 DEF WriteFanout, TypeOK
  <2> QED BY <1>2, <2>1, <2>2, <2>3 DEF WriteFanout, TypeOK, RunsOK, CampaignStatus, history
<1> QED BY <1>1, <1>2

LEMMA PrepareType ==
  ASSUME TypeOK, NEW d \in Deliveries, Prepare(d)
  PROVE  TypeOK'
<1>r. RunsOK /\ d \in Executions
  BY RunsOfType DEF Executions
<1>1. tries' \in [Executions -> 0 .. MaxAttempts]
  BY <1>r, StartType DEF Prepare
<1>2. RunsOK'
  <2>1. CASE \E step \in {"count", "lock"} : Goto(d, step) /\ UNCHANGED err
    BY <1>r, <2>1, GotoType DEF Prepare, RunsOK
  <2>2. CASE FailWith(d, "permanent")
    BY <1>r, <2>2, FailWithType DEF Prepare
  <2> QED BY <2>1, <2>2 DEF Prepare
<1>3. UNCHANGED domain /\ UNCHANGED <<row, hooks, faults>> /\ mails' \in [Recipients -> Nat]
  BY DEF Prepare, history, TypeOK
<1> QED BY <1>1, <1>2, <1>3, RunStepType

LEMMA SendingType ==
  ASSUME TypeOK, NEW d \in Deliveries,
         Lock(d) \/ Call(d) \/ ReturnLate(d) \/ Record(d) \/ Count(d)
  PROVE  TypeOK'
<1>r. RunsOK /\ d \in Executions /\ d[1] \in Recipients
  BY RunsOfType DEF Executions, Deliveries
<1>t. tries \in [Executions -> 0 .. MaxAttempts] /\ mails \in [Recipients -> Nat]
  BY DEF TypeOK
<1>1. CASE Lock(d)
  <2>1. RunsOK'
    <3>1. CASE \E class \in {"inactive", "permanent"} : FailWith(d, class) /\ UNCHANGED write
      BY <1>1, <1>r, <3>1, FailWithType DEF Lock
    <3>2. CASE Goto(d, "sending") /\ UNCHANGED <<err, write>>
      BY <1>1, <1>r, <3>2, GotoType DEF Lock, RunsOK
    <3>3. CASE write' = [write EXCEPT ![d] = "CANCELLED"] /\ Goto(d, "count") /\ UNCHANGED err
      BY <1>1, <1>r, <3>3, GotoType DEF Lock, RunsOK
    <3> QED BY <1>1, <3>1, <3>2, <3>3 DEF Lock
  <2> QED BY <1>1, <1>t, <2>1, RunStepType DEF Lock, ledger, history
<1>2. CASE Call(d)
  <2>1. RunsOK'
    <3>1. CASE Goto(d, "accepted") /\ UNCHANGED err
      BY <1>2, <1>r, <3>1, GotoType DEF Call, RunsOK
    <3>2. CASE \E class \in {"retryable", "permanent"} : FailWith(d, class)
      BY <1>2, <1>r, <3>2, FailWithType DEF Call
    <3> QED BY <1>2, <3>1, <3>2 DEF Call
  <2>2. mails' \in [Recipients -> Nat]
    BY <1>2, <1>r, <1>t DEF Call
  <2> QED BY <1>2, <1>t, <2>1, <2>2, RunStepType DEF Call, ledger
<1>3. CASE ReturnLate(d)
  <2>1. RunsOK'
    BY <1>3, <1>r, FailWithType DEF ReturnLate
  <2>2. mails' \in [Recipients -> Nat]
    BY <1>3, <1>r, <1>t DEF ReturnLate
  <2> QED BY <1>3, <1>t, <2>1, <2>2, RunStepType DEF ReturnLate, ledger
<1>4. CASE Record(d)
  <2>1. RunsOK'
    BY <1>4, <1>r, GotoType DEF Record, RunsOK
  <2> QED BY <1>4, <1>t, <2>1, RunStepType DEF Record, ledger, history
<1>5. CASE Count(d)
  <2>1. RunsOK'
    BY <1>5, <1>r, GotoType DEF Count, CountActive, CountFailed, RunsOK
  <2> QED BY <1>5, <1>t, <2>1, RunStepType DEF Count, CountActive, CountFailed, ledger, history
<1> QED BY <1>1, <1>2, <1>3, <1>4, <1>5

LEMMA CommitType ==
  ASSUME TypeOK, NEW d \in Deliveries, Commit(d)
  PROVE  TypeOK'
<1>r. RunsOK /\ d \in Executions /\ d[1] \in Recipients
  BY RunsOfType DEF Executions, Deliveries
<1>1. RunsOK'
  BY <1>r, ForgetType DEF Commit
<1>2. campaign' \in CampaignStatus
  BY <1>r DEF Commit, Finalized, TypeOK, CampaignStatus
<1>3. rec' \in [Recipients -> RecipientStatus \cup {None}]
  <2>1. \A r \in Recipients : Seen(d, r) \in RecipientStatus \cup {None}
    BY <1>r DEF Seen, TypeOK, RecipientStatus
  <2> QED BY <2>1 DEF Commit
<1>4. msg' \in [Recipients -> Deliveries \cup {None}]
  BY <1>r DEF Commit, TypeOK
<1>5. row' \in [Executions -> {"owed", "COMPLETED", "DEAD_LETTER", None}]
  BY <1>r DEF Commit, TypeOK
<1> QED
  BY <1>1, <1>2, <1>3, <1>4, <1>5 DEF Commit, TypeOK, RunsOK, history

LEMMA WebhookType ==
  ASSUME TypeOK, NEW d \in Deliveries, NEW event \in Events, Webhook(d, event)
  PROVE  TypeOK'
<1>1. d[1] \in Recipients
  BY DEF Deliveries
<1>2. Reported(rec[d[1]], event) \in RecipientStatus \cup {None}
  BY <1>1, ReportedType DEF TypeOK
<1>3. rec' \in [Recipients -> RecipientStatus \cup {None}]
  BY <1>1, <1>2 DEF Webhook, TypeOK
<1>4. campaign' \in CampaignStatus /\ hooks' \subseteq Deliveries \X Events
  BY DEF Webhook, TypeOK, CampaignStatus
<1> QED
  BY <1>3, <1>4 DEF Webhook, TypeOK, ledger, runs

LEMMA FaultType ==
  ASSUME TypeOK, NEW kind, Fault(kind)
  PROVE  faults' \in 0 .. MaxFaults
BY BoundsAssumption DEF TypeOK, Fault

LEMMA FaultsType ==
  ASSUME TypeOK, NEW e \in Executions,
         Crash(e) \/ RollBack(e) \/ TimeOut(e)
  PROVE  TypeOK'
<1>r. RunsOK
  BY RunsOfType
<1>1. CASE Crash(e)
  <2>1. RunsOK'
    BY <1>1, <1>r, ForgetType DEF Crash
  <2> QED BY <1>1, <2>1, FaultType DEF Crash, TypeOK, RunsOK, domain, ledger
<1>2. CASE RollBack(e)
  <2>1. RunsOK'
    BY <1>2, <1>r, ForgetType DEF RollBack
  <2> QED BY <1>2, <2>1, FaultType DEF RollBack, TypeOK, RunsOK, domain, ledger
<1>3. CASE TimeOut(e)
  <2>1. RunsOK'
    BY <1>3, <1>r, GotoType DEF TimeOut, RunsOK
  <2> QED BY <1>3, <2>1, FaultType DEF TimeOut, TypeOK, RunsOK, domain, ledger
<1> QED BY <1>1, <1>2, <1>3

LEMMA NextType == TypeOK /\ [Next]_vars => TypeOK'
<1> SUFFICES ASSUME TypeOK, [Next]_vars PROVE TypeOK'
  OBVIOUS
<1>1. CASE UNCHANGED vars
  BY <1>1 DEF vars, domain, ledger, runs, history, TypeOK
<1>2. CASE Send \/ RetryFailed \/ ReadTransition \/ WriteTransition \/ Publish
  BY <1>2, OrganizerType
<1>3. ASSUME NEW e \in Fanouts, FanoutStep(e) PROVE TypeOK'
  BY <1>3, FanoutType, SettleType DEF FanoutStep, Executions
<1>4. ASSUME NEW d \in Deliveries, DeliveryStep(d) PROVE TypeOK'
  BY <1>4, PrepareType, SendingType, CommitType, SettleType DEF DeliveryStep, Executions
<1>5. ASSUME NEW d \in Deliveries, TimeOut(d) PROVE TypeOK'
  BY <1>5, FaultsType DEF Executions
<1>6. ASSUME NEW d \in Deliveries, NEW event \in Events, Webhook(d, event) PROVE TypeOK'
  BY <1>6, WebhookType
<1>7. ASSUME NEW e \in Executions, Crash(e) \/ RollBack(e) PROVE TypeOK'
  BY <1>7, FaultsType
<1> QED
  BY <1>1, <1>2, <1>3, <1>4, <1>5, <1>6, <1>7 DEF Next

\* The rows of the campaign, its recipients and executions, and the steps of
\* the runs, keep to their domains.
THEOREM TypeCorrect == Spec => []TypeOK
BY InitType, NextType, PTL DEF Spec

-----------------------------------------------------------------------------
(* Withdrawal and cancellation.                                             *)

\* A request between its read and its writes has the lifecycle lock alone.
RequestAlone == api # None => \A e \in Executions : ~HoldsSite(e)

\* Only a transaction that is about to commit has written its recipient.
WriteAtEnd ==
  \A e \in Executions :
    write[e] \in {"SENT", "CANCELLED"} => pc[e] \in {"count", "recount", "commit"}

\* What was checked under the lifecycle lock still holds while it is held.
CheckedUnderLock ==
  \A e \in Executions :
    /\ pc[e] = "sending" => published /\ campaign # "CANCELLED"
    /\ pc[e] = "fanout" => campaign # "CANCELLED"

SiteInv == RequestAlone /\ WriteAtEnd /\ CheckedUnderLock /\ CancelledIsSettled

\* A step of a run that holds no more than it did, with nothing else changed.
LEMMA ForgetSite ==
  ASSUME TypeOK, SiteInv, NEW e \in Executions, NEW step \in {"idle", "complete", "fail"},
         NEW class, Forget(e, step, class), UNCHANGED <<published, api>>,
         campaign' = "CANCELLED" => campaign = "CANCELLED",
         CancelledIsSettled'
  PROVE  SiteInv'
<1>1. /\ \A x \in Executions : pc'[x] = IF x = e THEN step ELSE pc[x]
      /\ \A x \in Executions : write'[x] = IF x = e THEN None ELSE write[x]
  BY DEF Forget, Goto, TypeOK
<1>2. None \notin {"SENT", "CANCELLED"}
  BY NoneAssumption DEF RecipientStatus
<1>3. RequestAlone'
  BY <1>1, <1>2 DEF SiteInv, RequestAlone, HoldsSite
<1>4. WriteAtEnd'
  BY <1>1, <1>2 DEF SiteInv, WriteAtEnd
<1>5. CheckedUnderLock'
  BY <1>1 DEF SiteInv, CheckedUnderLock
<1> QED BY <1>3, <1>4, <1>5 DEF SiteInv

\* A step of a run to a state in which it holds no lifecycle lock, or to a
\* later state of a transaction that held it.
LEMMA MoveSite ==
  ASSUME TypeOK, SiteInv, NEW e \in Executions,
         NEW step \in {"lock", "orphan", "accepted", "count", "recount", "commit", "fail"},
         Goto(e, step), UNCHANGED domain,
         \/ /\ UNCHANGED write
            /\ write[e] \in {"SENT", "CANCELLED"} => step \in {"count", "recount", "commit"}
         \/ write' = [write EXCEPT ![e] = "FAILED"] /\ step = "count"
         \/ step = "count" /\ HoldsSite(e) /\ write' = [write EXCEPT ![e] = "SENT"],
         step = "accepted" => HoldsSite(e),
         step \in {"count", "recount", "commit"} =>
           (write[e] \in {"SENT", "CANCELLED"} => HoldsSite(e))
  PROVE  SiteInv'
<1>1. /\ \A x \in Executions : pc'[x] = IF x = e THEN step ELSE pc[x]
      /\ \A x \in Executions : x # e => write'[x] = write[x]
      /\ write'[e] \in {write[e], "FAILED", "SENT"}
  BY DEF Goto, TypeOK
<1>2. HoldsSite(e)' => HoldsSite(e)
  BY <1>1 DEF HoldsSite, TypeOK
<1>3. RequestAlone'
  BY <1>1, <1>2 DEF SiteInv, RequestAlone, HoldsSite, domain
<1>4. WriteAtEnd'
  BY <1>1 DEF SiteInv, WriteAtEnd, TypeOK
<1>5. CheckedUnderLock'
  BY <1>1 DEF SiteInv, CheckedUnderLock, domain
<1>6. CancelledIsSettled'
  BY DEF SiteInv, CancelledIsSettled, domain
<1> QED BY <1>3, <1>4, <1>5, <1>6 DEF SiteInv

LEMMA InitSite == Init => SiteInv
BY NoneAssumption DEF Init, SiteInv, RequestAlone, HoldsSite, WriteAtEnd, CheckedUnderLock,
   CancelledIsSettled, RecipientStatus

LEMMA OrganizerSite ==
  ASSUME TypeOK, SiteInv, Send \/ RetryFailed \/ ReadTransition \/ WriteTransition \/ Publish
  PROVE  SiteInv'
<1>1. UNCHANGED <<pc, write>>
  BY DEF Send, RetryFailed, Queue, ReadTransition, WriteTransition, Publish, runs
<1>2. WriteAtEnd'
  BY <1>1 DEF SiteInv, WriteAtEnd
<1>3. CASE Send \/ RetryFailed
  <2>1. SiteFree /\ campaign' \in {"QUEUED", "SCHEDULED"} /\ UNCHANGED <<published, api>>
    BY <1>3 DEF Send, RetryFailed, Queue
  <2> QED
    BY <1>1, <1>2, <2>1 DEF SiteInv, RequestAlone, HoldsSite, CheckedUnderLock, CancelledIsSettled
<1>4. CASE ReadTransition
  <2>1. SiteFree /\ UNCHANGED <<campaign, published, rec>>
    BY <1>4 DEF ReadTransition
  <2> QED
    BY <1>1, <1>2, <2>1 DEF SiteInv, SiteFree, RequestAlone, HoldsSite, CheckedUnderLock,
       CancelledIsSettled
<1>5. CASE WriteTransition
  <2>1. \A e \in Executions : ~HoldsSite(e)
    BY <1>5 DEF WriteTransition, SiteInv, RequestAlone
  <2>2. CancelledIsSettled'
    BY <1>5 DEF WriteTransition, CancelledIsSettled, TypeOK, Active
  <2> QED
    BY <1>1, <1>2, <2>1, <2>2 DEF SiteInv, RequestAlone, HoldsSite, CheckedUnderLock
<1>6. CASE Publish
  <2>1. SiteFree /\ UNCHANGED <<campaign, rec, api>>
    BY <1>6 DEF Publish
  <2> QED
    BY <1>1, <1>2, <2>1 DEF SiteInv, SiteFree, RequestAlone, HoldsSite, CheckedUnderLock,
       CancelledIsSettled
<1> QED BY <1>3, <1>4, <1>5, <1>6

LEMMA SettleSite ==
  ASSUME TypeOK, SiteInv, NEW e \in Executions, Complete(e) \/ Fail(e)
  PROVE  SiteInv'
<1>1. UNCHANGED domain
  BY DEF Complete, Fail
<1>2. CancelledIsSettled'
  BY <1>1 DEF SiteInv, CancelledIsSettled, domain
<1>3. CASE Forget(e, "idle", None)
  BY <1>1, <1>2, <1>3, ForgetSite DEF domain
<1>4. CASE pc[e] = "fail" /\ write' = [write EXCEPT ![e] = "FAILED"] /\ Goto(e, "count")
  BY <1>1, <1>4, MoveSite DEF SiteInv, WriteAtEnd
<1> QED BY <1>3, <1>4 DEF Complete, Fail

LEMMA FanoutSite ==
  ASSUME TypeOK, SiteInv, NEW e \in Executions, ReadFanout(e) \/ WriteFanout(e)
  PROVE  SiteInv'
<1>1. CASE ReadFanout(e)
  <2>1. /\ SiteFree /\ UNCHANGED domain /\ UNCHANGED write
        /\ pc[e] = "idle" /\ write[e] \notin {"SENT", "CANCELLED"}
    BY <1>1 DEF ReadFanout, Start, SiteInv, WriteAtEnd
  <2>2. CASE campaign \in {"QUEUED", "SCHEDULED", "SENDING"} /\ Goto(e, "fanout")
    <3>1. \A x \in Executions : pc'[x] = IF x = e THEN "fanout" ELSE pc[x]
      BY <2>2 DEF Goto, TypeOK
    <3> QED
      BY <2>1, <2>2, <3>1 DEF domain, SiteFree, SiteInv, RequestAlone, WriteAtEnd,
         CheckedUnderLock, CancelledIsSettled
  <2>3. CASE Goto(e, "fail")
    BY <2>1, <2>3, MoveSite
  <2> QED BY <1>1, <2>2, <2>3 DEF ReadFanout, FailWith
<1>2. CASE WriteFanout(e)
  <2>1. campaign' = "SENDING" /\ Forget(e, "complete", None) /\ UNCHANGED <<published, api>>
    BY <1>2 DEF WriteFanout
  <2>2. CancelledIsSettled'
    BY <2>1 DEF CancelledIsSettled
  <2> QED BY <2>1, <2>2, ForgetSite
<1> QED BY <1>1, <1>2

LEMMA DeliverySite ==
  ASSUME TypeOK, SiteInv, NEW d \in Executions,
         Prepare(d) \/ Call(d) \/ ReturnLate(d) \/ Record(d) \/ Count(d)
  PROVE  SiteInv'
<1>1. UNCHANGED domain
  BY DEF Prepare, Call, ReturnLate, Record, Count, CountActive, CountFailed
<1>2. CASE Prepare(d)
  <2>1. pc[d] = "idle" /\ UNCHANGED write /\ write[d] \notin {"SENT", "CANCELLED"}
    BY <1>2 DEF Prepare, Start, SiteInv, WriteAtEnd
  <2>2. \E step \in {"lock", "count", "fail"} : Goto(d, step)
    BY <1>2 DEF Prepare, FailWith
  <2> QED BY <1>1, <2>1, <2>2, MoveSite
<1>3. CASE Call(d) \/ ReturnLate(d)
  <2>1. pc[d] \in {"sending", "orphan"} /\ UNCHANGED write /\ write[d] \notin {"SENT", "CANCELLED"}
    BY <1>3 DEF Call, ReturnLate, SiteInv, WriteAtEnd
  <2>2. (pc[d] = "sending" /\ Goto(d, "accepted")) \/ Goto(d, "fail")
    BY <1>3 DEF Call, ReturnLate, FailWith
  <2> QED BY <1>1, <2>1, <2>2, MoveSite DEF HoldsSite
<1>4. CASE Record(d)
  <2>1. pc[d] = "accepted" /\ Goto(d, "count") /\ write' = [write EXCEPT ![d] = "SENT"]
    BY <1>4 DEF Record
  <2> QED BY <1>1, <2>1, MoveSite DEF HoldsSite
<1>5. CASE Count(d)
  <2>1. /\ pc[d] \in {"count", "recount"} /\ UNCHANGED write
        /\ Goto(d, "recount") \/ Goto(d, "commit")
    BY <1>5 DEF Count, CountActive, CountFailed
  <2> QED BY <1>1, <2>1, MoveSite DEF HoldsSite
<1> QED BY <1>2, <1>3, <1>4, <1>5

LEMMA LockSite ==
  ASSUME TypeOK, SiteInv, NEW d \in Executions, Lock(d)
  PROVE  SiteInv'
<1>1. /\ SiteFree /\ UNCHANGED domain
      /\ pc[d] = "lock" /\ write[d] \notin {"SENT", "CANCELLED"}
  BY DEF Lock, SiteInv, WriteAtEnd
<1>2. CASE UNCHANGED write /\ Goto(d, "fail")
  BY <1>1, <1>2, MoveSite
<1>3. CASE Deliverable(d) /\ UNCHANGED write /\ Goto(d, "sending")
  <2>1. \A x \in Executions : pc'[x] = IF x = d THEN "sending" ELSE pc[x]
    BY <1>3 DEF Goto, TypeOK
  <2> QED
    BY <1>1, <1>3, <2>1 DEF Deliverable, domain, SiteFree, SiteInv, RequestAlone, WriteAtEnd,
       CheckedUnderLock, CancelledIsSettled
<1>4. CASE write' = [write EXCEPT ![d] = "CANCELLED"] /\ Goto(d, "count")
  <2>1. \A x \in Executions : /\ pc'[x] = IF x = d THEN "count" ELSE pc[x]
                              /\ write'[x] = IF x = d THEN "CANCELLED" ELSE write[x]
    BY <1>4 DEF Goto, TypeOK
  <2> QED
    BY <1>1, <1>4, <2>1 DEF domain, SiteFree, SiteInv, RequestAlone, WriteAtEnd,
       CheckedUnderLock, CancelledIsSettled
<1> QED BY <1>2, <1>3, <1>4 DEF Lock, FailWith

LEMMA CommitSite ==
  ASSUME TypeOK, SiteInv, NEW d \in Executions, Commit(d)
  PROVE  SiteInv'
<1>1. campaign' = "CANCELLED" => campaign = "CANCELLED"
  BY DEF Commit, Finalized, TypeOK
<1>2. \A r \in Recipients : rec'[r] \in Active => rec[r] \in Active
  BY NoneAssumption DEF Commit, Seen, TypeOK, Active, RecipientStatus
<1>3. CancelledIsSettled'
  BY <1>1, <1>2 DEF SiteInv, CancelledIsSettled
<1>4. Forget(d, "idle", None) \/ Forget(d, "complete", None)
  BY DEF Commit
<1> QED BY <1>1, <1>3, <1>4, ForgetSite DEF Commit

LEMMA WebhookSite ==
  ASSUME TypeOK, SiteInv, NEW d \in Deliveries, NEW event \in Events, Webhook(d, event)
  PROVE  SiteInv'
<1>1. campaign' = "CANCELLED" => campaign = "CANCELLED"
  BY DEF Webhook
<1>2. \A r \in Recipients : rec'[r] \in Active => rec[r] \in Active
  <2>1. \A r \in Recipients :
          rec'[r] = IF r = d[1] THEN Reported(rec[r], event) ELSE rec[r]
    BY DEF Webhook, TypeOK
  <2> QED BY <2>1, ReportedInactive
<1>3. UNCHANGED <<published, api, pc, write>>
  BY DEF Webhook, runs
<1> QED
  BY <1>1, <1>2, <1>3 DEF SiteInv, RequestAlone, HoldsSite, WriteAtEnd, CheckedUnderLock,
     CancelledIsSettled

LEMMA FaultsSite ==
  ASSUME TypeOK, SiteInv, NEW e \in Executions, Crash(e) \/ RollBack(e) \/ TimeOut(e)
  PROVE  SiteInv'
<1>1. UNCHANGED domain
  BY DEF Crash, RollBack, TimeOut
<1>2. CancelledIsSettled'
  BY <1>1 DEF SiteInv, CancelledIsSettled, domain
<1>3. CASE \E step \in {"idle", "fail"} : \E class : Forget(e, step, class)
  BY <1>1, <1>2, <1>3, ForgetSite DEF domain
<1>4. CASE TimeOut(e)
  <2>1. pc[e] = "sending" /\ Goto(e, "orphan") /\ UNCHANGED write
    BY <1>4 DEF TimeOut
  <2> QED BY <1>1, <2>1, MoveSite DEF SiteInv, WriteAtEnd
<1> QED BY <1>3, <1>4 DEF Crash, RollBack

LEMMA NextSite == TypeOK /\ SiteInv /\ [Next]_vars => SiteInv'
<1> SUFFICES ASSUME TypeOK, SiteInv, [Next]_vars PROVE SiteInv'
  OBVIOUS
<1>1. CASE UNCHANGED vars
  BY <1>1 DEF vars, domain, ledger, runs, history, SiteInv, RequestAlone, HoldsSite,
     WriteAtEnd, CheckedUnderLock, CancelledIsSettled
<1>2. CASE Send \/ RetryFailed \/ ReadTransition \/ WriteTransition \/ Publish
  BY <1>2, OrganizerSite
<1>3. ASSUME NEW e \in Fanouts, FanoutStep(e) PROVE SiteInv'
  BY <1>3, FanoutSite, SettleSite DEF FanoutStep, Executions
<1>4. ASSUME NEW d \in Deliveries, DeliveryStep(d) PROVE SiteInv'
  BY <1>4, DeliverySite, LockSite, CommitSite, SettleSite DEF DeliveryStep, Executions
<1>5. ASSUME NEW d \in Deliveries, TimeOut(d) PROVE SiteInv'
  BY <1>5, FaultsSite DEF Executions
<1>6. ASSUME NEW d \in Deliveries, NEW event \in Events, Webhook(d, event) PROVE SiteInv'
  BY <1>6, WebhookSite
<1>7. ASSUME NEW e \in Executions, Crash(e) \/ RollBack(e) PROVE SiteInv'
  BY <1>7, FaultsSite
<1> QED
  BY <1>1, <1>2, <1>3, <1>4, <1>5, <1>6, <1>7 DEF Next

LEMMA SiteInvariant == Spec => []SiteInv
<1>1. Init => SiteInv
  BY InitSite
<1>2. TypeOK /\ SiteInv /\ [Next]_vars => SiteInv'
  BY NextSite
<1> QED
  BY <1>1, <1>2, TypeCorrect, PTL DEF Spec

\* Cancelling leaves nobody to send to, and nothing brings one back: whatever
\* fan-outs, failing deliveries and reports were under way, crashes and
\* expired transactions included.
THEOREM CancellationSettles == Spec => []CancelledIsSettled
<1>1. SiteInv => CancelledIsSettled
  BY DEF SiteInv
<1> QED
  BY <1>1, SiteInvariant, PTL

-----------------------------------------------------------------------------
(* No message leaves after a withdrawal, if no transaction expires.         *)

NoOrphan == \A e \in Executions : pc[e] # "orphan"

LEMMA NextNoOrphan ==
  ASSUME "tx_timeout" \notin Faults
  PROVE  TypeOK /\ NoOrphan /\ [Next]_vars => NoOrphan'
<1> SUFFICES ASSUME TypeOK, NoOrphan, [Next]_vars PROVE NoOrphan'
  OBVIOUS
<1>1. CASE UNCHANGED pc
  BY <1>1 DEF NoOrphan
<1>2. ASSUME NEW e \in Executions, NEW step \in {"idle", "fanout", "lock", "sending",
               "accepted", "count", "recount", "commit", "complete", "fail"}, Goto(e, step)
      PROVE  NoOrphan'
  BY <1>2 DEF Goto, NoOrphan, TypeOK
<1>3. ASSUME NEW e \in Executions, Complete(e) \/ Fail(e) \/ Crash(e) \/ RollBack(e)
      PROVE  NoOrphan'
  BY <1>2, <1>3 DEF Complete, Fail, Crash, RollBack, Forget
<1>4. ASSUME NEW e \in Executions, ReadFanout(e) \/ WriteFanout(e) PROVE NoOrphan'
  BY <1>2, <1>4 DEF ReadFanout, WriteFanout, Forget, FailWith
<1>5. ASSUME NEW d \in Executions,
             Prepare(d) \/ Lock(d) \/ Call(d) \/ ReturnLate(d) \/ Record(d) \/ Count(d) \/ Commit(d)
      PROVE  NoOrphan'
  BY <1>2, <1>5 DEF Prepare, Lock, Call, ReturnLate, Record, Count, CountActive, CountFailed,
                    Commit, Forget, FailWith
<1>6. ASSUME NEW d \in Deliveries PROVE ~TimeOut(d)
  BY DEF TimeOut, Fault
<1>7. ASSUME NEW d \in Deliveries, NEW event \in Events, Webhook(d, event) PROVE NoOrphan'
  BY <1>1, <1>7 DEF Webhook, runs
<1>8. CASE Send \/ RetryFailed \/ ReadTransition \/ WriteTransition \/ Publish
  BY <1>1, <1>8 DEF Send, RetryFailed, Queue, ReadTransition, WriteTransition, Publish, runs
<1>9. CASE UNCHANGED vars
  BY <1>1, <1>9 DEF vars, runs
<1> QED
  BY <1>3, <1>4, <1>5, <1>6, <1>7, <1>8, <1>9
     DEF Next, FanoutStep, DeliveryStep, Executions

\* Only a provider call under the lifecycle lock, or one that lost it, makes
\* the provider accept a message.
LEMMA AcceptedInCall ==
  ASSUME [Next]_vars, mails' # mails
  PROVE  \E d \in Deliveries : pc[d] \in {"sending", "orphan"}
<1>1. CASE UNCHANGED vars
  BY <1>1 DEF vars, history
<1>2. CASE Send \/ RetryFailed \/ ReadTransition \/ WriteTransition \/ Publish
  BY <1>2 DEF Send, RetryFailed, Queue, ReadTransition, WriteTransition, Publish, history
<1>3. ASSUME NEW e \in Executions, ReadFanout(e) \/ WriteFanout(e) \/ Complete(e) \/ Fail(e)
      PROVE  mails' = mails
  BY <1>3 DEF ReadFanout, WriteFanout, Complete, Fail, history
<1>4. ASSUME NEW d \in Deliveries, Prepare(d) \/ Lock(d) \/ Record(d) \/ Count(d) \/ Commit(d)
      PROVE  mails' = mails
  BY <1>4 DEF Prepare, Lock, Record, Count, CountActive, CountFailed, Commit, history
<1>5. ASSUME NEW d \in Deliveries, Call(d) \/ ReturnLate(d)
      PROVE  pc[d] \in {"sending", "orphan"}
  BY <1>5 DEF Call, ReturnLate
<1>6. ASSUME NEW e \in Executions, Crash(e) \/ RollBack(e) \/ TimeOut(e) PROVE mails' = mails
  BY <1>6 DEF Crash, RollBack, TimeOut
<1>7. ASSUME NEW d \in Deliveries, NEW event \in Events, Webhook(d, event) PROVE mails' = mails
  BY <1>7 DEF Webhook
<1> QED
  BY <1>1, <1>2, <1>3, <1>4, <1>5, <1>6, <1>7
     DEF Next, FanoutStep, DeliveryStep, Executions

\* As long as Prisma ends no transaction under a provider call, no message is
\* accepted after the site was unpublished or the campaign cancelled.
THEOREM WithdrawalRespected ==
  ASSUME "tx_timeout" \notin Faults
  PROVE  Spec => NothingSentAfterWithdrawal
<1>1. Init => NoOrphan
  BY DEF Init, NoOrphan
<1>2. TypeOK /\ NoOrphan /\ [Next]_vars => NoOrphan'
  BY NextNoOrphan
<1>3. SiteInv /\ NoOrphan /\ [Next]_vars
        => [~published \/ campaign = "CANCELLED" => mails' = mails]_vars
  <2> SUFFICES ASSUME SiteInv, NoOrphan, [Next]_vars, ~published \/ campaign = "CANCELLED"
               PROVE  mails' = mails
    OBVIOUS
  <2>1. \A d \in Deliveries : pc[d] \notin {"sending", "orphan"}
    BY DEF SiteInv, CheckedUnderLock, NoOrphan, Executions
  <2> QED BY <2>1, AcceptedInCall
<1> QED
  BY <1>1, <1>2, <1>3, TypeCorrect, SiteInvariant, PTL DEF Spec, NothingSentAfterWithdrawal

-----------------------------------------------------------------------------
(* Runs and the lifecycle lock.                                             *)

\* Only an owed execution runs; a recipient is written at the end of a run
\* only; what a fan-out has read is remembered while it runs; the lifecycle
\* lock has one holder.
OnlyOwedRuns == \A e \in Executions : row[e] # "owed" => pc[e] = "idle"

WritesAtEnd == \A e \in Executions : write[e] # None => pc[e] \in {"count", "recount", "commit"}

PickedByFanout == picked # {} => \E e \in Executions : pc[e] = "fanout"

OneHolder == \A e, f \in Executions : HoldsSite(e) /\ HoldsSite(f) => e = f

RunsInv == OnlyOwedRuns /\ WritesAtEnd /\ PickedByFanout /\ OneHolder

LEMMA NoneDiffers ==
  /\ None \notin {"SENT", "CANCELLED", "FAILED", "PENDING", "QUEUED"}
  /\ None \notin {"owed", "COMPLETED", "DEAD_LETTER"}
  /\ \A e \in Fanouts : e \notin Deliveries
BY NoneAssumption, RecipientsAssumption DEF RecipientStatus, Fanouts, Deliveries

\* Everybody else's run stands still.
Alone(e) == \A x \in Executions : x # e => pc'[x] = pc[x] /\ write'[x] = write[x]

LEMMA ForgetPoint ==
  ASSUME TypeOK, NEW e \in Executions, NEW step, NEW class, Forget(e, step, class)
  PROVE  /\ pc'[e] = step /\ write'[e] = None /\ Alone(e)
         /\ picked' = IF pc[e] = "fanout" THEN {} ELSE picked
BY DEF Forget, Goto, Alone, TypeOK

LEMMA GotoPoint ==
  ASSUME TypeOK, NEW e \in Executions, NEW step, Goto(e, step)
  PROVE  pc'[e] = step /\ \A x \in Executions : x # e => pc'[x] = pc[x]
BY DEF Goto, TypeOK

\* What a step of e's run has to show.
LEMMA RunsStep ==
  ASSUME TypeOK, RunsInv, NEW e \in Executions, Alone(e),
         \A x \in Executions : x # e => row'[x] \in {row[x], "owed"},
         row'[e] = "owed" \/ pc'[e] = "idle",
         write'[e] # None => pc'[e] \in {"count", "recount", "commit"},
         picked' = {} \/ (picked' = picked /\ pc[e] # "fanout") \/ pc'[e] = "fanout",
         HoldsSite(e)' => HoldsSite(e) \/ SiteFree
  PROVE  RunsInv'
<1>1. OnlyOwedRuns'
  BY DEF RunsInv, OnlyOwedRuns, Alone
<1>2. WritesAtEnd'
  BY DEF RunsInv, WritesAtEnd, Alone
<1>3. PickedByFanout'
  BY DEF RunsInv, PickedByFanout, Alone
<1>4. OneHolder'
  <2>1. \A x \in Executions : x # e => (HoldsSite(x)' <=> HoldsSite(x))
    BY DEF Alone, HoldsSite
  <2> QED BY <2>1 DEF RunsInv, OneHolder, SiteFree
<1> QED BY <1>1, <1>2, <1>3, <1>4 DEF RunsInv

LEMMA InitRuns == Init => RunsInv
BY NoneDiffers DEF Init, RunsInv, OnlyOwedRuns, WritesAtEnd, PickedByFanout, OneHolder, HoldsSite

LEMMA OthersRuns ==
  ASSUME TypeOK, RunsInv, UNCHANGED runs,
         \A e \in Executions : row'[e] \in {row[e], "owed"}
  PROVE  RunsInv'
BY DEF RunsInv, OnlyOwedRuns, WritesAtEnd, PickedByFanout, OneHolder, HoldsSite, runs

LEMMA SettleRuns ==
  ASSUME TypeOK, RunsInv, NEW e \in Executions,
         Complete(e) \/ Fail(e) \/ Commit(e) \/ Crash(e) \/ RollBack(e) \/ WriteFanout(e)
  PROVE  RunsInv'
<1>1. pc[e] # "idle" \/ write[e] # None
  BY NoneDiffers DEF Complete, Fail, Commit, Crash, RollBack, WriteFanout
<1>2. row[e] = "owed"
  BY <1>1 DEF RunsInv, OnlyOwedRuns, WritesAtEnd
<1>3. \A x \in Executions : x # e => row'[x] \in {row[x], "owed"}
  BY DEF Complete, Fail, Commit, Crash, RollBack, WriteFanout, TypeOK, ledger
<1>4. ASSUME Forget(e, "idle", None) PROVE RunsInv'
  BY <1>3, <1>4, ForgetPoint, RunsStep, NoneDiffers DEF HoldsSite
<1>5. ASSUME row'[e] = "owed", NEW step \in {"fail", "complete"}, NEW class, Forget(e, step, class)
      PROVE  RunsInv'
  BY <1>3, <1>5, ForgetPoint, RunsStep, NoneDiffers DEF HoldsSite
<1>6. CASE Complete(e) \/ Crash(e)
  BY <1>4, <1>6 DEF Complete, Crash
<1>7. CASE RollBack(e) \/ WriteFanout(e) \/ Commit(e)
  <2>1. row'[e] = "owed" \/ Forget(e, "idle", None)
    BY <1>2, <1>7 DEF RollBack, WriteFanout, Commit, ledger
  <2> QED BY <1>4, <1>5, <1>7, <2>1 DEF RollBack, WriteFanout, Commit
<1>8. CASE Fail(e) /\ write' = [write EXCEPT ![e] = "FAILED"] /\ Goto(e, "count")
            /\ UNCHANGED <<row, err, picked, verdict>>
  <2>1. Alone(e) /\ pc'[e] = "count" /\ write'[e] = "FAILED" /\ pc[e] = "fail"
    BY <1>8, GotoPoint DEF Alone, TypeOK, Fail
  <2> QED BY <1>2, <1>3, <1>8, <2>1, RunsStep DEF HoldsSite
<1> QED BY <1>4, <1>6, <1>7, <1>8 DEF Fail

LEMMA MoveRuns ==
  ASSUME TypeOK, RunsInv, NEW e \in Executions,
         ReadFanout(e) \/ Prepare(e) \/ Lock(e) \/ Call(e) \/ ReturnLate(e) \/ Record(e)
           \/ Count(e) \/ TimeOut(e)
  PROVE  RunsInv'
<1>1. row' = row /\ row[e] = "owed"
  BY DEF ReadFanout, Start, Prepare, Lock, Call, ReturnLate, Record, Count, CountActive,
         CountFailed, TimeOut, ledger, RunsInv, OnlyOwedRuns
<1>2. ASSUME NEW step, Goto(e, step), UNCHANGED <<picked, write>>, pc[e] # "fanout",
             write[e] # None => step \in {"count", "recount", "commit"},
             step = "sending" => SiteFree,
             step = "accepted" => pc[e] = "sending",
             step = "fanout" => FALSE,
             step \in {"recount", "commit"} => pc[e] \in {"count", "recount"},
             step = "count" => write[e] = None
      PROVE  RunsInv'
  <2>1. Alone(e) /\ pc'[e] = step /\ write'[e] = write[e]
    BY <1>2, GotoPoint DEF Alone
  <2>2. HoldsSite(e)' => HoldsSite(e) \/ SiteFree
    BY <1>2, <2>1, NoneDiffers DEF HoldsSite
  <2> QED BY <1>1, <1>2, <2>1, <2>2, RunsStep
<1>3. CASE ReadFanout(e)
  <2>1. write[e] = None /\ SiteFree /\ pc[e] = "idle" /\ write' = write
    BY <1>3 DEF ReadFanout, Start, RunsInv, WritesAtEnd
  <2>2. CASE Goto(e, "fanout")
    BY <1>1, <2>1, <2>2, GotoPoint, RunsStep DEF Alone
  <2> QED BY <1>2, <1>3, <2>1, <2>2 DEF ReadFanout, FailWith
<1>4. CASE Prepare(e) \/ Call(e) \/ ReturnLate(e) \/ Count(e) \/ TimeOut(e)
  <2>1. pc[e] \in {"idle", "sending", "orphan"} => write[e] = None
    BY DEF RunsInv, WritesAtEnd
  <2>2. \E step \in {"count", "lock", "fail"} :
           Prepare(e) => Goto(e, step) /\ pc[e] = "idle" /\ UNCHANGED <<picked, write>>
    BY DEF Prepare, Start, FailWith
  <2>3. CASE Prepare(e)
    BY <1>2, <2>1, <2>2, <2>3
  <2>4. CASE Call(e)
    BY <1>2, <2>1, <2>4 DEF Call, FailWith
  <2>5. CASE ReturnLate(e)
    BY <1>2, <2>1, <2>5 DEF ReturnLate, FailWith
  <2>6. CASE Count(e)
    BY <1>2, <2>6 DEF Count, CountActive, CountFailed
  <2>7. CASE TimeOut(e)
    BY <1>2, <2>1, <2>7 DEF TimeOut
  <2> QED BY <1>4, <2>3, <2>4, <2>5, <2>6, <2>7
<1>5. CASE Lock(e)
  <2>1. pc[e] = "lock" /\ write[e] = None /\ SiteFree /\ picked' = picked
    BY <1>5 DEF Lock, RunsInv, WritesAtEnd
  <2>2. CASE write' = write /\ (Goto(e, "sending") \/ Goto(e, "fail"))
    BY <1>2, <2>1, <2>2
  <2>3. CASE write' = [write EXCEPT ![e] = "CANCELLED"] /\ Goto(e, "count")
    BY <1>1, <2>1, <2>3, GotoPoint, RunsStep DEF Alone, TypeOK
  <2> QED BY <1>5, <2>2, <2>3 DEF Lock, FailWith
<1>6. CASE Record(e)
  <2>1. Alone(e) /\ pc[e] = "accepted" /\ pc'[e] = "count" /\ HoldsSite(e) /\ picked' = picked
    BY <1>6, GotoPoint DEF Record, Alone, TypeOK, HoldsSite
  <2> QED BY <1>1, <2>1, RunsStep
<1> QED BY <1>3, <1>4, <1>5, <1>6

LEMMA NextRuns == TypeOK /\ RunsInv /\ [Next]_vars => RunsInv'
<1> SUFFICES ASSUME TypeOK, RunsInv, [Next]_vars PROVE RunsInv'
  OBVIOUS
<1>1. CASE UNCHANGED vars
  BY <1>1, OthersRuns DEF vars, ledger
<1>2. CASE Send \/ RetryFailed \/ ReadTransition \/ WriteTransition \/ Publish
  <2>1. UNCHANGED runs /\ \A e \in Executions : row'[e] \in {row[e], "owed"}
    BY <1>2 DEF Send, RetryFailed, Queue, ReadTransition, WriteTransition, Publish, TypeOK, ledger
  <2> QED BY <2>1, OthersRuns
<1>3. ASSUME NEW d \in Deliveries, NEW event \in Events, Webhook(d, event) PROVE RunsInv'
  BY <1>3, OthersRuns DEF Webhook, ledger
<1> QED
  BY <1>1, <1>2, <1>3, SettleRuns, MoveRuns
     DEF Next, FanoutStep, DeliveryStep, Executions

-----------------------------------------------------------------------------
(* Delivery intents.                                                        *)

\* The first k intents of a recipient exist, and another one may be created
\* only for a request that has none yet.
Intents(r, k) ==
  /\ \A n \in 1 .. MaxSends : row[<<r, n>>] # None <=> n <= k
  /\ rec[r] = "PENDING" \/ r \in picked => k < sends

IntentsInv == \A r \in Recipients : \E k \in 0 .. sends : Intents(r, k)

LEMMA IntentIsNext ==
  ASSUME TypeOK, NEW r \in Recipients, NEW k \in 0 .. sends, Intents(r, k)
  PROVE  Intent(r) = <<r, k + 1>>
<1> DEFINE S == {n \in 1 .. MaxSends : row[<<r, n>>] # None}
<1>1. k \in Nat /\ k <= MaxSends
  BY BoundsAssumption DEF TypeOK
<1>2. S = 1 .. k
  BY <1>1, BoundsAssumption DEF Intents
<1>3. Cardinality(1 .. k) = k
  BY <1>1, FS_Interval
<1> QED BY <1>2, <1>3 DEF Intent

LEMMA DeliveryRows ==
  \A r \in Recipients : \A n \in 1 .. MaxSends :
     <<r, n>> \in Executions /\ <<r, n>> \in Deliveries /\ <<r, n>>[1] = r
BY DEF Executions, Deliveries

\* A step that creates no intent.
LEMMA IntentsFrame ==
  ASSUME TypeOK, TypeOK', IntentsInv, sends' >= sends,
         \A d \in Deliveries : row'[d] # None <=> row[d] # None,
         \A r \in Recipients : rec'[r] = "PENDING" \/ r \in picked' =>
            rec[r] = "PENDING" \/ r \in picked \/ sends' > sends
  PROVE  IntentsInv'
<1> SUFFICES ASSUME NEW r \in Recipients PROVE \E k \in 0 .. sends' : Intents(r, k)'
  BY DEF IntentsInv
<1>1. PICK k \in 0 .. sends : Intents(r, k)
  BY DEF IntentsInv
<1>2. sends \in Nat /\ sends' \in Nat
  BY BoundsAssumption DEF TypeOK
<1>3. k \in 0 .. sends'
  BY <1>2
<1>4. Intents(r, k)'
  BY <1>1, <1>2, DeliveryRows DEF Intents
<1> QED BY <1>3, <1>4

LEMMA IntentsFanout ==
  ASSUME TypeOK, RunsInv, IntentsInv, NEW e \in Executions, WriteFanout(e)
  PROVE  IntentsInv'
<1>1. pc[e] = "fanout" /\ picked' = {} /\ sends' = sends
  BY ForgetPoint DEF WriteFanout
<1> SUFFICES ASSUME NEW r \in Recipients PROVE \E k \in 0 .. sends : Intents(r, k)'
  BY <1>1 DEF IntentsInv
<1>2. PICK k \in 0 .. sends : Intents(r, k)
  BY DEF IntentsInv
<1>3. sends \in Nat /\ sends <= MaxSends
  BY BoundsAssumption DEF TypeOK
<1>4. \A x \in Executions : row'[x] = IF \E q \in picked : x = Intent(q) THEN "owed" ELSE row[x]
  BY DEF WriteFanout
<1>5. \A q \in picked : q \in Recipients /\ Intent(q)[1] = q
  BY DEF TypeOK, Intent
<1>6. CASE r \in picked
  <2>1. Intent(r) = <<r, k + 1>> /\ k < sends
    BY <1>2, <1>6, IntentIsNext DEF Intents
  <2>2. k + 1 \in 0 .. sends
    BY <1>3, <2>1
  <2>3. \A n \in 1 .. MaxSends : row'[<<r, n>>] = IF n = k + 1 THEN "owed" ELSE row[<<r, n>>]
    BY <1>4, <1>5, <1>6, <2>1, DeliveryRows
  <2>4. \A n \in 1 .. MaxSends : row'[<<r, n>>] # None <=> n <= k + 1
    BY <1>2, <1>3, <2>3, <2>1, NoneDiffers DEF Intents
  <2>5. rec'[r] = "QUEUED"
    BY <1>6 DEF WriteFanout
  <2> QED BY <1>1, <2>2, <2>4, <2>5 DEF Intents
<1>7. CASE r \notin picked
  <2>1. \A n \in 1 .. MaxSends : row'[<<r, n>>] = row[<<r, n>>]
    BY <1>4, <1>5, <1>7, DeliveryRows
  <2>2. rec'[r] = rec[r]
    BY <1>7 DEF WriteFanout
  <2> QED BY <1>1, <1>2, <2>1, <2>2 DEF Intents
<1> QED BY <1>6, <1>7

\* A request counts one more and makes a fan-out, never a delivery.
LEMMA RequestRows ==
  ASSUME TypeOK, Send \/ RetryFailed
  PROVE  /\ sends' = sends + 1 /\ runs' = runs
         /\ \A d \in Deliveries : row'[d] = row[d]
<1>1. /\ row' = [row EXCEPT ![<<None, sends + 1>>] = "owed"]
      /\ sends' = sends + 1 /\ runs' = runs
  BY DEF Send, RetryFailed, Queue
<1>2. \A d \in Deliveries : d \in Executions /\ d # <<None, sends + 1>>
  BY RecipientsAssumption DEF Deliveries, Executions
<1> QED BY <1>1, <1>2 DEF TypeOK

LEMMA InitIntents == Init => IntentsInv
<1> SUFFICES ASSUME Init, NEW r \in Recipients PROVE Intents(r, 0) /\ sends = 0
  BY DEF IntentsInv
<1>1. \A n \in 1 .. MaxSends : row[<<r, n>>] = None
  BY DeliveryRows DEF Init
<1>2. sends = 0 /\ rec[r] # "PENDING" /\ r \notin picked
  BY NoneDiffers DEF Init
<1> QED BY <1>1, <1>2, BoundsAssumption DEF Intents

LEMMA IntentsStep == TypeOK /\ RunsInv /\ IntentsInv /\ [Next]_vars => IntentsInv'
<1> SUFFICES ASSUME TypeOK, RunsInv, IntentsInv, [Next]_vars PROVE IntentsInv'
  OBVIOUS
<1>t. TypeOK' /\ sends \in Nat /\ sends' \in Nat
  BY NextType, BoundsAssumption DEF TypeOK
<1>1. CASE UNCHANGED vars
  BY <1>t, <1>1, IntentsFrame DEF vars, domain, ledger, runs
<1>2. CASE Send \/ RetryFailed
  <2>1. \A d \in Deliveries : row'[d] = row[d]
    BY <1>2, RequestRows
  <2>2. sends' > sends /\ sends' >= sends
    BY <1>2, <1>t, RequestRows
  <2> QED BY <1>t, <2>1, <2>2, IntentsFrame
<1>3. CASE ReadTransition \/ WriteTransition \/ Publish
  <2>1. UNCHANGED <<row, sends, picked>>
    BY <1>3 DEF ReadTransition, WriteTransition, Publish, ledger, runs
  <2>2. \A r \in Recipients : rec'[r] = "PENDING" => rec[r] = "PENDING"
    BY <1>3 DEF ReadTransition, WriteTransition, Publish
  <2> QED BY <1>t, <2>1, <2>2, IntentsFrame
<1>4. ASSUME NEW e \in Executions, Complete(e) \/ Fail(e) \/ Commit(e) PROVE IntentsInv'
  <2>1. row[e] = "owed"
    BY <1>4, NoneDiffers DEF Complete, Fail, Commit, RunsInv, OnlyOwedRuns
  <2>2. \A x \in Executions : row'[x] # None <=> row[x] # None
    BY <1>4, <2>1, NoneDiffers DEF Complete, Fail, Commit, TypeOK
  <2>3. picked' \subseteq picked /\ sends' = sends
    BY <1>4, ForgetPoint DEF Complete, Fail, Commit, domain
  <2>4. \A r \in Recipients : rec'[r] = "PENDING" => rec[r] = "PENDING"
    BY <1>4 DEF Complete, Fail, Commit, Seen, domain, TypeOK
  <2> QED BY <1>t, <2>2, <2>3, <2>4, IntentsFrame DEF Executions
<1>5. ASSUME NEW e \in Executions,
             \/ ReadFanout(e) \/ Prepare(e) \/ Lock(e) \/ Call(e) \/ ReturnLate(e)
             \/ Record(e) \/ Count(e) \/ TimeOut(e) \/ Crash(e) \/ RollBack(e)
      PROVE  IntentsInv'
  <2>1. UNCHANGED <<row, sends, rec>>
    BY <1>5 DEF ReadFanout, Prepare, Lock, Call, ReturnLate, Record, Count, CountActive,
                CountFailed, TimeOut, Crash, RollBack, domain, ledger
  <2>2. \A r \in Recipients : r \in picked' => r \in picked \/ rec[r] = "PENDING"
    <3>1. CASE ReadFanout(e)
      BY <3>1 DEF ReadFanout
    <3>2. CASE Crash(e) \/ RollBack(e)
      BY <3>2, ForgetPoint DEF Crash, RollBack
    <3> QED BY <1>5, <3>1, <3>2 DEF Prepare, Lock, Call, ReturnLate, Record, Count,
                                    CountActive, CountFailed, TimeOut
  <2> QED BY <1>t, <2>1, <2>2, IntentsFrame
<1>6. ASSUME NEW d \in Deliveries, NEW event \in Events, Webhook(d, event) PROVE IntentsInv'
  <2>1. UNCHANGED <<row, sends, picked>>
    BY <1>6 DEF Webhook, ledger, runs
  <2>2. \A r \in Recipients : rec'[r] = IF r = d[1] THEN Reported(rec[r], event) ELSE rec[r]
    BY <1>6 DEF Webhook, TypeOK
  <2>3. \A r \in Recipients : rec'[r] = "PENDING" => rec[r] = "PENDING"
    BY <2>2 DEF Reported
  <2> QED BY <1>t, <2>1, <2>3, IntentsFrame
<1> QED
  BY <1>1, <1>2, <1>3, <1>4, <1>5, <1>6, IntentsFanout
     DEF Next, FanoutStep, DeliveryStep, Executions

-----------------------------------------------------------------------------
(* Queued recipients.                                                       *)

\* An owed delivery that is not about to end without a word on its recipient.
Useful(d) ==
  /\ row[d] = "owed" /\ pc[d] # "complete"
  /\ pc[d] \in {"count", "recount", "commit"} => write[d] # None

QueuedInv ==
  \A r \in Recipients : rec[r] = "QUEUED" => \E n \in 1 .. MaxSends : Useful(<<r, n>>)

\* A useful delivery of a recipient that stays queued stays useful.
LEMMA UsefulStays ==
  ASSUME TypeOK, RunsInv, Next, NEW d \in Deliveries, Useful(d),
         rec[d[1]] = "QUEUED", rec'[d[1]] = "QUEUED"
  PROVE  Useful(d)'
<1>0. d \in Executions /\ d[1] \in Recipients
  BY DEF Executions, Deliveries
<1>1. ASSUME UNCHANGED <<pc, write>>, row'[d] = row[d] PROVE Useful(d)'
  BY <1>1 DEF Useful
<1>2. CASE Send \/ RetryFailed \/ ReadTransition \/ WriteTransition \/ Publish
  BY <1>0, <1>1, <1>2, RequestRows DEF ReadTransition, WriteTransition, Publish, ledger, runs
<1>3. ASSUME NEW h \in Deliveries, NEW event \in Events, Webhook(h, event) PROVE Useful(d)'
  BY <1>1, <1>3 DEF Webhook, ledger, runs
<1>4. ASSUME NEW e \in Executions, e # d,
             \/ FanoutStep(e) \/ DeliveryStep(e) \/ TimeOut(e) \/ Crash(e) \/ RollBack(e)
      PROVE  Useful(d)'
  <2>1. row'[d] \in {row[d], "owed"}
    BY <1>0, <1>4
       DEF FanoutStep, DeliveryStep, ReadFanout, WriteFanout, Prepare, Lock, Call, ReturnLate,
           Record, Count, CountActive, CountFailed, Commit, Complete, Fail, TimeOut, Crash,
           RollBack, TypeOK, ledger
  <2>2. pc'[d] = pc[d] /\ write'[d] = write[d]
    BY <1>0, <1>4
       DEF FanoutStep, DeliveryStep, ReadFanout, WriteFanout, Prepare, Lock, Call, ReturnLate,
           Record, Count, CountActive, CountFailed, Commit, Complete, Fail, TimeOut, Crash,
           RollBack, TypeOK, Goto, FailWith, Forget
  <2> QED BY <2>1, <2>2 DEF Useful
<1>5. CASE Prepare(d) \/ Lock(d) \/ Call(d) \/ ReturnLate(d) \/ Record(d) \/ Count(d) \/ TimeOut(d)
  <2>1. row'[d] = "owed"
    BY <1>5 DEF Useful, Prepare, Lock, Call, ReturnLate, Record, Count, CountActive,
                CountFailed, TimeOut, ledger
  <2>2. ASSUME NEW step \in {"lock", "sending", "orphan", "accepted", "fail"}, Goto(d, step)
        PROVE  Useful(d)'
    BY <1>0, <2>1, <2>2, GotoPoint DEF Useful
  <2>3. CASE Prepare(d)
    BY <2>2, <2>3 DEF Prepare, FailWith, Successful
  <2>4. CASE Lock(d)
    <3>1. CASE write' = [write EXCEPT ![d] = "CANCELLED"] /\ Goto(d, "count")
      BY <1>0, <2>1, <3>1, GotoPoint, NoneDiffers DEF Useful, TypeOK
    <3> QED BY <2>2, <2>4, <3>1 DEF Lock, FailWith
  <2>5. CASE Record(d)
    BY <1>0, <2>1, <2>5, GotoPoint, NoneDiffers DEF Record, Useful, TypeOK
  <2>6. CASE Count(d)
    BY <1>0, <2>1, <2>6, GotoPoint DEF Count, CountActive, CountFailed, Useful
  <2> QED BY <1>5, <2>2, <2>3, <2>4, <2>5, <2>6 DEF Call, ReturnLate, TimeOut, FailWith
<1>6. CASE Crash(d) \/ RollBack(d)
  BY <1>0, <1>6, ForgetPoint DEF Crash, RollBack, Useful, ledger
<1>7. CASE Commit(d)
  <2>1. rec'[d[1]] = write[d]
    BY <1>0, <1>7 DEF Commit, Seen, Useful
  <2> QED BY <1>0, <2>1, NoneDiffers DEF TypeOK
<1>8. CASE Complete(d)
  BY <1>8 DEF Complete, Useful
<1>9. CASE Fail(d)
  <2>1. CASE Terminal(d)
    BY <1>0, <1>9, <2>1, GotoPoint, NoneDiffers DEF Fail, Useful, Active, TypeOK
  <2>2. CASE ~Terminal(d)
    BY <1>0, <1>9, <2>2, ForgetPoint DEF Fail, Useful, TypeOK
  <2> QED BY <2>1, <2>2
<1> QED
  BY <1>0, <1>2, <1>3, <1>4, <1>5, <1>6, <1>7, <1>8, <1>9, NoneDiffers
     DEF Next, DeliveryStep, Executions

\* Only a fan-out queues a recipient, and it makes a delivery of its own.
LEMMA QueuedByFanout ==
  ASSUME TypeOK, RunsInv, IntentsInv, Next, NEW r \in Recipients,
         rec[r] # "QUEUED", rec'[r] = "QUEUED"
  PROVE  \E n \in 1 .. MaxSends : Useful(<<r, n>>)'
<1>1. \E e \in Executions : WriteFanout(e)
  BY DEF Next, Send, RetryFailed, ReadTransition, WriteTransition, Publish, FanoutStep,
         DeliveryStep, ReadFanout, Prepare, Lock, Call, ReturnLate, Record, Count, CountActive,
         CountFailed, Commit,
         Seen, Complete, Fail, TimeOut, Crash, RollBack, Webhook, Reported, domain, TypeOK,
         Executions
<1>2. PICK e \in Executions : WriteFanout(e)
  BY <1>1
<1>3. PICK k \in 0 .. sends : Intents(r, k)
  BY DEF IntentsInv
<1>4. r \in picked
  BY <1>2 DEF WriteFanout
<1>5. Intent(r) = <<r, k + 1>> /\ k + 1 \in 1 .. MaxSends
  BY <1>3, <1>4, IntentIsNext, BoundsAssumption DEF Intents, TypeOK
<1> DEFINE d == <<r, k + 1>>
<1>6. d \in Executions /\ row[d] = None
  BY <1>3, <1>5, DeliveryRows DEF Intents
<1>7. row'[d] = "owed"
  BY <1>2, <1>4, <1>5, <1>6 DEF WriteFanout
<1>8. pc[d] = "idle" /\ pc[e] = "fanout"
  BY <1>2, <1>6, NoneDiffers DEF RunsInv, OnlyOwedRuns, WriteFanout
<1>9. pc'[d] = "idle"
  BY <1>2, <1>6, <1>8, ForgetPoint DEF WriteFanout, Alone
<1>10. Useful(d)'
  BY <1>7, <1>9 DEF Useful
<1> QED BY <1>5, <1>10

\* A queued recipient always has a delivery that will settle it, whatever is
\* retried, redelivered, cancelled, reported late or lost in a fault.
THEOREM QueuedHasDeliveryHolds == Spec => []QueuedHasDelivery
<1>1. Init => IntentsInv /\ QueuedInv
  BY InitIntents, NoneDiffers DEF Init, QueuedInv
<1>2. TypeOK /\ RunsInv /\ IntentsInv /\ QueuedInv /\ [Next]_vars => QueuedInv'
  <2> SUFFICES ASSUME TypeOK, RunsInv, IntentsInv, QueuedInv, [Next]_vars,
                      NEW r \in Recipients, rec'[r] = "QUEUED"
               PROVE  \E n \in 1 .. MaxSends : Useful(<<r, n>>)'
    BY DEF QueuedInv
  <2>1. CASE UNCHANGED vars
    BY <2>1 DEF vars, domain, ledger, runs, QueuedInv, Useful
  <2>2. CASE Next /\ rec[r] = "QUEUED"
    BY <2>2, UsefulStays, DeliveryRows DEF QueuedInv
  <2>3. CASE Next /\ rec[r] # "QUEUED"
    BY <2>3, QueuedByFanout
  <2> QED BY <2>1, <2>2, <2>3
<1>3. QueuedInv => QueuedHasDelivery
  BY DEF QueuedInv, QueuedHasDelivery, Useful
<1> QED BY <1>1, <1>2, <1>3, InitRuns, NextRuns, IntentsStep, TypeCorrect, PTL DEF Spec

-----------------------------------------------------------------------------
(* Accepted messages.                                                       *)

\* The execution has sent and not yet committed that it did.
Sent(d) == pc[d] = "accepted" \/ write[d] = "SENT"

\* The provider calls under way without the lock that could still send to r.
Orphans(r) == {n \in 1 .. MaxSends : pc[<<r, n>>] = "orphan"}

\* A message to r may be accepted, or may become acceptable without a request.
Open(r) ==
  /\ \/ rec[r] \in Active \/ r \in picked
     \/ \E n \in 1 .. MaxSends : pc[<<r, n>>] = "sending"
  /\ \A n \in 1 .. MaxSends : ~Sent(<<r, n>>)

\* Messages that were and those that may still be accepted are accounted for.
Paid(r) ==
  /\ mails[r] + Cardinality(Orphans(r)) <= sends + faults
  /\ Open(r) => mails[r] + Cardinality(Orphans(r)) + 1 <= sends + faults

MailsInv == \A r \in Recipients : Paid(r)

LEMMA OrphansFinite ==
  ASSUME NEW r
  PROVE  IsFiniteSet(Orphans(r)) /\ Cardinality(Orphans(r)) \in Nat
<1>1. IsFiniteSet(1 .. MaxSends) /\ Orphans(r) \in SUBSET (1 .. MaxSends)
  BY BoundsAssumption, FS_Interval DEF Orphans
<1> QED BY <1>1, FS_Subset, FS_CardinalityType

LEMMA NumbersType ==
  ASSUME TypeOK, NEW r \in Recipients
  PROVE  mails[r] \in Nat /\ sends \in Nat /\ faults \in Nat
BY BoundsAssumption DEF TypeOK

\* A step that sends nothing to r and leaves no call behind pays as before.
LEMMA PaidFrame ==
  ASSUME TypeOK, TypeOK', NEW r \in Recipients, Paid(r), mails'[r] = mails[r],
         sends' >= sends, faults' >= faults,
         \A n \in 1 .. MaxSends : pc'[<<r, n>>] = "orphan" => pc[<<r, n>>] = "orphan",
         Open(r)' => Open(r) \/ sends' > sends \/ faults' > faults
  PROVE  Paid(r)'
<1>1. /\ mails[r] \in Nat /\ sends \in Nat /\ faults \in Nat
      /\ sends' \in Nat /\ faults' \in Nat
  BY BoundsAssumption DEF TypeOK
<1>2. Orphans(r)' \in SUBSET Orphans(r)
  BY DEF Orphans
<1>3. Cardinality(Orphans(r)') \in Nat /\ Cardinality(Orphans(r)') <= Cardinality(Orphans(r))
      /\ Cardinality(Orphans(r)) \in Nat
  BY <1>2, OrphansFinite, FS_Subset, FS_CardinalityType
<1>4. Cardinality(Orphans(r))' = Cardinality(Orphans(r)')
  OBVIOUS
<1>5. mails[r] + Cardinality(Orphans(r)) <= sends + faults
      /\ (Open(r) => mails[r] + Cardinality(Orphans(r)) + 1 <= sends + faults)
  BY DEF Paid
<1>6. mails'[r] + Cardinality(Orphans(r)') <= sends' + faults'
  BY <1>1, <1>3, <1>5
<1>7. Open(r)' => mails'[r] + Cardinality(Orphans(r)') + 1 <= sends' + faults'
  BY <1>1, <1>3, <1>5
<1> QED BY <1>4, <1>6, <1>7 DEF Paid

\* Whoever has sent holds the lifecycle lock.
LEMMA SentHolds ==
  ASSUME RunsInv, NEW d \in Executions, Sent(d) PROVE HoldsSite(d)
BY NoneDiffers DEF RunsInv, WritesAtEnd, Sent, HoldsSite

LEMMA OpenFrame ==
  ASSUME NEW r \in Recipients,
         rec'[r] \in Active => rec[r] \in Active \/ r \in picked,
         r \in picked' => rec[r] \in Active \/ r \in picked,
         \A n \in 1 .. MaxSends :
            /\ pc'[<<r, n>>] = "sending" => pc[<<r, n>>] = "sending" \/ rec[r] \in Active
            /\ Sent(<<r, n>>) => Sent(<<r, n>>)',
         Open(r)'
  PROVE  Open(r)
BY DEF Open

\* While a provider call holds the lock nobody else has sent: the recipient
\* is open.
LEMMA SendingIsOpen ==
  ASSUME RunsInv, NEW r \in Recipients, NEW m \in 1 .. MaxSends, pc[<<r, m>>] = "sending"
  PROVE  Open(r)
<1>1. <<r, m>> \in Executions /\ HoldsSite(<<r, m>>) /\ ~Sent(<<r, m>>)
  BY DeliveryRows, NoneDiffers DEF HoldsSite, Sent, RunsInv, WritesAtEnd
<1>2. ASSUME NEW n \in 1 .. MaxSends, Sent(<<r, n>>) PROVE FALSE
  BY <1>1, <1>2, SentHolds, DeliveryRows DEF RunsInv, OneHolder
<1> QED BY <1>2 DEF Open

\* The steps that accept no message and end no transaction that sent one.
LEMMA PaidRun ==
  ASSUME TypeOK, TypeOK', RunsInv, NEW r \in Recipients, Paid(r), NEW e \in Executions,
         \/ ReadFanout(e) \/ WriteFanout(e) \/ Prepare(e) \/ Lock(e) \/ Record(e)
         \/ Count(e) \/ Complete(e) \/ Fail(e)
  PROVE  Paid(r)'
<1>1. UNCHANGED <<mails, sends, faults>>
  BY DEF ReadFanout, WriteFanout, Prepare, Lock, Record, Count, CountActive, CountFailed,
         Complete, Fail, domain, history
<1>2. pc[e] \notin {"count", "recount", "commit"} => write[e] = None
  BY DEF RunsInv, WritesAtEnd
<1>3. \A n \in 1 .. MaxSends : <<r, n>> # e =>
         pc'[<<r, n>>] = pc[<<r, n>>] /\ write'[<<r, n>>] = write[<<r, n>>]
  BY DeliveryRows
     DEF ReadFanout, WriteFanout, Prepare, Lock, Record, Count, CountActive, CountFailed,
         Complete, Fail, FailWith, Goto, Forget, TypeOK
<1>4. /\ pc'[e] # "orphan"
      /\ pc'[e] = "sending" => Lock(e) /\ Deliverable(e)
      /\ Sent(e) => Sent(e)'
  <2>1. ASSUME NEW step \in {"fanout", "lock", "count", "recount", "commit", "fail", "sending"},
               Goto(e, step), UNCHANGED write, pc[e] # "accepted",
               step = "sending" => Lock(e) /\ Deliverable(e)
        PROVE  pc'[e] # "orphan" /\ (pc'[e] = "sending" => Lock(e) /\ Deliverable(e))
                 /\ (Sent(e) => Sent(e)')
    BY <2>1, GotoPoint DEF Sent
  <2>2. CASE ReadFanout(e) \/ Prepare(e)
    BY <2>1, <2>2 DEF ReadFanout, Prepare, Start, FailWith
  <2>3. CASE Count(e)
    BY <2>1, <2>3 DEF Count, CountActive, CountFailed
  <2>4. CASE Record(e)
    BY <2>4, GotoPoint DEF Record, Sent, TypeOK
  <2>5. CASE Lock(e)
    <3>1. CASE UNCHANGED write
      BY <2>1, <2>5, <3>1 DEF Lock, FailWith
    <3>2. CASE Goto(e, "count")
      BY <1>2, <2>5, <3>2, GotoPoint, NoneDiffers DEF Lock, Sent
    <3> QED BY <2>5, <3>1, <3>2 DEF Lock
  <2>6. CASE WriteFanout(e) \/ Complete(e) \/ Fail(e)
    <3>1. ~Sent(e)
      BY <1>2, <2>6, NoneDiffers DEF WriteFanout, Complete, Fail, Sent
    <3>2. pc'[e] \in {"complete", "idle", "count"}
      BY <2>6, ForgetPoint, GotoPoint DEF WriteFanout, Complete, Fail
    <3> QED BY <3>1, <3>2
  <2> QED BY <2>2, <2>3, <2>4, <2>5, <2>6
<1>5. \A n \in 1 .. MaxSends :
         /\ pc'[<<r, n>>] = "orphan" => pc[<<r, n>>] = "orphan"
         /\ pc'[<<r, n>>] = "sending" => pc[<<r, n>>] = "sending" \/ rec[r] \in Active
         /\ Sent(<<r, n>>) => Sent(<<r, n>>)'
  <2> SUFFICES ASSUME NEW n \in 1 .. MaxSends
               PROVE  /\ pc'[<<r, n>>] = "orphan" => pc[<<r, n>>] = "orphan"
                      /\ pc'[<<r, n>>] = "sending" => pc[<<r, n>>] = "sending" \/ rec[r] \in Active
                      /\ Sent(<<r, n>>) => Sent(<<r, n>>)'
    OBVIOUS
  <2>1. CASE <<r, n>> = e
    BY <1>4, <2>1 DEF Deliverable
  <2>2. CASE <<r, n>> # e
    BY <1>3, <2>2 DEF Sent
  <2> QED BY <2>1, <2>2
<1>6. /\ rec'[r] \in Active => rec[r] \in Active \/ r \in picked
      /\ r \in picked' => rec[r] \in Active \/ r \in picked
  <2>1. CASE ReadFanout(e)
    BY <2>1 DEF ReadFanout, domain, Active
  <2>2. CASE WriteFanout(e) \/ Complete(e) \/ Fail(e)
    BY <2>2, ForgetPoint DEF WriteFanout, Complete, Fail, domain
  <2>3. CASE Prepare(e) \/ Lock(e) \/ Record(e) \/ Count(e)
    BY <2>3 DEF Prepare, Lock, Record, Count, CountActive, CountFailed, domain
  <2> QED BY <2>1, <2>2, <2>3
<1>7. Open(r)' => Open(r)
  BY <1>5, <1>6, OpenFrame
<1>8. sends' >= sends /\ faults' >= faults /\ mails'[r] = mails[r]
  BY <1>1, NumbersType
<1> QED BY <1>5, <1>7, <1>8, PaidFrame

\* The commit of a sent message settles its recipient: the lock it holds kept
\* fan-outs and other calls away.
LEMMA PaidCommit ==
  ASSUME TypeOK, TypeOK', RunsInv, NEW r \in Recipients, Paid(r), NEW d \in Deliveries, Commit(d)
  PROVE  Paid(r)'
<1>0. d \in Executions /\ pc[d] = "commit"
  BY DEF Commit, Executions
<1>1. UNCHANGED <<mails, sends, faults>> /\ sends' >= sends /\ faults' >= faults
  BY NumbersType DEF Commit, history
<1>2. /\ pc'[d] \in {"idle", "complete"} /\ write'[d] = None /\ Alone(d) /\ picked' = picked
  BY <1>0, ForgetPoint DEF Commit
<1>3. \A n \in 1 .. MaxSends :
         pc'[<<r, n>>] \in {"orphan", "sending"} => pc'[<<r, n>>] = pc[<<r, n>>]
  BY <1>2, DeliveryRows DEF Alone
<1>4. \A n \in 1 .. MaxSends : Sent(<<r, n>>) => Sent(<<r, n>>)' \/ (<<r, n>> = d /\ write[d] = "SENT")
  BY <1>0, <1>2, DeliveryRows DEF Alone, Sent
<1>5. rec'[r] \in Active => rec[r] \in Active
  BY <1>0, NoneDiffers DEF Commit, Seen, TypeOK, Active
<1>6. CASE r = d[1] /\ write[d] = "SENT"
  <2>1. HoldsSite(d)
    BY <1>0, <1>6 DEF HoldsSite
  <2>2. \A x \in Executions : pc[x] \notin {"fanout", "sending"}
    BY <1>0, <2>1 DEF RunsInv, OneHolder, HoldsSite
  <2>3. rec'[r] = "SENT"
    BY <1>6, NoneDiffers DEF Commit, Seen
  <2>4. ~Open(r)'
    BY <1>2, <1>3, <2>2, <2>3, DeliveryRows DEF Open, Active, RunsInv, PickedByFanout
  <2> QED BY <1>1, <1>3, <2>4, PaidFrame
<1>7. CASE ~(r = d[1] /\ write[d] = "SENT")
  <2>1. Open(r)' => Open(r)
    BY <1>2, <1>3, <1>4, <1>5, <1>7, OpenFrame
  <2> QED BY <1>1, <1>3, <2>1, PaidFrame
<1> QED BY <1>6, <1>7

\* A step of another recipient's run.
LEMMA PaidElsewhere ==
  ASSUME TypeOK, TypeOK', NEW r \in Recipients, Paid(r), NEW d \in Deliveries, d[1] # r,
         Call(d) \/ ReturnLate(d) \/ TimeOut(d)
  PROVE  Paid(r)'
<1>0. d \in Executions
  BY DEF Executions
<1>1. /\ UNCHANGED domain /\ UNCHANGED <<picked, write>>
      /\ mails'[r] = mails[r] /\ sends' >= sends /\ faults' >= faults
  BY NumbersType DEF Call, ReturnLate, TimeOut, Fault, TypeOK, domain
<1>2. \A n \in 1 .. MaxSends : pc'[<<r, n>>] = pc[<<r, n>>]
  BY <1>0, DeliveryRows DEF Call, ReturnLate, TimeOut, Goto, FailWith, TypeOK
<1>3. Open(r)' => Open(r)
  BY <1>1, <1>2, OpenFrame DEF domain, Sent
<1> QED BY <1>1, <1>2, <1>3, PaidFrame

\* The call of r's own delivery: an open recipient pays for the message, and
\* for the call that goes on when its transaction expires.
LEMMA PaidCall ==
  ASSUME TypeOK, TypeOK', RunsInv, NEW r \in Recipients, Paid(r), NEW d \in Deliveries, d[1] = r,
         Call(d) \/ ReturnLate(d) \/ TimeOut(d)
  PROVE  Paid(r)'
<1> DEFINE m == d[2]
<1>0. d \in Executions /\ m \in 1 .. MaxSends /\ d = <<r, m>>
  BY DEF Executions, Deliveries
<1>1. /\ mails[r] \in Nat /\ mails'[r] \in Nat /\ sends \in Nat /\ faults \in Nat
      /\ faults' \in Nat /\ sends' = sends
  BY NumbersType, BoundsAssumption DEF Call, ReturnLate, TimeOut, domain, TypeOK
<1>2. /\ IsFiniteSet(Orphans(r)) /\ Cardinality(Orphans(r)) \in Nat
      /\ Cardinality(Orphans(r))' = Cardinality(Orphans(r)')
  BY OrphansFinite
<1>3. UNCHANGED domain /\ UNCHANGED <<picked, write>> /\ write[d] = None
  BY <1>0 DEF Call, ReturnLate, TimeOut, RunsInv, WritesAtEnd
<1>4. \A n \in 1 .. MaxSends : n # m => pc'[<<r, n>>] = pc[<<r, n>>]
  BY <1>0, DeliveryRows DEF Call, ReturnLate, TimeOut, Goto, FailWith, TypeOK
<1>5. pc[d] = "sending" => mails[r] + Cardinality(Orphans(r)) + 1 <= sends + faults
  BY <1>0, SendingIsOpen DEF Paid
<1>6. CASE Call(d) /\ Goto(d, "accepted")
  <2>1. pc[d] = "sending" /\ pc'[d] = "accepted" /\ mails'[r] = mails[r] + 1 /\ faults' = faults
    <3>1. pc'[d] = "accepted"
      BY <1>0, <1>6, GotoPoint
    <3>2. ~FailWith(d, "retryable") /\ ~FailWith(d, "permanent")
      BY <1>0, <3>1, GotoPoint DEF FailWith
    <3> QED BY <1>6, <3>1, <3>2 DEF Call, TypeOK
  <2>2. Orphans(r)' = Orphans(r)
    BY <1>0, <1>4, <2>1 DEF Orphans
  <2>3. ~Open(r)'
    BY <1>0, <2>1 DEF Open, Sent
  <2> QED BY <1>1, <1>2, <1>5, <2>1, <2>2, <2>3 DEF Paid
<1>7. CASE Call(d) /\ Goto(d, "fail") /\ UNCHANGED mails
  <2>1. pc[d] = "sending" /\ pc'[d] = "fail" /\ mails'[r] = mails[r] /\ faults' = faults
    BY <1>0, <1>7, GotoPoint DEF Call
  <2>2. Orphans(r)' = Orphans(r)
    BY <1>0, <1>4, <2>1 DEF Orphans
  <2> QED BY <1>1, <1>2, <1>5, <2>1, <2>2 DEF Paid
<1>8. CASE TimeOut(d)
  <2>1. pc[d] = "sending" /\ pc'[d] = "orphan" /\ mails'[r] = mails[r] /\ faults' = faults + 1
    BY <1>0, <1>8, GotoPoint DEF TimeOut, Fault
  <2>2. Orphans(r)' = Orphans(r) \cup {m} /\ m \notin Orphans(r)
    BY <1>0, <1>4, <2>1 DEF Orphans
  <2>3. Cardinality(Orphans(r)') = Cardinality(Orphans(r)) + 1
    BY <1>2, <2>2, FS_AddElement
  <2> QED BY <1>1, <1>2, <1>5, <2>1, <2>3 DEF Paid
<1>9. CASE ReturnLate(d)
  <2>1. /\ pc[d] = "orphan" /\ pc'[d] = "fail" /\ faults' = faults
        /\ mails'[r] \in {mails[r], mails[r] + 1}
    BY <1>0, <1>9, GotoPoint DEF ReturnLate, FailWith, TypeOK
  <2>2. Orphans(r)' = Orphans(r) \ {m} /\ m \in Orphans(r)
    BY <1>0, <1>4, <2>1 DEF Orphans
  <2>3. Cardinality(Orphans(r)') = Cardinality(Orphans(r)) - 1
    <3>1. Cardinality(Orphans(r) \ {m}) = Cardinality(Orphans(r)) - 1
      BY <1>2, <2>2, FS_RemoveElement
    <3> QED BY <2>2, <3>1
  <2>4. Cardinality(Orphans(r)') \in Nat
    BY <1>2, <2>2, FS_RemoveElement, FS_CardinalityType
  <2>5. Open(r)' => Open(r)
    BY <1>0, <1>3, <1>4, <2>1, OpenFrame DEF domain, Sent
  <2> QED BY <1>1, <1>2, <2>1, <2>3, <2>4, <2>5 DEF Paid
<1> QED BY <1>6, <1>7, <1>8, <1>9 DEF Call, FailWith

LEMMA PaidFault ==
  ASSUME TypeOK, TypeOK', NEW r \in Recipients, Paid(r), NEW e \in Executions,
         Crash(e) \/ RollBack(e)
  PROVE  Paid(r)'
<1>1. mails'[r] = mails[r] /\ sends' >= sends /\ faults' >= faults /\ faults' > faults
  BY NumbersType DEF Crash, RollBack, Fault, domain
<1>2. \A n \in 1 .. MaxSends : pc'[<<r, n>>] = "orphan" => pc[<<r, n>>] = "orphan"
  BY DeliveryRows DEF Crash, RollBack, Forget, Goto, TypeOK
<1> QED BY <1>1, <1>2, PaidFrame

LEMMA PaidOthers ==
  ASSUME TypeOK, TypeOK', NEW r \in Recipients, Paid(r),
         \/ Send \/ RetryFailed \/ ReadTransition \/ WriteTransition \/ Publish
         \/ \E d \in Deliveries, event \in Events : Webhook(d, event)
  PROVE  Paid(r)'
<1>1. UNCHANGED <<pc, write, picked>> /\ mails' = mails /\ faults' = faults
  BY DEF Send, RetryFailed, Queue, ReadTransition, WriteTransition, Publish, Webhook, runs,
         history
<1>2. faults' >= faults
  BY <1>1, NumbersType
<1>3. CASE Send \/ RetryFailed
  <2>1. sends' > sends /\ sends' >= sends
    BY <1>3, RequestRows, NumbersType
  <2> QED BY <1>1, <1>2, <2>1, PaidFrame
<1>4. CASE ~(Send \/ RetryFailed)
  <2>1. sends' = sends /\ sends' >= sends
    <3>1. sends' = sends
      BY <1>4 DEF ReadTransition, WriteTransition, Publish, Webhook
    <3> QED BY <3>1, NumbersType
  <2>2. rec'[r] \in Active => rec[r] \in Active
    <3>1. CASE \E d \in Deliveries, event \in Events : Webhook(d, event)
      <4>1. PICK d \in Deliveries, event \in Events : Webhook(d, event)
        BY <3>1
      <4>2. rec'[r] = IF r = d[1] THEN Reported(rec[r], event) ELSE rec[r]
        BY <4>1 DEF Webhook, TypeOK
      <4> QED BY <4>2, ReportedInactive
    <3>2. CASE ReadTransition \/ WriteTransition \/ Publish
      BY <3>2 DEF ReadTransition, WriteTransition, Publish, Active
    <3> QED BY <1>4, <3>1, <3>2
  <2>3. Open(r)' => Open(r)
    BY <1>1, <2>2, OpenFrame DEF Sent
  <2> QED BY <1>1, <1>2, <2>1, <2>3, PaidFrame
<1> QED BY <1>3, <1>4

LEMMA InitMails == Init => MailsInv
<1> SUFFICES ASSUME Init, NEW r \in Recipients PROVE Paid(r)
  BY DEF MailsInv
<1>1. Orphans(r) = {} /\ ~Open(r)
  BY NoneDiffers, DeliveryRows DEF Init, Orphans, Open, Active
<1>2. Cardinality({}) = 0
  BY FS_EmptySet
<1> QED BY <1>1, <1>2 DEF Init, Paid

LEMMA MailsStep == TypeOK /\ RunsInv /\ MailsInv /\ [Next]_vars => MailsInv'
<1> SUFFICES ASSUME TypeOK, RunsInv, MailsInv, [Next]_vars, NEW r \in Recipients
             PROVE  Paid(r)'
  BY DEF MailsInv
<1>1. TypeOK' /\ Paid(r)
  BY NextType DEF MailsInv
<1>2. CASE UNCHANGED vars
  BY <1>1, <1>2 DEF vars, domain, ledger, runs, history, Paid, Orphans, Open, Sent
<1>3. ASSUME NEW e \in Fanouts, FanoutStep(e) PROVE Paid(r)'
  BY <1>1, <1>3, PaidRun DEF FanoutStep, Executions
<1>4. ASSUME NEW d \in Deliveries, DeliveryStep(d) \/ TimeOut(d) PROVE Paid(r)'
  BY <1>1, <1>4, PaidRun, PaidCommit, PaidElsewhere, PaidCall DEF DeliveryStep, Executions
<1> QED BY <1>1, <1>2, <1>3, <1>4, PaidFault, PaidOthers DEF Next

\* Every message beyond one for each request is paid for by a fault that lost
\* the record of an accepted one, whatever is retried or redelivered.
THEOREM RepeatsPaid == Spec => []RepeatsPaidByFaults
<1>1. TypeOK /\ MailsInv => RepeatsPaidByFaults
  <2> SUFFICES ASSUME TypeOK, MailsInv, NEW r \in Recipients PROVE mails[r] <= sends + faults
    BY DEF RepeatsPaidByFaults
  <2> QED BY NumbersType, OrphansFinite DEF MailsInv, Paid
<1> QED BY <1>1, InitMails, MailsStep, InitRuns, NextRuns, TypeCorrect, PTL DEF Spec

-----------------------------------------------------------------------------
(* A campaign of one request.                                               *)

\* The steps of a run that leave the campaign and its recipients alone, and
\* all steps of a run.
QuietStep(e) ==
  \/ ReadFanout(e) \/ Prepare(e) \/ Lock(e) \/ Call(e) \/ ReturnLate(e) \/ Record(e)
  \/ Count(e) \/ Complete(e) \/ Fail(e) \/ TimeOut(e) \/ Crash(e) \/ RollBack(e)

RunStep(e) == QuietStep(e) \/ WriteFanout(e) \/ Commit(e)

LEMMA NextCases ==
  ASSUME Next
  PROVE  \/ Send \/ RetryFailed
         \/ ReadTransition \/ WriteTransition \/ Publish
         \/ \E e \in Executions : QuietStep(e)
         \/ \E e \in Fanouts : WriteFanout(e)
         \/ \E d \in Deliveries : Commit(d)
         \/ \E d \in Deliveries, event \in Events : Webhook(d, event)
BY DEF Next, FanoutStep, DeliveryStep, QuietStep, Executions

\* Whoever runs is owed, and nobody else's run moves.
LEMMA RunAlone ==
  ASSUME TypeOK, RunsInv, NEW e \in Executions, RunStep(e)
  PROVE  /\ row[e] = "owed"
         /\ Alone(e) /\ \A x \in Executions : x # e => verdict'[x] = verdict[x]
<1>1. pc[e] # "idle" \/ write[e] # None \/ row[e] = "owed"
  BY NoneDiffers
     DEF RunStep, QuietStep, ReadFanout, WriteFanout, Prepare, Start, Lock, Call, ReturnLate,
         Record, Count, CountActive, CountFailed, Commit, Complete, Fail, TimeOut, Crash, RollBack
<1>2. row[e] = "owed"
  BY <1>1 DEF RunsInv, OnlyOwedRuns, WritesAtEnd
<1>3. Alone(e)
  BY DEF RunStep, QuietStep, ReadFanout, WriteFanout, Prepare, Lock, Call, ReturnLate, Record,
         Count, CountActive, CountFailed,
         Commit, Complete, Fail, TimeOut, Crash, RollBack, TypeOK, Goto, FailWith, Forget, Alone
<1>4. \A x \in Executions : x # e => verdict'[x] = verdict[x]
  BY DEF RunStep, QuietStep, ReadFanout, WriteFanout, Prepare, Lock, Call, ReturnLate, Record,
         Count, CountActive, CountFailed,
         Commit, Complete, Fail, TimeOut, Crash, RollBack, TypeOK, Forget
<1> QED BY <1>2, <1>3, <1>4

LEMMA QuietStepFrame ==
  ASSUME TypeOK, RunsInv, NEW e \in Executions, QuietStep(e)
  PROVE  /\ UNCHANGED domain
         /\ \A x \in Executions : row'[x] = None <=> row[x] = None
<1>1. UNCHANGED domain
  BY DEF QuietStep, ReadFanout, Prepare, Lock, Call, ReturnLate, Record, Count, CountActive,
         CountFailed, Complete, Fail, TimeOut, Crash, RollBack
<1>2. row' \in {row, [row EXCEPT ![e] = "COMPLETED"], [row EXCEPT ![e] = "DEAD_LETTER"],
                [row EXCEPT ![e] = @]}
  BY DEF QuietStep, ReadFanout, Prepare, Lock, Call, ReturnLate, Record, Count, CountActive,
         CountFailed, Complete, Fail, TimeOut, Crash, RollBack, ledger
<1>3. row[e] = "owed"
  BY RunAlone DEF RunStep
<1> QED BY <1>1, <1>2, <1>3, NoneDiffers DEF TypeOK

LEMMA QuietStepRun ==
  ASSUME TypeOK, RunsInv, NEW e \in Executions, QuietStep(e)
  PROVE  /\ \A r \in picked' : r \in picked \/ rec[r] = "PENDING"
         /\ pc'[e] \in {"recount", "commit"} => Count(e)
         /\ pc'[e] = "fanout" => campaign \in {"QUEUED", "SCHEDULED", "SENDING"}
         /\ pc'[e] = "sending" => Lock(e) /\ Deliverable(e)
         /\ pc'[e] = "orphan" => pc[e] = "sending"
         /\ write'[e] = "FAILED" => write[e] = "FAILED" \/ (pc[e] = "fail" /\ rec[e[1]] \in Active)
<1>1. CASE ReadFanout(e)
  <2>1. write' = write
    BY <1>1 DEF ReadFanout
  <2>2. \E step \in {"fanout", "fail"} : Goto(e, step)
    BY <1>1 DEF ReadFanout, FailWith
  <2>3. /\ pc'[e] \in {"fanout", "fail"}
        /\ pc'[e] = "fanout" => campaign \in {"QUEUED", "SCHEDULED", "SENDING"}
    BY <1>1, <2>2, GotoPoint DEF ReadFanout, FailWith
  <2>4. \A r \in picked' : r \in picked \/ rec[r] = "PENDING"
    BY <1>1 DEF ReadFanout
  <2> QED BY <2>1, <2>3, <2>4
<1>2. CASE Complete(e) \/ Crash(e) \/ RollBack(e)
  <2>1. \E step \in {"idle", "fail"} : \E class : Forget(e, step, class)
    BY <1>2 DEF Complete, Crash, RollBack
  <2> QED BY <2>1, ForgetPoint, NoneDiffers
<1>3. CASE Fail(e)
  <2>1. CASE Forget(e, "idle", None)
    BY <2>1, ForgetPoint, NoneDiffers
  <2>2. CASE rec[e[1]] \in Active /\ pc[e] = "fail" /\ Goto(e, "count") /\ UNCHANGED picked
    BY <2>2, GotoPoint
  <2> QED BY <1>3, <2>1, <2>2 DEF Fail
<1>4. CASE Lock(e)
  <2>1. picked' = picked /\ (write' = write \/ write' = [write EXCEPT ![e] = "CANCELLED"])
    BY <1>4 DEF Lock
  <2>2. \/ Goto(e, "fail") \/ Goto(e, "count")
        \/ Goto(e, "sending") /\ Deliverable(e)
    BY <1>4 DEF Lock, FailWith
  <2>3. pc'[e] \in {"fail", "count"} \/ (pc'[e] = "sending" /\ Deliverable(e))
    BY <2>2, GotoPoint
  <2> QED BY <1>4, <2>1, <2>3 DEF TypeOK
<1>5. CASE Record(e)
  <2>1. picked' = picked /\ write'[e] = "SENT" /\ pc'[e] = "count"
    BY <1>5, GotoPoint DEF Record, TypeOK
  <2> QED BY <2>1
<1>6. CASE Prepare(e) \/ Call(e) \/ ReturnLate(e) \/ Count(e) \/ TimeOut(e)
  <2>1. picked' = picked /\ write' = write
    BY <1>6 DEF Prepare, Call, ReturnLate, Count, CountActive, CountFailed, TimeOut
  <2>2. \/ \E step \in {"lock", "accepted", "fail", "count"} : Goto(e, step)
        \/ Count(e) \/ TimeOut(e)
    BY <1>6 DEF Prepare, Call, ReturnLate, FailWith
  <2>3. \/ pc'[e] \in {"lock", "accepted", "fail", "count"}
        \/ pc'[e] \in {"recount", "commit"} /\ Count(e)
        \/ pc'[e] = "orphan" /\ pc[e] = "sending"
    BY <2>2, GotoPoint DEF Count, CountActive, CountFailed, TimeOut
  <2> QED BY <2>1, <2>3
<1> QED BY <1>1, <1>2, <1>3, <1>4, <1>5, <1>6 DEF QuietStep

\* A run decides on the campaign in the step before its commit only.
LEMMA QuietVerdict ==
  ASSUME TypeOK, NEW e \in Executions, QuietStep(e)
  PROVE  \/ verdict'[e] = None \/ pc'[e] = "commit"
         \/ verdict'[e] = verdict[e] /\ pc[e] # "commit"
<1>1. CASE \E step, class : Forget(e, step, class)
  BY <1>1 DEF Forget, TypeOK
<1>2. CASE CountFailed(e)
  BY <1>2, GotoPoint DEF CountFailed
<1>3. CASE \/ ReadFanout(e) \/ Prepare(e) \/ Lock(e) \/ Call(e) \/ ReturnLate(e) \/ Record(e)
           \/ CountActive(e) \/ TimeOut(e) \/ (pc[e] = "fail" /\ UNCHANGED verdict)
  BY <1>3 DEF ReadFanout, Prepare, Start, Lock, Call, ReturnLate, Record, CountActive, TimeOut
<1> QED
  BY <1>1, <1>2, <1>3 DEF QuietStep, Count, Complete, Fail, Crash, RollBack

\* Nothing was created or sent before the request.
Unsent ==
  sends = 0 => (\A e \in Executions : row[e] = None) /\ (\A r \in Recipients : msg[r] = None)

\* A recipient to send to has no message yet, one that a fan-out has read is
\* still pending, one that a failing delivery writes off is still active.
ActiveUnsent == \A r \in Recipients : rec[r] \in Active => msg[r] = None

ReadPending == \A r \in picked : rec[r] = "PENDING"

FailsActive == \A d \in Deliveries : write[d] = "FAILED" => rec[d[1]] \in Active

\* Deliveries exist from the first fan-out on.
NotFannedOut ==
  campaign \in {"DRAFT", "SCHEDULED"} => \A d \in Deliveries : row[d] = None

\* The finalization lock has one holder; an archived campaign was not being
\* cancelled.
OneFinal ==
  \A d, e \in Executions : {pc[d], pc[e]} \subseteq {"recount", "commit"} => d = e

ArchiveRead == api = "ARCHIVE" => campaign # "CANCELLED"

OnceInv ==
  /\ Unsent /\ ActiveUnsent /\ ReadPending /\ FailsActive
  /\ NotFannedOut /\ OneFinal /\ ArchiveRead

LEMMA InitOnce == Init => OnceInv
<1> SUFFICES ASSUME Init PROVE OnceInv
  OBVIOUS
<1>1. Unsent /\ ReadPending /\ NotFannedOut /\ OneFinal /\ ArchiveRead
  BY DEF Init, Unsent, ReadPending, NotFannedOut, OneFinal, ArchiveRead, Executions
<1>2. ActiveUnsent /\ FailsActive
  BY NoneDiffers DEF Init, ActiveUnsent, FailsActive, Active, Executions
<1> QED BY <1>1, <1>2 DEF OnceInv

\* With one request, a request finds nothing created.
LEMMA FirstRequest ==
  ASSUME MaxSends = 1, TypeOK, RunsInv, OnceInv, Send \/ RetryFailed
  PROVE  /\ \A e \in Executions : row[e] = None /\ pc[e] = "idle" /\ write[e] = None
         /\ picked = {} /\ UNCHANGED runs /\ sends' = 1
         /\ msg' = msg /\ \A r \in Recipients : msg[r] = None
         /\ campaign' \in {"QUEUED", "SCHEDULED"} /\ api = None /\ api' = None
         /\ \A d \in Deliveries : row'[d] = None
         /\ \E r \in Recipients : rec'[r] = "PENDING"
         /\ \A r \in Recipients : rec'[r] = rec[r] \/ rec'[r] = "PENDING"
<1>1. sends = 0
  BY DEF Send, RetryFailed, Queue, TypeOK
<1>2. \A e \in Executions : row[e] = None /\ pc[e] = "idle" /\ write[e] = None
  BY <1>1, NoneDiffers DEF OnceInv, Unsent, RunsInv, OnlyOwedRuns, WritesAtEnd
<1>3. picked = {}
  BY <1>2 DEF RunsInv, PickedByFanout
<1>4. sends' = 1 /\ UNCHANGED runs /\ \A d \in Deliveries : row'[d] = None
  BY <1>1, <1>2, RequestRows DEF Executions
<1>5. \A r \in Recipients : rec'[r] = rec[r] \/ rec'[r] = "PENDING"
  BY DEF Send, RetryFailed
<1>6. \E r \in Recipients : rec'[r] = "PENDING"
  BY DEF Send, RetryFailed
<1>7. /\ msg' = msg /\ campaign' \in {"QUEUED", "SCHEDULED"} /\ api = None /\ api' = None
  BY DEF Send, RetryFailed, Queue, SiteFree
<1> QED BY <1>1, <1>2, <1>3, <1>4, <1>5, <1>6, <1>7 DEF OnceInv, Unsent

LEMMA RequestOnce ==
  ASSUME MaxSends = 1, TypeOK, RunsInv, OnceInv, Send \/ RetryFailed
  PROVE  OnceInv'
<1>1. /\ \A e \in Executions : pc'[e] = "idle" /\ write'[e] = None
      /\ picked' = {} /\ sends' = 1 /\ api' = None
      /\ \A r \in Recipients : msg'[r] = None
      /\ \A d \in Deliveries : row'[d] = None
  BY FirstRequest DEF runs
<1>2. Unsent' /\ ReadPending' /\ NotFannedOut' /\ ArchiveRead'
  BY <1>1, NoneAssumption DEF Unsent, ReadPending, NotFannedOut, ArchiveRead
<1>3. ActiveUnsent' /\ FailsActive' /\ OneFinal'
  BY <1>1, NoneDiffers DEF ActiveUnsent, FailsActive, OneFinal, Executions
<1> QED BY <1>2, <1>3 DEF OnceInv

LEMMA OrganizerOnce ==
  ASSUME TypeOK, SiteInv, RunsInv, OnceInv, ReadTransition \/ WriteTransition \/ Publish
  PROVE  OnceInv'
<1>1. UNCHANGED <<msg, sends, row, pc, write, picked>>
  BY DEF ReadTransition, WriteTransition, Publish, ledger, runs
<1>2. Unsent' /\ OneFinal'
  BY <1>1 DEF OnceInv, Unsent, OneFinal
<1>3. CASE ReadTransition \/ Publish
  <2>1. UNCHANGED <<campaign, rec>> /\ (api' = "ARCHIVE" => campaign # "CANCELLED")
    BY <1>3 DEF ReadTransition, Publish, OnceInv, ArchiveRead
  <2> QED
    BY <1>1, <1>2, <2>1
       DEF OnceInv, ActiveUnsent, ReadPending, FailsActive, NotFannedOut, ArchiveRead
<1>4. CASE WriteTransition
  <2>1. \A e \in Executions : pc[e] # "fanout"
    BY <1>4 DEF WriteTransition, SiteInv, RequestAlone, HoldsSite
  <2>2. picked = {}
    BY <2>1 DEF RunsInv, PickedByFanout
  <2>3. \A r \in Recipients : rec'[r] \in Active => rec[r] \in Active
    BY <1>4 DEF WriteTransition, Active
  <2>4. \A d \in Deliveries : write[d] = None
    BY <1>4, BoundsAssumption DEF WriteTransition, RowFree, Deliveries
  <2>5. campaign' \in {"CANCELLED", "ARCHIVED"} /\ api' = None
    BY <1>4 DEF WriteTransition
  <2>6. ActiveUnsent' /\ ReadPending'
    BY <1>1, <2>2, <2>3 DEF OnceInv, ActiveUnsent, ReadPending
  <2>7. FailsActive'
    BY <1>1, <2>4, NoneDiffers DEF FailsActive
  <2>8. NotFannedOut' /\ ArchiveRead'
    BY <2>5, NoneAssumption DEF NotFannedOut, ArchiveRead
  <2> QED BY <1>2, <2>6, <2>7, <2>8 DEF OnceInv
<1> QED BY <1>3, <1>4

\* Another execution's delivery of the same recipient would need a second request.
LEMMA OneDelivery ==
  ASSUME MaxSends = 1, NEW d \in Deliveries
  PROVE  /\ d = <<d[1], 1>> /\ d[1] \in Recipients /\ d \in Executions
         /\ \A e \in Deliveries : e[1] = d[1] => e = d
BY DEF Deliveries, Executions

LEMMA QuietOnce ==
  ASSUME TypeOK, RunsInv, OnceInv, NEW e \in Executions, QuietStep(e)
  PROVE  OnceInv'
<1>1. /\ UNCHANGED <<campaign, rec, msg, sends, api>>
      /\ \A x \in Executions : row'[x] = None <=> row[x] = None
      /\ Alone(e)
  BY QuietStepFrame, RunAlone DEF domain, RunStep
<1>2. Unsent' /\ ActiveUnsent' /\ NotFannedOut' /\ ArchiveRead'
  BY <1>1 DEF OnceInv, Unsent, ActiveUnsent, NotFannedOut, ArchiveRead, Executions
<1>3. ReadPending'
  BY <1>1, QuietStepRun DEF OnceInv, ReadPending
<1>4. FailsActive'
  BY <1>1, QuietStepRun DEF OnceInv, FailsActive, Alone, Executions
<1>5. OneFinal'
  <2>1. pc'[e] \in {"recount", "commit"} =>
           \/ pc[e] = "recount"
           \/ \A x \in Executions : pc[x] \notin {"recount", "commit"}
    BY QuietStepRun DEF Count, CountActive, CountFailed, FinalFree
  <2> QED BY <1>1, <2>1 DEF OnceInv, OneFinal, Alone
<1> QED BY <1>2, <1>3, <1>4, <1>5 DEF OnceInv

\* The deliveries of one request: a recipient that is read by a fan-out, or
\* still pending, has none.
LEMMA ReadHasNone ==
  ASSUME MaxSends = 1, TypeOK, IntentsInv, NEW d \in Deliveries,
         rec[d[1]] = "PENDING" \/ d[1] \in picked
  PROVE  row[d] = None
<1>1. PICK k \in 0 .. sends : Intents(d[1], k)
  BY OneDelivery DEF IntentsInv
<1>2. k = 0
  BY <1>1 DEF Intents, TypeOK
<1> QED BY <1>1, <1>2, OneDelivery DEF Intents

LEMMA WriteFanoutOnce ==
  ASSUME MaxSends = 1, TypeOK, RunsInv, OnceInv, NEW e \in Executions, WriteFanout(e)
  PROVE  OnceInv'
<1>1. /\ row[e] = "owed" /\ Alone(e) /\ pc'[e] = "complete" /\ write'[e] = None /\ picked' = {}
      /\ campaign' = "SENDING" /\ UNCHANGED <<msg, sends, api>>
  BY RunAlone, ForgetPoint DEF WriteFanout, RunStep
<1>2. sends # 0
  BY <1>1, NoneDiffers DEF OnceInv, Unsent
<1>3. Unsent' /\ NotFannedOut' /\ ArchiveRead' /\ ReadPending'
  BY <1>1, <1>2 DEF Unsent, NotFannedOut, ArchiveRead, ReadPending
<1>4. \A r \in Recipients : rec'[r] = IF r \in picked THEN "QUEUED" ELSE rec[r]
  BY DEF WriteFanout
<1>5. ActiveUnsent'
  BY <1>1, <1>4 DEF OnceInv, ActiveUnsent, ReadPending, Active
<1>6. FailsActive'
  BY <1>1, <1>4, NoneDiffers DEF OnceInv, FailsActive, Alone, Active, Executions, Deliveries
<1>7. OneFinal'
  BY <1>1 DEF OnceInv, OneFinal, Alone
<1> QED BY <1>3, <1>5, <1>6, <1>7 DEF OnceInv

\* What a commit does to a recipient.
LEMMA CommitPoint ==
  ASSUME TypeOK, RunsInv, NEW d \in Deliveries, Commit(d)
  PROVE  /\ row[d] = "owed" /\ Alone(d) /\ pc[d] = "commit" /\ pc'[d] \notin {"recount", "commit"}
         /\ pc'[d] # "fanout" /\ write'[d] = None /\ picked' = picked
         /\ \A r \in Recipients : rec'[r] = Seen(d, r)
         /\ \A r \in Recipients : r # d[1] \/ write[d] # "SENT" => msg'[r] = msg[r]
         /\ UNCHANGED <<sends, api>>
         /\ campaign' = Finalized(d)
         /\ \A x \in Executions : row'[x] = None <=> row[x] = None
<1>1. d \in Executions
  BY DEF Executions
<1>2. row[d] = "owed" /\ Alone(d)
  BY <1>1, RunAlone DEF RunStep
<1>3. \E step \in {"idle", "complete"} : Forget(d, step, None)
  BY DEF Commit
<1>4. /\ pc[d] = "commit" /\ pc'[d] \notin {"recount", "commit", "fanout"}
      /\ write'[d] = None /\ picked' = picked
  BY <1>1, <1>3, ForgetPoint DEF Commit
<1>5. \A r \in Recipients : r # d[1] \/ write[d] # "SENT" => msg'[r] = msg[r]
  BY DEF Commit, TypeOK
<1>6. \A x \in Executions : row'[x] = None <=> row[x] = None
  BY <1>1, <1>2, NoneDiffers DEF Commit, TypeOK
<1> QED BY <1>2, <1>4, <1>5, <1>6 DEF Commit

LEMMA CommitOnce ==
  ASSUME MaxSends = 1, TypeOK, RunsInv, IntentsInv, OnceInv, NEW d \in Deliveries, Commit(d)
  PROVE  OnceInv'
<1>1. d \in Executions /\ d[1] \in Recipients
  BY DEF Executions, Deliveries
<1>2. sends # 0 /\ campaign \notin {"DRAFT", "SCHEDULED"}
  BY <1>1, CommitPoint, NoneDiffers DEF OnceInv, Unsent, NotFannedOut
<1>3. campaign' \notin {"DRAFT", "SCHEDULED"} /\ (campaign' = "CANCELLED" => campaign = "CANCELLED")
  BY <1>1, <1>2, CommitPoint DEF Finalized, TypeOK
<1>4. Unsent' /\ NotFannedOut' /\ ArchiveRead'
  BY <1>2, <1>3, CommitPoint DEF OnceInv, Unsent, NotFannedOut, ArchiveRead
<1>5. \A r \in Recipients : rec'[r] \in Active => rec[r] \in Active /\ msg'[r] = msg[r]
  BY <1>1, CommitPoint, NoneDiffers DEF Seen, TypeOK, Active
<1>6. ActiveUnsent'
  BY <1>5 DEF OnceInv, ActiveUnsent
<1>7. ReadPending'
  <2>1. d[1] \notin picked
    BY CommitPoint, ReadHasNone, NoneDiffers
  <2>2. \A r \in picked : rec'[r] = rec[r]
    BY <2>1, CommitPoint DEF Seen, TypeOK
  <2> QED BY <2>2, CommitPoint DEF OnceInv, ReadPending
<1>8. FailsActive'
  <2>1. \A x \in Deliveries : x # d => rec'[x[1]] = rec[x[1]] /\ write'[x] = write[x]
    BY OneDelivery, CommitPoint DEF Seen, Alone
  <2> QED BY <2>1, CommitPoint, NoneDiffers DEF OnceInv, FailsActive
<1>9. OneFinal'
  BY <1>1, CommitPoint DEF OnceInv, OneFinal, Alone
<1> QED BY <1>4, <1>6, <1>7, <1>8, <1>9 DEF OnceInv

\* A report is about a recipient that has a message.
LEMMA WebhookPoint ==
  ASSUME TypeOK, NEW d \in Deliveries, NEW event \in Events, Webhook(d, event)
  PROVE  /\ msg[d[1]] = d /\ d # None /\ RowFree(d[1]) /\ d[1] \in Recipients
         /\ UNCHANGED <<msg, sends, api, row, pc, write, picked, verdict>>
         /\ rec'[d[1]] = Reported(rec[d[1]], event)
         /\ \A r \in Recipients : r # d[1] => rec'[r] = rec[r]
         /\ campaign' = IF event = "failed" /\ campaign \in {"QUEUED", "SENDING", "COMPLETED"}
                        THEN "PARTIAL" ELSE campaign
<1>1. d[1] \in Recipients /\ d # None
  BY NoneAssumption DEF Deliveries
<1> QED BY <1>1 DEF Webhook, TypeOK, ledger, runs

LEMMA WebhookOnce ==
  ASSUME TypeOK, OnceInv, NEW d \in Deliveries, NEW event \in Events, Webhook(d, event)
  PROVE  OnceInv'
<1>1. rec[d[1]] \notin Active
  BY WebhookPoint DEF OnceInv, ActiveUnsent
<1>2. Reported(rec[d[1]], event) \notin Active
  BY <1>1, ReportedInactive
<1>3. \A r \in Recipients : rec[r] \in Active => rec'[r] = rec[r]
  BY <1>1, WebhookPoint
<1>4. \A r \in Recipients : rec'[r] \in Active => rec[r] \in Active
  BY <1>2, WebhookPoint
<1>5. Unsent' /\ ActiveUnsent' /\ NotFannedOut' /\ OneFinal' /\ ArchiveRead'
  BY <1>4, WebhookPoint
     DEF OnceInv, Unsent, ActiveUnsent, NotFannedOut, OneFinal, ArchiveRead
<1>6. ReadPending'
  BY <1>3, WebhookPoint DEF OnceInv, ReadPending, Active, TypeOK
<1>7. FailsActive'
  <2>1. \A x \in Deliveries : x[1] \in Recipients
    BY DEF Deliveries
  <2> QED BY <1>3, <2>1, WebhookPoint DEF OnceInv, FailsActive
<1> QED BY <1>5, <1>6, <1>7 DEF OnceInv

LEMMA OnceStep ==
  ASSUME MaxSends = 1
  PROVE  TypeOK /\ SiteInv /\ RunsInv /\ IntentsInv /\ OnceInv /\ [Next]_vars => OnceInv'
<1> SUFFICES ASSUME TypeOK, SiteInv, RunsInv, IntentsInv, OnceInv, [Next]_vars PROVE OnceInv'
  OBVIOUS
<1>1. CASE UNCHANGED vars
  BY <1>1 DEF vars, domain, ledger, runs, OnceInv, Unsent, ActiveUnsent, ReadPending, FailsActive,
     NotFannedOut, OneFinal, ArchiveRead
<1> QED
  BY <1>1, NextCases, RequestOnce, OrganizerOnce, QuietOnce, WriteFanoutOnce, CommitOnce,
     WebhookOnce DEF Executions

\* While a request is open or a fan-out runs, some recipient waits or has
\* failed without a message.
Waits(r) == rec[r] \in Active \/ (rec[r] = "FAILED" /\ msg[r] = None)

RequestOpen ==
  \/ campaign \in {"QUEUED", "SCHEDULED", "SENDING"}
  \/ \E e \in Executions : pc[e] = "fanout"

OpenWaits == RequestOpen => \E r \in Recipients : Waits(r)

\* Nothing is decided before the failures are counted, and until they are
\* nobody becomes active again.
UndecidedCount ==
  \A d \in Deliveries : pc[d] # "commit" => verdict[d] = None

NobodyActive ==
  \A d \in Deliveries : pc[d] = "recount" => \A r \in Recipients : Seen(d, r) \notin Active

\* What was counted under the finalization lock still holds at the commit: a
\* recipient to wait for, or none; and no failure but those that a report made
\* PARTIAL.
UnsettledCount ==
  \A d \in Deliveries : pc[d] = "commit" /\ verdict[d] = None /\ campaign # "CANCELLED" =>
     \E r \in Recipients : Seen(d, r) \in Active

SettledCount ==
  \A d \in Deliveries : pc[d] = "commit" /\ verdict[d] = "COMPLETED" =>
     \A r \in Recipients : Seen(d, r) \notin Active /\ (Seen(d, r) = "FAILED" => msg[r] # None)

CompleteCount ==
  \A d \in Deliveries :
    pc[d] = "commit" /\ verdict[d] = "COMPLETED" /\ campaign \in {"QUEUED", "SENDING"} =>
     \A r \in Recipients : Seen(d, r) \notin Active \cup {"FAILED"}

SettleInv ==
  /\ OpenWaits /\ UndecidedCount /\ NobodyActive /\ UnsettledCount /\ SettledCount /\ CompleteCount
  /\ CompletedMeansSettled

LEMMA InitSettle == Init => SettleInv
BY DEF Init, SettleInv, OpenWaits, RequestOpen, UnsettledCount, SettledCount, CompleteCount,
       UndecidedCount, NobodyActive, CompletedMeansSettled, Executions

LEMMA RequestSettle ==
  ASSUME MaxSends = 1, TypeOK, RunsInv, OnceInv, SettleInv, Send \/ RetryFailed
  PROVE  SettleInv'
<1>1. \A e \in Executions : pc'[e] = "idle"
  BY FirstRequest DEF runs
<1>2. OpenWaits'
  BY FirstRequest DEF OpenWaits, Waits, Active
<1>3. NobodyActive' /\ UnsettledCount' /\ SettledCount' /\ CompleteCount'
  BY <1>1 DEF NobodyActive, UnsettledCount, SettledCount, CompleteCount, Executions
<1>4. UndecidedCount'
  BY FirstRequest DEF SettleInv, UndecidedCount, runs, Executions
<1>5. CompletedMeansSettled'
  BY FirstRequest DEF CompletedMeansSettled
<1> QED BY <1>2, <1>3, <1>4, <1>5 DEF SettleInv

LEMMA OrganizerSettle ==
  ASSUME TypeOK, SiteInv, OnceInv, SettleInv, ReadTransition \/ WriteTransition \/ Publish
  PROVE  SettleInv'
<1>1. CASE UNCHANGED <<campaign, rec, msg, runs>>
  BY <1>1 DEF SettleInv, OpenWaits, RequestOpen, Waits, UndecidedCount, NobodyActive,
     UnsettledCount, SettledCount, CompleteCount, CompletedMeansSettled, Seen, runs
<1>2. CASE WriteTransition
  <2>1. \A e \in Executions : pc'[e] = pc[e] /\ pc[e] # "fanout"
    BY <1>2 DEF WriteTransition, SiteInv, RequestAlone, HoldsSite, runs
  <2>2. UNCHANGED <<msg, pc, write, verdict>> /\ campaign' \in {"CANCELLED", "ARCHIVED"}
    BY <1>2 DEF WriteTransition, runs
  <2>3. OpenWaits' /\ UndecidedCount' /\ CompleteCount' /\ CompletedMeansSettled'
    BY <2>1, <2>2
       DEF SettleInv, OpenWaits, RequestOpen, UndecidedCount, CompleteCount, CompletedMeansSettled
  <2>4. UnsettledCount'
    <3>1. campaign' # "CANCELLED" => campaign # "CANCELLED" /\ rec' = rec
      BY <1>2 DEF WriteTransition, OnceInv, ArchiveRead, TypeOK
    <3> QED BY <2>2, <3>1 DEF SettleInv, UnsettledCount, Seen
  <2>5. NobodyActive' /\ SettledCount'
    <3>1. \A r \in Recipients : rec'[r] = rec[r] \/ rec'[r] = "CANCELLED"
      BY <1>2 DEF WriteTransition
    <3>2. \A d \in Deliveries, r \in Recipients :
             Seen(d, r)' = Seen(d, r) \/ Seen(d, r)' = "CANCELLED"
      BY <2>2, <3>1 DEF Seen
    <3> QED BY <2>2, <3>2 DEF SettleInv, NobodyActive, SettledCount, Active
  <2> QED BY <2>3, <2>4, <2>5 DEF SettleInv
<1> QED BY <1>1, <1>2 DEF ReadTransition, Publish

LEMMA QuietSettle ==
  ASSUME TypeOK, RunsInv, OnceInv, SettleInv, NEW e \in Executions, QuietStep(e)
  PROVE  SettleInv'
<1>1. UNCHANGED <<campaign, rec, msg>>
  BY QuietStepFrame DEF domain
<1>2. /\ Alone(e) /\ \A x \in Executions : x # e => verdict'[x] = verdict[x]
      /\ pc'[e] \in {"recount", "commit"} => Count(e)
      /\ pc'[e] = "fanout" => campaign \in {"QUEUED", "SCHEDULED", "SENDING"}
  BY RunAlone, QuietStepRun DEF RunStep
<1>3. OpenWaits' /\ CompletedMeansSettled'
  BY <1>1, <1>2 DEF SettleInv, OpenWaits, RequestOpen, Waits, CompletedMeansSettled, Alone
<1>4. UndecidedCount'
  BY <1>2, QuietVerdict DEF SettleInv, UndecidedCount, Executions, Alone
<1>5. NobodyActive'
  <2> SUFFICES ASSUME NEW d \in Deliveries, pc'[d] = "recount", NEW r \in Recipients
               PROVE  Seen(d, r)' \notin Active
    BY DEF NobodyActive
  <2>1. d \in Executions
    BY DEF Executions
  <2>2. CASE d # e
    BY <1>1, <1>2, <2>1, <2>2 DEF Alone, Seen, SettleInv, NobodyActive
  <2>3. CASE d = e
    <3>1. write' = write /\ Seen(d, r) \notin Active
      BY <1>2, <2>3, GotoPoint DEF Count, CountActive, CountFailed
    <3> QED BY <1>1, <3>1 DEF Seen
  <2> QED BY <2>2, <2>3
<1> SUFFICES ASSUME NEW d \in Deliveries, pc'[d] = "commit"
             PROVE  /\ verdict'[d] = None /\ campaign # "CANCELLED" =>
                         \E r \in Recipients : Seen(d, r)' \in Active
                    /\ verdict'[d] = "COMPLETED" =>
                         \A r \in Recipients :
                            Seen(d, r)' \notin Active /\ (Seen(d, r)' = "FAILED" => msg[r] # None)
                    /\ verdict'[d] = "COMPLETED" /\ campaign \in {"QUEUED", "SENDING"} =>
                         \A r \in Recipients : Seen(d, r)' \notin Active \cup {"FAILED"}
  BY <1>1, <1>3, <1>4, <1>5 DEF SettleInv, UnsettledCount, SettledCount, CompleteCount
<1>6. d \in Executions
  BY DEF Executions
<1>7. CASE d # e
  <2>1. pc[d] = "commit" /\ write'[d] = write[d] /\ verdict'[d] = verdict[d]
    BY <1>2, <1>6, <1>7 DEF Alone
  <2>2. \A r \in Recipients : Seen(d, r)' = Seen(d, r)
    BY <1>1, <2>1 DEF Seen
  <2> QED BY <1>1, <2>1, <2>2 DEF SettleInv, UnsettledCount, SettledCount, CompleteCount
<1>8. CASE d = e
  <2>1. /\ write' = write
        /\ verdict'[d] = IF \E r \in Recipients : Seen(d, r) \in Active THEN None
                         ELSE IF \E r \in Recipients : Seen(d, r) = "FAILED" THEN "PARTIAL"
                         ELSE "COMPLETED"
    <3>1. CASE CountActive(d)
      BY <1>6, <3>1, GotoPoint DEF CountActive, SettleInv, UndecidedCount
    <3>2. CASE CountFailed(d)
      BY <1>6, <3>2 DEF CountFailed, SettleInv, NobodyActive, TypeOK
    <3> QED BY <1>2, <1>8, <3>1, <3>2 DEF Count
  <2>2. \A r \in Recipients : Seen(d, r)' = Seen(d, r)
    BY <1>1, <2>1 DEF Seen
  <2> QED BY <2>1, <2>2, NoneAssumption
<1> QED BY <1>7, <1>8

LEMMA WriteFanoutSettle ==
  ASSUME MaxSends = 1, TypeOK, SiteInv, RunsInv, IntentsInv, OnceInv, SettleInv,
         NEW e \in Fanouts, WriteFanout(e)
  PROVE  SettleInv'
<1>1. /\ e \in Executions /\ Alone(e) /\ pc[e] = "fanout" /\ pc'[e] = "complete"
      /\ \A x \in Executions : x # e => verdict'[x] = verdict[x]
      /\ UNCHANGED msg
  BY RunAlone, ForgetPoint DEF WriteFanout, RunStep, Executions
<1>2. PICK w \in Recipients : Waits(w)
  BY <1>1 DEF SettleInv, OpenWaits, RequestOpen
<1>3. \A r \in Recipients : rec'[r] = IF r \in picked THEN "QUEUED" ELSE rec[r]
  BY DEF WriteFanout
<1>4. \A r \in picked : rec[r] = "PENDING"
  BY DEF OnceInv, ReadPending
<1>5. OpenWaits'
  BY <1>1, <1>2, <1>3, <1>4 DEF OpenWaits, Waits, Active
<1>6. campaign # "CANCELLED" /\ campaign' = "SENDING"
  BY <1>1 DEF SiteInv, CheckedUnderLock, WriteFanout
<1>7. CompletedMeansSettled'
  BY <1>6 DEF CompletedMeansSettled
<1>8. UndecidedCount'
  BY <1>1, NoneDiffers DEF SettleInv, UndecidedCount, WriteFanout, Forget, TypeOK, Executions,
                           Alone
\* Whoever the fan-out has read is still to be reached, and no delivery's own.
<1>9. NobodyActive'
  <2> SUFFICES ASSUME NEW d \in Deliveries, pc'[d] = "recount"
               PROVE  \A r \in Recipients : Seen(d, r)' \notin Active
    BY DEF NobodyActive
  <2>1. d \in Executions /\ d # e
    BY <1>1 DEF Executions
  <2>2. pc[d] = "recount" /\ write'[d] = write[d]
    BY <1>1, <2>1 DEF Alone
  <2>3. row[d] = "owed"
    BY <2>1, <2>2 DEF RunsInv, OnlyOwedRuns
  <2>4. d[1] \notin picked
    BY <2>3, ReadHasNone, NoneDiffers
  <2>5. \A r \in picked : r \in Recipients /\ Seen(d, r) \in Active
    BY <1>4, <2>4 DEF Seen, Active, TypeOK
  <2>6. picked = {}
    BY <2>2, <2>5 DEF SettleInv, NobodyActive
  <2> QED BY <1>3, <2>2, <2>6 DEF Seen, SettleInv, NobodyActive
<1> SUFFICES ASSUME NEW d \in Deliveries, pc'[d] = "commit"
             PROVE  /\ verdict'[d] = None => \E r \in Recipients : Seen(d, r)' \in Active
                    /\ verdict'[d] # "COMPLETED"
  BY <1>5, <1>7, <1>8, <1>9 DEF SettleInv, UnsettledCount, SettledCount, CompleteCount
<1>10. d \in Executions /\ d # e /\ d[1] \in Recipients
  BY NoneDiffers DEF Executions, Deliveries
<1>11. pc[d] = "commit" /\ write'[d] = write[d] /\ verdict'[d] = verdict[d]
  BY <1>1, <1>10 DEF Alone
\* The fan-out holds the lifecycle lock, so the delivery does not.
<1>12. write[d] \notin {"SENT", "CANCELLED"}
  BY <1>1, <1>10, <1>11 DEF RunsInv, OneHolder, HoldsSite
<1>13. \A r \in Recipients : Seen(d, r) \in Active => Seen(d, r)' \in Active
  BY <1>3, <1>11 DEF Seen, Active
<1>14. verdict[d] = None => \E r \in Recipients : Seen(d, r)' \in Active
  BY <1>6, <1>11, <1>13 DEF SettleInv, UnsettledCount
<1>15. verdict[d] # "COMPLETED"
  <2>1. CASE write[d] = None
    <3>1. Seen(d, w) = rec[w]
      BY <2>1 DEF Seen
    <3> QED BY <1>2, <1>11, <3>1 DEF Waits, SettleInv, SettledCount
  <2>2. CASE write[d] = "FAILED"
    <3>1. msg[d[1]] = None
      BY <1>10, <2>2 DEF OnceInv, FailsActive, ActiveUnsent
    <3>2. Seen(d, d[1]) = "FAILED"
      BY <2>2, NoneDiffers DEF Seen
    <3> QED BY <1>10, <1>11, <3>1, <3>2 DEF SettleInv, SettledCount
  <2> QED BY <1>10, <1>12, <2>1, <2>2 DEF TypeOK
<1> QED BY <1>11, <1>14, <1>15

LEMMA CommitSettle ==
  ASSUME MaxSends = 1, TypeOK, RunsInv, OnceInv, SettleInv, NEW d \in Deliveries, Commit(d)
  PROVE  SettleInv'
<1>1. d \in Executions /\ d[1] \in Recipients /\ pc[d] = "commit" /\ row[d] = "owed"
  BY CommitPoint DEF Executions, Deliveries
<1>2. \A r \in Recipients : rec'[r] = Seen(d, r)
  BY CommitPoint
<1>3. \A x \in Executions : pc'[x] \notin {"recount", "commit"}
  BY <1>1, CommitPoint DEF OnceInv, OneFinal, Alone
<1>4. UndecidedCount' /\ NobodyActive' /\ UnsettledCount' /\ SettledCount' /\ CompleteCount'
  <2>1. \A x \in Deliveries : pc[x] = "commit" => x = d
    BY <1>1 DEF OnceInv, OneFinal, Executions
  <2>2. verdict'[d] = None /\ \A x \in Executions : x # d => verdict'[x] = verdict[x]
    BY <1>1 DEF Commit, Forget, TypeOK
  <2>3. UndecidedCount'
    BY <2>1, <2>2 DEF SettleInv, UndecidedCount, Executions
  <2> QED
    BY <1>3, <2>3 DEF NobodyActive, UnsettledCount, SettledCount, CompleteCount, Executions
<1>5. campaign \notin {"DRAFT", "SCHEDULED"}
  BY <1>1, NoneDiffers DEF OnceInv, NotFannedOut
<1>6. campaign' = IF verdict[d] # None /\ campaign \in {"QUEUED", "SENDING"}
                  THEN verdict[d] ELSE campaign
  BY CommitPoint DEF Finalized
<1>7. verdict[d] \in {"PARTIAL", "COMPLETED", None}
  BY <1>1 DEF TypeOK
<1>8. CompletedMeansSettled'
  <2> SUFFICES ASSUME campaign' = "COMPLETED", NEW r \in Recipients
               PROVE  Seen(d, r) \notin Active \cup {"FAILED"}
    BY <1>2 DEF CompletedMeansSettled
  <2>1. CASE campaign \in {"QUEUED", "SENDING"}
    BY <1>1, <1>6, <1>7, <2>1 DEF SettleInv, CompleteCount
  <2>2. CASE campaign = "COMPLETED"
    <3>1. write[d] # "FAILED"
      BY <1>1, <2>2 DEF OnceInv, FailsActive, SettleInv, CompletedMeansSettled
    <3> QED
      BY <1>1, <2>2, <3>1 DEF SettleInv, CompletedMeansSettled, Seen, TypeOK, Active
  <2> QED BY <1>6, <2>1, <2>2
<1>9. OpenWaits'
  <2>1. CASE \E x \in Executions : pc'[x] = "fanout"
    <3>1. PICK x \in Executions : pc'[x] = "fanout"
      BY <2>1
    <3>2. x # d /\ pc[x] = "fanout"
      BY <3>1, CommitPoint DEF Alone
    \* The fan-out holds the lifecycle lock, so the delivery does not.
    <3>3. write[d] \in {"FAILED", None}
      BY <1>1, <3>2 DEF RunsInv, OneHolder, HoldsSite, TypeOK
    <3>4. PICK w \in Recipients : Waits(w)
      BY <3>2 DEF SettleInv, OpenWaits, RequestOpen
    <3>5. \A r \in Recipients : msg'[r] = msg[r]
      BY <3>3, CommitPoint, NoneDiffers
    <3>6. CASE write[d] = None
      BY <1>2, <3>4, <3>5, <3>6 DEF Seen, OpenWaits, Waits
    <3>7. CASE write[d] = "FAILED"
      <4>1. msg[d[1]] = None
        BY <1>1, <3>7 DEF OnceInv, FailsActive, ActiveUnsent
      <4>2. rec'[d[1]] = "FAILED"
        BY <1>1, <1>2, <3>7, NoneDiffers DEF Seen
      <4> QED BY <1>1, <3>5, <4>1, <4>2 DEF OpenWaits, Waits
    <3> QED BY <3>3, <3>6, <3>7
  <2>2. CASE campaign' \in {"QUEUED", "SCHEDULED", "SENDING"}
    <3>1. verdict[d] = None /\ campaign \in {"QUEUED", "SENDING"}
      BY <1>5, <1>6, <1>7, <2>2
    <3>2. PICK r \in Recipients : Seen(d, r) \in Active
      BY <1>1, <3>1 DEF SettleInv, UnsettledCount
    <3> QED BY <1>2, <3>2 DEF OpenWaits, Waits
  <2> QED BY <2>1, <2>2 DEF OpenWaits, RequestOpen
<1> QED BY <1>4, <1>8, <1>9 DEF SettleInv

LEMMA WebhookSettle ==
  ASSUME TypeOK, OnceInv, SettleInv, NEW h \in Deliveries, NEW event \in Events, Webhook(h, event)
  PROVE  SettleInv'
<1> DEFINE q == h[1]
<1>1. /\ q \in Recipients /\ msg[q] # None
      /\ UNCHANGED <<msg, pc, write, verdict>>
      /\ \A r \in Recipients : r # q => rec'[r] = rec[r]
  BY WebhookPoint
<1>2. rec[q] \notin Active /\ rec'[q] \notin Active
  BY <1>1, WebhookPoint, ReportedInactive DEF OnceInv, ActiveUnsent
<1>3. /\ campaign' \in {campaign, "PARTIAL"}
      /\ event = "failed" => campaign' \notin {"QUEUED", "SENDING", "COMPLETED"}
  BY WebhookPoint
<1>4. event # "failed" => (rec'[q] = "FAILED" => rec[q] = "FAILED")
  BY WebhookPoint DEF Reported
<1> HIDE DEF q
<1>5. OpenWaits'
  <2> SUFFICES ASSUME RequestOpen' PROVE \E r \in Recipients : Waits(r)'
    BY DEF OpenWaits
  <2>1. RequestOpen
    BY <1>1, <1>3 DEF RequestOpen
  <2>2. PICK w \in Recipients : Waits(w)
    BY <2>1 DEF SettleInv, OpenWaits
  <2>3. w # q
    BY <1>1, <1>2, <2>2 DEF Waits
  <2> QED BY <1>1, <2>2, <2>3 DEF Waits
<1>6. UnsettledCount'
  <2> SUFFICES ASSUME NEW d \in Deliveries, pc[d] = "commit", verdict[d] = None,
                      campaign' # "CANCELLED"
               PROVE  \E r \in Recipients : Seen(d, r)' \in Active
    BY <1>1 DEF UnsettledCount
  <2>1. PICK r \in Recipients : Seen(d, r) \in Active
    BY WebhookPoint DEF SettleInv, UnsettledCount
  <2>2. Seen(d, r)' = Seen(d, r)
    BY <1>1, <1>2, <2>1 DEF Seen
  <2> QED BY <2>1, <2>2
<1>7. SettledCount'
  <2> SUFFICES ASSUME NEW d \in Deliveries, pc[d] = "commit", verdict[d] = "COMPLETED",
                      NEW r \in Recipients
               PROVE  Seen(d, r)' \notin Active /\ (Seen(d, r)' = "FAILED" => msg[r] # None)
    BY <1>1 DEF SettledCount
  <2>1. Seen(d, r) \notin Active /\ (Seen(d, r) = "FAILED" => msg[r] # None)
    BY DEF SettleInv, SettledCount
  <2> QED BY <1>1, <1>2, <2>1 DEF Seen
<1>8. CompleteCount'
  <2> SUFFICES ASSUME NEW d \in Deliveries, pc[d] = "commit", verdict[d] = "COMPLETED",
                      campaign' \in {"QUEUED", "SENDING"}, NEW r \in Recipients
               PROVE  Seen(d, r)' \notin Active \cup {"FAILED"}
    BY <1>1 DEF CompleteCount
  <2>1. Seen(d, r) \notin Active \cup {"FAILED"}
    BY <1>3 DEF SettleInv, CompleteCount
  <2> QED BY <1>1, <1>2, <1>3, <1>4, <2>1 DEF Seen
<1>9. CompletedMeansSettled'
  BY <1>1, <1>2, <1>3, <1>4 DEF SettleInv, CompletedMeansSettled
<1>10. UndecidedCount' /\ NobodyActive'
  BY <1>1, <1>2 DEF SettleInv, UndecidedCount, NobodyActive, Seen
<1> QED BY <1>5, <1>6, <1>7, <1>8, <1>9, <1>10 DEF SettleInv

LEMMA SettleStep ==
  ASSUME MaxSends = 1
  PROVE  TypeOK /\ SiteInv /\ RunsInv /\ IntentsInv /\ OnceInv /\ SettleInv /\ [Next]_vars
           => SettleInv'
<1> SUFFICES ASSUME TypeOK, SiteInv, RunsInv, IntentsInv, OnceInv, SettleInv, [Next]_vars
             PROVE  SettleInv'
  OBVIOUS
<1>1. CASE UNCHANGED vars
  BY <1>1 DEF vars, domain, runs, SettleInv, OpenWaits, RequestOpen, Waits, UndecidedCount,
     NobodyActive, UnsettledCount, SettledCount, CompleteCount, CompletedMeansSettled, Seen
<1> QED
  BY <1>1, NextCases, RequestSettle, OrganizerSettle, QuietSettle, WriteFanoutSettle,
     CommitSettle, WebhookSettle

LEMMA OnceInvariant ==
  ASSUME MaxSends = 1
  PROVE  Spec => [](TypeOK /\ SiteInv /\ RunsInv /\ IntentsInv /\ OnceInv)
<1>1. TypeOK /\ SiteInv /\ RunsInv /\ IntentsInv /\ OnceInv /\ [Next]_vars => OnceInv'
  BY OnceStep
<1> QED
  BY <1>1, InitRuns, NextRuns, InitIntents, IntentsStep, InitOnce, TypeCorrect, SiteInvariant, PTL
     DEF Spec

\* A campaign that is sent with one request is COMPLETED only when nobody is
\* left to send to and nobody failed, whatever crashes, rolled back and expired
\* transactions, cancellations, redelivered fan-outs and reports come between.
THEOREM CompletedSettles ==
  ASSUME MaxSends = 1
  PROVE  Spec => []CompletedMeansSettled
<1>1. TypeOK /\ SiteInv /\ RunsInv /\ IntentsInv /\ OnceInv /\ SettleInv /\ [Next]_vars
        => SettleInv'
  BY SettleStep
<1>2. SettleInv => CompletedMeansSettled
  BY DEF SettleInv
<1> QED BY <1>1, <1>2, InitSettle, OnceInvariant, PTL DEF Spec

-----------------------------------------------------------------------------
(* No second message to a successful recipient.                             *)

\* A provider call under way is for a recipient that has not been successful
\* since the last eligibility check.
CallsUnsuccessful ==
  \A d \in Deliveries : pc[d] \in {"sending", "orphan"} => rec[d[1]] \notin Successful

\* ... and, with one request, for one that has no message on record.
CallsUnsent == \A d \in Deliveries : pc[d] \in {"sending", "orphan"} => msg[d[1]] = None

\* Only a delivery that commits SENT, or a report other than a bounce, makes a
\* recipient successful.
LEMMA SuccessComesFrom ==
  ASSUME TypeOK, RunsInv, Next, NEW r \in Recipients,
         rec[r] \notin Successful, rec'[r] \in Successful
  PROVE  \/ \E e \in Deliveries : Commit(e) /\ e[1] = r /\ write[e] = "SENT"
         \/ \E h \in Deliveries, event \in Events \ {"failed"} : Webhook(h, event) /\ msg[r] = h
<1>1. CASE Send \/ RetryFailed \/ ReadTransition \/ WriteTransition \/ Publish
  BY <1>1 DEF Send, RetryFailed, ReadTransition, WriteTransition, Publish, Successful
<1>2. ASSUME NEW e \in Executions, QuietStep(e) PROVE FALSE
  BY <1>2, QuietStepFrame DEF domain
<1>3. ASSUME NEW e \in Fanouts, WriteFanout(e) PROVE FALSE
  BY <1>3 DEF WriteFanout, Successful
<1>4. ASSUME NEW e \in Deliveries, Commit(e) PROVE e[1] = r /\ write[e] = "SENT"
  <2>1. rec'[r] = Seen(e, r) /\ write[e] \in {"SENT", "CANCELLED", "FAILED", None}
    BY <1>4, CommitPoint DEF TypeOK, Executions
  <2> QED BY <2>1 DEF Seen, Successful
<1>5. ASSUME NEW h \in Deliveries, NEW event \in Events, Webhook(h, event)
      PROVE  event # "failed" /\ msg[r] = h
  <2>1. h[1] = r
    BY <1>5, WebhookPoint
  <2> QED BY <1>5, <2>1, WebhookPoint DEF Reported, Successful
<1> QED BY <1>1, <1>2, <1>3, <1>4, <1>5, NextCases

\* A provider call begins with the last eligibility check and goes on.
LEMMA CallBegins ==
  ASSUME TypeOK, RunsInv, Next, NEW d \in Deliveries, pc'[d] \in {"sending", "orphan"}
  PROVE  \/ pc[d] \in {"sending", "orphan"}
         \/ rec[d[1]] \in Active /\ UNCHANGED <<rec, msg>>
<1>0. d \in Executions
  BY DEF Executions
<1>1. CASE UNCHANGED pc
  BY <1>1
<1>2. ASSUME NEW e \in Executions, QuietStep(e)
      PROVE  \/ pc[d] \in {"sending", "orphan"}
             \/ rec[d[1]] \in Active /\ UNCHANGED <<rec, msg>>
  <2>1. UNCHANGED <<rec, msg>> /\ Alone(e)
    BY <1>2, QuietStepFrame, RunAlone DEF domain, RunStep
  <2>2. CASE d = e
    BY <1>2, <2>1, <2>2, QuietStepRun DEF Deliverable
  <2>3. CASE d # e
    BY <1>0, <2>1, <2>3 DEF Alone
  <2> QED BY <2>2, <2>3
<1>3. ASSUME NEW e \in Executions, WriteFanout(e) \/ Commit(e)
      PROVE  pc[d] \in {"sending", "orphan"}
  <2>1. Alone(e) /\ \E step \in {"idle", "complete"} : Forget(e, step, None)
    BY <1>3, RunAlone DEF RunStep, WriteFanout, Commit
  <2> QED BY <1>0, <2>1, ForgetPoint DEF Alone
<1> QED
  BY <1>1, <1>2, <1>3, NextCases
     DEF Send, RetryFailed, Queue, ReadTransition, WriteTransition, Publish, Webhook, runs,
         Executions

\* A message is accepted in a provider call for its recipient.
LEMMA MailsMove ==
  ASSUME TypeOK, Next, NEW r \in Recipients, mails'[r] # mails[r]
  PROVE  \E d \in Deliveries : d[1] = r /\ pc[d] \in {"sending", "orphan"}
<1>1. PICK d \in Deliveries : Call(d) \/ ReturnLate(d)
  BY DEF Next, Send, RetryFailed, Queue, ReadTransition, WriteTransition, Publish, FanoutStep,
         DeliveryStep, ReadFanout, WriteFanout, Prepare, Lock, Record, Count, CountActive,
         CountFailed, Commit, Complete, Fail, TimeOut, Crash, RollBack, Webhook, history
<1>2. d[1] = r /\ pc[d] \in {"sending", "orphan"}
  BY <1>1 DEF Call, ReturnLate, TypeOK
<1> QED BY <1>2

LEMMA CallsStepOnce ==
  ASSUME MaxSends = 1
  PROVE  TypeOK /\ RunsInv /\ OnceInv /\ CallsUnsuccessful /\ CallsUnsent /\ [Next]_vars
           => CallsUnsuccessful' /\ CallsUnsent'
<1> SUFFICES ASSUME TypeOK, RunsInv, OnceInv, CallsUnsuccessful, CallsUnsent, Next,
                    NEW d \in Deliveries, pc'[d] \in {"sending", "orphan"}
             PROVE  rec'[d[1]] \notin Successful /\ msg'[d[1]] = None
  <2>1. UNCHANGED vars => (CallsUnsuccessful /\ CallsUnsent => CallsUnsuccessful' /\ CallsUnsent')
    BY DEF vars, domain, runs, CallsUnsuccessful, CallsUnsent
  <2> QED BY <2>1 DEF CallsUnsuccessful, CallsUnsent
<1>1. d \in Executions /\ d[1] \in Recipients
  BY DEF Executions, Deliveries
<1>2. CASE pc[d] \notin {"sending", "orphan"}
  BY <1>1, <1>2, CallBegins DEF OnceInv, ActiveUnsent, Active, Successful
<1>3. CASE pc[d] \in {"sending", "orphan"}
  <2>1. rec[d[1]] \notin Successful /\ msg[d[1]] = None
    BY <1>3 DEF CallsUnsuccessful, CallsUnsent
  <2>2. \A e \in Deliveries : Commit(e) => e[1] # d[1]
    BY <1>3, OneDelivery, CommitPoint
  <2>3. \A h \in Deliveries : msg[d[1]] # h
    BY <2>1, NoneAssumption
  <2>4. rec'[d[1]] \notin Successful
    BY <1>1, <2>1, <2>2, <2>3, SuccessComesFrom
  <2>5. msg'[d[1]] = msg[d[1]]
    BY <1>1, <2>2, NextCases, QuietStepFrame, CommitPoint, WebhookPoint
       DEF Send, RetryFailed, Queue, ReadTransition, WriteTransition, Publish, WriteFanout, domain
  <2> QED BY <2>1, <2>4, <2>5
<1> QED BY <1>2, <1>3

LEMMA CallsStepBounces ==
  ASSUME "tx_timeout" \notin Faults, Events \subseteq {"failed"}
  PROVE  TypeOK /\ RunsInv /\ NoOrphan /\ CallsUnsuccessful /\ [Next]_vars => CallsUnsuccessful'
<1> SUFFICES ASSUME TypeOK, RunsInv, NoOrphan, CallsUnsuccessful, Next,
                    NEW d \in Deliveries, pc'[d] \in {"sending", "orphan"}
             PROVE  rec'[d[1]] \notin Successful
  <2>1. UNCHANGED vars => (CallsUnsuccessful => CallsUnsuccessful')
    BY DEF vars, domain, runs, CallsUnsuccessful
  <2> QED BY <2>1 DEF CallsUnsuccessful
<1>1. d \in Executions /\ d[1] \in Recipients
  BY DEF Executions, Deliveries
<1>2. CASE pc[d] \notin {"sending", "orphan"}
  BY <1>1, <1>2, CallBegins DEF Active, Successful
<1>3. CASE pc[d] \in {"sending", "orphan"}
  <2>1. rec[d[1]] \notin Successful /\ HoldsSite(d)
    BY <1>1, <1>3 DEF CallsUnsuccessful, NoOrphan, HoldsSite
  \* A delivery that commits SENT holds the lifecycle lock too.
  <2>2. \A e \in Deliveries : Commit(e) => write[e] # "SENT"
    BY <1>1, <1>3, <2>1, CommitPoint DEF RunsInv, OneHolder, HoldsSite, Executions
  <2> QED BY <1>1, <2>1, <2>2, SuccessComesFrom
<1> QED BY <1>2, <1>3

\* The provider accepts no message for a recipient that is SENT, DELIVERED or
\* OPENED, retries, crashes and rolled back transactions included: with any
\* number of requests as long as no transaction expires under a provider call
\* and reports are bounces, and with any reports and expired transactions in a
\* campaign of one request.
THEOREM SuccessfulNotResent ==
  ASSUME MaxSends = 1 \/ ("tx_timeout" \notin Faults /\ Events \subseteq {"failed"})
  PROVE  Spec => NoSuccessfulResend
<1>1. Init => CallsUnsuccessful /\ CallsUnsent /\ NoOrphan
  BY DEF Init, CallsUnsuccessful, CallsUnsent, NoOrphan, Executions
<1>2. Spec => []CallsUnsuccessful
  <2>1. CASE MaxSends = 1
    <3>1. TypeOK /\ RunsInv /\ OnceInv /\ CallsUnsuccessful /\ CallsUnsent /\ [Next]_vars
            => CallsUnsuccessful' /\ CallsUnsent'
      BY <2>1, CallsStepOnce
    <3>2. Spec => [](TypeOK /\ SiteInv /\ RunsInv /\ IntentsInv /\ OnceInv)
      BY <2>1, OnceInvariant
    <3> QED BY <1>1, <3>1, <3>2, PTL DEF Spec
  <2>2. CASE "tx_timeout" \notin Faults /\ Events \subseteq {"failed"}
    <3>1. TypeOK /\ RunsInv /\ NoOrphan /\ CallsUnsuccessful /\ [Next]_vars => CallsUnsuccessful'
      BY <2>2, CallsStepBounces
    <3>2. TypeOK /\ NoOrphan /\ [Next]_vars => NoOrphan'
      BY <2>2, NextNoOrphan
    <3> QED BY <1>1, <3>1, <3>2, InitRuns, NextRuns, TypeCorrect, PTL DEF Spec
  <2> QED BY <2>1, <2>2
<1>3. TypeOK /\ RunsInv /\ CallsUnsuccessful /\ [Next]_vars
        => [\A r \in Recipients : mails'[r] # mails[r] => rec[r] \notin Successful]_vars
  <2> SUFFICES ASSUME TypeOK, RunsInv, CallsUnsuccessful, Next,
                      NEW r \in Recipients, mails'[r] # mails[r]
               PROVE  rec[r] \notin Successful
    BY DEF vars, history
  <2>1. \E d \in Deliveries : d[1] = r /\ pc[d] \in {"sending", "orphan"}
    BY MailsMove
  <2> QED BY <2>1 DEF CallsUnsuccessful
<1> QED BY <1>2, <1>3, InitRuns, NextRuns, TypeCorrect, PTL DEF Spec, NoSuccessfulResend

=============================================================================
