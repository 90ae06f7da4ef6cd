-------------------------------- MODULE Award --------------------------------
(***************************************************************************)
(* A request for quotes, the offers it gets and the one it is awarded to   *)
(* (commercial.service.ts).                                                *)
(*                                                                         *)
(* One request of one wedding.  Every API request is one READ COMMITTED    *)
(* transaction that reads a row, checks its status and later writes it by  *)
(* its id; only acceptance takes a lock.  What the write finds may not be  *)
(* what the read saw.                                                      *)
(*                                                                         *)
(* An offer's content is its version number.  The contract and the budget  *)
(* item are made with the booking and stand for it.  Idempotent replays    *)
(* and the refusals for If-Match, expiry, availability, currency and       *)
(* publication are requests that end without an effect.                    *)
(***************************************************************************)
EXTENDS Integers, FiniteSets

CONSTANTS
  Vendors,    \* vendor organizations
  Calls,      \* API requests under way at a time
  Selections, \* the sets of recipients the wedding chooses from
  RfqMoves,   \* the transitions of the request it uses
  OfferMoves, \* the transitions of offers it uses
  MaxVersion, \* bound of an offer's versions
  MaxDetours, \* bound of deaths of the worker, reopenings and repeated sendings together
  None

RfqTransitions ==
  { <<"DRAFT", "MARK_READY", "READY">>, <<"DRAFT", "CANCEL", "CANCELLED">>,
    <<"READY", "SEND", "SENT">>, <<"READY", "CANCEL", "CANCELLED">>, <<"READY", "REOPEN", "DRAFT">>,
    <<"SENT", "CLOSE", "CLOSED">>, <<"SENT", "CANCEL", "CANCELLED">>,
    <<"PARTIALLY_RESPONDED", "CLOSE", "CLOSED">>, <<"PARTIALLY_RESPONDED", "CANCEL", "CANCELLED">>,
    <<"RESPONDED", "CLOSE", "CLOSED">>, <<"RESPONDED", "ARCHIVE", "ARCHIVED">>,
    <<"CLOSED", "REOPEN", "SENT">>, <<"CLOSED", "ARCHIVE", "ARCHIVED">>,
    <<"CANCELLED", "REOPEN", "DRAFT">>, <<"CANCELLED", "ARCHIVE", "ARCHIVED">> }

Reviewable == {"SUBMITTED", "UNDER_REVIEW", "REVISED"}

OfferTransitions ==
  {<<s, "START_REVIEW", "UNDER_REVIEW">> : s \in {"SUBMITTED", "REVISED"}}
  \cup {<<s, "REQUEST_REVISION", "REVISION_REQUESTED">> : s \in Reviewable}
  \cup {<<s, "REJECT", "REJECTED">> : s \in Reviewable}
  \cup {<<"REJECTED", "ARCHIVE", "SUPERSEDED">>}

RfqStatus == {t[1] : t \in RfqTransitions} \cup {"ARCHIVED"}
RecipientStatus == {"PENDING", "QUEUED", "SENT", "OPENED", "RESPONDED", "DECLINED", "FAILED"}
OfferStatus == {"DRAFT", "ACCEPTED", "WITHDRAWN"} \cup Reviewable
               \cup {t[3] : t \in OfferTransitions}

ASSUME AwardAssumption ==
  /\ Selections \subseteq SUBSET Vendors /\ {} \notin Selections
  /\ RfqMoves \subseteq RfqTransitions
  /\ OfferMoves \subseteq {t[2] : t \in OfferTransitions}
  /\ MaxVersion \in Nat \ {0} /\ MaxDetours \in Nat
  /\ None \notin Vendors \cup Nat \cup RecipientStatus \cup OfferStatus

VARIABLES
  rfq,       \* requests_for_quote: status and awarded_offer_id
  recipient, \* rfq_recipients: None is no row
  offer,     \* vendor_offers, one per recipient
  booking,   \* vendor_bookings: the version that was accepted
  delivery,  \* rfq_delivery consumers, deduplicated by the recipient's id
  detours,   \* deaths of the worker, reopenings and repeated sendings so far
  calls      \* API requests: what each knows and does next

vars == <<rfq, recipient, offer, booking, delivery, detours, calls>>

Idle == [pc |-> "idle"]
NoOffer == [status |-> None, current |-> 0]

Init ==
  /\ rfq = [status |-> "DRAFT", awarded |-> None]
  /\ recipient = [v \in Vendors |-> None]
  /\ offer = [v \in Vendors |-> NoOffer]
  /\ booking = [v \in Vendors |-> None]
  /\ delivery = [v \in Vendors |-> None] /\ detours = 0
  /\ calls = [k \in Calls |-> Idle]

At(k, pc) == calls[k].pc = pc
Goto(k, state) == calls' = [calls EXCEPT ![k] = state]
Read(k, state) ==
  At(k, "idle") /\ Goto(k, state) /\ UNCHANGED <<rfq, recipient, offer, booking, delivery, detours>>

\* A submission that has counted the answers holds the rows it has written, and
\* a replacement those it has deleted.
Unlocked(v) ==
  \A k \in Calls : /\ At(k, "counted") => calls[k].v # v
                  /\ At(k, "deleted") => v \in calls[k].spared

SetRecipient(v, status) == recipient' = [recipient EXCEPT ![v] = status]
SetOffer(v, status) == offer' = [offer EXCEPT ![v].status = status]

-----------------------------------------------------------------------------
(* The wedding's request.                                                   *)

BeginReplaceRecipients(k, S) ==
  rfq.status \in {"DRAFT", "READY"} /\ Read(k, [pc |-> "replace", S |-> S])

\* replaceRfqRecipients deletes the rows that it sees, and the offers made for
\* them (ON DELETE CASCADE), which their versions refuse
\* (offer_versions_immutable).
DeleteRecipients(k) ==
  /\ At(k, "replace")
  /\ Goto(k, IF \A v \in Vendors : offer[v] = NoOffer
             THEN [pc |-> "deleted", S |-> calls[k].S, spared |-> {}] ELSE Idle)
  /\ UNCHANGED <<rfq, recipient, offer, booking, delivery, detours>>

\* What other requests know once k has committed: who read a deleted row does
\* not find it, and a replacement under way spares the rows it did not see.
AfterReplacement(k, c) ==
  IF c = k THEN Idle
  ELSE IF At(c, "deleted")
       THEN [calls[c] EXCEPT !.spared = calls[k].S \cup (@ \cap calls[k].spared)]
  ELSE IF calls[c].pc \in {"idle", "rfq", "replace"} \/ calls[c].v \in calls[k].spared
       THEN calls[c] ELSE Idle

\* ... and inserts the new ones, unless a vendor has a row that was committed in
\* between (the unique key), which rolls all back.
InsertRecipients(k) ==
  LET S == calls[k].S
      spared == calls[k].spared
  IN /\ At(k, "deleted")
     /\ IF S \cap spared = {}
        THEN /\ recipient' = [v \in Vendors |-> IF v \in S THEN "PENDING"
                                               ELSE IF v \in spared THEN recipient[v] ELSE None]
             /\ offer' = [v \in Vendors |-> IF v \in spared THEN offer[v] ELSE NoOffer]
             /\ delivery' = [v \in Vendors |-> IF v \in spared THEN delivery[v] ELSE None]
             /\ calls' = [c \in Calls |-> AfterReplacement(k, c)]
        ELSE Goto(k, Idle) /\ UNCHANGED <<recipient, offer, delivery>>
     /\ UNCHANGED <<rfq, booking, detours>>

BeginTransitionRfq(k, t) ==
  /\ t \in RfqMoves /\ rfq.status = t[1]
  /\ Read(k, [pc |-> "rfq", move |-> t[2], to |-> t[3]])

\* transitionRfq: sending queues every recipient; one that was sent to before
\* has its delivery already, and gets no other.  Reopening, and sending to a
\* recipient again, are counted as detours.
TransitionRfq(k) ==
  LET Recipients == {v \in Vendors : recipient[v] # None}
      sending == calls[k].move = "SEND"
      again == \/ calls[k].move = "REOPEN"
               \/ sending /\ \E v \in Recipients : delivery[v] # None
  IN /\ At(k, "rfq")
     /\ sending => Recipients # {} /\ \A v \in Recipients : Unlocked(v)
     /\ rfq' = [rfq EXCEPT !.status = calls[k].to]
     /\ recipient' = [v \in Vendors |->
          IF sending /\ v \in Recipients THEN "QUEUED" ELSE recipient[v]]
     /\ delivery' = [v \in Vendors |->
          IF sending /\ v \in Recipients /\ delivery[v] = None THEN "queued" ELSE delivery[v]]
     /\ again => detours < MaxDetours
     /\ detours' = detours + (IF again THEN 1 ELSE 0)
     /\ Goto(k, Idle)
     /\ UNCHANGED <<offer, booking>>

-----------------------------------------------------------------------------
(* The worker: processRfqDelivery.                                          *)

\* A recipient that is neither PENDING nor QUEUED has been delivered to.
BeginDelivery(v) ==
  /\ delivery[v] = "queued"
  /\ delivery' = [delivery EXCEPT ![v] =
       IF recipient[v] \in {"PENDING", "QUEUED"} THEN "seen" ELSE "done"]
  /\ UNCHANGED <<rfq, recipient, offer, booking, detours, calls>>

\* The recipient is written by its id.
Deliver(v) ==
  /\ delivery[v] = "seen" /\ Unlocked(v)
  /\ SetRecipient(v, "SENT") /\ delivery' = [delivery EXCEPT ![v] = "done"]
  /\ UNCHANGED <<rfq, offer, booking, detours, calls>>

\* The worker dies before the write, or after it and before the consumer is
\* completed, and the delivery starts again.
Die(v) ==
  /\ delivery[v] = "seen" /\ detours < MaxDetours /\ detours' = detours + 1
  /\ \/ UNCHANGED recipient
     \/ Unlocked(v) /\ SetRecipient(v, "SENT")
  /\ delivery' = [delivery EXCEPT ![v] = "queued"]
  /\ UNCHANGED <<rfq, offer, booking, calls>>

\* The last attempt failed.
FailDelivery(v) ==
  /\ delivery[v] = "queued" /\ Unlocked(v)
  /\ recipient' = [recipient EXCEPT ![v] = IF @ \in {"PENDING", "QUEUED"} THEN "FAILED" ELSE @]
  /\ delivery' = [delivery EXCEPT ![v] = "done"]
  /\ UNCHANGED <<rfq, offer, booking, detours, calls>>

-----------------------------------------------------------------------------
(* The vendors.                                                             *)

BeginOpen(k, v) == recipient[v] = "SENT" /\ Read(k, [pc |-> "open", v |-> v])
BeginDecline(k, v) ==
  recipient[v] \notin {None, "RESPONDED"} /\ Read(k, [pc |-> "decline", v |-> v])

\* vendorRfqAction
VendorRfqAction(k) ==
  /\ calls[k].pc \in {"open", "decline"} /\ Unlocked(calls[k].v)
  /\ SetRecipient(calls[k].v, IF At(k, "open") THEN "OPENED" ELSE "DECLINED")
  /\ Goto(k, Idle)
  /\ UNCHANGED <<rfq, offer, booking, delivery, detours>>

BeginCreateOffer(k, v) ==
  /\ recipient[v] \in {"SENT", "OPENED"}
  /\ rfq.status \notin {"CLOSED", "CANCELLED", "ARCHIVED"}
  /\ Read(k, [pc |-> "create", v |-> v])

\* Mutant: versions are counted from 0.
CreateOfferAtZero(k) ==
  /\ At(k, "create") /\ Unlocked(calls[k].v)
  /\ LET v == calls[k].v IN
       offer' = IF offer[v].status = None
                THEN [offer EXCEPT ![v] = [status |-> "DRAFT", current |-> 0]] ELSE offer
  /\ Goto(k, Idle)
  /\ UNCHANGED <<rfq, recipient, booking, delivery, detours>>

\* createOffer: a vendor has one offer, of a recipient that still exists.
CreateOffer(k) ==
  /\ At(k, "create") /\ Unlocked(calls[k].v)
  /\ LET v == calls[k].v IN
       offer' = IF offer[v].status = None
                THEN [offer EXCEPT ![v] = [status |-> "DRAFT", current |-> 1]] ELSE offer
  /\ Goto(k, Idle)
  /\ UNCHANGED <<rfq, recipient, booking, delivery, detours>>

BeginUpdateOfferDraft(k, v) ==
  /\ offer[v].status \in {"DRAFT", "REVISION_REQUESTED"} /\ offer[v].current < MaxVersion
  /\ Read(k, [pc |-> "edit", v |-> v, seen |-> offer[v]])

\* Mutant: the versions have no unique index.
UpdateOfferDraftOver(k) ==
  /\ At(k, "edit") /\ Unlocked(calls[k].v)
  /\ LET seen == calls[k].seen
         status == IF seen.status = "REVISION_REQUESTED" THEN "REVISED" ELSE "DRAFT"
     IN offer' = [offer EXCEPT ![calls[k].v] = [status |-> status, current |-> seen.current + 1]]
  /\ Goto(k, Idle)
  /\ UNCHANGED <<rfq, recipient, booking, delivery, detours>>

\* updateOfferDraft: the version after the one it read is new, or all is rolled
\* back by the unique index of the versions.
UpdateOfferDraft(k) ==
  /\ At(k, "edit") /\ Unlocked(calls[k].v)
  /\ LET v == calls[k].v
         seen == calls[k].seen
         status == IF seen.status = "REVISION_REQUESTED" THEN "REVISED" ELSE "DRAFT"
     IN offer' = IF offer[v].current = seen.current
                 THEN [offer EXCEPT ![v] = [status |-> status, current |-> seen.current + 1]]
                 ELSE offer
  /\ Goto(k, Idle)
  /\ UNCHANGED <<rfq, recipient, booking, delivery, detours>>

BeginSubmitOffer(k, v) ==
  offer[v].status \in {"DRAFT", "REVISED"} /\ Read(k, [pc |-> "submit", v |-> v])

\* weddingos_refresh_rfq_response_status counts its own answer and those that
\* are committed.
Answers(v) ==
  IF \A u \in Vendors \ {v} : recipient[u] \in {None, "RESPONDED"}
  THEN "RESPONDED" ELSE "PARTIALLY_RESPONDED"

CountAnswers(k) ==
  /\ At(k, "submit") /\ Unlocked(calls[k].v)
  /\ Goto(k, [pc |-> "counted", v |-> calls[k].v, answers |-> Answers(calls[k].v)])
  /\ UNCHANGED <<rfq, recipient, offer, booking, delivery, detours>>

\* submitOffer: offer, recipient and request are committed, whatever the
\* request's status is by then.
SubmitOffer(k) ==
  /\ At(k, "counted")
  /\ SetOffer(calls[k].v, "SUBMITTED") /\ SetRecipient(calls[k].v, "RESPONDED")
  /\ rfq' = [rfq EXCEPT !.status = calls[k].answers]
  /\ Goto(k, Idle)
  /\ UNCHANGED <<booking, delivery, detours>>

BeginWithdrawOffer(k, v) ==
  /\ offer[v].status \notin {None, "ACCEPTED", "REJECTED", "WITHDRAWN", "SUPERSEDED"}
  /\ Read(k, [pc |-> "withdraw", v |-> v])

WithdrawOffer(k) ==
  /\ At(k, "withdraw") /\ Unlocked(calls[k].v)
  /\ SetOffer(calls[k].v, "WITHDRAWN") /\ Goto(k, Idle)
  /\ UNCHANGED <<rfq, recipient, booking, delivery, detours>>

-----------------------------------------------------------------------------
(* The wedding's review: transitionOffer.                                   *)

BeginTransitionOffer(k, v, t) ==
  /\ t \in OfferTransitions /\ t[2] \in OfferMoves /\ offer[v].status = t[1]
  /\ Read(k, [pc |-> "review", v |-> v, to |-> t[3]])

TransitionOffer(k) ==
  /\ At(k, "review") /\ Unlocked(calls[k].v)
  /\ SetOffer(calls[k].v, calls[k].to) /\ Goto(k, Idle)
  /\ UNCHANGED <<rfq, recipient, booking, delivery, detours>>

BeginAccept(k, v) ==
  offer[v].status \in Reviewable /\ Read(k, [pc |-> "accept", v |-> v, version |-> offer[v].current])

\* Mutant: an award is not looked for.
AwardableAgain(v) ==
  rfq.status \notin {"CANCELLED", "ARCHIVED"} /\ recipient[v] = "RESPONDED"

\* The advisory lock of the request, and what is checked under it.
Awardable(v) ==
  /\ rfq.awarded \in {None, v} /\ rfq.status \notin {"CANCELLED", "ARCHIVED"}
  /\ recipient[v] = "RESPONDED"

LockAward(k) ==
  /\ At(k, "accept") /\ \A c \in Calls : ~At(c, "award")
  /\ Goto(k, IF Awardable(calls[k].v) THEN [calls[k] EXCEPT !.pc = "award"] ELSE Idle)
  /\ UNCHANGED <<rfq, recipient, offer, booking, delivery, detours>>

Competing == {"SUBMITTED", "UNDER_REVIEW", "REVISION_REQUESTED", "REVISED"}

\* Mutant: the booking follows the version that is accepted.
AcceptAgain(k) ==
  LET v == calls[k].v
      Losers == {u \in Vendors \ {v} : offer[u].status \in Competing}
  IN /\ At(k, "award") /\ \A u \in Losers \cup {v} : Unlocked(u)
     /\ IF \A u \in Vendors \ {v} : offer[u].status # "ACCEPTED"
        THEN /\ booking' = [booking EXCEPT ![v] = calls[k].version]
             /\ rfq' = [rfq EXCEPT !.awarded = v]
             /\ offer' = [u \in Vendors |->
                  IF u = v THEN [offer[u] EXCEPT !.status = "ACCEPTED"]
                  ELSE IF u \in Losers THEN [offer[u] EXCEPT !.status = "REJECTED"]
                  ELSE offer[u]]
        ELSE UNCHANGED <<booking, rfq, offer>>
     /\ Goto(k, Idle)
     /\ UNCHANGED <<recipient, delivery, detours>>

\* A booking of the offer is kept; the others' open offers are rejected; the
\* offer is ACCEPTED, and no other is (vendor_offers_single_award_key).
AcceptOffer(k) ==
  LET v == calls[k].v
      Losers == {u \in Vendors \ {v} : offer[u].status \in Competing}
  IN /\ At(k, "award") /\ \A u \in Losers \cup {v} : Unlocked(u)
     /\ IF \A u \in Vendors \ {v} : offer[u].status # "ACCEPTED"
        THEN /\ booking' = IF booking[v] = None
                           THEN [booking EXCEPT ![v] = calls[k].version] ELSE booking
             /\ rfq' = [rfq EXCEPT !.awarded = v]
             /\ offer' = [u \in Vendors |->
                  IF u = v THEN [offer[u] EXCEPT !.status = "ACCEPTED"]
                  ELSE IF u \in Losers THEN [offer[u] EXCEPT !.status = "REJECTED"]
                  ELSE offer[u]]
        ELSE UNCHANGED <<booking, rfq, offer>>
     /\ Goto(k, Idle)
     /\ UNCHANGED <<recipient, delivery, detours>>

\* A request is refused after its read, dies, or is rolled back.
DropCall(k) ==
  ~At(k, "idle") /\ Goto(k, Idle) /\ UNCHANGED <<rfq, recipient, offer, booking, delivery, detours>>

-----------------------------------------------------------------------------
Next ==
  \/ \E k \in Calls :
       \/ \E S \in Selections : BeginReplaceRecipients(k, S)
       \/ DeleteRecipients(k) \/ InsertRecipients(k)
       \/ \E t \in RfqMoves : BeginTransitionRfq(k, t)
       \/ TransitionRfq(k)
       \/ \E v \in Vendors :
            \/ BeginOpen(k, v) \/ BeginDecline(k, v) \/ BeginCreateOffer(k, v)
            \/ BeginUpdateOfferDraft(k, v) \/ BeginSubmitOffer(k, v) \/ BeginWithdrawOffer(k, v)
            \/ BeginAccept(k, v) \/ \E t \in OfferTransitions : BeginTransitionOffer(k, v, t)
       \/ VendorRfqAction(k) \/ CreateOffer(k) \/ UpdateOfferDraft(k) \/ CountAnswers(k)
       \/ SubmitOffer(k) \/ WithdrawOffer(k) \/ TransitionOffer(k)
       \/ LockAward(k) \/ AcceptOffer(k) \/ DropCall(k)
  \/ \E v \in Vendors : BeginDelivery(v) \/ Deliver(v) \/ Die(v) \/ FailDelivery(v)

Spec == Init /\ [][Next]_vars

-----------------------------------------------------------------------------
(* Properties.                                                              *)

CallState ==
  {Idle} \cup [pc : {"replace"}, S : Selections]
  \cup [pc : {"deleted"}, S : Selections, spared : SUBSET Vendors]
  \cup [pc : {"rfq"}, move : {t[2] : t \in RfqTransitions}, to : RfqStatus]
  \cup [pc : {"open", "decline", "create", "submit", "withdraw"}, v : Vendors]
  \cup [pc : {"edit"}, v : Vendors,
        seen : [status : {"DRAFT", "REVISION_REQUESTED"}, current : 1 .. MaxVersion]]
  \cup [pc : {"counted"}, v : Vendors, answers : {"PARTIALLY_RESPONDED", "RESPONDED"}]
  \cup [pc : {"review"}, v : Vendors, to : {t[3] : t \in OfferTransitions}]
  \cup [pc : {"accept", "award"}, v : Vendors, version : 1 .. MaxVersion]

\* Columns and requests have their types; versions are bounded.
TypeOK ==
  /\ rfq \in [status : RfqStatus, awarded : Vendors \cup {None}]
  /\ recipient \in [Vendors -> RecipientStatus \cup {None}]
  /\ offer \in [Vendors -> {NoOffer} \cup [status : OfferStatus, current : 1 .. MaxVersion]]
  /\ booking \in [Vendors -> 1 .. MaxVersion \cup {None}]
  /\ delivery \in [Vendors -> {None, "queued", "seen", "done"}] /\ detours \in 0 .. MaxDetours
  /\ calls \in [Calls -> CallState]

\* SINGLE_AWARD: whatever requests race, the vendor the request is awarded to is
\* the one with a booking, of a version its offer has, and no other offer is
\* ACCEPTED; who lost the race for the lock leaves no booking behind.
AwardIsBooked ==
  \A v \in Vendors :
    /\ booking[v] # None <=> rfq.awarded = v
    /\ booking[v] # None => booking[v] <= offer[v].current
    /\ offer[v].status = "ACCEPTED" => rfq.awarded = v

\* An award is final: accepting the offer again, or after a revision that a
\* late review asked for, keeps the award and the version that was booked.
AwardFinal ==
  [][/\ rfq.awarded # None => rfq'.awarded = rfq.awarded
     /\ \A v \in Vendors : booking[v] # None => booking'[v] = booking[v]]_vars

\* Versions of offers are immutable: none is lost when the recipients of a
\* request that others have sent, or that was reopened, are replaced; and an
\* offer is a draft or revised again only with a version of its own, so of two
\* concurrent edits one does not write over the version of the other.
VersionsKept ==
  [][\A v \in Vendors :
       /\ offer'[v].current >= offer[v].current
       /\ offer'[v] # offer[v] /\ offer'[v].status \in {"DRAFT", "REVISED"}
            => offer'[v].current > offer[v].current]_vars

-----------------------------------------------------------------------------
(* Claims the code does not keep.  A status that is read and written by its  *)
(* id later is overwritten by whoever is last; README, section 3.            *)

\* "competing offers transition consistently" (docs/SLICE_5_HANDOFF.md:37)
LosersClosed ==
  \A v \in Vendors :
    rfq.awarded \notin {None, v} => offer[v].status \notin Competing

\* "closed/cancelled/archived" (docs/adr/0023:15): a submission reopens it.
ArchivedStays == [][rfq.status = "ARCHIVED" => rfq'.status = "ARCHIVED"]_vars

\* The winner's offer stays ACCEPTED.
AwardedIsAccepted ==
  \A v \in Vendors : rfq.awarded = v => offer[v].status = "ACCEPTED"

\* "A submitted version cannot be edited" (docs/adr/0023:17): a late draft.
SubmittedStays ==
  [][\A v \in Vendors : offer[v].status = "SUBMITTED" => offer'[v].status # "DRAFT"]_vars

\* Sent again after it was cancelled and reopened, it is delivered again.
QueuedIsDelivered ==
  \A v \in Vendors : recipient[v] = "QUEUED" => delivery[v] # "done"

=============================================================================
