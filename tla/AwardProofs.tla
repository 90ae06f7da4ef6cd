----------------------------- MODULE AwardProofs -----------------------------
(***************************************************************************)
(* Proofs about Award: columns and requests keep their types, the award    *)
(* and the booking agree, an award is final and no version of an offer is  *)
(* lost - for any number of vendors, requests and versions.                *)
(***************************************************************************)
EXTENDS Award, TLAPS

Offers == {NoOffer} \cup [status : OfferStatus, current : 1 .. MaxVersion]

TablesOK ==
  /\ rfq \in [status : RfqStatus, awarded : Vendors \cup {None}]
  /\ recipient \in [Vendors -> RecipientStatus \cup {None}]
  /\ offer \in [Vendors -> Offers]
  /\ booking \in [Vendors -> 1 .. MaxVersion \cup {None}]
  /\ delivery \in [Vendors -> {None, "queued", "seen", "done"}] /\ detours \in 0 .. MaxDetours

\* The requests that go on only while the offer they have read exists.
OnOffer == {"submit", "counted", "withdraw", "review", "accept", "award"}

\* Edits lead to these, and nothing else does.
Drafts == {"DRAFT", "REVISED"}

\* What a request may rely on until it writes: its offer has the version it has
\* read, a draft has room for another, who holds the lock may be awarded, and
\* nobody makes an offer for a deleted row.
Sound(c) ==
  /\ c.pc \in OnOffer => offer[c.v] # NoOffer
  /\ c.pc = "edit" => c.seen.current < MaxVersion
  /\ c.pc \in {"accept", "award"} => c.version <= offer[c.v].current
  /\ c.pc = "award" => rfq.awarded \in {None, c.v}
  /\ c.pc = "deleted" => \A v \in Vendors \ c.spared : offer[v] = NoOffer

\* The advisory lock.
OneAward == \A k, c \in Calls : At(k, "award") /\ At(c, "award") => k = c

CallsOK ==
  /\ calls \in [Calls -> CallState]
  /\ \A k \in Calls : Sound(calls[k])
  /\ OneAward

IInv == TablesOK /\ AwardIsBooked /\ CallsOK

\* What a step keeps, as AwardFinal and VersionsKept say.
Kept ==
  /\ rfq.awarded # None => rfq'.awarded = rfq.awarded
  /\ \A v \in Vendors : booking[v] # None => booking'[v] = booking[v]
  /\ \A v \in Vendors :
       /\ offer'[v].current >= offer[v].current
       /\ offer'[v] # offer[v] /\ offer'[v].status \in Drafts
            => offer'[v].current > offer[v].current

\* Most steps award nothing: no offer is accepted, none loses a version, only a
\* new version is a draft, and only a row nobody has deleted gets an offer.
Quiet ==
  /\ rfq'.awarded = rfq.awarded /\ booking' = booking
  /\ \A v \in Vendors :
       /\ offer'[v].current >= offer[v].current
       /\ offer'[v].status = "ACCEPTED" => offer[v].status = "ACCEPTED"
       /\ offer'[v] # offer[v] /\ offer'[v].status \in Drafts
            => offer'[v].current > offer[v].current
       /\ offer[v] = NoOffer => offer'[v] = NoOffer \/ Unlocked(v)

tables == <<rfq, recipient, offer, booking, delivery, detours>>

LEMMA IInvTypeOK == IInv => TypeOK
BY DEF IInv, TablesOK, CallsOK, TypeOK, Offers

-----------------------------------------------------------------------------
(* Requests and offers.                                                     *)

LEMMA CallFields ==
  ASSUME NEW c \in CallState
  PROVE  /\ c.pc \in OnOffer \cup {"open", "decline", "create", "edit"} => c.v \in Vendors
         /\ c.pc = "rfq" => c.to \in RfqStatus
         /\ c.pc = "edit" => /\ c.seen.status \in {"DRAFT", "REVISION_REQUESTED"}
                             /\ c.seen.current \in 1 .. MaxVersion
         /\ c.pc = "counted" => c.answers \in {"PARTIALLY_RESPONDED", "RESPONDED"}
         /\ c.pc = "review" => c.to \in {t[3] : t \in OfferTransitions}
         /\ c.pc = "deleted" => /\ c.S \subseteq Vendors /\ c.spared \subseteq Vendors
                                /\ c = [pc |-> "deleted", S |-> c.S, spared |-> c.spared]
                                /\ c.S \in Selections
         /\ c.pc \in {"accept", "award"} => c.version \in 1 .. MaxVersion
BY AwardAssumption DEF CallState, Idle, OnOffer

LEMMA IdleSound == Idle \in CallState /\ Sound(Idle)
BY DEF CallState, Idle, Sound, OnOffer

LEMMA OfferFields ==
  ASSUME NEW o \in Offers
  PROVE  /\ o.current \in 0 .. MaxVersion
         /\ o # NoOffer => o.status \in OfferStatus /\ o.current \in 1 .. MaxVersion
         /\ o.status = None => o = NoOffer
         /\ o = NoOffer => o.status = None /\ o.current = 0
BY AwardAssumption DEF Offers, NoOffer

LEMMA OfferStatuses ==
  /\ {"DRAFT", "ACCEPTED", "WITHDRAWN", "SUBMITTED", "UNDER_REVIEW", "REVISED", "REJECTED",
      "REVISION_REQUESTED", "SUPERSEDED"} \subseteq OfferStatus
  /\ \A t \in OfferTransitions :
       t[3] \in OfferStatus /\ t[3] \notin {"ACCEPTED"} \cup Drafts /\ t[1] # None
<1>1. \A t \in OfferTransitions :
        /\ t[1] \in {"SUBMITTED", "UNDER_REVIEW", "REVISED", "REJECTED"}
        /\ t[3] \in {"UNDER_REVIEW", "REVISION_REQUESTED", "REJECTED", "SUPERSEDED"}
  BY DEF OfferTransitions, Reviewable
<1>2. /\ <<"SUBMITTED", "REQUEST_REVISION", "REVISION_REQUESTED">> \in OfferTransitions
      /\ <<"SUBMITTED", "REJECT", "REJECTED">> \in OfferTransitions
      /\ <<"REJECTED", "ARCHIVE", "SUPERSEDED">> \in OfferTransitions
  BY DEF OfferTransitions, Reviewable
<1>3. {"REVISION_REQUESTED", "REJECTED", "SUPERSEDED"} \subseteq {t[3] : t \in OfferTransitions}
  BY <1>2
<1>4. {"DRAFT", "ACCEPTED", "WITHDRAWN", "SUBMITTED", "UNDER_REVIEW", "REVISED", "REJECTED",
       "REVISION_REQUESTED", "SUPERSEDED"} \subseteq OfferStatus
  BY <1>3 DEF OfferStatus, Reviewable
<1>. QED  BY <1>1, <1>4, AwardAssumption DEF Drafts

LEMMA RfqStatuses ==
  /\ {"DRAFT", "PARTIALLY_RESPONDED", "RESPONDED"} \subseteq RfqStatus
  /\ \A t \in RfqTransitions : t[3] \in RfqStatus
<1>1. \A s \in {"DRAFT", "READY", "SENT", "PARTIALLY_RESPONDED", "RESPONDED", "CLOSED", "CANCELLED"} :
        \E t \in RfqTransitions : t[1] = s
  BY DEF RfqTransitions
<1>2. \A t \in RfqTransitions :
        t[3] \in {"DRAFT", "READY", "SENT", "CLOSED", "CANCELLED", "ARCHIVED"}
  BY DEF RfqTransitions
<1>. QED  BY <1>1, <1>2 DEF RfqStatus

\* Writing an offer's status by its id keeps its version.
LEMMA SetOfferQuiet ==
  ASSUME IInv, NEW v \in Vendors, NEW status \in OfferStatus \ ({"ACCEPTED"} \cup Drafts),
         offer[v] # NoOffer, SetOffer(v, status)
  PROVE  /\ offer' \in [Vendors -> Offers]
         /\ \A u \in Vendors :
              /\ offer'[u].current >= offer[u].current
              /\ offer'[u].status = "ACCEPTED" => offer[u].status = "ACCEPTED"
              /\ offer'[u] # offer[u] => offer'[u].status \notin Drafts
              /\ offer[u] = NoOffer => offer'[u] = NoOffer
<1>1. offer \in [Vendors -> Offers]
  BY DEF IInv, TablesOK
<1>2. offer[v] \in [status : OfferStatus, current : 1 .. MaxVersion]
  BY <1>1 DEF Offers
<1>3. offer' = [offer EXCEPT ![v] = [status |-> status, current |-> offer[v].current]]
  <2>1. [offer[v] EXCEPT !.status = status] = [status |-> status, current |-> offer[v].current]
    BY <1>2
  <2>. QED  BY <1>1, <2>1 DEF SetOffer
<1>4. \A u \in Vendors : offer[u].current \in 0 .. MaxVersion
  BY <1>1, OfferFields
<1>. QED  BY <1>1, <1>2, <1>3, <1>4 DEF Offers

-----------------------------------------------------------------------------
(* What most steps have in common.                                          *)

\* A step that awards nothing keeps what is known of awards and requests.
LEMMA QuietIInv ==
  ASSUME IInv, TablesOK', Quiet,
         calls' = calls \/ \E k \in Calls : Goto(k, Idle)
  PROVE  IInv' /\ Kept
<1>1. \A v \in Vendors : offer[v] \in Offers /\ offer'[v] \in Offers
  BY DEF IInv, TablesOK
<1>2. \A v \in Vendors : offer[v].current \in Nat /\ offer'[v].current \in Nat
  BY <1>1, OfferFields, AwardAssumption
<1>3. \A v \in Vendors : booking[v] # None => booking[v] \in 1 .. MaxVersion
  BY DEF IInv, TablesOK
<1>4. AwardIsBooked'
  BY <1>2, <1>3, AwardAssumption DEF Quiet, AwardIsBooked, IInv
<1>5. calls' \in [Calls -> CallState] /\ \A k \in Calls : calls'[k] \in {calls[k], Idle}
  BY IdleSound DEF Goto, IInv, CallsOK
<1>6. \A v \in Vendors : offer[v] # NoOffer => offer'[v] # NoOffer
  BY <1>1, OfferFields, AwardAssumption DEF Quiet
<1>7. ASSUME NEW k \in Calls PROVE Sound(calls[k])'
  <2>1. CASE calls'[k] = Idle
    BY <2>1 DEF Sound, Idle, OnOffer
  <2>2. CASE calls'[k] = calls[k]
    <3>1. calls[k] \in CallState /\ Sound(calls[k])
      BY DEF IInv, CallsOK
    <3>2. calls[k].pc \in OnOffer => calls[k].v \in Vendors
      BY <3>1, CallFields
    <3>3. calls[k].pc \in {"accept", "award"} => calls[k].version \in Nat
      BY <3>1, CallFields, AwardAssumption
    <3>4. calls[k].pc = "deleted" => \A v \in Vendors \ calls[k].spared : offer'[v] = NoOffer
      BY <3>1 DEF Sound, Quiet, Unlocked, At
    <3>. QED  BY <1>2, <1>6, <2>2, <3>1, <3>2, <3>3, <3>4 DEF Sound, Quiet, OnOffer
  <2>. QED  BY <1>5, <2>1, <2>2
<1>8. OneAward'
  BY <1>5 DEF OneAward, At, Idle, IInv, CallsOK
<1>9. Kept
  BY DEF Kept, Quiet
<1>. QED  BY <1>4, <1>5, <1>7, <1>8, <1>9 DEF IInv, CallsOK

\* A request that goes on with what it has read.
LEMMA GotoIInv ==
  ASSUME IInv, NEW k \in Calls, NEW c \in CallState, Sound(c), c.pc # "award",
         Goto(k, c), UNCHANGED tables
  PROVE  IInv' /\ Kept
<1>1. TablesOK' /\ AwardIsBooked'
  BY DEF IInv, TablesOK, AwardIsBooked, tables
<1>2. calls' \in [Calls -> CallState] /\ \A j \in Calls : calls'[j] = IF j = k THEN c ELSE calls[j]
  BY DEF Goto, IInv, CallsOK
<1>3. \A j \in Calls : Sound(calls'[j])
  BY <1>2 DEF IInv, CallsOK
<1>4. \A j \in Calls : Sound(calls[j])'
  BY <1>3 DEF Sound, tables
<1>5. OneAward'
  BY <1>2 DEF OneAward, At, IInv, CallsOK
<1>6. \A v \in Vendors : offer[v].current \in Nat
  BY OfferFields, AwardAssumption DEF IInv, TablesOK
<1>. QED  BY <1>1, <1>2, <1>4, <1>5, <1>6 DEF IInv, CallsOK, Kept, tables

\* Requests that end, and steps of other tables.
LEMMA OffersSame ==
  ASSUME IInv, UNCHANGED <<offer, booking>>, rfq'.awarded = rfq.awarded
  PROVE  Quiet
BY OfferFields, AwardAssumption DEF Quiet, IInv, TablesOK

-----------------------------------------------------------------------------
(* The actions.                                                             *)

\* Requests that have read what they are about.
LEMMA ReadIInv ==
  ASSUME IInv, NEW k \in Calls,
         \/ \E S \in Selections : BeginReplaceRecipients(k, S)
         \/ \E t \in RfqMoves : BeginTransitionRfq(k, t)
         \/ \E v \in Vendors :
              \/ BeginOpen(k, v) \/ BeginDecline(k, v) \/ BeginCreateOffer(k, v)
              \/ BeginUpdateOfferDraft(k, v) \/ BeginSubmitOffer(k, v) \/ BeginWithdrawOffer(k, v)
              \/ BeginAccept(k, v) \/ \E t \in OfferTransitions : BeginTransitionOffer(k, v, t)
  PROVE  IInv' /\ Kept
<1>. DEFINE Good(c) == c \in CallState /\ Sound(c) /\ c.pc # "award"
<1>1. SUFFICES \E c : Read(k, c) /\ Good(c)
  BY GotoIInv DEF Read, tables
<1>. USE DEF Good
<1>2. ASSUME NEW S \in Selections, BeginReplaceRecipients(k, S)
      PROVE  \E c : Read(k, c) /\ Good(c)
  <2>1. Good([pc |-> "replace", S |-> S])
    BY DEF CallState, Sound, OnOffer
  <2>. QED  BY <1>2, <2>1 DEF BeginReplaceRecipients
<1>3. ASSUME NEW t \in RfqMoves, BeginTransitionRfq(k, t)
      PROVE  \E c : Read(k, c) /\ Good(c)
  <2>0. t \in RfqTransitions
    BY AwardAssumption
  <2>1. Good([pc |-> "rfq", move |-> t[2], to |-> t[3]])
    BY <2>0, RfqStatuses DEF CallState, Sound, OnOffer
  <2>. QED  BY <1>3, <2>1 DEF BeginTransitionRfq
<1>4. ASSUME NEW v \in Vendors, BeginOpen(k, v) \/ BeginDecline(k, v) \/ BeginCreateOffer(k, v)
      PROVE  \E c : Read(k, c) /\ Good(c)
  <2>1. \A pc \in {"open", "decline", "create"} : Good([pc |-> pc, v |-> v])
    BY DEF CallState, Sound, OnOffer
  <2>. QED  BY <1>4, <2>1 DEF BeginOpen, BeginDecline, BeginCreateOffer
<1>5. ASSUME NEW v \in Vendors, BeginSubmitOffer(k, v) \/ BeginWithdrawOffer(k, v)
      PROVE  \E c : Read(k, c) /\ Good(c)
  <2>1. offer[v] # NoOffer
    BY <1>5, AwardAssumption, OfferStatuses DEF NoOffer, BeginSubmitOffer, BeginWithdrawOffer
  <2>2. \A pc \in {"submit", "withdraw"} : Good([pc |-> pc, v |-> v])
    BY <2>1 DEF CallState, Sound, OnOffer
  <2>. QED  BY <1>5, <2>2 DEF BeginSubmitOffer, BeginWithdrawOffer
<1>6. ASSUME NEW v \in Vendors, BeginUpdateOfferDraft(k, v)
      PROVE  \E c : Read(k, c) /\ Good(c)
  <2>1. offer[v].status \in {"DRAFT", "REVISION_REQUESTED"} /\ offer[v].current < MaxVersion
    BY <1>6 DEF BeginUpdateOfferDraft
  <2>2. offer[v] \in [status : OfferStatus, current : 1 .. MaxVersion]
    BY <2>1, AwardAssumption, OfferStatuses DEF IInv, TablesOK, Offers, NoOffer
  <2>3. offer[v] \in [status : {"DRAFT", "REVISION_REQUESTED"}, current : 1 .. MaxVersion]
    BY <2>1, <2>2
  <2>4. Good([pc |-> "edit", v |-> v, seen |-> offer[v]])
    BY <2>1, <2>3 DEF CallState, Sound, OnOffer
  <2>. QED  BY <1>6, <2>4 DEF BeginUpdateOfferDraft
<1>7. ASSUME NEW v \in Vendors, BeginAccept(k, v)
      PROVE  \E c : Read(k, c) /\ Good(c)
  <2>1. offer[v] # NoOffer
    BY <1>7, AwardAssumption, OfferStatuses DEF NoOffer, BeginAccept, Reviewable
  <2>2. offer[v].current \in 1 .. MaxVersion
    BY <2>1, OfferFields DEF IInv, TablesOK
  <2>3. Good([pc |-> "accept", v |-> v, version |-> offer[v].current])
    BY <2>1, <2>2 DEF CallState, Sound, OnOffer
  <2>. QED  BY <1>7, <2>3 DEF BeginAccept
<1>8. ASSUME NEW v \in Vendors, NEW t \in OfferTransitions, BeginTransitionOffer(k, v, t)
      PROVE  \E c : Read(k, c) /\ Good(c)
  <2>1. offer[v] # NoOffer
    BY <1>8, OfferStatuses DEF NoOffer, BeginTransitionOffer
  <2>2. Good([pc |-> "review", v |-> v, to |-> t[3]])
    BY <2>1 DEF CallState, Sound, OnOffer
  <2>. QED  BY <1>8, <2>2 DEF BeginTransitionOffer
<1>. QED  BY <1>2, <1>3, <1>4, <1>5, <1>6, <1>7, <1>8

\* The rows are deleted when they have no offers.
LEMMA DeleteIInv ==
  ASSUME IInv, NEW k \in Calls, DeleteRecipients(k)
  PROVE  IInv' /\ Kept
<1>. DEFINE c == [pc |-> "deleted", S |-> calls[k].S, spared |-> {}]
<1>1. UNCHANGED tables
  BY DEF DeleteRecipients, tables
<1>2. CASE Goto(k, Idle)
  BY <1>1, <1>2, GotoIInv, IdleSound DEF Idle
<1>3. CASE Goto(k, c) /\ \A v \in Vendors : offer[v] = NoOffer
  <2>1. calls[k] \in CallState /\ calls[k].pc = "replace"
    BY DEF DeleteRecipients, At, IInv, CallsOK
  <2>2. calls[k].S \in Selections
    BY <2>1 DEF CallState, Idle
  <2>3. c \in CallState /\ Sound(c) /\ c.pc # "award"
    BY <1>3, <2>2 DEF CallState, Sound, OnOffer
  <2>. QED  BY <1>1, <1>3, <2>3, GotoIInv
<1>. QED  BY <1>2, <1>3 DEF DeleteRecipients

\* The rows that go have no offers, and what is read of the others stays true.
LEMMA InsertIInv ==
  ASSUME IInv, NEW k \in Calls, InsertRecipients(k)
  PROVE  IInv' /\ Kept
<1>. DEFINE S == calls[k].S
            spared == calls[k].spared
<1>1. calls[k] \in CallState /\ Sound(calls[k]) /\ calls[k].pc = "deleted"
  BY DEF InsertRecipients, At, IInv, CallsOK
<1>2. S \subseteq Vendors /\ spared \subseteq Vendors
  BY <1>1, CallFields
<1>3. UNCHANGED <<rfq, booking, detours>>
  BY DEF InsertRecipients
<1>4. offer' = offer
  <2>1. \A v \in Vendors \ spared : offer[v] = NoOffer
    BY <1>1 DEF Sound
  <2>. QED  BY <2>1 DEF InsertRecipients, IInv, TablesOK
<1>5. Quiet
  BY <1>3, <1>4, OffersSame
<1>6. TablesOK'
  <2>1. /\ recipient' \in [Vendors -> RecipientStatus \cup {None}]
        /\ delivery' \in [Vendors -> {None, "queued", "seen", "done"}]
    BY DEF InsertRecipients, IInv, TablesOK, RecipientStatus
  <2>. QED  BY <1>3, <1>4, <2>1 DEF IInv, TablesOK
<1>7. CASE Goto(k, Idle)
  BY <1>5, <1>6, <1>7, QuietIInv
<1>8. CASE calls' = [c \in Calls |-> AfterReplacement(k, c)]
  <2>1. ASSUME NEW c \in Calls
        PROVE  /\ calls'[c] \in CallState /\ Sound(calls'[c])
               /\ calls'[c].pc = "award" => calls'[c] = calls[c]
    <3>1. calls'[c] = AfterReplacement(k, c)
      BY <1>8
    <3>2. calls[c] \in CallState /\ Sound(calls[c])
      BY DEF IInv, CallsOK
    <3>3. CASE calls'[c] \in {Idle, calls[c]}
      BY <3>2, <3>3, IdleSound DEF Idle
    <3>4. CASE At(c, "deleted") /\ calls'[c] = [calls[c] EXCEPT !.spared = S \cup (@ \cap spared)]
      <4>. DEFINE d == [pc |-> "deleted", S |-> calls[c].S, spared |-> S \cup (calls[c].spared \cap spared)]
      <4>1. /\ calls[c] = [pc |-> "deleted", S |-> calls[c].S, spared |-> calls[c].spared]
            /\ calls[c].S \in Selections /\ calls[c].spared \subseteq Vendors
        BY <3>2, <3>4, CallFields DEF At
      <4>2. calls'[c] = d
        <5>1. ASSUME NEW r, NEW T, NEW p, r = [pc |-> "deleted", S |-> T, spared |-> p]
              PROVE  [r EXCEPT !.spared = S \cup (@ \cap spared)]
                     = [pc |-> "deleted", S |-> T, spared |-> S \cup (p \cap spared)]
          BY <5>1
        <5>. QED  BY <3>4, <4>1, <5>1
      <4>3. d \in CallState
        BY <1>2, <4>1 DEF CallState
      <4>4. \A v \in Vendors \ d.spared : offer[v] = NoOffer
        BY <1>1, <3>2, <3>4 DEF Sound, At
      <4>. QED  BY <4>2, <4>3, <4>4 DEF Sound, OnOffer
    <3>. QED  BY <3>1, <3>3, <3>4 DEF AfterReplacement
  <2>2. calls' \in [Calls -> CallState]
    BY <1>8, <2>1
  <2>3. \A c \in Calls : Sound(calls[c])'
    BY <1>3, <1>4, <2>1 DEF Sound
  <2>4. OneAward'
    BY <2>1 DEF OneAward, At, IInv, CallsOK
  <2>5. AwardIsBooked' /\ Kept
    BY <1>3, <1>4, <1>5 DEF IInv, AwardIsBooked, Kept, Quiet
  <2>. QED  BY <1>6, <2>2, <2>3, <2>4, <2>5 DEF IInv, CallsOK
<1>. QED  BY <1>7, <1>8 DEF InsertRecipients

\* The request's transitions, the vendors' answers to it, and the worker.
LEMMA RecipientIInv ==
  ASSUME IInv,
         \/ \E k \in Calls : TransitionRfq(k) \/ VendorRfqAction(k) \/ DropCall(k)
         \/ \E v \in Vendors : BeginDelivery(v) \/ Deliver(v) \/ Die(v) \/ FailDelivery(v)
  PROVE  IInv' /\ Kept
<1>. SUFFICES TablesOK' /\ Quiet /\ (calls' = calls \/ \E k \in Calls : Goto(k, Idle))
  BY QuietIInv
<1>. DEFINE Goal == TablesOK' /\ Quiet /\ (calls' = calls \/ \E k \in Calls : Goto(k, Idle))
<1>1. ASSUME NEW k \in Calls, TransitionRfq(k) PROVE Goal
  <2>1. calls[k].to \in RfqStatus
    BY <1>1, CallFields DEF TransitionRfq, At, IInv, CallsOK
  <2>2. rfq' = [rfq EXCEPT !.status = calls[k].to] /\ UNCHANGED <<offer, booking>>
    BY <1>1 DEF TransitionRfq
  <2>3. rfq' \in [status : RfqStatus, awarded : Vendors \cup {None}] /\ rfq'.awarded = rfq.awarded
    BY <2>1, <2>2 DEF IInv, TablesOK
  <2>4. /\ recipient' \in [Vendors -> RecipientStatus \cup {None}]
        /\ delivery' \in [Vendors -> {None, "queued", "seen", "done"}]
    BY <1>1 DEF TransitionRfq, IInv, TablesOK, RecipientStatus
  <2>5. detours' \in 0 .. MaxDetours
    BY <1>1, AwardAssumption DEF TransitionRfq, IInv, TablesOK
  <2>. QED  BY <1>1, <2>2, <2>3, <2>4, <2>5, OffersSame DEF TransitionRfq, IInv, TablesOK
<1>2. ASSUME NEW k \in Calls, VendorRfqAction(k) PROVE Goal
  <2>1. recipient' \in [Vendors -> RecipientStatus \cup {None}]
    BY <1>2 DEF VendorRfqAction, SetRecipient, IInv, TablesOK, RecipientStatus
  <2>. QED  BY <1>2, <2>1, OffersSame DEF VendorRfqAction, IInv, TablesOK
<1>3. ASSUME NEW k \in Calls, DropCall(k) PROVE Goal
  BY <1>3, OffersSame DEF DropCall, IInv, TablesOK
<1>4. ASSUME NEW v \in Vendors, BeginDelivery(v) \/ Deliver(v) \/ Die(v) \/ FailDelivery(v)
      PROVE  Goal
  <2>1. /\ recipient' \in [Vendors -> RecipientStatus \cup {None}]
        /\ delivery' \in [Vendors -> {None, "queued", "seen", "done"}]
    BY <1>4 DEF BeginDelivery, Deliver, Die, FailDelivery, SetRecipient, IInv, TablesOK, RecipientStatus
  <2>2. detours' \in 0 .. MaxDetours
    BY <1>4, AwardAssumption DEF BeginDelivery, Deliver, Die, FailDelivery, IInv, TablesOK
  <2>3. UNCHANGED <<rfq, offer, booking, calls>>
    BY <1>4 DEF BeginDelivery, Deliver, Die, FailDelivery
  <2>. QED  BY <2>1, <2>2, <2>3, OffersSame DEF IInv, TablesOK
<1>. QED  BY <1>1, <1>2, <1>3, <1>4

\* Drafts: a new offer has its first version, an edit the one after.
LEMMA DraftIInv ==
  ASSUME IInv, NEW k \in Calls, CreateOffer(k) \/ UpdateOfferDraft(k)
  PROVE  IInv' /\ Kept
<1>. DEFINE v == calls[k].v
<1>1. /\ Goto(k, Idle) /\ UNCHANGED <<rfq, recipient, booking, delivery, detours>>
  BY DEF CreateOffer, UpdateOfferDraft
<1>2. calls[k] \in CallState /\ Sound(calls[k]) /\ calls[k].pc \in {"create", "edit"}
  BY DEF CreateOffer, UpdateOfferDraft, At, IInv, CallsOK
<1>3. v \in Vendors
  BY <1>2, CallFields
<1>4. offer \in [Vendors -> Offers] /\ \A u \in Vendors : offer[u].current \in 0 .. MaxVersion
  BY OfferFields DEF IInv, TablesOK
<1>5. CASE UNCHANGED offer
  BY <1>1, <1>5, OffersSame, QuietIInv DEF IInv, TablesOK
<1>6. CASE /\ Unlocked(v) /\ offer[v].status = None
           /\ offer' = [offer EXCEPT ![v] = [status |-> "DRAFT", current |-> 1]]
  <2>1. [status |-> "DRAFT", current |-> 1] \in Offers /\ offer[v].current = 0
    BY <1>3, <1>4, <1>6, OfferFields, OfferStatuses, AwardAssumption DEF Offers
  <2>2. TablesOK'
    BY <1>1, <1>4, <1>6, <2>1 DEF IInv, TablesOK
  <2>3. Quiet
    BY <1>1, <1>3, <1>4, <1>6, <2>1 DEF Quiet
  <2>. QED  BY <1>1, <2>2, <2>3, QuietIInv
<1>7. CASE /\ calls[k].pc = "edit" /\ offer[v].current = calls[k].seen.current
           /\ \E status \in {"REVISED", "DRAFT"} :
                offer' = [offer EXCEPT ![v] =
                            [status |-> status, current |-> calls[k].seen.current + 1]]
  <2>1. calls[k].seen.current \in 1 .. MaxVersion /\ calls[k].seen.current < MaxVersion
    BY <1>2, <1>7, CallFields DEF Sound
  <2>2. \A status \in {"REVISED", "DRAFT"} :
          [status |-> status, current |-> calls[k].seen.current + 1] \in Offers
    BY <2>1, OfferStatuses, AwardAssumption DEF Offers
  <2>3. TablesOK'
    <3>1. PICK status \in {"REVISED", "DRAFT"} :
            offer' = [offer EXCEPT ![v] = [status |-> status, current |-> calls[k].seen.current + 1]]
      BY <1>7
    <3>2. offer' \in [Vendors -> Offers]
      BY <1>4, <2>2, <3>1
    <3>. QED  BY <1>1, <3>2 DEF IInv, TablesOK
  <2>4. Quiet
    <3>1. offer[v] # NoOffer
      BY <1>7, <2>1 DEF NoOffer
    <3>2. PICK status \in {"REVISED", "DRAFT"} :
            offer' = [offer EXCEPT ![v] = [status |-> status, current |-> calls[k].seen.current + 1]]
      BY <1>7
    <3>3. /\ offer'[v].current = offer[v].current + 1 /\ offer'[v].status # "ACCEPTED"
          /\ \A u \in Vendors \ {v} : offer'[u] = offer[u]
      BY <1>3, <1>4, <1>7, <3>2
    <3>. QED  BY <1>1, <1>3, <1>4, <3>1, <3>3 DEF Quiet
  <2>. QED  BY <1>1, <2>3, <2>4, QuietIInv
<1>8. CreateOffer(k) => UNCHANGED offer \/ /\ Unlocked(v) /\ offer[v].status = None
                                           /\ offer' = [offer EXCEPT ![v] = [status |-> "DRAFT", current |-> 1]]
  BY DEF CreateOffer
<1>. QED  BY <1>5, <1>6, <1>7, <1>8 DEF UpdateOfferDraft, At

\* Offers written by their id, whatever they have become since.
LEMMA StatusIInv ==
  ASSUME IInv, NEW k \in Calls, SubmitOffer(k) \/ WithdrawOffer(k) \/ TransitionOffer(k)
  PROVE  IInv' /\ Kept
<1>. DEFINE v == calls[k].v
<1>1. calls[k] \in CallState /\ Sound(calls[k]) /\ calls[k].pc \in {"counted", "withdraw", "review"}
  BY DEF SubmitOffer, WithdrawOffer, TransitionOffer, At, IInv, CallsOK
<1>2. v \in Vendors /\ offer[v] # NoOffer
  BY <1>1, CallFields DEF Sound, OnOffer
<1>3. PICK status \in OfferStatus \ ({"ACCEPTED"} \cup Drafts) : SetOffer(v, status)
  BY <1>1, CallFields, OfferStatuses DEF Drafts, SubmitOffer, WithdrawOffer, TransitionOffer, At
<1>4. Goto(k, Idle) /\ UNCHANGED <<booking, delivery, detours>>
  BY DEF SubmitOffer, WithdrawOffer, TransitionOffer
<1>5. /\ rfq' \in [status : RfqStatus, awarded : Vendors \cup {None}] /\ rfq'.awarded = rfq.awarded
      /\ recipient' \in [Vendors -> RecipientStatus \cup {None}]
  BY <1>1, CallFields, RfqStatuses DEF SubmitOffer, WithdrawOffer, TransitionOffer, At, SetRecipient,
     IInv, TablesOK, RecipientStatus
<1>6. TablesOK' /\ Quiet
  BY <1>2, <1>3, <1>4, <1>5, SetOfferQuiet DEF IInv, TablesOK, Quiet
<1>. QED  BY <1>4, <1>6, QuietIInv

LEMMA CountIInv ==
  ASSUME IInv, NEW k \in Calls, CountAnswers(k)
  PROVE  IInv' /\ Kept
<1>. DEFINE c == [pc |-> "counted", v |-> calls[k].v, answers |-> Answers(calls[k].v)]
<1>1. calls[k] \in CallState /\ Sound(calls[k]) /\ calls[k].pc = "submit"
  BY DEF CountAnswers, At, IInv, CallsOK
<1>2. calls[k].v \in Vendors /\ offer[calls[k].v] # NoOffer
  BY <1>1, CallFields DEF Sound, OnOffer
<1>3. c \in CallState /\ Sound(c) /\ c.pc # "award"
  BY <1>2 DEF CallState, Sound, OnOffer, Answers
<1>. HIDE DEF c
<1>4. Goto(k, c) /\ UNCHANGED tables
  BY DEF CountAnswers, c, tables
<1>. QED  BY <1>3, <1>4, GotoIInv

\* The lock is free, and the request is not awarded to another vendor.
LEMMA LockIInv ==
  ASSUME IInv, NEW k \in Calls, LockAward(k)
  PROVE  IInv' /\ Kept
<1>. DEFINE c == [calls[k] EXCEPT !.pc = "award"]
<1>0. UNCHANGED tables
  BY DEF LockAward, tables
<1>1. CASE Goto(k, Idle)
  BY <1>0, <1>1, GotoIInv, IdleSound DEF Idle
<1>2. CASE Goto(k, c) /\ Awardable(calls[k].v)
  <2>1. calls[k] \in CallState /\ Sound(calls[k]) /\ calls[k].pc = "accept"
    BY DEF LockAward, At, IInv, CallsOK
  <2>2. calls[k] \in [pc : {"accept", "award"}, v : Vendors, version : 1 .. MaxVersion]
    BY <2>1 DEF CallState, Idle
  <2>3. c = [pc |-> "award", v |-> calls[k].v, version |-> calls[k].version]
    BY <2>2
  <2>4. c \in CallState /\ Sound(c)
    BY <1>2, <2>1, <2>2, <2>3 DEF CallState, Sound, OnOffer, Awardable
  <2>5. TablesOK' /\ AwardIsBooked'
    BY <1>0 DEF IInv, TablesOK, AwardIsBooked, tables
  <2>6. calls' \in [Calls -> CallState] /\ \A j \in Calls : calls'[j] = IF j = k THEN c ELSE calls[j]
    BY <1>2, <2>4 DEF Goto, IInv, CallsOK
  <2>7. \A j \in Calls : Sound(calls'[j])
    BY <2>4, <2>6 DEF IInv, CallsOK
  <2>8. \A j \in Calls : Sound(calls[j])'
    BY <1>0, <2>7 DEF Sound, tables
  <2>9. OneAward'
    BY <2>6 DEF OneAward, At, LockAward
  <2>10. Kept
    BY <1>0, OfferFields, AwardAssumption DEF Kept, tables, IInv, TablesOK
  <2>. QED  BY <2>5, <2>6, <2>8, <2>9, <2>10 DEF IInv, CallsOK
<1>. QED  BY <1>1, <1>2 DEF LockAward

\* The holder of the lock writes; no other request is about to.
LEMMA AcceptIInv ==
  ASSUME IInv, NEW k \in Calls, AcceptOffer(k)
  PROVE  IInv' /\ Kept
<1>. DEFINE v == calls[k].v
            Losers == {u \in Vendors \ {v} : offer[u].status \in Competing}
<1>1. calls[k] \in CallState /\ Sound(calls[k]) /\ calls[k].pc = "award"
  BY DEF AcceptOffer, At, IInv, CallsOK
<1>2. /\ v \in Vendors /\ offer[v] # NoOffer /\ rfq.awarded \in {None, v}
      /\ calls[k].version \in 1 .. MaxVersion /\ calls[k].version <= offer[v].current
  BY <1>1, CallFields DEF Sound, OnOffer
<1>3. Goto(k, Idle) /\ UNCHANGED <<recipient, delivery, detours>>
  BY DEF AcceptOffer
<1>4. \A u \in Vendors : offer[u] \in Offers /\ offer[u].current \in 0 .. MaxVersion
  BY OfferFields DEF IInv, TablesOK
<1>5. CASE UNCHANGED <<booking, rfq, offer>>
  BY <1>3, <1>5, OffersSame, QuietIInv DEF IInv, TablesOK
<1>6. CASE /\ \A u \in Vendors \ {v} : offer[u].status # "ACCEPTED"
           /\ booking' = IF booking[v] = None THEN [booking EXCEPT ![v] = calls[k].version] ELSE booking
           /\ rfq' = [rfq EXCEPT !.awarded = v]
           /\ offer' = [u \in Vendors |->
                IF u = v THEN [offer[u] EXCEPT !.status = "ACCEPTED"]
                ELSE IF u \in Losers THEN [offer[u] EXCEPT !.status = "REJECTED"]
                ELSE offer[u]]
  <2>1. \A u \in Vendors : offer[u].status # None =>
          offer[u] \in [status : OfferStatus, current : 1 .. MaxVersion]
    BY <1>4 DEF Offers, NoOffer
  <2>2. offer[v] \in [status : OfferStatus, current : 1 .. MaxVersion]
    BY <1>2, <1>4 DEF Offers
  <2>3. \A u \in Losers : offer[u] \in [status : OfferStatus, current : 1 .. MaxVersion]
    BY <2>1, AwardAssumption, OfferStatuses DEF Competing
  <2>4. offer'[v] = [status |-> "ACCEPTED", current |-> offer[v].current]
    <3>1. offer'[v] = [offer[v] EXCEPT !.status = "ACCEPTED"]
      BY <1>2, <1>6
    <3>. QED  BY <2>2, <3>1
  <2>5. ASSUME NEW u \in Vendors, u # v
        PROVE  /\ offer'[u] \in Offers /\ offer'[u].current = offer[u].current
               /\ offer'[u].status # "ACCEPTED"
    <3>1. CASE u \in Losers
      <4>1. offer'[u] = [offer[u] EXCEPT !.status = "REJECTED"]
        BY <1>6, <2>5, <3>1
      <4>2. offer'[u] = [status |-> "REJECTED", current |-> offer[u].current]
        BY <2>3, <3>1, <4>1
      <4>. QED  BY <2>3, <3>1, <4>2, OfferStatuses DEF Offers
    <3>2. CASE u \notin Losers
      BY <1>4, <1>6, <2>5, <3>2
    <3>. QED  BY <3>1, <3>2
  <2>6. /\ offer' \in [Vendors -> Offers]
        /\ \A u \in Vendors : offer'[u].current = offer[u].current
    <3>1. offer'[v] \in Offers /\ offer'[v].current = offer[v].current
      BY <2>2, <2>4, OfferStatuses DEF Offers
    <3>2. \A u \in Vendors : offer'[u] \in Offers /\ offer'[u].current = offer[u].current
      BY <2>5, <3>1
    <3>. QED  BY <1>6, <3>2
  <2>7. \A u \in Vendors : offer'[u].status = "ACCEPTED" => u = v
    BY <2>5
  <2>8. rfq' \in [status : RfqStatus, awarded : Vendors \cup {None}] /\ rfq'.awarded = v
    BY <1>2, <1>6 DEF IInv, TablesOK
  <2>9. booking' \in [Vendors -> 1 .. MaxVersion \cup {None}]
    BY <1>2, <1>6 DEF IInv, TablesOK
  <2>10. \A u \in Vendors : u # v => booking[u] = None /\ booking'[u] = None
    BY <1>2, <1>6, AwardAssumption DEF IInv, TablesOK, AwardIsBooked
  <2>11. /\ booking'[v] \in 1 .. MaxVersion /\ booking'[v] <= offer[v].current
         /\ booking[v] # None => booking'[v] = booking[v]
    BY <1>2, <1>6 DEF IInv, TablesOK, AwardIsBooked
  <2>12. AwardIsBooked'
    BY <1>2, <2>6, <2>7, <2>8, <2>10, <2>11, AwardAssumption DEF AwardIsBooked
  <2>13. TablesOK'
    BY <1>3, <2>6, <2>8, <2>9 DEF IInv, TablesOK
  <2>14. calls' \in [Calls -> CallState] /\ \A j \in Calls : calls'[j] = IF j = k THEN Idle ELSE calls[j]
    BY <1>3, IdleSound DEF Goto, IInv, CallsOK
  <2>15. \A j \in Calls : calls'[j].pc # "award"
    BY <1>1, <2>14 DEF Idle, IInv, CallsOK, OneAward, At
  <2>16. ASSUME NEW j \in Calls PROVE Sound(calls[j])'
    <3>1. CASE j = k
      BY <2>14, <3>1 DEF Sound, Idle, OnOffer
    <3>2. CASE j # k
      <4>1. calls'[j] = calls[j] /\ calls[j] \in CallState /\ Sound(calls[j])
        BY <2>14, <3>2 DEF IInv, CallsOK
      <4>2. calls[j].pc \in OnOffer => calls[j].v \in Vendors
        BY <4>1, CallFields
      <4>3. \A u \in Vendors : offer[u] = NoOffer <=> offer'[u] = NoOffer
        BY <1>4, <2>6, OfferFields, AwardAssumption
      <4>. QED  BY <2>6, <2>15, <4>1, <4>2, <4>3 DEF Sound, OnOffer
    <3>. QED  BY <3>1, <3>2
  <2>17. OneAward'
    BY <2>15 DEF OneAward, At
  <2>18. \A u \in Vendors : offer'[u] # offer[u] => offer'[u].status \notin Drafts
    <3>1. offer'[v].status = "ACCEPTED"
      BY <2>4
    <3>2. \A u \in Losers : offer'[u].status = "REJECTED"
      BY <1>6, <2>3
    <3>3. \A u \in Vendors \ {v} : u \notin Losers => offer'[u] = offer[u]
      BY <1>6
    <3>. QED  BY <3>1, <3>2, <3>3 DEF Drafts
  <2>19. Kept
    BY <1>2, <1>4, <2>6, <2>8, <2>10, <2>11, <2>18 DEF Kept
  <2>. QED  BY <2>12, <2>13, <2>14, <2>16, <2>17, <2>19 DEF IInv, CallsOK
<1>. QED  BY <1>5, <1>6 DEF AcceptOffer

-----------------------------------------------------------------------------
(* The theorems.                                                            *)

LEMMA InitIInv == Init => IInv
<1>. SUFFICES ASSUME Init PROVE IInv
  OBVIOUS
<1>1. TablesOK
  BY RfqStatuses, AwardAssumption DEF Init, TablesOK, Offers
<1>2. AwardIsBooked
  BY AwardAssumption, OfferStatuses DEF Init, AwardIsBooked, NoOffer
<1>3. CallsOK
  BY IdleSound DEF Init, CallsOK, OneAward, At, Idle
<1>. QED  BY <1>1, <1>2, <1>3 DEF IInv

LEMMA NextIInv == IInv /\ [Next]_vars => IInv' /\ Kept
<1>. SUFFICES ASSUME IInv, [Next]_vars PROVE IInv' /\ Kept
  OBVIOUS
<1>1. CASE UNCHANGED vars
  <2>1. TablesOK'
    BY <1>1 DEF vars, IInv, TablesOK
  <2>. QED  BY <1>1, <2>1, OffersSame, QuietIInv DEF vars
<1>2. ASSUME NEW k \in Calls,
             \/ TransitionRfq(k) \/ VendorRfqAction(k) \/ CreateOffer(k) \/ UpdateOfferDraft(k)
             \/ CountAnswers(k) \/ SubmitOffer(k) \/ WithdrawOffer(k) \/ TransitionOffer(k)
             \/ LockAward(k) \/ AcceptOffer(k) \/ DropCall(k)
      PROVE  IInv' /\ Kept
  BY <1>2, RecipientIInv, DraftIInv, CountIInv, StatusIInv, LockIInv, AcceptIInv
<1>. QED  BY <1>1, <1>2, ReadIInv, DeleteIInv, InsertIInv, RecipientIInv DEF Next

\* The inductive invariant holds in every reachable state.
THEOREM Invariance == Spec => []IInv
<1>. QED  BY InitIInv, NextIInv, PTL DEF Spec

\* Columns and requests keep their types, for every instance.
THEOREM TypeCorrect == Spec => []TypeOK
<1>. QED  BY Invariance, IInvTypeOK, PTL

\* The vendor the request is awarded to is the one with a booking, of a version
\* its offer has, and no other offer is ACCEPTED.
THEOREM AwardIsBookedHolds == Spec => []AwardIsBooked
<1>1. IInv => AwardIsBooked
  BY DEF IInv
<1>. QED  BY <1>1, Invariance, PTL

\* An award and the version that was booked are final.
THEOREM AwardFinalHolds == Spec => AwardFinal
<1>1. IInv /\ [Next]_vars
      => [/\ rfq.awarded # None => rfq'.awarded = rfq.awarded
          /\ \A v \in Vendors : booking[v] # None => booking'[v] = booking[v]]_vars
  BY NextIInv DEF Kept
<1>. QED  BY <1>1, Invariance, PTL DEF Spec, AwardFinal

\* No version of an offer is lost, and none is written over by another edit.
THEOREM VersionsKeptHolds == Spec => VersionsKept
<1>1. IInv /\ [Next]_vars
      => [\A v \in Vendors :
            /\ offer'[v].current >= offer[v].current
            /\ offer'[v] # offer[v] /\ offer'[v].status \in {"DRAFT", "REVISED"}
                 => offer'[v].current > offer[v].current]_vars
  BY NextIInv DEF Kept, Drafts
<1>. QED  BY <1>1, Invariance, PTL DEF Spec, VersionsKept

==============================================================================
