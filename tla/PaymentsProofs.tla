---------------------------- MODULE PaymentsProofs ----------------------------
(***************************************************************************)
(* Proofs about Payments: the columns keep their types and amounts their   *)
(* range, the ledger holds only what happened at the provider, and all     *)
(* that the transactions and refunds show is in it, for any number of      *)
(* checkouts, refunds, API calls and webhook requests.                     *)
(***************************************************************************)
EXTENDS Payments, FiniteSums

\* What is under way agrees with the provider: an event was sent, the answer of
\* a refund was given, a page is hosted for a checkout that exists.
UnderWay ==
  /\ \A c \in Checkouts : checkout[c].hosted => checkout[c].status # None
  /\ \A h \in Hooks : hooks[h] # None =>
       /\ checkout[hooks[h].event.c].status # None
       /\ hooks[h].event.type = "captured" => payment[hooks[h].event.c] = "CAPTURED"
  /\ \A k \in Calls :
       /\ At(k, "answered") /\ calls[k].answer = "SUCCEEDED" => returned[calls[k].r] = "SUCCEEDED"
       /\ At(k, "completing") => returned[calls[k].r] = "SUCCEEDED"

\* A transaction as a webhook read it claims no more than the table does.
ReadIsRecorded ==
  \A h \in Hooks : hooks[h] # None /\ hooks[h].seen.captured > 0 =>
    LET c == hooks[h].event.c IN c \in ledger /\ hooks[h].seen.captured = checkout[c].amount

\* Only a checkout that exists has a record.
RecordedExists == \A c \in ledger \cap Checkouts : checkout[c].status # None

IInv ==
  /\ TypeOK
  /\ UnderWay /\ ReadIsRecorded /\ RecordedExists
  /\ RecordsHappened /\ CapturedIsRecorded /\ SucceededIsRecorded

-----------------------------------------------------------------------------
(* Initially and step by step.                                              *)

LEMMA InitIInv == Init => IInv
<1>. SUFFICES ASSUME Init PROVE IInv
  OBVIOUS
<1>1. Price \in Nat /\ 0 \in 0 .. Price
  BY DataAssumption
<1>2. /\ checkout \in [Checkouts -> [status : {None} \cup CheckoutStatus, hosted : BOOLEAN,
                                     amount : 0 .. Price]]
      /\ trx \in [Checkouts -> Transactions]
      /\ refund \in [Refunds -> [status : {None} \cup Reserving, amount : 0 .. Price]]
  BY <1>1 DEF Init, NoTrx, Transactions
<1>3. calls \in [Calls -> CallStates] /\ \A k \in Calls : calls[k].pc = "idle"
  BY DEF Init, CallStates, Idle
<1>4. TypeOK
  BY <1>2, <1>3 DEF Init, TypeOK
<1>5. UnderWay /\ ReadIsRecorded /\ RecordedExists /\ RecordsHappened
  BY <1>3 DEF Init, UnderWay, ReadIsRecorded, RecordedExists, RecordsHappened, At
<1>6. CapturedIsRecorded /\ SucceededIsRecorded
  BY NoneAssumption DEF Init, CapturedIsRecorded, SucceededIsRecorded, NoTrx, Reserving
<1>. QED  BY <1>4, <1>5, <1>6 DEF IInv

\* What happens at the provider: a captured payment stays captured.
LEMMA ProviderIInv ==
  ASSUME IInv, NEW c \in Checkouts, Pay(c) \/ Lapse(c) \/ Dispute(c)
  PROVE  IInv'
<1>. USE DEF IInv
<1>1. UNCHANGED <<tables, calls, hooks, returned>>
  BY DEF Pay, Lapse, Dispute
<1>2. payment' \in [Checkouts -> {None} \cup AtProvider]
  BY DEF Pay, Lapse, Dispute, TypeOK, AtProvider
<1>3. dispute' \in [Checkouts -> {None, "disputed", "dispute_won", "dispute_lost"}]
  BY DEF Pay, Lapse, Dispute, TypeOK
<1>4. \A d \in Checkouts : payment[d] = "CAPTURED" => payment'[d] = "CAPTURED"
  BY DEF Pay, Lapse, Dispute, TypeOK
<1>5. TypeOK'
  BY <1>1, <1>2, <1>3 DEF TypeOK, tables
<1>6. UnderWay'
  BY <1>1, <1>4 DEF UnderWay, tables, At, TypeOK, Events
<1>7. RecordsHappened'
  BY <1>1, <1>4 DEF RecordsHappened, tables, TypeOK
<1>. QED
  BY <1>1, <1>5, <1>6, <1>7 DEF tables, ReadIsRecorded, RecordedExists, CapturedIsRecorded, SucceededIsRecorded

\* Steps of an API call that change neither what it may rely on nor the
\* tables the properties relate.
LEMMA CallIInv ==
  ASSUME IInv, NEW k \in Calls, NEW state \in CallStates, Goto(k, state),
         state.pc = "answered" /\ state.answer = "SUCCEEDED" => returned'[state.r] = "SUCCEEDED",
         state.pc = "completing" => returned[state.r] = "SUCCEEDED",
         UNCHANGED <<trx, ledger, inbox, hooks, dispute>>,
         payment' \in [Checkouts -> {None} \cup AtProvider],
         \A c \in Checkouts : payment[c] = "CAPTURED" => payment'[c] = "CAPTURED",
         returned' \in [Refunds -> {None, "PROCESSING", "SUCCEEDED"}],
         \A r \in Refunds : returned[r] = "SUCCEEDED" => returned'[r] = "SUCCEEDED",
         checkout' \in [Checkouts -> [status : {None} \cup CheckoutStatus, hosted : BOOLEAN,
                                      amount : 0 .. Price]],
         \A c \in Checkouts :
           /\ checkout'[c].hosted => checkout'[c].status # None
           /\ checkout[c].status # None => /\ checkout'[c].status # None
                                           /\ checkout'[c].amount = checkout[c].amount,
         refund' \in [Refunds -> [status : {None} \cup Reserving, amount : 0 .. Price]],
         \A r \in Refunds : refund'[r].status = "SUCCEEDED" => refund[r].status = "SUCCEEDED"
  PROVE  IInv'
<1>. USE DEF IInv
<1>1. calls' = [calls EXCEPT ![k] = state] /\ calls' \in [Calls -> CallStates]
  BY DEF Goto, TypeOK
<1>2. TypeOK'
  BY <1>1 DEF TypeOK
<1>3. UnderWay'
  <2>1. \A j \in Calls :
          /\ At(j, "answered")' /\ calls'[j].answer = "SUCCEEDED" => returned'[calls'[j].r] = "SUCCEEDED"
          /\ At(j, "completing")' => returned'[calls'[j].r] = "SUCCEEDED"
    <3>. SUFFICES ASSUME NEW j \in Calls
                  PROVE  /\ At(j, "answered")' /\ calls'[j].answer = "SUCCEEDED"
                              => returned'[calls'[j].r] = "SUCCEEDED"
                         /\ At(j, "completing")' => returned'[calls'[j].r] = "SUCCEEDED"
      OBVIOUS
    <3>1. CASE j = k
      <4>1. calls'[j] = state
        BY <1>1, <3>1 DEF TypeOK
      <4>2. state.pc = "completing" => state.r \in Refunds
        BY DEF CallStates, Idle
      <4>. QED  BY <4>1, <4>2 DEF At
    <3>2. CASE j # k
      <4>1. calls'[j] = calls[j] /\ calls[j] \in CallStates
        BY <1>1, <3>2 DEF TypeOK
      <4>2. calls[j].pc \in {"answered", "completing"} => calls[j].r \in Refunds
        BY <4>1 DEF CallStates, Idle
      <4>. QED  BY <4>1, <4>2 DEF At, UnderWay
    <3>. QED  BY <3>1, <3>2
  <2>2. \A h \in Hooks : hooks[h] # None => hooks[h].event.c \in Checkouts
    BY DEF TypeOK, Events
  <2>. QED  BY <2>1, <2>2 DEF UnderWay
<1>4. ReadIsRecorded'
  BY DEF ReadIsRecorded, UnderWay, TypeOK, Events
<1>5. RecordedExists'
  BY DEF RecordedExists
<1>6. RecordsHappened'
  BY DataAssumption DEF RecordsHappened
<1>7. CapturedIsRecorded'
  BY DEF CapturedIsRecorded, RecordedExists
<1>8. SucceededIsRecorded'
  BY DEF SucceededIsRecorded
<1>. QED  BY <1>2, <1>3, <1>4, <1>5, <1>6, <1>7, <1>8

-----------------------------------------------------------------------------
(* The API's calls, one lemma for those whose every step is a call's own.   *)

LEMMA CheckoutIInv ==
  ASSUME IInv, NEW k \in Calls, NEW c \in Checkouts,
         \/ RequestCheckout(k, c) \/ RequestExpiry(k, c)
         \/ InsertCheckout(k) \/ Host(k) \/ OpenCheckout(k)
         \/ ExpireHosted(k) \/ SaveExpiry(k)
  PROVE  IInv'
<1>. USE DEF IInv
<1>1. calls[k] \in CallStates
  BY DEF TypeOK
<1>2. CASE RequestCheckout(k, c)
  <2>1. PICK state \in CallStates :
          state.pc \in {"host", "insert"} /\ Goto(k, state)
    BY <1>2 DEF RequestCheckout, CallStates
  <2>. QED
    BY <1>2, <2>1, CallIInv DEF RequestCheckout, tables, provider, UnderWay, TypeOK
<1>3. CASE RequestExpiry(k, c)
  <2>. DEFINE state == [pc |-> "expire", c |-> c]
  <2>1. state \in CallStates
    BY DEF CallStates
  <2>. QED
    BY <1>3, <2>1, CallIInv DEF RequestExpiry, tables, provider, UnderWay, TypeOK
<1>4. CASE InsertCheckout(k)
  <2>1. calls[k].c \in Checkouts /\ calls[k].amount \in Amounts
    BY <1>1, <1>4 DEF InsertCheckout, At, CallStates, Idle
  <2>2. PICK state \in CallStates : state.pc \in {"idle", "host"} /\ Goto(k, state)
    BY <1>4, <2>1 DEF InsertCheckout, CallStates, Idle
  <2>3. /\ checkout' \in [Checkouts -> [status : {None} \cup CheckoutStatus, hosted : BOOLEAN,
                                        amount : 0 .. Price]]
        /\ \A d \in Checkouts :
             /\ checkout'[d].hosted => checkout'[d].status # None
             /\ checkout[d].status # None => /\ checkout'[d].status # None
                                             /\ checkout'[d].amount = checkout[d].amount
    <3>1. CASE UNCHANGED checkout
      BY <3>1 DEF TypeOK, UnderWay
    <3>2. CASE /\ checkout[calls[k].c].status = None
               /\ checkout' = [checkout EXCEPT ![calls[k].c] =
                    [status |-> "CREATING", hosted |-> FALSE, amount |-> calls[k].amount]]
      <4>1. calls[k].amount \in 0 .. Price
        BY <2>1, DataAssumption DEF Amounts
      <4>2. \A d \in Checkouts : d # calls[k].c => checkout'[d] = checkout[d]
        BY <3>2 DEF TypeOK
      <4>3. checkout'[calls[k].c] = [status |-> "CREATING", hosted |-> FALSE, amount |-> calls[k].amount]
        BY <2>1, <3>2 DEF TypeOK
      <4>4. checkout' \in [Checkouts -> [status : {None} \cup CheckoutStatus, hosted : BOOLEAN,
                                         amount : 0 .. Price]]
        BY <2>1, <3>2, <4>1 DEF TypeOK, CheckoutStatus, Active
      <4>. QED  BY <3>2, <4>2, <4>3, <4>4 DEF UnderWay
    <3>. QED  BY <1>4, <3>1, <3>2 DEF InsertCheckout
  <2>. QED
    BY <1>4, <2>2, <2>3, CallIInv DEF InsertCheckout, tables, provider, TypeOK
<1>5. CASE Host(k)
  <2>1. calls[k].c \in Checkouts /\ [calls[k] EXCEPT !.pc = "open"] \in CallStates
    BY <1>1, <1>5 DEF Host, At, CallStates, Idle
  <2>2. [calls[k] EXCEPT !.pc = "open"].pc = "open"
    BY <1>1, <1>5 DEF Host, At, CallStates, Idle
  <2>3. payment' \in [Checkouts -> {None} \cup AtProvider]
    BY <1>5, <2>1 DEF Host, TypeOK, AtProvider
  <2>4. \A d \in Checkouts : payment[d] = "CAPTURED" => payment'[d] = "CAPTURED"
    BY <1>5, NoneAssumption DEF Host, TypeOK, AtProvider
  <2>. QED
    BY <1>5, <2>1, <2>2, <2>3, <2>4, CallIInv DEF Host, tables, provider, UnderWay, TypeOK
<1>6. CASE OpenCheckout(k) \/ SaveExpiry(k)
  <2>1. calls[k].c \in Checkouts /\ Idle \in CallStates /\ Idle.pc = "idle"
    BY <1>1, <1>6 DEF OpenCheckout, SaveExpiry, At, CallStates, Idle
  <2>2. /\ checkout' \in [Checkouts -> [status : {None} \cup CheckoutStatus, hosted : BOOLEAN,
                                        amount : 0 .. Price]]
        /\ \A d \in Checkouts :
             /\ checkout'[d].hosted => checkout'[d].status # None
             /\ checkout[d].status # None => /\ checkout'[d].status # None
                                             /\ checkout'[d].amount = checkout[d].amount
    <3>1. CASE UNCHANGED checkout
      BY <3>1 DEF TypeOK, UnderWay
    <3>2. CASE checkout' = [checkout EXCEPT ![calls[k].c].status = "OPEN", ![calls[k].c].hosted = TRUE]
      BY <2>1, <3>2, NoneAssumption DEF TypeOK, UnderWay, CheckoutStatus, Active
    <3>3. CASE checkout' = [checkout EXCEPT ![calls[k].c].status = "EXPIRED"]
      BY <2>1, <3>3, NoneAssumption DEF TypeOK, UnderWay, CheckoutStatus
    <3>. QED  BY <1>6, <3>1, <3>2, <3>3 DEF OpenCheckout, SaveExpiry, SetCheckout
  <2>. QED
    BY <1>6, <2>1, <2>2, CallIInv DEF OpenCheckout, SaveExpiry, tables, provider, TypeOK
<1>7. CASE ExpireHosted(k)
  <2>1. calls[k].c \in Checkouts
    BY <1>1, <1>7 DEF ExpireHosted, At, CallStates, Idle
  <2>2. PICK state \in CallStates : state.pc \in {"idle", "expired"} /\ Goto(k, state)
    BY <1>7, <2>1 DEF ExpireHosted, CallStates, Idle
  <2>3. payment' \in [Checkouts -> {None} \cup AtProvider]
    BY <1>7, <2>1 DEF ExpireHosted, TypeOK, AtProvider
  <2>4. \A d \in Checkouts : payment[d] = "CAPTURED" => payment'[d] = "CAPTURED"
    BY <1>7 DEF ExpireHosted, TypeOK
  <2>. QED
    BY <1>7, <2>2, <2>3, <2>4, CallIInv DEF ExpireHosted, tables, provider, UnderWay, TypeOK
<1>. QED  BY <1>2, <1>3, <1>4, <1>5, <1>6, <1>7

LEMMA RefundIInv ==
  ASSUME IInv, NEW k \in Calls, NEW r \in Refunds,
         RequestRefund(k, r) \/ CallRefund(k) \/ BeginCompletion(k)
  PROVE  IInv'
<1>. USE DEF IInv
<1>1. calls[k] \in CallStates
  BY DEF TypeOK
<1>2. CASE RequestRefund(k, r)
  <2>1. [pc |-> "call", r |-> r] \in CallStates
    BY DEF CallStates
  <2>2. /\ refund' \in [Refunds -> [status : {None} \cup Reserving, amount : 0 .. Price]]
        /\ \A s \in Refunds : refund'[s].status = "SUCCEEDED" => refund[s].status = "SUCCEEDED"
    <3>1. CASE UNCHANGED refund
      BY <3>1 DEF TypeOK
    <3>2. CASE \E amount \in Amounts :
                 refund' = [refund EXCEPT ![r] = [status |-> "REQUESTED", amount |-> amount]]
      <4>1. PICK amount \in Amounts :
              refund' = [refund EXCEPT ![r] = [status |-> "REQUESTED", amount |-> amount]]
        BY <3>2
      <4>2. amount \in 0 .. Price
        BY DataAssumption DEF Amounts
      <4>. QED  BY <4>1, <4>2 DEF TypeOK, Reserving
    <3>. QED  BY <1>2, <3>1, <3>2 DEF RequestRefund
  <2>. QED
    BY <1>2, <2>1, <2>2, CallIInv DEF RequestRefund, tables, provider, UnderWay, TypeOK
<1>3. CASE CallRefund(k)
  <2>1. calls[k].r \in Refunds
    BY <1>1, <1>3 DEF CallRefund, At, CallStates, Idle
  <2>2. PICK answer \in {"PROCESSING", "SUCCEEDED"} :
          /\ returned[calls[k].r] = "SUCCEEDED" => answer = "SUCCEEDED"
          /\ returned' = [returned EXCEPT ![calls[k].r] = answer]
          /\ Goto(k, [pc |-> "answered", r |-> calls[k].r, answer |-> answer])
    BY <1>3 DEF CallRefund
  <2>3. [pc |-> "answered", r |-> calls[k].r, answer |-> answer] \in CallStates
    BY <2>1 DEF CallStates
  <2>4. /\ returned' \in [Refunds -> {None, "PROCESSING", "SUCCEEDED"}]
        /\ \A s \in Refunds : returned[s] = "SUCCEEDED" => returned'[s] = "SUCCEEDED"
        /\ answer = "SUCCEEDED" => returned'[calls[k].r] = "SUCCEEDED"
    BY <2>1, <2>2 DEF TypeOK
  <2>. QED
    BY <1>3, <2>2, <2>3, <2>4, CallIInv DEF CallRefund, tables, UnderWay, TypeOK
<1>4. CASE BeginCompletion(k)
  <2>1. /\ calls[k].r \in Refunds /\ calls[k].answer \in {"PROCESSING", "SUCCEEDED"}
        /\ calls[k].answer # "PROCESSING" => returned[calls[k].r] = "SUCCEEDED"
    BY <1>1, <1>4 DEF BeginCompletion, At, CallStates, Idle, UnderWay
  <2>2. CASE calls[k].answer = "PROCESSING"
    <3>1. /\ refund' = [refund EXCEPT ![calls[k].r].status = "PROCESSING"]
          /\ Goto(k, Idle) /\ Idle \in CallStates /\ Idle.pc = "idle"
      BY <1>4, <2>2 DEF BeginCompletion, CallStates, Idle
    <3>2. /\ refund' \in [Refunds -> [status : {None} \cup Reserving, amount : 0 .. Price]]
          /\ \A s \in Refunds : refund'[s].status = "SUCCEEDED" => refund[s].status = "SUCCEEDED"
      BY <2>1, <3>1 DEF TypeOK, Reserving
    <3>. QED
      BY <1>4, <3>1, <3>2, CallIInv DEF BeginCompletion, tables, provider, UnderWay, TypeOK
  <2>3. CASE calls[k].answer # "PROCESSING"
    <3>. DEFINE state == [pc |-> "completing", r |-> calls[k].r, seen |-> trx[PaymentOf[calls[k].r]]]
    <3>1. Goto(k, state) /\ UNCHANGED refund
      BY <1>4, <2>3 DEF BeginCompletion
    <3>2. state \in CallStates
      BY <2>1, DataAssumption DEF CallStates, TypeOK
    <3>3. state.pc = "completing" /\ state.r = calls[k].r
      OBVIOUS
    <3>. HIDE DEF state
    <3>. QED
      BY <1>4, <2>1, <2>3, <3>1, <3>2, <3>3, CallIInv DEF BeginCompletion, tables, provider, UnderWay, TypeOK
  <2>. QED  BY <2>2, <2>3
<1>. QED  BY <1>2, <1>3, <1>4

-----------------------------------------------------------------------------
(* The steps that write the ledger.                                         *)

\* A refund completes: the provider has succeeded, and what the refund adds is
\* within what the transaction captured.
LEMMA FinishIInv ==
  ASSUME IInv, NEW k \in Calls, FinishRefund(k)
  PROVE  IInv'
<1>. USE DEF IInv
<1>. DEFINE r == calls[k].r
            c == PaymentOf[r]
            seen == calls[k].seen
            total == seen.refunded + refund[r].amount
<1>1. calls[k] \in CallStates /\ r \in Refunds /\ seen \in Transactions
  BY DEF FinishRefund, At, CallStates, Idle, TypeOK
<1>2. c \in Checkouts /\ returned[r] = "SUCCEEDED"
  BY <1>1, DataAssumption DEF FinishRefund, UnderWay, TypeOK
<1>3. Goto(k, Idle) /\ Idle \in CallStates /\ Idle.pc = "idle"
  BY DEF FinishRefund, CallStates, Idle
<1>4. UNCHANGED <<checkout, inbox, hooks, payment, dispute, returned>>
  BY DEF FinishRefund, provider
<1>5. CASE UNCHANGED <<trx, refund, ledger>>
  BY <1>3, <1>4, <1>5, CallIInv DEF UnderWay, TypeOK
<1>6. CASE /\ total <= seen.captured /\ c \in ledger
           /\ refund' = [refund EXCEPT ![r].status = "SUCCEEDED"]
           /\ trx' = [trx EXCEPT ![c].refunded = total,
                                 ![c].status = IF total = seen.captured THEN "REFUNDED"
                                               ELSE "PARTIALLY_REFUNDED"]
           /\ ledger' = ledger \cup {r}
  <2>1. total \in 0 .. Price
    BY <1>1, <1>6, DataAssumption DEF TypeOK, Transactions
  <2>. HIDE DEF r, c, seen, total
  <2>2. /\ trx' \in [Checkouts -> Transactions]
        /\ \A d \in Checkouts : trx'[d].captured = trx[d].captured
    <3>1. PICK status \in Status :
            trx' = [trx EXCEPT ![c].refunded = total, ![c].status = status]
      BY <1>6 DEF Status
    <3>2. trx \in [Checkouts -> [status : {None} \cup Status, captured : 0 .. Price,
                                 refunded : 0 .. Price]]
      BY DEF TypeOK, Transactions
    <3>3. /\ trx' \in [Checkouts -> [status : {None} \cup Status, captured : 0 .. Price,
                                     refunded : 0 .. Price]]
          /\ \A d \in Checkouts : trx'[d].captured = trx[d].captured
      BY <1>2, <2>1, <3>1, <3>2
    <3>. QED  BY <3>3 DEF Transactions
  <2>3. refund' \in [Refunds -> [status : {None} \cup Reserving, amount : 0 .. Price]]
    BY <1>1, <1>6 DEF TypeOK, Reserving
  <2>4. calls' = [calls EXCEPT ![k] = Idle] /\ calls' \in [Calls -> CallStates]
    BY <1>3 DEF Goto, TypeOK
  <2>5. TypeOK'
    BY <1>1, <1>4, <1>6, <2>2, <2>3, <2>4 DEF TypeOK
  <2>6. \A j \in Calls : j # k => calls'[j] = calls[j]
    BY <2>4 DEF TypeOK
  <2>7. calls'[k].pc = "idle"
    BY <1>3, <2>4 DEF TypeOK
  <2>8. UnderWay'
    BY <1>4, <2>6, <2>7 DEF UnderWay, At
  <2>9. ReadIsRecorded' /\ RecordedExists'
    BY <1>1, <1>4, <1>6, DataAssumption DEF ReadIsRecorded, RecordedExists
  <2>10. RecordsHappened'
    BY <1>1, <1>2, <1>4, <1>6, DataAssumption DEF RecordsHappened, c
  <2>11. CapturedIsRecorded'
    BY <1>4, <1>6, <2>2 DEF CapturedIsRecorded
  <2>12. SucceededIsRecorded'
    BY <1>1, <1>6 DEF SucceededIsRecorded, TypeOK
  <2>. QED  BY <2>5, <2>8, <2>9, <2>10, <2>11, <2>12
<1>7. total <= seen.captured \/ total > seen.captured
  BY <1>1, DataAssumption DEF TypeOK, Transactions
<1>. QED  BY <1>5, <1>6, <1>7 DEF FinishRefund

\* A webhook request begins or dies.
LEMMA HookIInv ==
  ASSUME IInv, NEW h \in Hooks,
         (\E e \in Sent : Receive(h, e)) \/ DropHook(h)
  PROVE  IInv'
<1>. USE DEF IInv
<1>1. UNCHANGED <<tables, calls, provider>>
  BY DEF Receive, DropHook
<1>2. CASE DropHook(h)
  <2>1. \A i \in Hooks : hooks'[i] # None => hooks'[i] = hooks[i]
    BY <1>2 DEF DropHook, TypeOK
  <2>2. hooks' \in [Hooks -> {None} \cup [event : Events, seen : Transactions]]
    BY <1>2 DEF DropHook, TypeOK
  <2>3. TypeOK'
    BY <1>1, <2>2 DEF TypeOK, tables, provider
  <2>4. UnderWay' /\ ReadIsRecorded'
    BY <1>1, <2>1 DEF UnderWay, ReadIsRecorded, At, tables, provider
  <2>. QED
    BY <1>1, <2>3, <2>4
    DEF tables, provider, RecordedExists, RecordsHappened, CapturedIsRecorded, SucceededIsRecorded
<1>3. ASSUME NEW e \in Sent, Receive(h, e)
      PROVE  IInv'
  <2>1. e \in Events /\ (e.type = "captured" => payment[e.c] = "CAPTURED")
    BY <1>3 DEF Sent, Receive, Events, TypeOK
  <2>2. checkout[e.c].status # None /\ trx[e.c] \in Transactions
    BY <1>3, <2>1 DEF Receive, UnderWay, TypeOK, Events
  <2>3. hooks' = [hooks EXCEPT ![h] = [event |-> e, seen |-> trx[e.c]]]
    BY <1>3 DEF Receive
  <2>4. hooks' \in [Hooks -> {None} \cup [event : Events, seen : Transactions]]
    BY <2>1, <2>2, <2>3 DEF TypeOK
  <2>5. /\ \A i \in Hooks : i # h => hooks'[i] = hooks[i]
        /\ hooks'[h] = [event |-> e, seen |-> trx[e.c]]
    BY <2>3 DEF TypeOK
  <2>6. TypeOK'
    BY <1>1, <2>4 DEF TypeOK, tables, provider
  <2>7. UnderWay'
    BY <1>1, <2>1, <2>2, <2>5 DEF UnderWay, At, tables, provider
  <2>8. ReadIsRecorded'
    BY <1>1, <2>1, <2>5 DEF ReadIsRecorded, CapturedIsRecorded, Events, tables
  <2>. QED
    BY <1>1, <2>6, <2>7, <2>8
    DEF tables, provider, RecordedExists, RecordsHappened, CapturedIsRecorded, SucceededIsRecorded
<1>. QED  BY <1>2, <1>3

\* A webhook commits: a capture it applies is in the ledger, and what it writes
\* of an earlier one it has read there.
LEMMA ApplyIInv ==
  ASSUME IInv, NEW h \in Hooks, Apply(h)
  PROVE  IInv'
<1>. USE DEF IInv
<1>. DEFINE e == hooks[h].event
            seen == hooks[h].seen
            allowed == CaptureAllowed(e, seen)
            written == Updated(e, seen)
<1>1. hooks[h] # None /\ e \in Events /\ e.c \in Checkouts /\ seen \in Transactions
  BY DEF Apply, TypeOK, Events
<1>2. /\ checkout[e.c].status # None /\ checkout[e.c].amount \in 0 .. Price
      /\ allowed => payment[e.c] = "CAPTURED"
  BY <1>1 DEF UnderWay, TypeOK, CaptureAllowed
<1>3. hooks' = [hooks EXCEPT ![h] = None] /\ UNCHANGED <<refund, calls, provider>>
  BY DEF Apply
<1>4. /\ \A i \in Hooks : hooks'[i] # None => hooks'[i] = hooks[i]
      /\ hooks' \in [Hooks -> {None} \cup [event : Events, seen : Transactions]]
  BY <1>3 DEF TypeOK
<1>5. CASE UNCHANGED <<paid, checkout, trx, ledger, inbox>>
  <2>1. TypeOK'
    BY <1>3, <1>4, <1>5 DEF TypeOK, provider
  <2>2. UnderWay' /\ ReadIsRecorded'
    BY <1>3, <1>4, <1>5 DEF UnderWay, ReadIsRecorded, At, provider
  <2>. QED
    BY <1>3, <1>5, <2>1, <2>2
    DEF provider, RecordedExists, RecordsHappened, CapturedIsRecorded, SucceededIsRecorded
<1>6. CASE /\ inbox' = inbox \cup {e}
           /\ trx' = trx \/ trx' = [trx EXCEPT ![e.c] = written]
           /\ \/ allowed /\ ledger' = ledger \cup {e.c} /\ SetCheckout(e.c, "COMPLETED")
              \/ /\ allowed => e.c \in ledger
                 /\ ledger' = ledger /\ (checkout' = checkout \/ SetCheckout(e.c, "FAILED"))
  <2>1. /\ written \in Transactions
        /\ allowed => written.captured = checkout[e.c].amount
        /\ ~allowed => written.captured = seen.captured
    <3>1. NextStatus(e, seen) \in Status
      BY <1>1 DEF NextStatus, Transactions, Status
    <3>. QED  BY <1>1, <1>2, <3>1 DEF Updated, Transactions
  <2>. HIDE DEF e, seen, allowed, written
  <2>2. /\ checkout' \in [Checkouts -> [status : {None} \cup CheckoutStatus, hosted : BOOLEAN,
                                        amount : 0 .. Price]]
        /\ \A d \in Checkouts :
             /\ checkout'[d].hosted = checkout[d].hosted
             /\ checkout[d].status # None => checkout'[d].status # None
             /\ checkout'[d].amount = checkout[d].amount
    <3>1. CASE checkout' = checkout
      BY <3>1 DEF TypeOK
    <3>2. ASSUME NEW status \in {"COMPLETED", "FAILED"},
                 checkout' = [checkout EXCEPT ![e.c].status = status]
          PROVE  /\ checkout' \in [Checkouts -> [status : {None} \cup CheckoutStatus,
                                                 hosted : BOOLEAN, amount : 0 .. Price]]
                 /\ \A d \in Checkouts :
                      /\ checkout'[d].hosted = checkout[d].hosted
                      /\ checkout[d].status # None => checkout'[d].status # None
                      /\ checkout'[d].amount = checkout[d].amount
      BY <1>1, <3>2, NoneAssumption DEF TypeOK, CheckoutStatus
    <3>. QED  BY <1>6, <3>1, <3>2 DEF SetCheckout
  <2>3. trx' \in [Checkouts -> Transactions]
    BY <1>1, <1>6, <2>1 DEF TypeOK
  <2>4. ledger' \subseteq ledger \cup {e.c} /\ ledger \subseteq ledger'
    BY <1>6
  <2>5. TypeOK'
    BY <1>1, <1>3, <1>4, <1>6, <2>2, <2>3, <2>4 DEF TypeOK, provider
  <2>6. UnderWay'
    <3>1. \A i \in Hooks : hooks[i] # None => hooks[i].event.c \in Checkouts
      BY DEF TypeOK, Events
    <3>. QED  BY <1>3, <1>4, <2>2, <3>1 DEF UnderWay, At, provider
  <2>7. ReadIsRecorded'
    <3>1. \A i \in Hooks : hooks[i] # None => hooks[i].event.c \in Checkouts
      BY DEF TypeOK, Events
    <3>. QED  BY <1>4, <2>2, <2>4, <3>1 DEF ReadIsRecorded
  <2>8. RecordedExists'
    BY <1>2, <2>2, <2>4 DEF RecordedExists
  <2>9. RecordsHappened'
    BY <1>1, <1>2, <1>3, <1>6, <2>4, DataAssumption DEF RecordsHappened, provider
  <2>10. CapturedIsRecorded'
    <3>1. trx'[e.c].captured > 0 =>
            e.c \in ledger' /\ trx'[e.c].captured = checkout'[e.c].amount
      <4>1. CASE trx' = trx
        BY <1>1, <2>2, <2>4, <4>1 DEF CapturedIsRecorded
      <4>2. CASE trx' = [trx EXCEPT ![e.c] = written]
        <5>1. trx'[e.c] = written
          BY <1>1, <4>2 DEF TypeOK
        <5>2. CASE allowed
          BY <1>1, <1>6, <2>1, <2>2, <5>1, <5>2
        <5>3. CASE ~allowed
          BY <1>1, <2>1, <2>2, <2>4, <5>1, <5>3 DEF ReadIsRecorded, e, seen
        <5>. QED  BY <5>2, <5>3
      <4>. QED  BY <1>6, <4>1, <4>2
    <3>2. \A d \in Checkouts : d # e.c => trx'[d] = trx[d]
      BY <1>6 DEF TypeOK
    <3>. QED  BY <2>2, <2>4, <3>1, <3>2 DEF CapturedIsRecorded
  <2>11. SucceededIsRecorded'
    BY <1>3, <2>4 DEF SucceededIsRecorded
  <2>. QED  BY <2>5, <2>6, <2>7, <2>8, <2>9, <2>10, <2>11
<1>. QED  BY <1>5, <1>6 DEF Apply

LEMMA NextIInv == IInv /\ [Next]_vars => IInv'
<1>. SUFFICES ASSUME IInv, [Next]_vars PROVE IInv'
  OBVIOUS
<1>1. CASE UNCHANGED vars
  BY <1>1 DEF vars, tables, provider, IInv, TypeOK, UnderWay, ReadIsRecorded, RecordedExists,
     RecordsHappened, CapturedIsRecorded, SucceededIsRecorded, At
<1>2. ASSUME NEW c \in Checkouts, Pay(c) \/ Lapse(c) \/ Dispute(c)
      PROVE  IInv'
  BY <1>2, ProviderIInv
<1>3. ASSUME NEW k \in Calls, NEW c \in Checkouts, RequestCheckout(k, c) \/ RequestExpiry(k, c)
      PROVE  IInv'
  BY <1>3, CheckoutIInv
<1>4. ASSUME NEW k \in Calls,
             \/ InsertCheckout(k) \/ Host(k) \/ OpenCheckout(k)
             \/ ExpireHosted(k) \/ SaveExpiry(k)
      PROVE  IInv'
  <2>1. \E c \in Checkouts : TRUE
    <3>1. calls[k] \in CallStates /\ calls[k].pc \in {"insert", "host", "open", "expire", "expired"}
      BY <1>4 DEF IInv, TypeOK, InsertCheckout, Host, OpenCheckout, ExpireHosted, SaveExpiry, At
    <3>. QED  BY <3>1 DEF CallStates, Idle
  <2>. QED  BY <1>4, <2>1, CheckoutIInv
<1>5. ASSUME NEW k \in Calls, NEW r \in Refunds, RequestRefund(k, r)
      PROVE  IInv'
  BY <1>5, RefundIInv
<1>6. ASSUME NEW k \in Calls, CallRefund(k) \/ BeginCompletion(k)
      PROVE  IInv'
  <2>1. \E r \in Refunds : TRUE
    <3>1. calls[k] \in CallStates /\ calls[k].pc \in {"call", "answered"}
      BY <1>6 DEF IInv, TypeOK, CallRefund, BeginCompletion, At
    <3>. QED  BY <3>1 DEF CallStates, Idle
  <2>. QED  BY <1>6, <2>1, RefundIInv
<1>7. ASSUME NEW k \in Calls, FinishRefund(k)
      PROVE  IInv'
  BY <1>7, FinishIInv
<1>8. ASSUME NEW k \in Calls, DropCall(k)
      PROVE  IInv'
  <2>1. Goto(k, Idle) /\ Idle \in CallStates /\ Idle.pc = "idle"
    BY <1>8 DEF DropCall, CallStates, Idle
  <2>. QED
    BY <1>8, <2>1, CallIInv DEF DropCall, tables, provider, UnderWay, TypeOK, IInv
<1>9. ASSUME NEW h \in Hooks, Apply(h)
      PROVE  IInv'
  BY <1>9, ApplyIInv
<1>10. ASSUME NEW h \in Hooks, DropHook(h) \/ \E e \in Sent : Receive(h, e)
       PROVE  IInv'
  BY <1>10, HookIInv
<1>. QED  BY <1>1, <1>2, <1>3, <1>4, <1>5, <1>6, <1>7, <1>8, <1>9, <1>10 DEF Next

-----------------------------------------------------------------------------
(* What is asked back stays within what was captured.                       *)

\* What a payment's record allows to be asked back.
Recorded(c) == IF c \in ledger THEN checkout[c].amount ELSE 0

\* Whatever the provider is asked for has been reserved by its row, and the
\* rows of a payment reserve no more than its record allows: a reservation
\* is taken under the transaction's lock and never released.
Asked ==
  /\ \A r \in Refunds : returned[r] # None => refund[r].status # None
  /\ \A k \in Calls :
       calls[k].pc \in {"call", "answered", "completing"} => refund[calls[k].r].status # None

ReserveInv ==
  /\ Asked
  /\ \A c \in Checkouts : Reserved(c) <= Recorded(c)

RefundAmounts == [r \in Refunds |-> refund[r].amount]

Reservations(c) == {r \in RefundsOf(c) : refund[r].status \in Reserving}

LEMMA TotalIsSum == \A S \in SUBSET Refunds : Total(S) = Sum(RefundAmounts, S)
<1>. TAKE S \in SUBSET Refunds
<1>0. IsFiniteSet(S)
  BY RefundsAssumption, FS_Subset
<1>. DEFINE P(g) == g = [s \in SUBSET S |->
                          IF s = {} THEN 0
                          ELSE AmountOf(CHOOSE x \in s : TRUE) + g[s \ {CHOOSE x \in s : TRUE}]]
<1>1. Total(S) = (CHOOSE g : P(g))[S]
  BY DEF Total, MapThenSumSet, MapThenFoldSet
<1>2. \A g : IsSum(RefundAmounts, S, g) <=> P(g)
  <2>. TAKE g
  <2>1. \A s \in SUBSET S : s # {} => RefundAmounts[Chosen(s)] = AmountOf(Chosen(s))
    BY ChosenIn, DataAssumption DEF RefundAmounts, AmountOf
  <2>. QED  BY <2>1 DEF IsSum, Chosen
<1>. HIDE DEF P
<1>3. IsSum(RefundAmounts, S, CHOOSE g : P(g))
  BY <1>0, <1>2, SumExists
<1>4. PICK g : IsSum(RefundAmounts, S, g) /\ Sum(RefundAmounts, S) = g[S]
  BY <1>0, SumIsSum
<1>. QED  BY <1>0, <1>1, <1>3, <1>4, SumsAgree

LEMMA TotalIsSumNext == (\A S \in SUBSET Refunds : Total(S) = Sum(RefundAmounts, S))'
BY TotalIsSum, PTL

LEMMA AmountsNatural ==
  ASSUME TypeOK
  PROVE  /\ \A r \in Refunds : RefundAmounts[r] = refund[r].amount /\ refund[r].amount \in Nat
         /\ \A S \in SUBSET Refunds : IsFiniteSet(S) /\ Sum(RefundAmounts, S) \in Int
<1>1. \A r \in Refunds : RefundAmounts[r] = refund[r].amount /\ refund[r].amount \in Nat
  BY DataAssumption DEF TypeOK, RefundAmounts
<1>2. \A S \in SUBSET Refunds : IsFiniteSet(S)
  BY RefundsAssumption, FS_Subset
<1>3. ASSUME NEW S \in SUBSET Refunds PROVE Sum(RefundAmounts, S) \in Int
  <2>1. \A r \in S : RefundAmounts[r] \in Int
    BY <1>1
  <2>. QED  BY <1>2, <2>1, SumInt
<1>. QED  BY <1>1, <1>2, <1>3

\* A row that exists reserves, one that does not does not.
LEMMA ReservingRows ==
  ASSUME TypeOK, NEW c
  PROVE  /\ Reservations(c) = {r \in Refunds : PaymentOf[r] = c /\ refund[r].status # None}
         /\ Reserved(c) = Sum(RefundAmounts, Reservations(c))
         /\ Reservations(c) \in SUBSET Refunds
<1>1. Reservations(c) = {r \in Refunds : PaymentOf[r] = c /\ refund[r].status # None}
  BY NoneAssumption DEF TypeOK, Reservations, RefundsOf
<1>2. Reserved(c) = Total(Reservations(c))
  BY DEF Reserved, Reservations
<1>. QED  BY <1>1, <1>2, TotalIsSum

LEMMA ReservingRowsNext ==
  ASSUME TypeOK', NEW c
  PROVE  /\ Reservations(c)' = {r \in Refunds : PaymentOf[r] = c /\ refund'[r].status # None}
         /\ Reserved(c)' = Sum(RefundAmounts', Reservations(c)')
         /\ Reservations(c)' \in SUBSET Refunds
<1>1. Reservations(c)' = {r \in Refunds : PaymentOf[r] = c /\ refund'[r].status # None}
  BY NoneAssumption DEF TypeOK, Reservations, RefundsOf
<1>2. Reserved(c)' = Total(Reservations(c))'
  BY DEF Reserved, Reservations
<1>3. \A S \in SUBSET Refunds : Total(S)' = Sum(RefundAmounts', S)
  BY TotalIsSumNext
<1>. QED  BY <1>1, <1>2, <1>3

\* Records stay, and the amount of a checkout that exists does not change.
LEMMA RecordedGrows ==
  ASSUME IInv, IInv', Next, NEW c \in Checkouts
  PROVE  /\ Recorded(c) \in Nat /\ Recorded(c)' \in Nat
         /\ Recorded(c) <= Recorded(c)'
<1>. USE DEF IInv
<1>1. checkout[c].amount \in Nat /\ checkout'[c].amount \in Nat
  BY DataAssumption DEF TypeOK
<1>2. ledger \subseteq ledger'
  BY DEF Next, Pay, Lapse, Dispute, RequestCheckout, RequestExpiry, RequestRefund, InsertCheckout,
     Host, OpenCheckout, ExpireHosted, SaveExpiry, CallRefund, BeginCompletion, FinishRefund,
     DropCall, Apply, DropHook, Receive, tables
<1>3. checkout[c].status # None => checkout'[c].amount = checkout[c].amount
  <2>1. ASSUME NEW k \in Calls, InsertCheckout(k), checkout[c].status # None
        PROVE  checkout'[c].amount = checkout[c].amount
    BY <2>1 DEF InsertCheckout, TypeOK
  <2>2. ASSUME NEW d, NEW status, SetCheckout(d, status)
        PROVE  checkout'[c].amount = checkout[c].amount
    BY <2>2 DEF SetCheckout, TypeOK
  <2>3. ASSUME NEW k \in Calls, OpenCheckout(k)
        PROVE  checkout'[c].amount = checkout[c].amount
    BY <2>3 DEF OpenCheckout, TypeOK
  <2>4. ASSUME NEW h \in Hooks, Apply(h)
        PROVE  checkout'[c].amount = checkout[c].amount
    BY <2>2, <2>4 DEF Apply
  <2>. QED
    BY <2>1, <2>2, <2>3, <2>4 DEF Next, Pay, Lapse, Dispute, RequestCheckout, RequestExpiry,
       RequestRefund, Host, ExpireHosted, SaveExpiry, CallRefund, BeginCompletion, FinishRefund,
       DropCall, DropHook, Receive, tables
<1>. QED  BY <1>1, <1>2, <1>3 DEF Recorded, RecordedExists

\* Rows that neither appear nor change their amount reserve as before.
LEMMA ReservedStays ==
  ASSUME IInv, IInv', Next, ReserveInv, Asked',
         \A r \in Refunds : /\ refund'[r].status # None <=> refund[r].status # None
                            /\ refund'[r].amount = refund[r].amount
  PROVE  ReserveInv'
<1>. USE DEF IInv
<1>. SUFFICES ASSUME NEW c \in Checkouts PROVE Reserved(c)' <= Recorded(c)'
  BY DEF ReserveInv
<1>1. RefundAmounts' = RefundAmounts
  BY DEF RefundAmounts
<1>2. Reservations(c)' = Reservations(c)
  <2>1. Reservations(c) = {r \in Refunds : PaymentOf[r] = c /\ refund[r].status # None}
    BY ReservingRows
  <2>2. Reservations(c)' = {r \in Refunds : PaymentOf[r] = c /\ refund'[r].status # None}
    BY ReservingRowsNext
  <2>3. {r \in Refunds : PaymentOf[r] = c /\ refund'[r].status # None}
          = {r \in Refunds : PaymentOf[r] = c /\ refund[r].status # None}
    OBVIOUS
  <2>. QED  BY <2>1, <2>2, <2>3
<1>3. Reserved(c)' = Reserved(c) /\ Reserved(c) \in Int
  BY <1>1, <1>2, ReservingRows, ReservingRowsNext, AmountsNatural
<1>4. Reserved(c) <= Recorded(c)
  BY DEF ReserveInv
<1>. QED  BY <1>3, <1>4, RecordedGrows

\* A new row is added to those of its payment only if they all fit into the
\* captured amount, which its record has.
LEMMA ReservedAdds ==
  ASSUME IInv, IInv', Next, ReserveInv, Asked', NEW r \in Refunds, NEW amount \in Amounts,
         refund[r].status = None,
         Reserved(PaymentOf[r]) + amount <= trx[PaymentOf[r]].captured,
         refund' = [refund EXCEPT ![r] = [status |-> "REQUESTED", amount |-> amount]]
  PROVE  ReserveInv'
<1>. USE DEF IInv
<1>. SUFFICES ASSUME NEW c \in Checkouts PROVE Reserved(c)' <= Recorded(c)'
  BY DEF ReserveInv
<1>. DEFINE old == Reservations(c)
<1>1. /\ \A s \in Refunds : s # r => refund'[s] = refund[s]
      /\ refund'[r].status = "REQUESTED" /\ refund'[r].amount = amount
  BY DEF TypeOK
<1>2. /\ old \in SUBSET Refunds /\ r \notin old /\ IsFiniteSet(old)
      /\ Reserved(c) = Sum(RefundAmounts, old) /\ Reserved(c) \in Int
  BY ReservingRows, AmountsNatural
<1>3. \A s \in old : RefundAmounts'[s] = RefundAmounts[s]
  BY <1>1, <1>2 DEF RefundAmounts
<1>4. Sum(RefundAmounts', old) = Sum(RefundAmounts, old)
  BY <1>2, <1>3, SumAgree
<1>5. RefundAmounts'[r] = amount /\ amount \in Int
  BY <1>1 DEF RefundAmounts, Amounts
<1>6. CASE c # PaymentOf[r]
  <2>1. Reservations(c)' = old
    <3>1. Reservations(c) = {s \in Refunds : PaymentOf[s] = c /\ refund[s].status # None}
      BY ReservingRows
    <3>2. Reservations(c)' = {s \in Refunds : PaymentOf[s] = c /\ refund'[s].status # None}
      BY ReservingRowsNext
    <3>3. \A s \in Refunds : PaymentOf[s] = c => refund'[s] = refund[s]
      BY <1>1, <1>6
    <3>. QED  BY <3>1, <3>2, <3>3
  <2>2. Reserved(c)' = Reserved(c)
    BY <1>2, <1>4, <2>1, ReservingRowsNext
  <2>. QED  BY <1>2, <2>2, RecordedGrows DEF ReserveInv
<1>7. CASE c = PaymentOf[r]
  <2>1. Reservations(c)' = old \cup {r}
    BY <1>1, <1>7, NoneAssumption, ReservingRows, ReservingRowsNext DEF Reserving
  <2>2. \A x \in old \cup {r} : RefundAmounts'[x] \in Int
    BY <1>2, <1>3, <1>5, AmountsNatural
  <2>3. Sum(RefundAmounts', old \cup {r}) = Sum(RefundAmounts', old) + RefundAmounts'[r]
    BY <1>2, <2>2, SumAdd
  <2>4. Reserved(c)' = Reserved(c) + amount
    BY <1>2, <1>4, <1>5, <2>1, <2>3, ReservingRowsNext
  <2>5. trx[c].captured > 0 => c \in ledger /\ trx[c].captured = checkout[c].amount
    BY DEF CapturedIsRecorded
  <2>6. Reserved(c) >= 0
    <3>1. \A x \in old : RefundAmounts[x] \in Nat
      BY <1>2, AmountsNatural
    <3>2. Sum(RefundAmounts, {}) <= Sum(RefundAmounts, old)
      BY <1>2, <3>1, SumMonotonic
    <3>. QED  BY <1>2, <3>2, SumEmpty
  <2>7. trx[c].captured > 0 /\ Reserved(c) + amount <= trx[c].captured
    <3>1. trx[c].captured \in Int /\ amount > 0
      BY DataAssumption DEF TypeOK, Transactions, Amounts
    <3>. QED  BY <1>2, <1>5, <1>7, <2>6, <3>1
  <2>8. Reserved(c)' <= Recorded(c)
    BY <2>4, <2>5, <2>7 DEF Recorded
  <2>. QED  BY <1>2, <1>5, <2>4, <2>8, RecordedGrows
<1>. QED  BY <1>6, <1>7

\* A request for a refund has its row before it asks the provider.
LEMMA AskedStep ==
  ASSUME IInv, IInv', Next, Asked,
         \A r \in Refunds : refund[r].status # None => refund'[r].status # None
  PROVE  Asked'
<1>. DEFINE Asking == {"call", "answered", "completing"}
<1>. USE DEF IInv
<1>1. \A k \in Calls : calls[k].pc \in Asking => calls[k].r \in Refunds
  <2>1. \A k \in Calls : calls[k] \in CallStates
    BY DEF TypeOK
  <2>. QED  BY <2>1 DEF CallStates, Idle
<1>2. ASSUME UNCHANGED <<calls, returned>>
      PROVE  Asked'
  BY <1>1, <1>2 DEF Asked
<1>3. ASSUME NEW k \in Calls, NEW state, Goto(k, state), UNCHANGED returned,
             state.pc \in Asking => state.r \in Refunds /\ refund'[state.r].status # None
      PROVE  Asked'
  <2>1. calls' = [calls EXCEPT ![k] = state] /\ calls \in [Calls -> CallStates]
    BY <1>3 DEF Goto, TypeOK
  <2>2. calls'[k] = state /\ \A j \in Calls : j # k => calls'[j] = calls[j]
    BY <2>1
  <2>. QED  BY <1>1, <1>3, <2>2 DEF Asked
<1>4. ASSUME NEW k \in Calls,
             \/ \E c \in Checkouts : RequestCheckout(k, c) \/ RequestExpiry(k, c)
             \/ InsertCheckout(k) \/ Host(k) \/ OpenCheckout(k)
             \/ ExpireHosted(k) \/ SaveExpiry(k) \/ DropCall(k) \/ FinishRefund(k)
      PROVE  Asked'
  <2>1. UNCHANGED returned
    BY <1>4 DEF RequestCheckout, RequestExpiry, InsertCheckout, Host, OpenCheckout, ExpireHosted,
       SaveExpiry, DropCall, FinishRefund, provider
  <2>2. \E state : Goto(k, state) /\ state.pc \notin Asking
    <3>1. Idle.pc = "idle"
      BY DEF Idle
    <3>2. CASE \/ OpenCheckout(k) \/ SaveExpiry(k) \/ DropCall(k) \/ FinishRefund(k)
      BY <3>1, <3>2 DEF OpenCheckout, SaveExpiry, DropCall, FinishRefund
    <3>3. CASE \E c \in Checkouts : RequestCheckout(k, c) \/ RequestExpiry(k, c)
      <4>1. PICK c \in Checkouts : RequestCheckout(k, c) \/ RequestExpiry(k, c)
        BY <3>3
      <4>2. \/ Goto(k, [pc |-> "host", c |-> c])
            \/ \E amount \in Amounts : Goto(k, [pc |-> "insert", c |-> c, amount |-> amount])
            \/ Goto(k, [pc |-> "expire", c |-> c])
        BY <4>1 DEF RequestCheckout, RequestExpiry
      <4>3. /\ [pc |-> "host", c |-> c].pc = "host" /\ [pc |-> "expire", c |-> c].pc = "expire"
            /\ \A amount : [pc |-> "insert", c |-> c, amount |-> amount].pc = "insert"
        OBVIOUS
      <4>. QED  BY <4>2, <4>3
    <3>4. CASE InsertCheckout(k) \/ ExpireHosted(k)
      BY <3>1, <3>4 DEF InsertCheckout, ExpireHosted
    <3>5. CASE Host(k)
      <4>1. calls[k].pc = "host" /\ calls[k] \in CallStates
        BY <3>5 DEF Host, At, TypeOK
      <4>2. [calls[k] EXCEPT !.pc = "open"].pc = "open"
        BY <4>1 DEF CallStates, Idle
      <4>. QED  BY <3>5, <4>2 DEF Host
    <3>. QED  BY <1>4, <3>2, <3>3, <3>4, <3>5
  <2>. QED  BY <1>3, <2>1, <2>2
<1>5. ASSUME NEW k \in Calls, NEW r \in Refunds, RequestRefund(k, r)
      PROVE  Asked'
  <2>1. Goto(k, [pc |-> "call", r |-> r]) /\ UNCHANGED returned
    BY <1>5 DEF RequestRefund, provider
  <2>2. refund'[r].status # None
    BY <1>5, NoneAssumption DEF RequestRefund, TypeOK, Reserving
  <2>. QED  BY <1>3, <2>1, <2>2
<1>6. ASSUME NEW k \in Calls, CallRefund(k)
      PROVE  Asked'
  <2>. DEFINE r == calls[k].r
  <2>1. calls[k].pc = "call" /\ r \in Refunds /\ UNCHANGED refund
    BY <1>1, <1>6 DEF CallRefund, At, tables
  <2>2. refund[r].status # None
    BY <2>1 DEF Asked
  <2>3. PICK answer :
          /\ returned' = [returned EXCEPT ![r] = answer]
          /\ Goto(k, [pc |-> "answered", r |-> r, answer |-> answer])
    BY <1>6 DEF CallRefund
  <2>. DEFINE state == [pc |-> "answered", r |-> r, answer |-> answer]
  <2>4. state.r = r /\ Goto(k, state)
    BY <2>3
  <2>. HIDE DEF r, state
  <2>5. /\ calls'[k] = state /\ \A j \in Calls : j # k => calls'[j] = calls[j]
        /\ \A s \in Refunds : s # r => returned'[s] = returned[s]
    BY <2>3, <2>4 DEF Goto, TypeOK
  <2>. QED  BY <1>1, <2>1, <2>2, <2>4, <2>5 DEF Asked
<1>7. ASSUME NEW k \in Calls, BeginCompletion(k)
      PROVE  Asked'
  <2>1. calls[k].pc = "answered" /\ calls[k].r \in Refunds /\ UNCHANGED returned
    BY <1>1, <1>7 DEF BeginCompletion, At, provider
  <2>2. refund'[calls[k].r].status # None
    BY <2>1 DEF Asked
  <2>3. \/ Goto(k, Idle) /\ Idle.pc = "idle"
        \/ Goto(k, [pc |-> "completing", r |-> calls[k].r, seen |-> trx[PaymentOf[calls[k].r]]])
    BY <1>7 DEF BeginCompletion, Idle
  <2>. QED  BY <1>3, <2>1, <2>2, <2>3
<1>8. CASE \E h \in Hooks : Apply(h) \/ DropHook(h) \/ \E e \in Sent : Receive(h, e)
  BY <1>2, <1>8 DEF Apply, DropHook, Receive, provider
<1>9. CASE \E c \in Checkouts : Pay(c) \/ Lapse(c) \/ Dispute(c)
  BY <1>2, <1>9 DEF Pay, Lapse, Dispute
<1>. QED  BY <1>4, <1>5, <1>6, <1>7, <1>8, <1>9 DEF Next

\* What a step does to the rows: nothing, or their status changes and they
\* stay, or a request takes a new one.
LEMMA RowSteps ==
  ASSUME IInv, Next, Asked
  PROVE  \/ \A r \in Refunds : /\ refund'[r].status # None <=> refund[r].status # None
                               /\ refund'[r].amount = refund[r].amount
         \/ \E r \in Refunds : \E amount \in Amounts :
              /\ refund[r].status = None
              /\ Reserved(PaymentOf[r]) + amount <= trx[PaymentOf[r]].captured
              /\ refund' = [refund EXCEPT ![r] = [status |-> "REQUESTED", amount |-> amount]]
<1>. USE DEF IInv
<1>. DEFINE Stay == \A r \in Refunds : /\ refund'[r].status # None <=> refund[r].status # None
                                       /\ refund'[r].amount = refund[r].amount
<1>1. UNCHANGED refund => Stay
  OBVIOUS
<1>2. ASSUME NEW s \in Refunds, NEW status \in Reserving, refund[s].status # None,
             refund' = [refund EXCEPT ![s].status = status]
      PROVE  Stay
  BY <1>2, NoneAssumption DEF TypeOK
<1>3. ASSUME NEW k \in Calls, BeginCompletion(k) \/ FinishRefund(k)
      PROVE  Stay
  <2>1. calls[k].r \in Refunds /\ refund[calls[k].r].status # None
    <3>1. calls[k] \in CallStates /\ calls[k].pc \in {"answered", "completing"}
      BY <1>3 DEF BeginCompletion, FinishRefund, At, TypeOK
    <3>. QED  BY <3>1 DEF CallStates, Idle, Asked
  <2>2. \/ UNCHANGED refund
        \/ refund' = [refund EXCEPT ![calls[k].r].status = "PROCESSING"]
        \/ refund' = [refund EXCEPT ![calls[k].r].status = "SUCCEEDED"]
    BY <1>3 DEF BeginCompletion, FinishRefund
  <2>3. {"PROCESSING", "SUCCEEDED"} \subseteq Reserving
    BY DEF Reserving
  <2>. HIDE DEF Stay
  <2>. QED  BY <1>1, <1>2, <2>1, <2>2, <2>3
<1>5. ASSUME \/ \E c \in Checkouts : Pay(c) \/ Lapse(c) \/ Dispute(c)
             \/ \E k \in Calls :
                  \/ \E c \in Checkouts : RequestCheckout(k, c) \/ RequestExpiry(k, c)
                  \/ InsertCheckout(k) \/ Host(k) \/ OpenCheckout(k)
                  \/ ExpireHosted(k) \/ SaveExpiry(k) \/ CallRefund(k) \/ DropCall(k)
             \/ \E h \in Hooks : Apply(h) \/ DropHook(h) \/ \E e \in Sent : Receive(h, e)
      PROVE  Stay
  <2>1. UNCHANGED refund
    BY <1>5 DEF Pay, Lapse, Dispute, RequestCheckout, RequestExpiry, InsertCheckout, Host,
       OpenCheckout, ExpireHosted, SaveExpiry, CallRefund, DropCall, Apply, DropHook, Receive, tables
  <2>. QED  BY <1>1, <2>1
<1>. DEFINE Taken == \E r \in Refunds : \E amount \in Amounts :
                       /\ refund[r].status = None
                       /\ Reserved(PaymentOf[r]) + amount <= trx[PaymentOf[r]].captured
                       /\ refund' = [refund EXCEPT ![r] = [status |-> "REQUESTED", amount |-> amount]]
<1>4. ASSUME NEW k \in Calls, NEW r \in Refunds, RequestRefund(k, r)
      PROVE  Stay \/ Taken
  <2>1. CASE UNCHANGED refund
    BY <1>1, <2>1
  <2>2. CASE ~UNCHANGED refund
    <3>1. Taken
      BY <1>4, <2>2 DEF RequestRefund
    <3>. QED  BY <3>1
  <2>. QED  BY <2>1, <2>2
<1>6. Stay \/ Taken
  <2>. HIDE DEF Stay, Taken
  <2>. QED  BY <1>3, <1>4, <1>5 DEF Next
<1>. QED  BY <1>6

LEMMA NextReserveInv == IInv /\ IInv' /\ ReserveInv /\ [Next]_vars => ReserveInv'
<1>. SUFFICES ASSUME IInv, IInv', ReserveInv, [Next]_vars PROVE ReserveInv'
  OBVIOUS
<1>1. CASE UNCHANGED vars
  <2>1. \A c \in Checkouts : Reserved(c)' = Reserved(c) /\ Recorded(c)' = Recorded(c)
    <3>. TAKE c \in Checkouts
    <3>1. UNCHANGED <<refund, ledger, checkout>>
      BY <1>1 DEF vars, tables
    <3>2. RefundAmounts' = RefundAmounts /\ Reservations(c)' = Reservations(c)
      BY <3>1 DEF RefundAmounts, Reservations, RefundsOf
    <3>3. Reserved(c) = Sum(RefundAmounts, Reservations(c))
      BY ReservingRows DEF IInv
    <3>4. Reserved(c)' = Sum(RefundAmounts', Reservations(c)')
      BY ReservingRowsNext DEF IInv
    <3>5. Reserved(c)' = Reserved(c)
      BY <3>2, <3>3, <3>4
    <3>. QED  BY <3>1, <3>5 DEF Recorded
  <2>. QED  BY <1>1, <2>1 DEF vars, tables, provider, ReserveInv, Asked
<1>2. CASE Next
  <2>0. Asked
    BY DEF ReserveInv
  <2>1. CASE \A r \in Refunds : /\ refund'[r].status # None <=> refund[r].status # None
                                /\ refund'[r].amount = refund[r].amount
    <3>1. Asked'
      BY <1>2, <2>0, <2>1, AskedStep
    <3>. QED  BY <1>2, <2>1, <3>1, ReservedStays
  <2>2. ASSUME NEW r \in Refunds, NEW amount \in Amounts,
               refund[r].status = None,
               Reserved(PaymentOf[r]) + amount <= trx[PaymentOf[r]].captured,
               refund' = [refund EXCEPT ![r] = [status |-> "REQUESTED", amount |-> amount]]
        PROVE  ReserveInv'
    <3>1. \A s \in Refunds : refund[s].status # None => refund'[s].status # None
      BY <2>2 DEF IInv, TypeOK
    <3>2. Asked'
      BY <1>2, <2>0, <3>1, AskedStep
    <3>. QED  BY <1>2, <2>2, <3>2, ReservedAdds
  <2>. QED  BY <1>2, <2>0, <2>1, <2>2, RowSteps
<1>. QED  BY <1>1, <1>2

LEMMA InitReserveInv == Init => ReserveInv
<1>. SUFFICES ASSUME Init PROVE ReserveInv
  OBVIOUS
<1>1. TypeOK
  BY InitIInv DEF IInv
<1>2. Asked
  BY DEF Init, Asked, Idle
<1>3. ASSUME NEW c \in Checkouts PROVE Reserved(c) <= Recorded(c)
  <2>1. Reservations(c) = {} /\ Recorded(c) = 0
    BY <1>1, ReservingRows DEF Init, Recorded
  <2>2. Reserved(c) = 0
    BY <1>1, <2>1, ReservingRows, SumEmpty
  <2>. QED  BY <2>1, <2>2
<1>. QED  BY <1>2, <1>3 DEF ReserveInv

\* What the provider was asked for is among what the rows reserve, and only a
\* captured payment has a record.
LEMMA AskedWithin == IInv /\ ReserveInv => RefundsWithinCapture
<1>. SUFFICES ASSUME IInv, ReserveInv, NEW c \in Checkouts
              PROVE  Total({r \in RefundsOf(c) : returned[r] # None})
                       <= IF payment[c] = "CAPTURED" THEN checkout[c].amount ELSE 0
  BY DEF RefundsWithinCapture
<1>. USE DEF IInv
<1>. DEFINE asked == {r \in RefundsOf(c) : returned[r] # None}
<1>1. asked \subseteq Reservations(c) /\ asked \in SUBSET Refunds
  BY ReservingRows DEF ReserveInv, Asked, RefundsOf
<1>2. /\ Reservations(c) \in SUBSET Refunds /\ IsFiniteSet(Reservations(c))
      /\ \A r \in Reservations(c) : RefundAmounts[r] \in Nat
      /\ Sum(RefundAmounts, Reservations(c)) \in Int /\ Sum(RefundAmounts, asked) \in Int
  BY <1>1, ReservingRows, AmountsNatural
<1>3. Total(asked) = Sum(RefundAmounts, asked)
  BY <1>1, TotalIsSum
<1>. HIDE DEF asked
<1>4. Sum(RefundAmounts, asked) <= Sum(RefundAmounts, Reservations(c))
  BY <1>1, <1>2, SumMonotonic
<1>5. Sum(RefundAmounts, Reservations(c)) <= Recorded(c)
  BY ReservingRows DEF ReserveInv
<1>6. /\ checkout[c].amount \in Nat
      /\ c \in ledger => payment[c] = "CAPTURED"
  BY DataAssumption DEF TypeOK, RecordsHappened
<1>7. Recorded(c) \in Int /\ Recorded(c) <= IF payment[c] = "CAPTURED" THEN checkout[c].amount ELSE 0
  BY <1>6 DEF Recorded
<1>. QED  BY <1>2, <1>3, <1>4, <1>5, <1>6, <1>7 DEF asked

-----------------------------------------------------------------------------
(* The results.                                                             *)

THEOREM Invariance == Spec => []IInv
<1>. QED  BY InitIInv, NextIInv, PTL DEF Spec

\* Every column keeps its type: no amount of a checkout, a transaction or a
\* refund leaves the range of the entry's price (createCheckout, refund,
\* applyPaymentProviderEvent).
THEOREM TypeCorrect == Spec => []TypeOK
BY Invariance, PTL DEF IInv

\* The ledger holds only captured payments and refunds the provider has paid,
\* each of a recorded payment (applyPaymentProviderEvent, refund).
THEOREM RecordsHappenedHolds == Spec => []RecordsHappened
BY Invariance, PTL DEF IInv

\* A transaction that shows a captured amount has its record, of that amount,
\* for any order of events and webhooks that overlap (applyPaymentProviderEvent).
THEOREM CapturedIsRecordedHolds == Spec => []CapturedIsRecorded
BY Invariance, PTL DEF IInv

\* A refund shown as succeeded is in the ledger (refund).
THEOREM SucceededIsRecordedHolds == Spec => []SucceededIsRecorded
BY Invariance, PTL DEF IInv

\* The provider is never asked to give back more than it took, for any number
\* of refund requests, repeated or overlapping, and any answers of the provider.
THEOREM RefundsWithinCaptureHolds == Spec => []RefundsWithinCapture
<1>1. Spec => []ReserveInv
  BY Invariance, InitReserveInv, NextReserveInv, PTL DEF Spec
<1>. QED  BY <1>1, Invariance, AskedWithin, PTL

=============================================================================
