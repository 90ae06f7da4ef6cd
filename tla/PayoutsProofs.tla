---------------------------- MODULE PayoutsProofs ----------------------------
(***************************************************************************)
(* Proofs about Payouts: columns and requests keep their types, no entry   *)
(* is settled twice, a payout looks paid only when the provider paid it,   *)
(* the ledger tells what the payout rows tell, and none of it is rewritten *)
(* - for any number of transactions, settlements, requests and retries.    *)
(***************************************************************************)
EXTENDS Payouts, TLAPS

\* The settlements as rows.  What a sum of entries comes to is left open: it
\* would take an induction over finite sets.
Rows ==
  /\ DOMAIN settlement = Settlements
  /\ settlement = [s \in Settlements |-> [status |-> settlement[s].status,
                                          net |-> settlement[s].net, lines |-> settlement[s].lines]]

Lines == UNION {settlement[q].lines : q \in Settlements}

\* What a request may rely on from one of its transactions to the next: a
\* settlement being calculated is new and sees every line there is, a payout
\* under way exists, and the provider has paid what it says it paid.
Knows(state) ==
  /\ state.pc = "settle" => settlement[state.s].status = None /\ state.settled = Lines
  /\ state.pc = "finalize" => settlement[state.s].status # None
  /\ state.pc \in {"reserve", "transfer", "answered", "record"} => payout[state.s].status # None
  /\ state.pc \in {"answered", "record"} /\ state.answer = "PAID"
       => bank[state.s].status \in {"PAID", "RETURNED"}

Serialized == \A k, j \in Calls : At(k, "settle") /\ At(j, "settle") => k = j

\* A payout is of a settlement, and its provider's id of a payout.
Founded ==
  \A s \in Settlements :
    /\ payout[s].status # None => settlement[s].status # None
    /\ payout[s].known => payout[s].status # None

\* A report tells what the provider has not taken back.
ReportsTrue ==
  \A e \in reports :
    /\ e.type = "paid" => bank[e.s].status \in {"PAID", "RETURNED"}
    /\ e.type = "returned" => bank[e.s].status = "RETURNED"

FoundExists == \A h \in Hooks : hooks[h] # Idle /\ hooks[h].found => payout[hooks[h].event.s].status # None

TablesOK ==
  /\ trx \in Seen /\ refunds \subseteq Refunds /\ mature \subseteq Transactions
  /\ \A e \in entries : e.type \in EntryTypes /\ e.source \in Sources
  /\ \A s \in Settlements :
       /\ settlement[s].status \in {None} \cup SettlementStatus
       /\ settlement[s].lines \subseteq entries
  /\ payout \in [Settlements -> [status : {None} \cup PayoutStatus, known : BOOLEAN]]
  /\ attempts \in [Settlements -> SUBSET AllKeys]
  /\ Rows /\ Founded
  /\ SettledOnce /\ ConfirmedByProvider /\ LedgerTellsPayout

ProviderOK ==
  /\ bank \in [Settlements -> [status : {None} \cup AtBank, n : 0 .. MaxTransfers]]
  /\ \A s \in Settlements : bank[s].status = None <=> bank[s].n = 0
  /\ reports \subseteq Reports /\ inbox \subseteq reports
  /\ ReportsTrue

CallsOK ==
  /\ calls \in [Calls -> CallStates]
  /\ \A k \in Calls : Knows(calls[k])
  /\ Serialized

HooksOK == hooks \in [Hooks -> HookStates] /\ FoundExists

IInv == TablesOK /\ ProviderOK /\ CallsOK /\ HooksOK

LEMMA IInvTypeOK == IInv => TypeOK
BY DEF IInv, TablesOK, ProviderOK, CallsOK, HooksOK, TypeOK

\* What a step keeps, as HistoryKept says.
Kept ==
  /\ entries \subseteq entries'
  /\ \A s \in Settlements :
       /\ settlement[s].status # None =>
            /\ settlement'[s].lines = settlement[s].lines
            /\ settlement'[s].net = settlement[s].net
       /\ payout[s].status = "PAID" => payout'[s].status \in {"PAID", "RETURNED"}
       /\ payout[s].status = "RETURNED" => payout'[s].status = "RETURNED"

\* ... and what besides of the tables requests rely on.
Forward ==
  /\ entries \subseteq entries' /\ reports \subseteq reports'
  /\ \A s \in Settlements :
       /\ settlement[s].status # None => settlement'[s].status # None
       /\ payout[s].status # None => payout'[s].status # None
       /\ bank[s].status \in {"PAID", "RETURNED"} => bank'[s].status \in {"PAID", "RETURNED"}

\* No settlement is added.
Steady ==
  \A s \in Settlements :
    /\ settlement'[s].lines = settlement[s].lines
    /\ settlement[s].status = None => settlement'[s].status = None

-----------------------------------------------------------------------------
(* The ledger's operators.                                                  *)

\* Appending keeps what is there and adds nothing else.
LEMMA AppendKeeps ==
  ASSUME NEW E, NEW new
  PROVE  E \subseteq Append(E, new) /\ Append(E, new) \subseteq E \cup new
BY DEF Append

\* The balance adds entries of transactions and refunds only, none of payouts.
LEMMA SyncAdds ==
  ASSUME NEW seen \in Seen
  PROVE  /\ entries \subseteq syncAllocations(seen)
         /\ \A e \in syncAllocations(seen) \ entries :
              /\ e.type \in EntryTypes \ {"PAYOUT", "PAYOUT_REVERSAL"}
              /\ e.source \in Transactions \cup Refunds
<1>. DEFINE T == {t \in Transactions : seen[t] # None}
<1>1. /\ entries \subseteq syncAllocations(seen)
      /\ syncAllocations(seen) \subseteq entries \cup UNION {Due(t, seen[t]) : t \in T}
  BY AppendKeeps DEF syncAllocations
<1>2. ASSUME NEW t \in Transactions, NEW e \in Due(t, seen[t])
      PROVE  /\ e.type \in EntryTypes \ {"PAYOUT", "PAYOUT_REVERSAL"}
             /\ e.source \in Transactions \cup Refunds
  <2>1. \/ e = Entry("PAYMENT_EARNED", t, Gross[t])
        \/ e = Entry("PLATFORM_FEE", t, Fee[t])
        \/ \E r \in Refunds : e = Entry("REFUND_ADJUSTMENT", r, Refunded[r])
        \/ e = Entry("REFUND_ADJUSTMENT", t, Gross[t])
        \/ \E a : e = Entry("DISPUTE_HOLD", t, a)
        \/ \E a : e = Entry("DISPUTE_RELEASE", t, a)
    BY <1>2 DEF Due, RefundsOf
  <2>. QED  BY <2>1 DEF Entry, EntryTypes, EarnedTypes
<1>. QED  BY <1>1, <1>2

-----------------------------------------------------------------------------
(* Requests.                                                                *)

LEMMA CallFields ==
  ASSUME NEW state \in CallStates
  PROVE  /\ state.pc \in {"settle", "finalize", "reserve", "transfer", "answered", "record"}
              => state.s \in Settlements
         /\ state.pc \in {"answered", "record"} => state.answer \in {"PROCESSING", "PAID", "FAILED"}
         /\ state.pc \in {"sync", "settle"} => state.seen \in Seen
         /\ state.pc = "settle" => state.settled \subseteq entries
         /\ state.pc = "reserve" => state.key \in AllKeys
BY DEF CallStates, Idle

\* A request that waits keeps what it knows.
LEMMA KnowsStays ==
  ASSUME IInv, NEW j \in Calls, calls'[j] = calls[j], Forward, Steady \/ ~At(j, "settle")
  PROVE  calls'[j] \in CallStates' /\ Knows(calls[j])'
<1>1. calls[j] \in CallStates /\ Knows(calls[j])
  BY DEF IInv, CallsOK
<1>2. calls'[j] \in CallStates'
  BY <1>1 DEF CallStates, Forward
<1>3. calls[j].pc = "settle" => Lines' = Lines
  BY DEF Steady, At, Lines
<1>. QED
  BY <1>1, <1>2, <1>3, CallFields DEF Knows, Forward, Steady, At

\* The others wait while one goes on.
LEMMA CallsForward ==
  ASSUME IInv, NEW k \in Calls, NEW state, Goto(k, state), state \in CallStates', Knows(state)',
         Forward, Steady \/ \A j \in Calls \ {k} : ~At(j, "settle"),
         state.pc = "settle" => \A j \in Calls \ {k} : ~At(j, "settle")
  PROVE  CallsOK'
<1>1. calls' = [calls EXCEPT ![k] = state] /\ calls \in [Calls -> CallStates]
  BY DEF Goto, IInv, CallsOK
<1>2. calls'[k] = state /\ \A j \in Calls \ {k} : calls'[j] = calls[j]
  BY <1>1
<1>3. \A j \in Calls \ {k} : calls'[j] \in CallStates' /\ Knows(calls[j])'
  BY <1>2, KnowsStays
<1>4. DOMAIN calls' = Calls /\ calls' = [j \in Calls |-> calls'[j]]
  BY <1>1
<1>5. calls' \in [Calls -> CallStates']
  BY <1>2, <1>3, <1>4
<1>6. \A j \in Calls : Knows(calls[j])'
  BY <1>2, <1>3 DEF Knows
<1>7. Serialized'
  BY <1>2 DEF Serialized, At, IInv, CallsOK
<1>. QED  BY <1>5, <1>6, <1>7 DEF CallsOK

LEMMA CallsStay ==
  ASSUME IInv, UNCHANGED calls, Forward, Steady
  PROVE  CallsOK'
<1>1. \A j \in Calls : calls'[j] \in CallStates' /\ Knows(calls[j])'
  BY KnowsStays
<1>2. calls' = [j \in Calls |-> calls'[j]]
  BY DEF IInv, CallsOK
<1>. QED  BY <1>1, <1>2 DEF CallsOK, IInv, Serialized, At

\* A webhook request waits, ends or dies.
LEMMA HooksForward ==
  ASSUME IInv, Forward, UNCHANGED hooks \/ \E h \in Hooks : hooks' = [hooks EXCEPT ![h] = Idle]
  PROVE  HooksOK'
<1>1. hooks \in [Hooks -> HookStates] /\ HookStates \subseteq HookStates' /\ Idle \in HookStates
  BY DEF IInv, HooksOK, HookStates, Forward
<1>2. hooks' \in [Hooks -> HookStates']
  BY <1>1
<1>3. \A i \in Hooks : hooks'[i] # Idle => hooks'[i] = hooks[i]
  BY <1>1
<1>4. \A i \in Hooks : hooks[i] # Idle => hooks[i].event.s \in Settlements
  BY <1>1 DEF HookStates, IInv, ProviderOK, Reports
<1>. QED  BY <1>2, <1>3, <1>4 DEF HooksOK, FoundExists, IInv, Forward

-----------------------------------------------------------------------------
(* The tables.                                                              *)

LEMMA UnchangedKept ==
  ASSUME IInv, UNCHANGED <<entries, settlement, payout>>
  PROVE  Kept
BY DEF Kept, IInv, TablesOK

\* Nothing but what happens to the vendor's payments.
LEMMA EarningsIInv ==
  ASSUME IInv, UNCHANGED <<entries, settlement, payout, attempts, inbox, calls, hooks, provider>>,
         trx' \in Seen, refunds' \subseteq Refunds, mature' \subseteq Transactions
  PROVE  IInv' /\ Kept
<1>1. Forward /\ Steady
  BY DEF Forward, Steady, provider
<1>2. TablesOK'
  BY DEF IInv, TablesOK, Rows, Founded, SettledOnce, ConfirmedByProvider, LedgerTellsPayout, Bound,
         PaidEntry, ReturnedEntry, Entry, provider
<1>3. ProviderOK'
  BY DEF IInv, ProviderOK, ReportsTrue, provider
<1>. QED  BY <1>1, <1>2, <1>3, CallsStay, HooksForward, UnchangedKept DEF IInv

\* Nothing but a request's own state.
LEMMA CallIInv ==
  ASSUME IInv, NEW k \in Calls, NEW state \in CallStates, Goto(k, state), Knows(state),
         state.pc = "settle" => \A j \in Calls \ {k} : ~At(j, "settle"),
         UNCHANGED <<earnings, entries, settlement, payout, attempts, inbox, hooks, provider>>
  PROVE  IInv' /\ Kept
<1>1. Forward /\ Steady
  BY DEF Forward, Steady, provider
<1>2. TablesOK'
  BY DEF IInv, TablesOK, Rows, Founded, SettledOnce, ConfirmedByProvider, LedgerTellsPayout, Bound,
         PaidEntry, ReturnedEntry, Entry, provider, earnings
<1>3. ProviderOK'
  BY DEF IInv, ProviderOK, ReportsTrue, provider
<1>4. state \in CallStates' /\ Knows(state)'
  BY DEF CallStates, Knows, Lines, provider
<1>. QED  BY <1>1, <1>2, <1>3, <1>4, CallsForward, HooksForward, UnchangedKept DEF IInv

LEMMA EnvironmentIInv ==
  ASSUME IInv, \/ \E t \in Transactions : Capture(t) \/ Dispute(t) \/ Mature(t)
               \/ \E r \in Refunds : Refund(r)
  PROVE  IInv' /\ Kept
<1>. USE DEF IInv, TablesOK
<1>1. CASE \E t \in Transactions, status \in TransactionStatus : Transact(t, status) /\ UNCHANGED refunds
  <2>1. trx' \in Seen
    BY <1>1 DEF Transact, Seen
  <2>. QED  BY <1>1, <2>1, EarningsIInv DEF Transact
<1>2. CASE \E r \in Refunds : Refund(r)
  <2>1. PICK r \in Refunds, status \in TransactionStatus :
          Transact(TransactionOf[r], status) /\ refunds' = refunds \cup {r}
    BY <1>2 DEF Refund, TransactionStatus
  <2>2. trx' \in Seen
    BY <2>1, DataAssumption DEF Transact, Seen
  <2>. QED  BY <2>1, <2>2, EarningsIInv DEF Transact
<1>3. CASE \E t \in Transactions : Mature(t)
  BY <1>3, EarningsIInv DEF Mature
<1>4. Outcomes \subseteq TransactionStatus
  BY DataAssumption DEF TransactionStatus
<1>. QED  BY <1>1, <1>2, <1>3, <1>4 DEF Capture, Dispute, TransactionStatus

\* Steps by which a request only goes on.
LEMMA GoOnIInv ==
  ASSUME IInv, NEW k \in Calls, BeginBalance(k) \/ BeginRecord(k) \/ DropCall(k)
  PROVE  IInv' /\ Kept
<1>1. /\ trx \in Seen /\ Lines \subseteq entries
      /\ calls[k] \in CallStates /\ Knows(calls[k])
  BY DEF IInv, TablesOK, CallsOK, Lines
<1>2. CASE BeginBalance(k)
  <2>1. [pc |-> "sync", seen |-> trx] \in CallStates
    BY <1>1 DEF CallStates
  <2>. QED  BY <1>2, <2>1, CallIInv DEF BeginBalance, Knows
<1>7. CASE BeginRecord(k)
  <2>1. [calls[k] EXCEPT !.pc = "record"] \in CallStates /\ Idle \in CallStates
    BY <1>1, <1>7 DEF BeginRecord, At, CallStates, Idle
  <2>2. Knows([calls[k] EXCEPT !.pc = "record"]) /\ Knows(Idle)
    BY <1>1, <1>7 DEF BeginRecord, At, Knows, CallStates, Idle
  <2>3. [calls[k] EXCEPT !.pc = "record"].pc = "record" /\ Idle.pc = "idle"
    BY <1>1, <1>7 DEF BeginRecord, At, CallStates, Idle
  <2>. QED  BY <1>7, <2>1, <2>2, <2>3, CallIInv DEF BeginRecord
<1>8. CASE DropCall(k)
  <2>1. Idle \in CallStates /\ Knows(Idle) /\ Idle.pc = "idle"
    BY DEF CallStates, Knows, Idle
  <2>. QED  BY <1>8, <2>1, CallIInv DEF DropCall
<1>. QED  BY <1>2, <1>7, <1>8

LEMMA BeginIInv ==
  ASSUME IInv, NEW k \in Calls, NEW s \in Settlements,
         \/ BeginSettlement(k, s) \/ BeginFinalize(k, s)
         \/ ResumePayout(k, s) \/ \E key \in Keys[s] : BeginRetry(k, s, key)
  PROVE  IInv' /\ Kept
<1>1. /\ trx \in Seen /\ Lines \subseteq entries
      /\ calls[k] \in CallStates /\ Knows(calls[k])
  BY DEF IInv, TablesOK, CallsOK, Lines
<1>3. CASE BeginSettlement(k, s)
  <2>. DEFINE state == [pc |-> "settle", s |-> s, seen |-> trx, settled |-> Lines]
  <2>1. state \in CallStates
    BY <1>1 DEF CallStates
  <2>2. Goto(k, state) /\ settlement[s].status = None /\ \A j \in Calls : ~At(j, "settle")
    BY <1>3 DEF BeginSettlement, Lines
  <2>3. Knows(state)
    BY <2>2 DEF Knows
  <2>. HIDE DEF state
  <2>. QED  BY <1>3, <2>1, <2>2, <2>3, CallIInv DEF BeginSettlement
<1>4. CASE BeginFinalize(k, s)
  <2>1. [pc |-> "finalize", s |-> s] \in CallStates
    BY DEF CallStates
  <2>. QED  BY <1>4, <2>1, CallIInv, NoneAssumption DEF BeginFinalize, Knows, SettlementStatus
<1>5. CASE ResumePayout(k, s)
  <2>1. [pc |-> "transfer", s |-> s] \in CallStates
    BY DEF CallStates
  <2>. QED  BY <1>5, <2>1, CallIInv, NoneAssumption DEF ResumePayout, Knows, PayoutStatus
<1>6. CASE \E key \in Keys[s] : BeginRetry(k, s, key)
  <2>1. PICK key \in Keys[s] : BeginRetry(k, s, key)
    BY <1>6
  <2>. DEFINE state == [pc |-> "reserve", s |-> s, key |-> key]
  <2>2. state \in CallStates
    BY DEF CallStates, AllKeys
  <2>3. Knows(state)
    BY <2>1, NoneAssumption DEF BeginRetry, Knows, PayoutStatus
  <2>. QED  BY <2>1, <2>2, <2>3, CallIInv DEF BeginRetry
<1>. QED  BY <1>3, <1>4, <1>5, <1>6

-----------------------------------------------------------------------------
(* Balances and settlements.                                                *)

LEMMA IdleKnows == Idle \in CallStates /\ Knows(Idle) /\ Idle.pc = "idle"
BY DEF CallStates, Knows, Idle

\* What the balance adds concerns no payout.
LEMMA SyncTables ==
  ASSUME IInv, NEW seen \in Seen, entries' = syncAllocations(seen) \/ UNCHANGED entries,
         UNCHANGED <<earnings, payout, attempts, bank>>,
         UNCHANGED settlement
  PROVE  TablesOK'
<1>. USE DEF IInv, TablesOK
<1>1. /\ entries \subseteq entries'
      /\ \A e \in entries' \ entries :
           /\ e.type \in EntryTypes \ {"PAYOUT", "PAYOUT_REVERSAL"}
           /\ e.source \in Transactions \cup Refunds
  BY SyncAdds
<1>2. \A s \in Settlements : /\ Bound(entries, "PAYOUT", s)' = Bound(entries, "PAYOUT", s)
                             /\ Bound(entries, "PAYOUT_REVERSAL", s)' = Bound(entries, "PAYOUT_REVERSAL", s)
  BY <1>1 DEF Bound
<1>3. LedgerTellsPayout'
  BY <1>2 DEF LedgerTellsPayout, PaidEntry, Entry
<1>4. \A e \in entries' : e.type \in EntryTypes /\ e.source \in Sources
  BY <1>1 DEF Sources
<1>. QED
  BY <1>1, <1>3, <1>4 DEF earnings, Rows, Founded, SettledOnce, ConfirmedByProvider

LEMMA BalanceIInv ==
  ASSUME IInv, NEW k \in Calls, FinishBalance(k)
  PROVE  IInv' /\ Kept
<1>1. calls[k] \in CallStates /\ calls[k].pc = "sync"
  BY DEF IInv, CallsOK, FinishBalance, At
<1>2. calls[k].seen \in Seen
  BY <1>1, CallFields
<1>3. TablesOK' /\ entries \subseteq entries'
  BY <1>2, SyncTables, SyncAdds DEF FinishBalance, provider
<1>4. Forward /\ Steady
  BY <1>3 DEF FinishBalance, Forward, Steady, provider
<1>5. Idle \in CallStates' /\ Knows(Idle)'
  BY DEF CallStates, Knows, Idle
<1>6. CallsOK' /\ HooksOK'
  BY <1>4, <1>5, IdleKnows, CallsForward, HooksForward DEF FinishBalance
<1>7. ProviderOK'
  BY DEF FinishBalance, provider, IInv, ProviderOK, ReportsTrue
<1>8. Kept
  BY <1>3 DEF FinishBalance, Kept, IInv, TablesOK
<1>. QED  BY <1>3, <1>6, <1>7, <1>8 DEF IInv

\* The lines of a new settlement are in no line of another: its calculation is
\* the only one, and has seen them all.
LEMMA SettlementIInv ==
  ASSUME IInv, NEW k \in Calls, FinishSettlement(k)
  PROVE  IInv' /\ Kept
<1>0. PICK end \in PeriodEnds :
        LET E == syncAllocations(calls[k].seen)
            eligible == {e \in E : Available(e, end)} \ calls[k].settled
        IN IF Positive(E) /\ Net(eligible) >= Minimum
           THEN /\ entries' = E
                /\ settlement' = [settlement EXCEPT ![calls[k].s] =
                     [status |-> "READY", net |-> Net(eligible), lines |-> eligible]]
           ELSE UNCHANGED <<entries, settlement>>
  BY DEF FinishSettlement
<1>. DEFINE s == calls[k].s
            E == syncAllocations(calls[k].seen)
            eligible == {e \in E : Available(e, end)} \ calls[k].settled
            row == [status |-> "READY", net |-> Net(eligible), lines |-> eligible]
<1>1. calls[k] \in CallStates /\ calls[k].pc = "settle" /\ Knows(calls[k])
  BY DEF IInv, CallsOK, FinishSettlement, At
<1>2. /\ calls[k].seen \in Seen /\ s \in Settlements
      /\ settlement[s].status = None /\ calls[k].settled = Lines
  BY <1>1, CallFields DEF Knows
<1>3. payout[s].status = None
  BY <1>2 DEF IInv, TablesOK, Founded
<1>4. /\ entries \subseteq E
      /\ \A e \in E \ entries : /\ e.type \in EntryTypes \ {"PAYOUT", "PAYOUT_REVERSAL"}
                                /\ e.source \in Transactions \cup Refunds
  BY <1>2, SyncAdds
<1>5. \A j \in Calls \ {k} : ~At(j, "settle")
  BY DEF FinishSettlement, IInv, CallsOK, Serialized
<1>6. UNCHANGED <<earnings, payout, attempts, inbox, hooks, provider>> /\ Goto(k, Idle)
  BY DEF FinishSettlement
<1>7. CASE UNCHANGED <<entries, settlement>>
  BY <1>6, <1>7, IdleKnows, CallIInv
<1>8. CASE entries' = E /\ settlement' = [settlement EXCEPT ![s] = row]
  <2>. HIDE DEF E
  <2>1. /\ \A q \in Settlements \ {s} : settlement'[q] = settlement[q]
        /\ settlement'[s].status = "READY" /\ settlement'[s].lines = eligible
        /\ settlement'[s] = row
    BY <1>2, <1>8 DEF IInv, TablesOK, Rows
  <2>2. eligible \subseteq entries' /\ eligible \cap Lines = {}
    BY <1>2, <1>8
  <2>3. Rows'
    <3>1. DOMAIN settlement' = Settlements
      BY <1>8 DEF IInv, TablesOK, Rows
    <3>2. \A q \in Settlements : settlement'[q] = [status |-> settlement'[q].status,
                                 net |-> settlement'[q].net, lines |-> settlement'[q].lines]
      <4>1. row = [status |-> row.status, net |-> row.net, lines |-> row.lines]
        OBVIOUS
      <4>2. \A q \in Settlements : settlement[q] = [status |-> settlement[q].status,
                                   net |-> settlement[q].net, lines |-> settlement[q].lines]
        BY DEF IInv, TablesOK, Rows
      <4>. HIDE DEF row
      <4>. QED  BY <2>1, <4>1, <4>2
    <3>3. settlement' = [q \in Settlements |-> settlement'[q]]
      BY <1>8 DEF IInv, TablesOK, Rows
    <3>. QED  BY <3>1, <3>2, <3>3 DEF Rows
  <2>4. SettledOnce'
    BY <2>1, <2>2 DEF IInv, TablesOK, SettledOnce, Lines
  <2>5. \A q \in Settlements : /\ Bound(entries, "PAYOUT", q)' = Bound(entries, "PAYOUT", q)
                               /\ Bound(entries, "PAYOUT_REVERSAL", q)' = Bound(entries, "PAYOUT_REVERSAL", q)
    BY <1>4, <1>8 DEF Bound
  <2>6. LedgerTellsPayout'
    <3>1. \A q \in Settlements : payout[q].status = "PAID" => PaidEntry(q)' = PaidEntry(q)
      BY <1>3, <2>1, NoneAssumption DEF PaidEntry, Entry, PayoutStatus
    <3>. QED  BY <1>6, <2>5, <3>1 DEF LedgerTellsPayout, IInv, TablesOK
  <2>7. \A e \in entries' : e.type \in EntryTypes /\ e.source \in Sources
    BY <1>4, <1>8 DEF Sources, IInv, TablesOK
  <2>8. \A q \in Settlements : /\ settlement'[q].status \in {None} \cup SettlementStatus
                               /\ settlement'[q].lines \subseteq entries'
    BY <1>4, <1>8, <2>1, <2>2 DEF IInv, TablesOK, SettlementStatus
  <2>9. Founded' /\ ConfirmedByProvider'
    BY <1>6, <2>1, NoneAssumption
    DEF IInv, TablesOK, Founded, ConfirmedByProvider, provider, SettlementStatus
  <2>10. TablesOK'
    BY <1>6, <2>3, <2>4, <2>6, <2>7, <2>8, <2>9 DEF IInv, TablesOK, earnings
  <2>11. Forward
    BY <1>4, <1>6, <1>8, <2>1, NoneAssumption DEF Forward, provider, SettlementStatus
  <2>12. Idle \in CallStates' /\ Knows(Idle)'
    BY DEF CallStates, Knows, Idle
  <2>13. CallsOK' /\ HooksOK'
    BY <1>5, <1>6, <2>11, <2>12, IdleKnows, CallsForward, HooksForward
  <2>14. ProviderOK'
    BY <1>6 DEF provider, IInv, ProviderOK, ReportsTrue
  <2>15. Kept
    BY <1>2, <1>4, <1>6, <1>8, <2>1 DEF Kept, IInv, TablesOK
  <2>. QED  BY <2>10, <2>13, <2>14, <2>15 DEF IInv
<1>. QED  BY <1>0, <1>7, <1>8

\* A new status of a settlement, and nothing else of it.
LEMMA StatusOnly ==
  ASSUME IInv, NEW s \in Settlements, settlement[s].status # None, NEW status \in SettlementStatus,
         SetSettlement(s, status)
  PROVE  /\ Rows' /\ Steady
         /\ \A q \in Settlements :
              /\ settlement'[q].lines = settlement[q].lines /\ settlement'[q].net = settlement[q].net
              /\ settlement'[q].status \in {None} \cup SettlementStatus
              /\ settlement[q].status # None <=> settlement'[q].status # None
<1>1. settlement' = [settlement EXCEPT ![s] =
        [status |-> status, net |-> settlement[s].net, lines |-> settlement[s].lines]]
  <2>. DEFINE row == [status |-> settlement[s].status, net |-> settlement[s].net,
                      lines |-> settlement[s].lines]
  <2>1. settlement[s] = row
    BY DEF IInv, TablesOK, Rows
  <2>2. [row EXCEPT !.status = status]
          = [status |-> status, net |-> settlement[s].net, lines |-> settlement[s].lines]
    OBVIOUS
  <2>3. settlement' = [settlement EXCEPT ![s] = [settlement[s] EXCEPT !.status = status]]
    BY DEF SetSettlement
  <2>. HIDE DEF row
  <2>. QED  BY <2>1, <2>2, <2>3
<1>2. \A q \in Settlements :
        /\ settlement'[q] = [status |-> settlement'[q].status, net |-> settlement'[q].net,
                             lines |-> settlement'[q].lines]
        /\ settlement'[q].lines = settlement[q].lines /\ settlement'[q].net = settlement[q].net
        /\ settlement'[q].status = IF q = s THEN status ELSE settlement[q].status
  BY <1>1 DEF IInv, TablesOK, Rows
<1>3. DOMAIN settlement' = Settlements /\ settlement' = [q \in Settlements |-> settlement'[q]]
  BY <1>1 DEF IInv, TablesOK, Rows
<1>4. Rows'
  BY <1>2, <1>3 DEF Rows
<1>. QED  BY <1>2, <1>4, NoneAssumption DEF Steady, IInv, TablesOK, SettlementStatus

LEMMA FinalizeIInv ==
  ASSUME IInv, NEW k \in Calls, FinishFinalize(k)
  PROVE  IInv' /\ Kept
<1>1. calls[k] \in CallStates /\ calls[k].pc = "finalize" /\ Knows(calls[k])
  BY DEF IInv, CallsOK, FinishFinalize, At
<1>2. calls[k].s \in Settlements /\ settlement[calls[k].s].status # None
  BY <1>1, CallFields DEF Knows
<1>3. /\ Rows' /\ Steady
      /\ \A q \in Settlements :
           /\ settlement'[q].lines = settlement[q].lines /\ settlement'[q].net = settlement[q].net
           /\ settlement'[q].status \in {None} \cup SettlementStatus
           /\ settlement[q].status # None <=> settlement'[q].status # None
  BY <1>2, StatusOnly DEF FinishFinalize, SettlementStatus
<1>4. UNCHANGED <<earnings, entries, payout, attempts, inbox, hooks, provider>> /\ Goto(k, Idle)
  BY DEF FinishFinalize
<1>5. TablesOK'
  BY <1>3, <1>4
  DEF IInv, TablesOK, earnings, provider, Founded, SettledOnce, ConfirmedByProvider, LedgerTellsPayout,
      Bound, PaidEntry, Entry
<1>6. Forward
  BY <1>3, <1>4 DEF Forward, provider
<1>7. Idle \in CallStates' /\ Knows(Idle)'
  BY DEF CallStates, Knows, Idle
<1>8. CallsOK' /\ HooksOK'
  BY <1>3, <1>4, <1>6, <1>7, IdleKnows, CallsForward, HooksForward
<1>9. ProviderOK' /\ Kept
  BY <1>3, <1>4 DEF provider, IInv, ProviderOK, ReportsTrue, Kept, TablesOK
<1>. QED  BY <1>5, <1>8, <1>9 DEF IInv

-----------------------------------------------------------------------------
(* Payouts.                                                                 *)

PayoutEntries(s, status) ==
  CASE status = "PAID" -> {PaidEntry(s)} [] status = "RETURNED" -> {ReturnedEntry(s)} [] OTHER -> {}

\* A payout is written with the entry of its new status; the trigger permits it.
LEMMA WriteTables ==
  ASSUME IInv, NEW s \in Settlements, NEW row \in [status : PayoutStatus, known : BOOLEAN],
         payout' = [payout EXCEPT ![s] = row], Permitted(s, row), settlement[s].status # None,
         UNCHANGED settlement \/ \E status \in SettlementStatus : SetSettlement(s, status),
         entries' = Append(entries, PayoutEntries(s, row.status)),
         row.status = "PAID" => bank[s].status \in {"PAID", "RETURNED"},
         row.status = "RETURNED" => bank[s].status = "RETURNED",
         attempts' \in [Settlements -> SUBSET AllKeys], UNCHANGED <<earnings, provider>>
  PROVE  TablesOK' /\ Kept /\ Steady /\ Forward
<1>. USE DEF IInv, TablesOK
<1>1. /\ Rows' /\ Steady
      /\ \A q \in Settlements :
           /\ settlement'[q].lines = settlement[q].lines /\ settlement'[q].net = settlement[q].net
           /\ settlement'[q].status \in {None} \cup SettlementStatus
           /\ settlement[q].status # None <=> settlement'[q].status # None
  <2>1. CASE UNCHANGED settlement
    BY <2>1 DEF Rows, Steady
  <2>2. CASE \E status \in SettlementStatus : SetSettlement(s, status)
    BY <2>2, StatusOnly
  <2>. QED  BY <2>1, <2>2
<1>2. /\ payout'[s] = row /\ \A q \in Settlements \ {s} : payout'[q] = payout[q]
      /\ payout' \in [Settlements -> [status : {None} \cup PayoutStatus, known : BOOLEAN]]
      /\ row.status # None
  BY NoneAssumption
<1>3. entries \subseteq entries' /\ entries' \subseteq entries \cup PayoutEntries(s, row.status)
  BY AppendKeeps
<1>4. \A e \in PayoutEntries(s, row.status) :
        /\ e.source = s
        /\ row.status = "PAID" => e = PaidEntry(s) /\ e.type = "PAYOUT"
        /\ row.status = "RETURNED" => e = ReturnedEntry(s) /\ e.type = "PAYOUT_REVERSAL"
        /\ row.status \in {"PAID", "RETURNED"}
  BY DEF PayoutEntries, PaidEntry, ReturnedEntry, Entry
<1>5. \A e \in entries' : e.type \in EntryTypes /\ e.source \in Sources
  BY <1>3, <1>4 DEF EntryTypes, Sources
<1>6. \A q \in Settlements : /\ PaidEntry(q)' = PaidEntry(q)
                             /\ PaidEntry(q).type = "PAYOUT" /\ PaidEntry(q).source = q
                             /\ ReturnedEntry(q).type = "PAYOUT_REVERSAL" /\ ReturnedEntry(q).source = q
  BY <1>1 DEF PaidEntry, ReturnedEntry, Entry
<1>7. LedgerTellsPayout'
  <2>. SUFFICES ASSUME NEW q \in Settlements
                PROVE  /\ payout'[q].status = "PAID" => Bound(entries', "PAYOUT", q) = {PaidEntry(q)}
                       /\ Bound(entries', "PAYOUT", q) # {} => payout'[q].status \in {"PAID", "RETURNED"}
                       /\ payout'[q].status = "RETURNED" <=> Bound(entries', "PAYOUT_REVERSAL", q) # {}
    BY <1>6 DEF LedgerTellsPayout
  <2>1. CASE q # s
    <3>1. /\ Bound(entries', "PAYOUT", q) = Bound(entries, "PAYOUT", q)
          /\ Bound(entries', "PAYOUT_REVERSAL", q) = Bound(entries, "PAYOUT_REVERSAL", q)
      BY <1>3, <1>4, <2>1 DEF Bound
    <3>. QED  BY <1>2, <2>1, <3>1 DEF LedgerTellsPayout
  <2>2. CASE q = s /\ row.status \notin {"PAID", "RETURNED"}
    <3>1. entries' = entries
      BY <1>3, <1>4, <2>2
    <3>. QED  BY <1>2, <2>2, <3>1 DEF LedgerTellsPayout, Permitted
  <2>3. CASE q = s /\ row.status = "PAID"
    <3>1. PayoutEntries(s, row.status) = {PaidEntry(s)}
      BY <2>3 DEF PayoutEntries
    <3>2. Bound(entries', "PAYOUT_REVERSAL", s) = Bound(entries, "PAYOUT_REVERSAL", s)
      BY <1>3, <1>4, <2>3 DEF Bound
    <3>3. payout[s].status # "RETURNED"
      BY <2>3 DEF Permitted
    <3>4. CASE Bound(entries, "PAYOUT", s) = {}
      <4>1. entries' = entries \cup {PaidEntry(s)}
        BY <1>6, <3>1, <3>4 DEF Append
      <4>2. Bound(entries', "PAYOUT", s) = {PaidEntry(s)}
        BY <1>6, <3>4, <4>1 DEF Bound
      <4>. QED  BY <1>2, <2>3, <3>2, <3>3, <4>2 DEF LedgerTellsPayout
    <3>5. CASE Bound(entries, "PAYOUT", s) # {}
      <4>1. payout[s].status = "PAID" /\ Bound(entries, "PAYOUT", s) = {PaidEntry(s)}
        BY <3>3, <3>5 DEF LedgerTellsPayout
      <4>2. Bound(entries', "PAYOUT", s) = {PaidEntry(s)}
        BY <1>3, <3>1, <4>1 DEF Bound
      <4>. QED  BY <1>2, <2>3, <3>2, <3>3, <4>2 DEF LedgerTellsPayout
    <3>. QED  BY <3>4, <3>5
  <2>4. CASE q = s /\ row.status = "RETURNED"
    <3>1. PayoutEntries(s, row.status) = {ReturnedEntry(s)}
      BY <2>4 DEF PayoutEntries
    <3>2. Bound(entries', "PAYOUT_REVERSAL", s) # {}
      <4>1. Bound(entries, "PAYOUT_REVERSAL", s) = {} => ReturnedEntry(s) \in entries'
        BY <1>6, <3>1 DEF Append
      <4>. QED  BY <1>3, <1>6, <4>1 DEF Bound
    <3>. QED  BY <1>2, <2>4, <3>2
  <2>. QED  BY <2>1, <2>2, <2>3, <2>4
<1>8. Founded' /\ ConfirmedByProvider'
  BY <1>1, <1>2 DEF Founded, ConfirmedByProvider, provider
<1>9. SettledOnce'
  BY <1>1 DEF SettledOnce
<1>10. TablesOK'
  BY <1>1, <1>2, <1>3, <1>5, <1>7, <1>8, <1>9 DEF earnings
<1>11. Kept
  BY <1>1, <1>2, <1>3 DEF Kept, Permitted
<1>12. Forward
  BY <1>1, <1>2, <1>3 DEF Forward, provider
<1>. QED  BY <1>1, <1>10, <1>11, <1>12

\* A request writes a payout and goes on.
LEMMA RequestWrites ==
  ASSUME IInv, NEW k \in Calls, NEW s \in Settlements,
         NEW row \in [status : PayoutStatus, known : BOOLEAN],
         payout' = [payout EXCEPT ![s] = row], Permitted(s, row), settlement[s].status # None,
         UNCHANGED settlement \/ \E status \in SettlementStatus : SetSettlement(s, status),
         entries' = Append(entries, PayoutEntries(s, row.status)),
         row.status = "PAID" => bank[s].status \in {"PAID", "RETURNED"},
         row.status = "RETURNED" => bank[s].status = "RETURNED",
         attempts' \in [Settlements -> SUBSET AllKeys],
         Goto(k, Idle) \/ Goto(k, [pc |-> "transfer", s |-> s]),
         UNCHANGED <<earnings, inbox, hooks, provider>>
  PROVE  IInv' /\ Kept
<1>1. TablesOK' /\ Kept /\ Steady /\ Forward
  BY WriteTables
<1>2. Idle \in CallStates' /\ Knows(Idle)'
  BY DEF CallStates, Knows, Idle
<1>3. payout'[s].status # None
  BY NoneAssumption DEF IInv, TablesOK
<1>. DEFINE state == [pc |-> "transfer", s |-> s]
<1>4. state \in CallStates' /\ Knows(state)' /\ state.pc = "transfer"
  BY <1>3 DEF CallStates, Knows
<1>. HIDE DEF state
<1>5. CallsOK'
  <2>1. CASE Goto(k, Idle)
    BY <1>1, <1>2, <2>1, IdleKnows, CallsForward
  <2>2. CASE Goto(k, state)
    BY <1>1, <1>4, <2>2, CallsForward
  <2>. QED  BY <2>1, <2>2 DEF state
<1>6. HooksOK' /\ ProviderOK'
  BY <1>1, HooksForward DEF IInv, ProviderOK, ReportsTrue, provider
<1>. QED  BY <1>1, <1>5, <1>6 DEF IInv

LEMMA RequestIInv ==
  ASSUME IInv, NEW k \in Calls, NEW s \in Settlements, NEW key \in Keys[s], RequestPayout(k, s, key)
  PROVE  IInv' /\ Kept
<1>1. Reset \in [status : PayoutStatus, known : BOOLEAN] /\ Reset.status = "REQUESTED"
  BY DEF Reset, PayoutStatus
<1>2. entries = Append(entries, PayoutEntries(s, "REQUESTED"))
  BY DEF Append, PayoutEntries
<1>3. attempts' \in [Settlements -> SUBSET AllKeys]
  BY DEF RequestPayout, IInv, TablesOK, AllKeys
<1>4. Permitted(s, Reset) /\ settlement[s].status # None
  BY NoneAssumption DEF RequestPayout, Permitted, PayoutStatus, SettlementStatus
<1>. QED
  BY <1>1, <1>2, <1>3, <1>4, RequestWrites DEF RequestPayout, Reset, SettlementStatus

LEMMA PayoutIInv ==
  ASSUME IInv, NEW k \in Calls, Reserve(k) \/ Record(k)
  PROVE  IInv' /\ Kept
<1>1. calls[k] \in CallStates /\ Knows(calls[k])
  BY DEF IInv, CallsOK
<1>2. Reset \in [status : PayoutStatus, known : BOOLEAN] /\ Reset.status = "REQUESTED"
  BY DEF Reset, PayoutStatus
<1>3. \A q \in Settlements : entries = Append(entries, PayoutEntries(q, "REQUESTED"))
  BY DEF Append, PayoutEntries
<1>5. CASE Reserve(k)
  <2>. DEFINE q == calls[k].s
  <2>1. q \in Settlements /\ payout[q].status # None /\ calls[k].key \in AllKeys
    BY <1>1, <1>5, CallFields DEF Reserve, At, Knows
  <2>2. CASE ~Permitted(q, Reset)
    BY <1>5, <2>2, IdleKnows, CallIInv DEF Reserve
  <2>3. CASE Permitted(q, Reset)
    <3>1. attempts' \in [Settlements -> SUBSET AllKeys]
      BY <1>5, <2>1, <2>3 DEF Reserve, IInv, TablesOK
    <3>2. settlement[q].status # None
      BY <2>1 DEF IInv, TablesOK, Founded
    <3>. QED
      BY <1>2, <1>3, <1>5, <2>1, <2>3, <3>1, <3>2, RequestWrites DEF Reserve, SettlementStatus
  <2>. QED  BY <2>2, <2>3
<1>6. CASE Record(k)
  <2>. DEFINE q == calls[k].s
              row == [status |-> calls[k].answer, known |-> TRUE]
  <2>1. /\ q \in Settlements /\ payout[q].status # None
        /\ calls[k].answer \in {"PROCESSING", "PAID", "FAILED"}
        /\ calls[k].answer = "PAID" => bank[q].status \in {"PAID", "RETURNED"}
    BY <1>1, <1>6, CallFields DEF Record, At, Knows
  <2>2. settlement[q].status # None
    BY <2>1 DEF IInv, TablesOK, Founded
  <2>3. row \in [status : PayoutStatus, known : BOOLEAN] /\ row.status = calls[k].answer
    BY <2>1 DEF PayoutStatus
  <2>4. CASE UNCHANGED <<payout, entries, settlement>>
    BY <1>6, <2>4, IdleKnows, CallIInv DEF Record
  <2>5. CASE /\ Permitted(q, row) /\ (row.status = "PAID" => Bound(entries, "PAYOUT", q) = {})
             /\ payout' = [payout EXCEPT ![q] = row]
             /\ entries' = IF row.status = "PAID" THEN entries \cup {PaidEntry(q)} ELSE entries
             /\ Follow(q, row.status)
    <3>1. entries' = Append(entries, PayoutEntries(q, row.status))
      BY <2>1, <2>3, <2>5 DEF Append, PayoutEntries, PaidEntry, Entry
    <3>2. UNCHANGED settlement \/ \E status \in SettlementStatus : SetSettlement(q, status)
      BY <2>5 DEF Follow, SettlementStatus
    <3>3. attempts' \in [Settlements -> SUBSET AllKeys]
      BY <1>6 DEF Record, IInv, TablesOK
    <3>. HIDE DEF q, row
    <3>. QED
      BY <1>6, <2>1, <2>2, <2>3, <2>5, <3>1, <3>2, <3>3, RequestWrites DEF Record
  <2>. QED  BY <1>6, <2>4, <2>5 DEF Record
<1>. QED  BY <1>5, <1>6

-----------------------------------------------------------------------------
(* The provider and its webhook.                                            *)

\* The provider moves a payout and reports it; what was paid is not taken back
\* but by a return.
LEMMA ProviderMoves ==
  ASSUME IInv, NEW s \in Settlements, NEW status \in AtBank, NEW n \in 1 .. MaxTransfers,
         bank' = [bank EXCEPT ![s] = [status |-> status, n |-> n]],
         bank[s].status \in {"PAID", "RETURNED"} => status = "RETURNED",
         Tell(s, n, status),
         UNCHANGED <<earnings, entries, settlement, payout, attempts, inbox>>
  PROVE  TablesOK' /\ ProviderOK' /\ Forward /\ Steady
<1>. USE DEF IInv, TablesOK, ProviderOK
<1>0. reports \subseteq reports' /\ reports' \subseteq reports \cup {Report(s, n, Told(status))}
  BY DEF Tell
<1>1. /\ bank'[s] = [status |-> status, n |-> n] /\ \A q \in Settlements \ {s} : bank'[q] = bank[q]
      /\ n \in 0 .. MaxTransfers /\ n \in Nat
  BY DataAssumption
<1>2. bank' \in [Settlements -> [status : {None} \cup AtBank, n : 0 .. MaxTransfers]]
  BY <1>1
<1>3. \A q \in Settlements : bank'[q].status = None => bank'[q].n = 0
  BY <1>1, NoneAssumption
<1>4. Told(status) \in {"processing", "paid", "failed", "returned"}
      /\ (Told(status) = "paid" => status = "PAID") /\ (Told(status) = "returned" => status = "RETURNED")
  BY DEF Told, AtBank
<1>5. reports' \subseteq Reports /\ inbox' \subseteq reports'
  BY <1>0, <1>1, <1>4 DEF Report, Reports
<1>6. ReportsTrue'
  BY <1>0, <1>1, <1>4 DEF ReportsTrue, Report, Reports
<1>7. ConfirmedByProvider'
  BY <1>1 DEF ConfirmedByProvider
<1>8. TablesOK'
  BY <1>7 DEF Rows, Founded, SettledOnce, LedgerTellsPayout, Bound, PaidEntry, Entry, earnings
<1>9. Forward /\ Steady
  BY <1>0, <1>1 DEF Forward, Steady
<1>. QED  BY <1>2, <1>3, <1>5, <1>6, <1>8, <1>9

LEMMA ProgressIInv ==
  ASSUME IInv, NEW s \in Settlements, Progress(s)
  PROVE  IInv' /\ Kept
<1>1. PICK status \in AtBank :
        /\ <<bank[s].status, status>> \in
              {<<"PROCESSING", "PAID">>, <<"PROCESSING", "FAILED">>, <<"PAID", "RETURNED">>}
        /\ bank' = [bank EXCEPT ![s].status = status]
        /\ Tell(s, bank[s].n, status)
  BY DEF Progress
<1>2. bank[s] \in [status : {None} \cup AtBank, n : 0 .. MaxTransfers]
  BY DEF IInv, ProviderOK
<1>3. bank[s].n \in 1 .. MaxTransfers /\ bank' = [bank EXCEPT ![s] = [status |-> status, n |-> bank[s].n]]
  <2>1. bank[s].status \in {"PROCESSING", "PAID"}
    BY <1>1
  <2>2. bank[s].n # 0
    BY <2>1, NoneAssumption DEF IInv, ProviderOK, AtBank
  <2>3. bank[s].n \in 1 .. MaxTransfers
    BY <1>2, <2>2, DataAssumption
  <2>4. [bank[s] EXCEPT !.status = status] = [status |-> status, n |-> bank[s].n]
    BY <1>2
  <2>. QED  BY <1>1, <2>3, <2>4
<1>4. TablesOK' /\ ProviderOK' /\ Forward /\ Steady
  BY <1>1, <1>3, ProviderMoves DEF Progress
<1>. QED  BY <1>4, CallsStay, HooksForward, UnchangedKept DEF Progress, IInv

\* The answer of a transfer says no more than the provider has done.
LEMMA TransferIInv ==
  ASSUME IInv, NEW k \in Calls, Transfer(k)
  PROVE  IInv' /\ Kept
<1>1. calls[k] \in CallStates /\ calls[k].pc = "transfer" /\ Knows(calls[k])
  BY DEF IInv, CallsOK, Transfer, At
<1>2. PICK s \in Settlements : s = calls[k].s /\ payout[s].status # None
  BY <1>1, CallFields DEF Knows
<1>3. /\ bank[s] \in [status : {None} \cup AtBank, n : 0 .. MaxTransfers]
      /\ bank[s].status = None <=> bank[s].n = 0
  BY <1>2 DEF IInv, ProviderOK
<1>4. CASE bank[s].status \in {None, "FAILED"} /\ bank[s].n < MaxTransfers
  <2>. DEFINE state(status) == [pc |-> "answered", s |-> s, answer |-> Answer(status)]
  <2>1. PICK status \in {"PROCESSING", "PAID", "FAILED"} :
          /\ bank' = [bank EXCEPT ![s] = [status |-> status, n |-> bank[s].n + 1]]
          /\ Tell(s, bank[s].n + 1, status)
          /\ Goto(k, state(status))
    BY <1>2, <1>4 DEF Transfer
  <2>2. bank[s].n + 1 \in 1 .. MaxTransfers /\ status \in AtBank
        /\ ~(bank[s].status \in {"PAID", "RETURNED"})
    BY <1>3, <1>4, DataAssumption, NoneAssumption DEF AtBank
  <2>3. TablesOK' /\ ProviderOK' /\ Forward /\ Steady
    BY <2>1, <2>2, ProviderMoves DEF Transfer
  <2>4. bank'[s].status = status /\ payout'[s].status # None
    BY <1>2, <2>1 DEF IInv, ProviderOK, Transfer
  <2>. DEFINE next == [pc |-> "answered", s |-> s, answer |-> status]
  <2>5. Goto(k, next) /\ next.pc = "answered"
    BY <2>1 DEF Answer
  <2>6. next \in CallStates' /\ Knows(next)'
    BY <2>4 DEF CallStates, Knows
  <2>. HIDE DEF next
  <2>7. CallsOK'
    BY <2>3, <2>5, <2>6, CallsForward
  <2>. QED  BY <2>3, <2>7, HooksForward, UnchangedKept DEF Transfer, IInv
<1>5. CASE ~(bank[s].status \in {None, "FAILED"} /\ bank[s].n < MaxTransfers)
  <2>. DEFINE state == [pc |-> "answered", s |-> s, answer |-> Answer(bank[s].status)]
  <2>1. Goto(k, state) /\ UNCHANGED provider /\ state.pc = "answered"
    BY <1>2, <1>5 DEF Transfer
  <2>2. bank[s].status \in AtBank
    BY <1>3, <1>5, DataAssumption
  <2>3. state \in CallStates
    BY <2>2 DEF CallStates, Answer, AtBank
  <2>4. Knows(state)
    BY <1>2, <2>2 DEF Knows, Answer, AtBank
  <2>5. UNCHANGED <<earnings, entries, settlement, payout, attempts, inbox, hooks>>
    BY DEF Transfer
  <2>. HIDE DEF state
  <2>. QED  BY <2>1, <2>3, <2>4, <2>5, CallIInv
<1>. QED  BY <1>4, <1>5

LEMMA ReceiveIInv ==
  ASSUME IInv, NEW h \in Hooks, (\E e \in reports : Receive(h, e)) \/ DropHook(h)
  PROVE  IInv' /\ Kept
<1>1. UNCHANGED <<earnings, entries, settlement, payout, attempts, inbox, calls, provider>>
  BY DEF Receive, DropHook
<1>2. TablesOK'
  BY <1>1 DEF IInv, TablesOK, Rows, Founded, SettledOnce, ConfirmedByProvider, LedgerTellsPayout, Bound,
         PaidEntry, ReturnedEntry, Entry, provider, earnings
<1>3. ProviderOK' /\ Forward /\ Steady /\ Kept
  BY <1>1, UnchangedKept DEF IInv, ProviderOK, ReportsTrue, provider, Forward, Steady
<1>4. HooksOK'
  <2>1. CASE DropHook(h)
    BY <1>3, <2>1, HooksForward DEF DropHook
  <2>2. CASE \E e \in reports : Receive(h, e)
    <3>1. PICK e \in reports : Receive(h, e)
      BY <2>2
    <3>. DEFINE state == [pc |-> "apply", event |-> e, found |-> payout[e.s].known,
                          seen |-> payout[e.s].status]
    <3>2. e.s \in Settlements
      BY DEF IInv, ProviderOK, Reports
    <3>3. state \in HookStates /\ (state.found => payout[state.event.s].status # None)
      BY <3>2 DEF HookStates, IInv, TablesOK, Founded
    <3>4. hooks' = [hooks EXCEPT ![h] = state] /\ hooks \in [Hooks -> HookStates]
      BY <3>1 DEF Receive, IInv, HooksOK
    <3>. HIDE DEF state
    <3>5. hooks' \in [Hooks -> HookStates] /\ \A i \in Hooks : hooks'[i] \in {state, hooks[i]}
      BY <3>3, <3>4
    <3>6. HookStates' = HookStates
      BY <1>1 DEF HookStates, provider
    <3>. QED  BY <1>1, <3>3, <3>5, <3>6 DEF HooksOK, FoundExists, IInv
  <2>. QED  BY <2>1, <2>2
<1>. QED  BY <1>1, <1>2, <1>3, <1>4, CallsStay DEF IInv

\* A report is applied: it is true, and the trigger keeps what is final.
LEMMA ApplyIInv ==
  ASSUME IInv, NEW h \in Hooks, Apply(h)
  PROVE  IInv' /\ Kept
<1>. DEFINE e == hooks[h].event
            s == e.s
            row == [payout[s] EXCEPT !.status = StatusOf(e.type)]
<1>1. hooks[h] \in HookStates /\ hooks[h].pc = "apply"
  BY DEF Apply, IInv, HooksOK
<1>2. e \in reports /\ s \in Settlements /\ hooks[h] # Idle
      /\ e.type \in {"processing", "paid", "failed", "returned"}
  BY <1>1 DEF HookStates, Idle, IInv, ProviderOK, Reports
<1>3. /\ UNCHANGED <<earnings, attempts, calls, provider>> /\ hooks' = [hooks EXCEPT ![h] = Idle]
      /\ inbox' \subseteq reports
  BY <1>2 DEF Apply, IInv, ProviderOK
<1>4. ProviderOK'
  BY <1>3 DEF IInv, ProviderOK, ReportsTrue, provider
<1>5. CASE UNCHANGED <<payout, entries, settlement>>
  <2>1. TablesOK'
    BY <1>3, <1>5 DEF IInv, TablesOK, Rows, Founded, SettledOnce, ConfirmedByProvider, LedgerTellsPayout,
         Bound, PaidEntry, ReturnedEntry, Entry, provider, earnings
  <2>2. Forward /\ Steady /\ Kept
    BY <1>3, <1>5, UnchangedKept DEF Forward, Steady, provider
  <2>. QED  BY <1>3, <1>4, <2>1, <2>2, CallsStay, HooksForward DEF IInv
<1>6. CASE /\ hooks[h].found /\ Permitted(s, row)
           /\ payout' = [payout EXCEPT ![s] = row]
           /\ entries' = Append(entries, CASE e.type = "paid" -> {PaidEntry(s)}
                                           [] e.type = "returned" -> {ReturnedEntry(s)}
                                           [] OTHER -> {})
           /\ Follow(s, row.status)
  <2>1. payout[s].status # None /\ settlement[s].status # None
    BY <1>2, <1>6 DEF IInv, HooksOK, FoundExists, TablesOK, Founded
  <2>2. /\ row \in [status : PayoutStatus, known : BOOLEAN] /\ row.status = StatusOf(e.type)
    BY <1>2 DEF IInv, TablesOK, StatusOf, PayoutStatus
  <2>3. /\ row.status = "PAID" <=> e.type = "paid"
        /\ row.status = "RETURNED" <=> e.type = "returned"
    BY <1>2, <2>2 DEF StatusOf
  <2>4. entries' = Append(entries, PayoutEntries(s, row.status))
    BY <1>2, <1>6, <2>3 DEF PayoutEntries
  <2>5. UNCHANGED settlement \/ \E status \in SettlementStatus : SetSettlement(s, status)
    BY <1>6 DEF Follow, SettlementStatus
  <2>6. /\ row.status = "PAID" => bank[s].status \in {"PAID", "RETURNED"}
        /\ row.status = "RETURNED" => bank[s].status = "RETURNED"
    BY <1>2, <2>3 DEF IInv, ProviderOK, ReportsTrue
  <2>7. attempts' \in [Settlements -> SUBSET AllKeys]
    BY <1>3 DEF IInv, TablesOK
  <2>. HIDE DEF row, s, e
  <2>8. TablesOK' /\ Kept /\ Steady /\ Forward
    BY <1>2, <1>3, <1>6, <2>1, <2>2, <2>4, <2>5, <2>6, <2>7, WriteTables
  <2>. QED  BY <1>3, <1>4, <2>8, CallsStay, HooksForward DEF IInv
<1>. QED  BY <1>5, <1>6 DEF Apply

-----------------------------------------------------------------------------
(* The theorems.                                                            *)

LEMMA InitIInv == Init => IInv
<1>. SUFFICES ASSUME Init PROVE IInv
  OBVIOUS
<1>1. TablesOK
  <2>1. Rows
    BY DEF Init, Rows
  <2>2. Founded /\ ConfirmedByProvider
    BY NoneAssumption DEF Init, Founded, ConfirmedByProvider, PayoutStatus
  <2>3. LedgerTellsPayout
    BY NoneAssumption DEF Init, LedgerTellsPayout, Bound, PayoutStatus
  <2>4. SettledOnce
    BY DEF Init, SettledOnce
  <2>. QED  BY <2>1, <2>2, <2>3, <2>4 DEF Init, TablesOK, Seen
<1>2. ProviderOK
  BY DataAssumption DEF Init, ProviderOK, ReportsTrue
<1>3. CallsOK
  BY IdleKnows DEF Init, CallsOK, Serialized, At
<1>4. HooksOK
  BY DEF Init, HooksOK, FoundExists, HookStates
<1>. QED  BY <1>1, <1>2, <1>3, <1>4 DEF IInv

LEMMA NextIInv == IInv /\ [Next]_vars => IInv' /\ Kept
<1>. SUFFICES ASSUME IInv, [Next]_vars PROVE IInv' /\ Kept
  OBVIOUS
<1>1. CASE UNCHANGED vars
  BY <1>1, EarningsIInv DEF vars, earnings, IInv, TablesOK
<1>2. ASSUME NEW k \in Calls,
             \/ BeginBalance(k) \/ FinishBalance(k) \/ FinishSettlement(k) \/ FinishFinalize(k)
             \/ Reserve(k) \/ Transfer(k) \/ BeginRecord(k) \/ Record(k) \/ DropCall(k)
      PROVE  IInv' /\ Kept
  BY <1>2, GoOnIInv, BalanceIInv, SettlementIInv, FinalizeIInv, PayoutIInv, TransferIInv
<1>3. ASSUME NEW k \in Calls, NEW s \in Settlements,
             \/ BeginSettlement(k, s) \/ BeginFinalize(k, s) \/ ResumePayout(k, s)
             \/ \E key \in Keys[s] : RequestPayout(k, s, key) \/ BeginRetry(k, s, key)
      PROVE  IInv' /\ Kept
  BY <1>3, BeginIInv, RequestIInv
<1>4. ASSUME NEW h \in Hooks, Apply(h) \/ DropHook(h) \/ \E e \in reports : Receive(h, e)
      PROVE  IInv' /\ Kept
  BY <1>4, ApplyIInv, ReceiveIInv
<1>. QED  BY <1>1, <1>2, <1>3, <1>4, EnvironmentIInv, ProgressIInv DEF Next

\* The inductive invariant holds in every reachable state.
THEOREM Invariance == Spec => []IInv
<1>. QED  BY InitIInv, NextIInv, PTL DEF Spec

\* Columns and requests keep their types, for every instance.
THEOREM TypeCorrect == Spec => []TypeOK
<1>. QED  BY Invariance, IInvTypeOK, PTL

\* No entry of the ledger is in the lines of two settlements: calculations are
\* serialized and see each other's lines.
THEOREM SettledOnceHolds == Spec => []SettledOnce
<1>1. IInv => SettledOnce
  BY DEF IInv, TablesOK
<1>. QED  BY <1>1, Invariance, PTL

\* A payout is PAID or RETURNED only when the provider has paid or returned it,
\* whatever answers and reports arrive, in whatever order.
THEOREM ConfirmedByProviderHolds == Spec => []ConfirmedByProvider
<1>1. IInv => ConfirmedByProvider
  BY DEF IInv, TablesOK
<1>. QED  BY <1>1, Invariance, PTL

\* The ledger's PAYOUT and PAYOUT_REVERSAL entries tell the payout's status.
THEOREM LedgerTellsPayoutHolds == Spec => []LedgerTellsPayout
<1>1. IInv => LedgerTellsPayout
  BY DEF IInv, TablesOK
<1>. QED  BY <1>1, Invariance, PTL

\* Entries, lines and final payouts are never rewritten.
THEOREM HistoryKeptHolds == Spec => HistoryKept
<1>1. IInv /\ [Next]_vars => [Kept]_vars
  BY NextIInv
<1>. QED  BY <1>1, Invariance, PTL DEF Spec, HistoryKept, Kept

==============================================================================
