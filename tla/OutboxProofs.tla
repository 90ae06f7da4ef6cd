---------------------------- MODULE OutboxProofs ----------------------------
(***************************************************************************)
(* Theorems about Outbox for every set of consumers, workers, slots and    *)
(* passes, every attempt limit and every set of faults, zombies included.  *)
(***************************************************************************)
EXTENDS Outbox, TLAPS

-----------------------------------------------------------------------------
(* The strengthening.                                                       *)

\* A pass that is at a row has one.
PassInv(p) == p.at \in {"remove", "add", "fail"} => p.row \in Consumers

\* A busy handler has a consumer, and every pass is well-formed.
Assigned ==
  /\ \A h \in Handlers : pc[h] # "idle" => con[h] \in Consumers
  /\ \A e \in Dispatchers : PassInv(pass[e])

\* The job row exists exactly when the event was recorded with one.
JobPresent == (job = None) <=> ~VisibleJob

\* A handler about to commit its completion has performed the effect.
PerformedBeforeComplete ==
  \A h \in Handlers :
    pc[h] = "complete" /\ con[h] \in External => performed[con[h]] >= 1

Shape == TypeOK /\ Assigned

LedgerInv ==
  /\ JobPresent
  /\ ProcessedExactly
  /\ JobCompletedOnlyIfAll
  /\ TerminalScrubsCommand
  /\ TerminalUnlocked

EffectInv == CompletedWasPerformed /\ PerformedBeforeComplete

-----------------------------------------------------------------------------
(* Lemmas about the aggregates.                                             *)

LEMMA OutboxOfType ==
  ASSUME NEW st PROVE OutboxOf(st) \in OutboxStatus \ {"PENDING"}
BY DEF OutboxOf, OutboxStatus

LEMMA OutboxOfProcessed ==
  ASSUME NEW st
  PROVE  OutboxOf(st) = "PROCESSED" <=> \A c \in Consumers : st[c] = "COMPLETED"
<1>1. CASE \E c \in Consumers : st[c] = "DEAD_LETTER"
  BY <1>1 DEF OutboxOf
<1>2. CASE ~(\E c \in Consumers : st[c] = "DEAD_LETTER")
           /\ \A c \in Consumers : st[c] = "COMPLETED"
  BY <1>2 DEF OutboxOf
<1>3. CASE ~(\E c \in Consumers : st[c] = "DEAD_LETTER")
           /\ ~(\A c \in Consumers : st[c] = "COMPLETED")
  BY <1>3 DEF OutboxOf
<1> QED BY <1>1, <1>2, <1>3

LEMMA JobOfType ==
  ASSUME NEW st PROVE JobOf(st) \in JobStatus
BY DEF JobOf, JobStatus

LEMMA JobOfCompleted ==
  ASSUME NEW st
  PROVE  JobOf(st) = "COMPLETED" <=> OutboxOf(st) = "PROCESSED"
BY DEF JobOf

-----------------------------------------------------------------------------
(* Lemmas about the dispatch pass.                                          *)

LEMMA NextRowShape ==
  ASSUME NEW d \in Dispatchers, NEW rest \in SUBSET Consumers,
         pass \in [Dispatchers -> Pass], \A e \in Dispatchers : PassInv(pass[e]),
         NextRow(d, rest)
  PROVE  pass' \in [Dispatchers -> Pass] /\ \A e \in Dispatchers : PassInv(pass'[e])
BY DEF NextRow, Pass, IdlePass, PassInv

LEMMA AtRowShape ==
  ASSUME NEW d \in Dispatchers, NEW c \in Consumers, NEW step \in {"remove", "add", "fail"},
         pass \in [Dispatchers -> Pass], \A e \in Dispatchers : PassInv(pass[e]),
         AtRow(d, c, step)
  PROVE  pass' \in [Dispatchers -> Pass] /\ \A e \in Dispatchers : PassInv(pass'[e])
BY DEF AtRow, Pass, PassInv

LEMMA RowsShape ==
  ASSUME NEW d \in Dispatchers, NEW S \in SUBSET Consumers,
         pass \in [Dispatchers -> Pass], \A e \in Dispatchers : PassInv(pass[e]),
         pass' = [pass EXCEPT ![d] = [at |-> "rows", row |-> None, rows |-> S]]
  PROVE  pass' \in [Dispatchers -> Pass] /\ \A e \in Dispatchers : PassInv(pass'[e])
BY DEF Pass, PassInv

LEMMA IdleShape ==
  ASSUME NEW d \in Dispatchers,
         pass \in [Dispatchers -> Pass], \A e \in Dispatchers : PassInv(pass[e]),
         pass' = [pass EXCEPT ![d] = IdlePass]
  PROVE  pass' \in [Dispatchers -> Pass] /\ \A e \in Dispatchers : PassInv(pass'[e])
BY DEF Pass, PassInv, IdlePass

-----------------------------------------------------------------------------
(* Type correctness.                                                        *)

LEMMA InitShape == Init => Shape
BY ConsumersAssumption, WorkersAssumption, FaultsAssumption, JobAssumption
   DEF Init, Shape, TypeOK, Assigned, PassInv, Pass, IdlePass, Handlers, ExecStatus,
       OutboxStatus, JobStatus, QueueStatus, HandlerPC

LEMMA DispatcherShape ==
  ASSUME Shape, NEW d \in Dispatchers,
         Claim(d) \/ Remove(d) \/ Add(d) \/ FailEnqueue(d) \/ RedisError(d)
           \/ AbandonPass(d) \/ (\E c \in Consumers : Lookup(d, c))
  PROVE  Shape'
<1> DEFINE PassesOK == pass \in [Dispatchers -> Pass] /\ \A e \in Dispatchers : PassInv(pass[e])
<1>1. PassesOK
  BY DEF Shape, TypeOK, Assigned
<1>2. /\ pass[d].row \in Consumers \cup {None} /\ pass[d].rows \in SUBSET Consumers
      /\ pass[d].at \in {"remove", "add", "fail"} => pass[d].row \in Consumers
  BY <1>1 DEF Pass, PassInv
<1>3. CASE Claim(d)
  <2>1. PICK S \in SUBSET Consumers :
          /\ status' = [c \in Consumers |-> IF c \in S THEN "ENQUEUED" ELSE status[c]]
          /\ lockedBy' = [c \in Consumers |-> IF c \in S THEN d[1] ELSE lockedBy[c]]
          /\ stale' = [c \in Consumers |-> IF c \in S THEN FALSE ELSE stale[c]]
          /\ pass' = [pass EXCEPT ![d] = [at |-> "rows", row |-> None, rows |-> S]]
    BY <1>3 DEF Claim
  <2>2. PassesOK'
    BY <1>1, <2>1, RowsShape
  <2>3. d[1] \in Workers
    BY DEF Dispatchers
  <2> QED BY <1>3, <2>1, <2>2, <2>3 DEF Claim, Shape, TypeOK, Assigned, ExecStatus, event, bull, handler
<1>4. CASE Remove(d)
  <2>1. PassesOK'
    BY <1>1, <1>2, <1>4, AtRowShape DEF Remove
  <2> QED BY <1>4, <2>1 DEF Remove, Shape, TypeOK, Assigned, QueueStatus, ledger, event, bull, handler
<1>5. CASE Add(d)
  <2>1. PassesOK'
    BY <1>1, <1>2, <1>5, NextRowShape DEF Add
  <2> QED BY <1>2, <1>5, <2>1
          DEF Add, Enqueue, Shape, TypeOK, Assigned, QueueStatus, ledger, event, handler
<1>6. CASE FailEnqueue(d)
  <2>1. PassesOK'
    BY <1>1, <1>2, <1>6, NextRowShape DEF FailEnqueue
  <2> QED BY <1>2, <1>6, <2>1
          DEF FailEnqueue, Unlock, SetJob, Shape, TypeOK, Assigned, ExecStatus, OutboxStatus,
              JobStatus, ledger, event, bull, handler
<1>7. CASE RedisError(d)
  <2>1. PassesOK'
    BY <1>1, <1>2, <1>7, AtRowShape DEF RedisError
  <2>2. faults' \in 0 .. MaxFaults
    BY <1>7, FaultsAssumption DEF RedisError, Fault, Shape, TypeOK
  <2>3. CASE UNCHANGED bull
    BY <1>7, <2>1, <2>2, <2>3
       DEF RedisError, Shape, TypeOK, Assigned, ledger, event, bull, handler
  <2>4. CASE pass[d].row \in Consumers /\ Enqueue(pass[d].row)
    BY <1>7, <2>1, <2>2, <2>4
       DEF RedisError, Enqueue, Shape, TypeOK, Assigned, QueueStatus, ledger, event, handler
  <2> QED BY <1>2, <1>7, <2>3, <2>4 DEF RedisError
<1>8. CASE AbandonPass(d)
  <2>1. PassesOK'
    BY <1>1, <1>8, IdleShape DEF AbandonPass
  <2> QED BY <1>8, <2>1, FaultsAssumption
          DEF AbandonPass, Fault, Shape, TypeOK, Assigned, ledger, event, bull, handler
<1>9. CASE \E c \in Consumers : Lookup(d, c)
  <2>1. PICK c \in Consumers : Lookup(d, c)
    BY <1>9
  <2>2. PassesOK'
    BY <1>1, <1>2, <2>1, NextRowShape, AtRowShape DEF Lookup
  <2> QED BY <2>1, <2>2 DEF Lookup, Shape, TypeOK, Assigned, ledger, event, bull, handler
<1> QED BY <1>3, <1>4, <1>5, <1>6, <1>7, <1>8, <1>9

LEMMA TransportShape ==
  ASSUME Shape, NEW c \in Consumers,
         Promote(c) \/ RecoverStalled(c) \/ Evict(c) \/ BecomeDue(c) \/ LockAges(c)
           \/ LoseLock(c) \/ LoseRedis \/ (\E h \in Handlers : Take(h, c))
  PROVE  Shape'
<1> USE DEF Shape, TypeOK, Assigned, QueueStatus, ledger, event, bull, handler
<1>1. CASE Promote(c) \/ RecoverStalled(c) \/ Evict(c)
  BY <1>1 DEF Promote, RecoverStalled, Evict
<1>2. CASE BecomeDue(c) \/ LockAges(c)
  BY <1>2 DEF BecomeDue, LockAges
<1>3. CASE LoseLock(c) \/ LoseRedis
  BY <1>3, FaultsAssumption DEF LoseLock, LoseRedis, Fault
<1>4. CASE \E h \in Handlers : Take(h, c)
  BY <1>4 DEF Take, HandlerPC
<1> QED BY <1>1, <1>2, <1>3, <1>4

LEMMA HandlerShape ==
  ASSUME Shape, NEW h \in Handlers,
         HandlerStep(h) \/ LoseAnswer(h) \/ RollBack(h) \/ LoseCommit(h)
  PROVE  Shape'
<1> USE DEF Shape, TypeOK, Assigned, HandlerPC, At, FailWith
<1>1. CASE Begin(h)
  <2>1. h[1] \in Workers /\ con[h] \in Consumers
    BY <1>1 DEF Begin, Handlers
  <2>2. CASE status[con[h]] \in Terminal
    BY <1>1, <2>2 DEF Begin, event, bull, ledger
  <2>3. CASE status[con[h]] \notin Terminal
    <3>1. attempts[con[h]] + 1 \in Nat
      BY <2>1
    <3>2. /\ status' \in [Consumers -> ExecStatus] /\ attempts' \in [Consumers -> Nat]
          /\ lockedBy' \in [Consumers -> Workers \cup {None}]
          /\ stale' \in [Consumers -> BOOLEAN] /\ due' = due
          /\ att' \in [Handlers -> Nat]
      <4>1. /\ status' = [status EXCEPT ![con[h]] = "PROCESSING"]
            /\ attempts' = [attempts EXCEPT ![con[h]] = attempts[con[h]] + 1]
            /\ lockedBy' = [lockedBy EXCEPT ![con[h]] = h[1]]
            /\ stale' = [stale EXCEPT ![con[h]] = FALSE]
            /\ att' = [att EXCEPT ![h] = attempts[con[h]] + 1]
            /\ due' = due
        BY <1>1, <2>3 DEF Begin
      <4> QED BY <2>1, <3>1, <4>1 DEF ExecStatus
    <3>3. /\ pc' \in [Handlers -> HandlerPC] /\ UNCHANGED con
          /\ err' \in [Handlers -> {"none", "retryable", "permanent"}]
          /\ \A g \in Handlers : pc'[g] # "idle" => con[g] \in Consumers
      BY <1>1, <2>1, <2>3 DEF Begin
    <3> QED BY <1>1, <3>2, <3>3 DEF Begin, event, bull
  <2> QED BY <2>2, <2>3
<1>2. CASE Mark(h)
  BY <1>2 DEF Mark, SetJob, JobStatus, bull, ledger
<1>3. CASE Work(h)
  BY <1>3 DEF Work, event, bull, ledger
<1>4. CASE Complete(h)
  BY <1>4, OutboxOfType, JobOfType
     DEF Complete, CommitCompletion, Reconcile, Unlock, SetJob, ExecStatus, bull
<1>5. CASE Fail(h)
  BY <1>5, OutboxOfType, JobOfType
     DEF Fail, CommitFailure, IsTerminalFailure, Reconcile, Unlock, SetJob, ExecStatus, bull
<1>6. CASE Settle(h)
  BY <1>6 DEF Settle, QueueStatus, event, bull, ledger
<1>7. CASE LoseAnswer(h)
  BY <1>7, FaultsAssumption DEF LoseAnswer, Fault, event, bull, ledger
<1>8. CASE RollBack(h)
  BY <1>8, FaultsAssumption DEF RollBack, Fault, event, bull, ledger
<1>9. CASE LoseCommit(h)
  <2>1. faults' \in 0 .. MaxFaults
    BY <1>9, FaultsAssumption DEF LoseCommit, Fault
  <2>2. CASE pc[h] = "complete" /\ CommitCompletion(con[h]) /\ FailWith(h, "retryable")
    BY <1>9, <2>1, <2>2, OutboxOfType, JobOfType
       DEF LoseCommit, CommitCompletion, Reconcile, Unlock, SetJob, ExecStatus, bull
  <2>3. CASE pc[h] = "fail" /\ CommitFailure(h) /\ At(h, "nack") /\ UNCHANGED err
    BY <1>9, <2>1, <2>3, OutboxOfType, JobOfType
       DEF LoseCommit, CommitFailure, Reconcile, Unlock, SetJob, ExecStatus, bull,
           IsTerminalFailure
  <2> QED BY <1>9, <2>2, <2>3 DEF LoseCommit
<1> QED BY <1>1, <1>2, <1>3, <1>4, <1>5, <1>6, <1>7, <1>8, <1>9 DEF HandlerStep

LEMMA CrashShape ==
  ASSUME Shape, NEW w \in Workers, Crash(w) PROVE Shape'
<1>1. pass' \in [Dispatchers -> Pass] /\ \A e \in Dispatchers : PassInv(pass'[e])
  <2>1. IdlePass \in Pass /\ PassInv(IdlePass)
    BY DEF IdlePass, Pass, PassInv
  <2>2. pass' = [e \in Dispatchers |-> IF e[1] = w THEN IdlePass ELSE pass[e]]
    BY DEF Crash
  <2>3. \A e \in Dispatchers : pass[e] \in Pass /\ PassInv(pass[e])
    BY DEF Shape, TypeOK, Assigned
  <2> QED BY <2>1, <2>2, <2>3
<1> QED BY <1>1, FaultsAssumption DEF Crash, Fault, Shape, TypeOK, Assigned, HandlerPC, ledger, event

LEMMA ShapeStep == Shape /\ [Next]_vars => Shape'
<1> SUFFICES ASSUME Shape, [Next]_vars PROVE Shape'
  OBVIOUS
<1>1. CASE UNCHANGED vars
  BY <1>1 DEF vars, Shape, TypeOK, Assigned, ledger, event, bull, handler
<1>2. ASSUME NEW d \in Dispatchers, DispatcherStep(d) PROVE Shape'
  BY <1>2, DispatcherShape DEF DispatcherStep
<1>3. ASSUME NEW h \in Handlers, HandlerStep(h) PROVE Shape'
  BY <1>3, HandlerShape
<1>4. ASSUME NEW c \in Consumers, TransportStep(c) \/ Evict(c) \/ BecomeDue(c) \/ LockAges(c)
      PROVE  Shape'
  BY <1>4, TransportShape DEF TransportStep
<1>5. CASE FaultStep
  <2>1. ASSUME LoseRedis PROVE Shape'
    BY <2>1, TransportShape, ConsumersAssumption
  <2>2. ASSUME NEW d \in Dispatchers, RedisError(d) \/ AbandonPass(d) PROVE Shape'
    BY <2>2, DispatcherShape
  <2>3. ASSUME NEW h \in Handlers, LoseAnswer(h) \/ RollBack(h) \/ LoseCommit(h) PROVE Shape'
    BY <2>3, HandlerShape
  <2>4. ASSUME NEW c \in Consumers, LoseLock(c) PROVE Shape'
    BY <2>4, TransportShape
  <2> QED BY <1>5, <2>1, <2>2, <2>3, <2>4, CrashShape DEF FaultStep
<1> QED BY <1>1, <1>2, <1>3, <1>4, <1>5 DEF Next

\* Every variable keeps its type, and a busy handler or pass its consumer.
THEOREM TypeCorrect == Spec => []TypeOK
<1>1. Spec => []Shape
  BY InitShape, ShapeStep, PTL DEF Spec
<1>2. Shape => TypeOK
  BY DEF Shape
<1> QED BY <1>1, <1>2, PTL

-----------------------------------------------------------------------------
(* The event, the job, the command and the locks.                           *)

LEMMA InitLedger == Init => LedgerInv
BY ConsumersAssumption, NoneAssumption, JobAssumption
   DEF Init, LedgerInv, JobPresent, ProcessedExactly, JobCompletedOnlyIfAll,
       TerminalScrubsCommand, TerminalUnlocked, Terminal, JobStatus

\* A step that leaves the rows' status and lock and the event alone.
LEMMA LedgerFrame ==
  ASSUME LedgerInv, UNCHANGED <<status, lockedBy, event>>
  PROVE  LedgerInv'
BY DEF LedgerInv, JobPresent, ProcessedExactly, JobCompletedOnlyIfAll,
       TerminalScrubsCommand, TerminalUnlocked, event

\* A reconciled event is PROCESSED, and its job COMPLETED, exactly with all
\* its rows.
LEMMA ReconcileExact ==
  ASSUME LedgerInv, Reconcile
  PROVE  JobPresent' /\ ProcessedExactly' /\ JobCompletedOnlyIfAll'
<1>1. ProcessedExactly'
  BY OutboxOfProcessed DEF Reconcile, ProcessedExactly
<1>2. CASE VisibleJob
  <2>1. job' = JobOf(status')
    BY <1>2 DEF Reconcile, SetJob
  <2>2. job' \in JobStatus
    BY <2>1, JobOfType
  <2> QED BY <1>1, <1>2, <2>1, <2>2, NoneAssumption, OutboxOfProcessed, JobOfCompleted
          DEF JobPresent, JobCompletedOnlyIfAll
<1>3. CASE ~VisibleJob
  BY <1>1, <1>3, NoneAssumption
     DEF Reconcile, SetJob, LedgerInv, JobPresent, JobCompletedOnlyIfAll, JobStatus
<1> QED BY <1>1, <1>2, <1>3

LEMMA CompletionKeepsLedger ==
  ASSUME Shape, LedgerInv, NEW c \in Consumers, CommitCompletion(c)
  PROVE  LedgerInv'
<1>1. JobPresent' /\ ProcessedExactly' /\ JobCompletedOnlyIfAll'
  BY ReconcileExact DEF CommitCompletion
<1>2. TerminalScrubsCommand'
  BY DEF CommitCompletion, Shape, TypeOK, LedgerInv, TerminalScrubsCommand
<1>3. TerminalUnlocked'
  BY DEF CommitCompletion, Unlock, Shape, TypeOK, LedgerInv, TerminalUnlocked
<1> QED BY <1>1, <1>2, <1>3 DEF LedgerInv

LEMMA FailureKeepsLedger ==
  ASSUME Shape, LedgerInv, NEW h \in Handlers, con[h] \in Consumers, CommitFailure(h)
  PROVE  LedgerInv'
<1>1. JobPresent' /\ ProcessedExactly' /\ JobCompletedOnlyIfAll'
  BY ReconcileExact DEF CommitFailure
<1>2. TerminalScrubsCommand'
  <2>1. CASE IsTerminalFailure(h)
    BY <2>1 DEF CommitFailure, Shape, TypeOK, LedgerInv, TerminalScrubsCommand
  <2>2. CASE ~IsTerminalFailure(h)
    <3>1. status'[con[h]] = "FAILED" /\ command' = command
      BY <2>2 DEF CommitFailure, Shape, TypeOK
    <3>2. \A c \in Consumers : c # con[h] => status'[c] = status[c]
      BY DEF CommitFailure, Shape, TypeOK
    <3> QED BY <3>1, <3>2 DEF LedgerInv, TerminalScrubsCommand, Terminal
  <2> QED BY <2>1, <2>2
<1>3. TerminalUnlocked'
  BY DEF CommitFailure, Unlock, Shape, TypeOK, LedgerInv, TerminalUnlocked
<1> QED BY <1>1, <1>2, <1>3 DEF LedgerInv

\* A claim takes rows that are not terminal, and leaves the event as it is.
LEMMA ClaimKeepsLedger ==
  ASSUME Shape, LedgerInv, NEW d \in Dispatchers, Claim(d)
  PROVE  LedgerInv'
<1>1. PICK S \in SUBSET {c \in Consumers : Claimable(c)} :
        /\ S # {}
        /\ status' = [c \in Consumers |-> IF c \in S THEN "ENQUEUED" ELSE status[c]]
        /\ lockedBy' = [c \in Consumers |-> IF c \in S THEN d[1] ELSE lockedBy[c]]
  BY DEF Claim
<1>2. PICK e \in S : e \in Consumers /\ Claimable(e)
  BY <1>1
<1>3. status[e] # "COMPLETED" /\ status'[e] = "ENQUEUED"
  BY <1>1, <1>2 DEF Claimable
<1>4. UNCHANGED <<outbox, command, job>>
  BY DEF Claim, event
<1>5. \A c \in Consumers : status'[c] \in Terminal =>
         status'[c] = status[c] /\ lockedBy'[c] = lockedBy[c]
  BY <1>1 DEF Terminal
<1> QED BY <1>2, <1>3, <1>4, <1>5
        DEF LedgerInv, JobPresent, ProcessedExactly, JobCompletedOnlyIfAll,
            TerminalScrubsCommand, TerminalUnlocked

\* The late report of a failed enqueue touches only a row whose lock the
\* dispatcher still holds, hence never a terminal one.
LEMMA FailEnqueueKeepsLedger ==
  ASSUME Shape, LedgerInv, NEW d \in Dispatchers, FailEnqueue(d)
  PROVE  LedgerInv'
<1> DEFINE c == pass[d].row
<1>1. c \in Consumers
  BY DEF FailEnqueue, Shape, Assigned, PassInv
<1>2. CASE lockedBy[c] # d[1]
  BY <1>2, LedgerFrame DEF FailEnqueue, ledger
<1>3. CASE lockedBy[c] = d[1]
  <2>1. status[c] \notin Terminal
    BY <1>1, <1>3, WorkersAssumption DEF LedgerInv, TerminalUnlocked, Dispatchers
  <2>2. /\ status' = [status EXCEPT ![c] = "FAILED"]
        /\ lockedBy' = [lockedBy EXCEPT ![c] = None]
        /\ outbox' = "FAILED" /\ command' = command
        /\ job' = IF VisibleJob THEN "RETRYING" ELSE job
    BY <1>3 DEF FailEnqueue, Unlock, SetJob
  <2>3. status'[c] = "FAILED" /\ \A e \in Consumers : e # c => status'[e] = status[e]
    BY <1>1, <2>2 DEF Shape, TypeOK
  <2>4. ProcessedExactly'
    BY <1>1, <2>2, <2>3 DEF ProcessedExactly
  <2>5. JobPresent' /\ JobCompletedOnlyIfAll'
    BY <2>2, NoneAssumption DEF LedgerInv, JobPresent, JobCompletedOnlyIfAll, JobStatus
  <2>6. TerminalScrubsCommand' /\ TerminalUnlocked'
    BY <1>1, <2>2, <2>3
       DEF LedgerInv, TerminalScrubsCommand, TerminalUnlocked, Terminal, Shape, TypeOK
  <2> QED BY <2>4, <2>5, <2>6 DEF LedgerInv
<1> QED BY <1>2, <1>3

LEMMA BeginKeepsLedger ==
  ASSUME Shape, LedgerInv, NEW h \in Handlers, Begin(h)
  PROVE  LedgerInv'
<1> DEFINE c == con[h]
<1>1. c \in Consumers
  BY DEF Begin, Shape, Assigned
<1>2. CASE status[c] \in Terminal
  BY <1>2, LedgerFrame DEF Begin, ledger
<1>3. CASE status[c] \notin Terminal
  <2>1. /\ status' = [status EXCEPT ![c] = "PROCESSING"]
        /\ lockedBy' = [lockedBy EXCEPT ![c] = h[1]]
        /\ UNCHANGED <<outbox, command, job>>
    BY <1>3 DEF Begin, event
  <2>2. status'[c] = "PROCESSING" /\ status[c] # "COMPLETED"
        /\ \A d \in Consumers : d # c => status'[d] = status[d] /\ lockedBy'[d] = lockedBy[d]
    BY <1>1, <1>3, <2>1 DEF Shape, TypeOK, Terminal
  <2> QED BY <1>1, <2>1, <2>2
          DEF LedgerInv, JobPresent, ProcessedExactly, JobCompletedOnlyIfAll,
              TerminalScrubsCommand, TerminalUnlocked, Terminal
<1> QED BY <1>2, <1>3

LEMMA MarkKeepsLedger ==
  ASSUME LedgerInv, NEW h \in Handlers, Mark(h)
  PROVE  LedgerInv'
<1>1. UNCHANGED <<status, lockedBy, outbox, command>>
  BY DEF Mark, ledger
<1>2. JobPresent' /\ JobCompletedOnlyIfAll'
  BY NoneAssumption
     DEF Mark, SetJob, LedgerInv, JobPresent, JobCompletedOnlyIfAll, JobStatus
<1> QED BY <1>1, <1>2
        DEF LedgerInv, ProcessedExactly, TerminalScrubsCommand, TerminalUnlocked

LEMMA LedgerStep == Shape /\ LedgerInv /\ [Next]_vars => LedgerInv'
<1> SUFFICES ASSUME Shape, LedgerInv, [Next]_vars PROVE LedgerInv'
  OBVIOUS
<1>1. CASE UNCHANGED vars
  BY <1>1, LedgerFrame DEF vars, ledger
<1>2. ASSUME NEW d \in Dispatchers, DispatcherStep(d) PROVE LedgerInv'
  <2>1. CASE Remove(d) \/ Add(d) \/ \E c \in Consumers : Lookup(d, c)
    BY <2>1, LedgerFrame DEF Remove, Add, Lookup, ledger
  <2> QED BY <1>2, <2>1, ClaimKeepsLedger, FailEnqueueKeepsLedger DEF DispatcherStep
<1>3. ASSUME NEW h \in Handlers, HandlerStep(h) PROVE LedgerInv'
  <2>1. CASE Work(h) \/ Settle(h)
    BY <2>1, LedgerFrame DEF Work, Settle, ledger
  <2>2. CASE Complete(h)
    BY <2>2, CompletionKeepsLedger DEF Complete, Shape, Assigned
  <2>3. CASE Fail(h)
    BY <2>3, FailureKeepsLedger DEF Fail, Shape, Assigned
  <2> QED BY <1>3, <2>1, <2>2, <2>3, BeginKeepsLedger, MarkKeepsLedger DEF HandlerStep
<1>4. ASSUME NEW c \in Consumers, TransportStep(c) \/ Evict(c) \/ BecomeDue(c) \/ LockAges(c)
      PROVE  LedgerInv'
  BY <1>4, LedgerFrame
     DEF TransportStep, Promote, RecoverStalled, Take, Evict, BecomeDue, LockAges, ledger
<1>5. CASE FaultStep
  <2>1. ASSUME NEW h \in Handlers, LoseCommit(h) PROVE LedgerInv'
    BY <2>1, CompletionKeepsLedger, FailureKeepsLedger DEF LoseCommit, Shape, Assigned
  <2>2. ASSUME NEW h \in Handlers, LoseAnswer(h) \/ RollBack(h) PROVE LedgerInv'
    BY <2>2, LedgerFrame DEF LoseAnswer, RollBack, ledger
  <2>3. ASSUME \/ \E d \in Dispatchers : RedisError(d) \/ AbandonPass(d)
               \/ \E w \in Workers : Crash(w)
        PROVE  LedgerInv'
    BY <2>3, LedgerFrame DEF RedisError, AbandonPass, Crash, ledger
  <2>4. ASSUME LoseRedis \/ \E c \in Consumers : LoseLock(c) PROVE LedgerInv'
    BY <2>4, LedgerFrame DEF LoseRedis, LoseLock, ledger
  <2> QED BY <1>5, <2>1, <2>2, <2>3, <2>4 DEF FaultStep
<1> QED BY <1>1, <1>2, <1>3, <1>4, <1>5 DEF Next

\* The ledger invariant holds in every behaviour, whatever the faults.
THEOREM LedgerCorrect == Spec => []LedgerInv
<1>1. Spec => [](Shape /\ LedgerInv)
  BY InitShape, ShapeStep, InitLedger, LedgerStep, PTL DEF Spec
<1> QED BY <1>1, PTL

\* An event is PROCESSED exactly while all its consumers are COMPLETED.
THEOREM ProcessedExactlyHolds == Spec => []ProcessedExactly
<1>1. LedgerInv => ProcessedExactly
  BY DEF LedgerInv
<1> QED BY <1>1, LedgerCorrect, PTL

\* The user's job is COMPLETED only with every consumer of its event.
THEOREM JobCompletedHolds == Spec => []JobCompletedOnlyIfAll
<1>1. LedgerInv => JobCompletedOnlyIfAll
  BY DEF LedgerInv
<1> QED BY <1>1, LedgerCorrect, PTL

\* A terminal e-mail row has no encrypted command left.
THEOREM CommandScrubbed == Spec => []TerminalScrubsCommand
<1>1. LedgerInv => TerminalScrubsCommand
  BY DEF LedgerInv
<1> QED BY <1>1, LedgerCorrect, PTL

\* A terminal row is locked by nobody.
THEOREM TerminalUnlockedHolds == Spec => []TerminalUnlocked
<1>1. LedgerInv => TerminalUnlocked
  BY DEF LedgerInv
<1> QED BY <1>1, LedgerCorrect, PTL

-----------------------------------------------------------------------------
(* At least once.                                                           *)

LEMMA InitEffect == Init => EffectInv
BY ConsumersAssumption
   DEF Init, EffectInv, CompletedWasPerformed, PerformedBeforeComplete

\* No step forgets an effect, and no row or handler newly relies on one.
LEMMA EffectFrame ==
  ASSUME Shape, EffectInv,
         \A c \in External : performed[c] >= 1 => performed'[c] >= 1,
         \A c \in External : status'[c] = "COMPLETED" => status[c] = "COMPLETED",
         \A h \in Handlers : pc'[h] = "complete" => pc[h] = "complete" /\ con'[h] = con[h]
  PROVE  EffectInv'
BY DEF EffectInv, CompletedWasPerformed, PerformedBeforeComplete

LEMMA EffectDispatcher ==
  ASSUME Shape, EffectInv,
         \/ \E d \in Dispatchers : DispatcherStep(d) \/ RedisError(d) \/ AbandonPass(d)
         \/ \E w \in Workers : Crash(w)
  PROVE  EffectInv'
<1>1. performed' = performed
  BY DEF DispatcherStep, Claim, Remove, Add, FailEnqueue, Lookup, RedisError, AbandonPass, Crash
<1>2. \A c \in External : performed[c] >= 1 => performed'[c] >= 1
  BY <1>1, ConsumersAssumption DEF Shape, TypeOK
<1>3. \A h \in Handlers : pc'[h] = "complete" => pc[h] = "complete" /\ con'[h] = con[h]
  <2>1. CASE \E w \in Workers : Crash(w)
    BY <2>1 DEF Crash
  <2>2. CASE UNCHANGED handler
    BY <2>2 DEF handler
  <2> QED BY <2>1, <2>2
          DEF DispatcherStep, Claim, Remove, Add, FailEnqueue, Lookup, RedisError, AbandonPass
<1>4. \A c \in External : status'[c] = "COMPLETED" => status[c] = "COMPLETED"
  <2>1. CASE \E d \in Dispatchers : Claim(d)
    BY <2>1, ConsumersAssumption DEF Claim
  <2>2. CASE \E d \in Dispatchers : FailEnqueue(d)
    BY <2>2, ConsumersAssumption DEF FailEnqueue, Shape, TypeOK, ledger
  <2>3. CASE UNCHANGED ledger
    BY <2>3 DEF ledger
  <2> QED BY <2>1, <2>2, <2>3
          DEF DispatcherStep, Remove, Add, Lookup, RedisError, AbandonPass, Crash
<1> QED BY <1>2, <1>3, <1>4, EffectFrame

LEMMA EffectTransport ==
  ASSUME Shape, EffectInv, NEW c \in Consumers,
         TransportStep(c) \/ Evict(c) \/ BecomeDue(c) \/ LockAges(c) \/ LoseLock(c) \/ LoseRedis
  PROVE  EffectInv'
<1>1. UNCHANGED <<status, performed>>
  BY DEF TransportStep, Promote, RecoverStalled, Take, Evict, BecomeDue, LockAges, LoseLock,
         LoseRedis, ledger
<1>2. \A h \in Handlers : pc'[h] = "complete" => pc[h] = "complete" /\ con'[h] = con[h]
  <2>1. CASE \E h \in Handlers : Take(h, c)
    BY <2>1 DEF Take, Shape, TypeOK
  <2>2. CASE UNCHANGED handler
    BY <2>2 DEF handler
  <2> QED BY <2>1, <2>2
          DEF TransportStep, Promote, RecoverStalled, Evict, BecomeDue, LockAges, LoseLock,
              LoseRedis
<1>3. \A d \in External : performed[d] >= 1 => performed'[d] >= 1
  BY <1>1, ConsumersAssumption DEF Shape, TypeOK
<1> QED BY <1>1, <1>2, <1>3, EffectFrame

\* The commit of a completion relies on the effect its handler performed.
LEMMA EffectCompletion ==
  ASSUME Shape, EffectInv, NEW h \in Handlers, pc[h] = "complete",
         CommitCompletion(con[h]), UNCHANGED <<performed, con>>,
         \A g \in Handlers : pc'[g] = "complete" => pc[g] = "complete"
  PROVE  EffectInv'
<1>1. \A c \in External : c # con[h] => status'[c] = status[c]
  BY ConsumersAssumption DEF CommitCompletion, Shape, TypeOK
<1>2. con[h] \in External => performed[con[h]] >= 1
  BY DEF EffectInv, PerformedBeforeComplete
<1> QED BY <1>1, <1>2 DEF EffectInv, CompletedWasPerformed, PerformedBeforeComplete

LEMMA EffectWork ==
  ASSUME Shape, EffectInv, NEW h \in Handlers, Work(h) \/ LoseAnswer(h)
  PROVE  EffectInv'
<1>1. con[h] \in Consumers /\ UNCHANGED <<status, con>>
  BY DEF Work, LoseAnswer, Shape, Assigned, ledger
<1>2. \A g \in Handlers \ {h} : pc'[g] = pc[g]
  BY DEF Work, LoseAnswer, At, FailWith, Shape, TypeOK
<1>3. pc'[h] = "complete" /\ con[h] \in External => performed'[con[h]] >= 1
  BY <1>1, ConsumersAssumption DEF Work, LoseAnswer, At, FailWith, Shape, TypeOK
<1>4. \A c \in External : performed[c] >= 1 => performed'[c] >= 1
  BY <1>1, ConsumersAssumption DEF Work, LoseAnswer, Shape, TypeOK
<1> QED BY <1>1, <1>2, <1>3, <1>4 DEF EffectInv, CompletedWasPerformed, PerformedBeforeComplete

LEMMA EffectHandler ==
  ASSUME Shape, EffectInv, NEW h \in Handlers,
         HandlerStep(h) \/ LoseAnswer(h) \/ RollBack(h) \/ LoseCommit(h)
  PROVE  EffectInv'
<1>1. CASE Work(h) \/ LoseAnswer(h)
  BY <1>1, EffectWork
<1>2. CASE Complete(h)
  <2>1. \A g \in Handlers : pc'[g] = "complete" => pc[g] = "complete"
    BY <1>2 DEF Complete, At, Shape, TypeOK
  <2> QED BY <1>2, <2>1, EffectCompletion DEF Complete
<1>3. CASE pc[h] = "complete" /\ LoseCommit(h)
  <2>1. \A g \in Handlers : pc'[g] = "complete" => pc[g] = "complete"
    BY <1>3 DEF LoseCommit, At, FailWith, Shape, TypeOK
  <2> QED BY <1>3, <2>1, EffectCompletion DEF LoseCommit
<1>4. CASE Begin(h) \/ Mark(h) \/ Settle(h) \/ RollBack(h) \/ Fail(h)
           \/ (pc[h] # "complete" /\ LoseCommit(h))
  <2>1. con[h] \in Consumers /\ performed' = performed
    BY <1>4 DEF Begin, Mark, Settle, RollBack, Fail, LoseCommit, Shape, Assigned
  <2>2. \A c \in External : status'[c] = "COMPLETED" => status[c] = "COMPLETED"
    <3>1. CASE Begin(h)
      BY <3>1, ConsumersAssumption DEF Begin, Shape, TypeOK, ledger
    <3>2. CASE CommitFailure(h)
      BY <2>1, <3>2, ConsumersAssumption DEF CommitFailure, Shape, TypeOK
    <3>3. CASE UNCHANGED ledger
      BY <3>3 DEF ledger
    <3> QED BY <1>4, <3>1, <3>2, <3>3 DEF Mark, Settle, RollBack, Fail, LoseCommit
  <2>3. \A g \in Handlers : pc'[g] = "complete" => pc[g] = "complete" /\ con'[g] = con[g]
    <3>1. CASE Settle(h)
      BY <3>1 DEF Settle, Shape, TypeOK
    <3>2. CASE ~Settle(h)
      BY <1>4, <3>2
         DEF Begin, Mark, RollBack, Fail, LoseCommit, At, FailWith, Shape, TypeOK
    <3> QED BY <3>1, <3>2
  <2>4. \A c \in External : performed[c] >= 1 => performed'[c] >= 1
    BY <2>1, ConsumersAssumption DEF Shape, TypeOK
  <2> QED BY <2>2, <2>3, <2>4, EffectFrame
<1> QED BY <1>1, <1>2, <1>3, <1>4 DEF HandlerStep

LEMMA EffectStep == Shape /\ EffectInv /\ [Next]_vars => EffectInv'
<1> SUFFICES ASSUME Shape, EffectInv, [Next]_vars PROVE EffectInv'
  OBVIOUS
<1>1. CASE UNCHANGED vars
  BY <1>1 DEF vars, ledger, handler, EffectInv, CompletedWasPerformed, PerformedBeforeComplete
<1>2. CASE Next
  BY <1>2, EffectDispatcher, EffectTransport, EffectHandler, ConsumersAssumption
     DEF Next, FaultStep
<1> QED BY <1>1, <1>2

\* No consumer is COMPLETED whose external effect never took place.
THEOREM CompletedWasPerformedHolds == Spec => []CompletedWasPerformed
<1>1. Spec => [](Shape /\ EffectInv)
  BY InitShape, ShapeStep, InitEffect, EffectStep, PTL DEF Spec
<1>2. EffectInv => CompletedWasPerformed
  BY DEF EffectInv
<1> QED BY <1>1, <1>2, PTL

=============================================================================
