-------------------------- MODULE OutboxOnceProofs --------------------------
(***************************************************************************)
(* What Outbox guarantees as long as no fault leaves a handler behind that *)
(* BullMQ, or the handler itself, believes to be gone: one run at a time,  *)
(* final rows, and repetitions only where a fault pays for them. For every *)
(* set of consumers, workers and slots and every attempt limit.            *)
(***************************************************************************)
EXTENDS OutboxProofs

NoZombies == Faults \cap ZombieFaults = {}

-----------------------------------------------------------------------------
(* The strengthening.                                                       *)

\* A busy handler holds the BullMQ lock of its consumer, and only an active
\* record is locked.
LockHeld ==
  /\ \A h \in Handlers : pc[h] # "idle" => owner[con[h]] = h
  /\ \A c \in Consumers : owner[c] # None => queue[c] = "active"

\* A handler that has begun and not yet reported works for an open row.
RowOpen ==
  \A h \in Handlers : \A c \in Consumers : Running(h, c) => status[c] \notin Terminal

Base == Shape /\ LedgerInv /\ LockHeld

-----------------------------------------------------------------------------
(* One handler for each consumer.                                           *)

LEMMA InitLockHeld == Init => LockHeld
BY DEF Init, LockHeld

LEMMA NoneIsNoHandler == None \notin Handlers
BY NoneAssumption DEF Handlers

\* Without zombies none of their faults is a step.
LEMMA ZombieSteps ==
  ASSUME NoZombies
  PROVE  /\ ~LoseRedis
         /\ \A h \in Handlers : ~LoseCommit(h)
         /\ \A c \in Consumers : ~LoseLock(c)
BY DEF NoZombies, ZombieFaults, LoseRedis, LoseCommit, LoseLock, Fault

\* Two busy handlers of one consumer are the same handler.
LEMMA OneHandler ==
  ASSUME LockHeld, NEW g \in Handlers, NEW h \in Handlers,
         pc[g] # "idle", pc[h] # "idle", con[g] = con[h]
  PROVE  g = h
BY DEF LockHeld

LEMMA LockFrame ==
  ASSUME LockHeld, UNCHANGED <<queue, owner, con>>,
         \A h \in Handlers : pc'[h] # "idle" => pc[h] # "idle"
  PROVE  LockHeld'
BY DEF LockHeld

LEMMA LockDispatcher ==
  ASSUME Shape, LockHeld, NEW d \in Dispatchers,
         DispatcherStep(d) \/ RedisError(d) \/ AbandonPass(d)
  PROVE  LockHeld'
<1>1. UNCHANGED <<owner, pc, con>>
  BY DEF DispatcherStep, Claim, Remove, Add, Enqueue, FailEnqueue, Lookup, RedisError,
         AbandonPass, bull, handler
<1>2. \A c \in Consumers : owner[c] # None => queue'[c] = queue[c]
  <2>1. CASE Remove(d)
    BY <2>1 DEF Remove, Shape, TypeOK, bull
  <2>2. CASE Enqueue(pass[d].row)
    BY <2>2 DEF Enqueue, LockHeld, Shape, TypeOK
  <2>3. CASE UNCHANGED bull
    BY <2>3 DEF bull
  <2> QED BY <2>1, <2>2, <2>3
          DEF DispatcherStep, Claim, Add, FailEnqueue, Lookup, RedisError, AbandonPass
<1> QED BY <1>1, <1>2 DEF LockHeld

LEMMA LockTransport ==
  ASSUME Shape, LockHeld, NEW c \in Consumers,
         TransportStep(c) \/ Evict(c) \/ BecomeDue(c) \/ LockAges(c)
  PROVE  LockHeld'
<1>1. CASE \E h \in Handlers : Take(h, c)
  <2>1. PICK h \in Handlers : Take(h, c)
    BY <1>1
  <2>2. \A g \in Handlers : g # h => pc'[g] = pc[g] /\ con'[g] = con[g]
    BY <2>1 DEF Take, Shape, TypeOK
  <2>3. owner[c] = None
    BY <2>1 DEF Take, LockHeld
  <2>4. \A g \in Handlers : g # h /\ pc[g] # "idle" => con[g] # c /\ con[g] \in Consumers
    BY <2>3, NoneIsNoHandler DEF LockHeld, Shape, Assigned
  <2>5. /\ con'[h] = c /\ owner'[c] = h /\ queue'[c] = "active"
        /\ \A d \in Consumers : d # c => owner'[d] = owner[d] /\ queue'[d] = queue[d]
    BY <2>1 DEF Take, Shape, TypeOK
  <2> QED BY <2>2, <2>4, <2>5 DEF LockHeld
<1>2. CASE Promote(c) \/ RecoverStalled(c) \/ Evict(c)
  <2>1. owner[c] = None /\ UNCHANGED <<owner, pc, con>>
    BY <1>2 DEF Promote, RecoverStalled, Evict, LockHeld, handler
  <2>2. \A d \in Consumers : d # c => queue'[d] = queue[d]
    BY <1>2 DEF Promote, RecoverStalled, Evict, Shape, TypeOK
  <2> QED BY <2>1, <2>2 DEF LockHeld
<1>3. CASE BecomeDue(c) \/ LockAges(c)
  BY <1>3, LockFrame DEF BecomeDue, LockAges, bull, handler
<1> QED BY <1>1, <1>2, <1>3 DEF TransportStep

LEMMA LockHandler ==
  ASSUME Shape, LockHeld, NEW h \in Handlers,
         HandlerStep(h) \/ LoseAnswer(h) \/ RollBack(h)
  PROVE  LockHeld'
<1>1. CASE Settle(h)
  <2>1. con[h] \in Consumers /\ owner[con[h]] = h /\ pc[h] # "idle"
    BY <1>1 DEF Settle, LockHeld, Shape, Assigned
  <2>2. /\ pc'[h] = "idle" /\ owner'[con[h]] = None
        /\ \A g \in Handlers : g # h => pc'[g] = pc[g] /\ con'[g] = con[g]
        /\ \A d \in Consumers : d # con[h] => owner'[d] = owner[d] /\ queue'[d] = queue[d]
    BY <1>1, <2>1 DEF Settle, Shape, TypeOK
  <2>3. \A g \in Handlers : g # h /\ pc[g] # "idle" => con[g] # con[h] /\ con[g] \in Consumers
    BY <2>1, OneHandler DEF Shape, Assigned
  <2> QED BY <2>2, <2>3 DEF LockHeld
<1>2. CASE Begin(h) \/ Mark(h) \/ Work(h) \/ Complete(h) \/ Fail(h) \/ LoseAnswer(h) \/ RollBack(h)
  <2>1. UNCHANGED <<queue, owner, con>> /\ pc[h] # "idle"
    BY <1>2 DEF Begin, Mark, Work, Complete, Fail, LoseAnswer, RollBack, bull
  <2>2. \A g \in Handlers : g # h => pc'[g] = pc[g]
    BY <1>2 DEF Begin, Mark, Work, Complete, Fail, LoseAnswer, RollBack, At, FailWith, Shape, TypeOK
  <2> QED BY <2>1, <2>2, LockFrame
<1> QED BY <1>1, <1>2 DEF HandlerStep

\* A process that dies leaves its records active and unlocked.
LEMMA LockCrash ==
  ASSUME Shape, LockHeld, NEW w \in Workers, Crash(w)
  PROVE  LockHeld'
<1>1. \A h \in Handlers : pc'[h] # "idle" =>
         h[1] # w /\ pc[h] # "idle" /\ con'[h] = con[h] /\ con[h] \in Consumers
  BY DEF Crash, Shape, Assigned
<1>2. \A c \in Consumers : /\ owner[c] \notin {w} \X Slots => owner'[c] = owner[c]
                           /\ owner'[c] # None => owner[c] # None
  BY DEF Crash
<1>3. queue' = queue
  BY DEF Crash
<1>4. \A h \in Handlers : h[1] # w => h \notin {w} \X Slots
  OBVIOUS
<1> QED BY <1>1, <1>2, <1>3, <1>4 DEF LockHeld

LEMMA LockStep == NoZombies /\ Shape /\ LockHeld /\ [Next]_vars => LockHeld'
<1> SUFFICES ASSUME NoZombies, Shape, LockHeld, [Next]_vars PROVE LockHeld'
  OBVIOUS
<1>1. CASE UNCHANGED vars
  BY <1>1, LockFrame DEF vars, bull, handler
<1>2. CASE Next
  BY <1>2, LockDispatcher, LockTransport, LockHandler, LockCrash, ZombieSteps
     DEF Next, FaultStep
<1> QED BY <1>1, <1>2

LEMMA BaseHolds == ASSUME NoZombies PROVE Spec => []Base
<1>1. Init => Base
  BY InitShape, InitLedger, InitLockHeld DEF Base
<1>2. Base /\ [Next]_vars => Base'
  BY ShapeStep, LedgerStep, LockStep DEF Base
<1> QED BY <1>1, <1>2, PTL DEF Spec

\* Without zombies at most one handler works for a consumer at a time.
THEOREM SingleRunHolds ==
  ASSUME NoZombies PROVE Spec => []SingleRun
<1>1. Base => SingleRun
  BY OneHandler DEF Base, SingleRun, Running
<1> QED BY <1>1, BaseHolds, PTL

-----------------------------------------------------------------------------
(* Terminal rows are final.                                                 *)

\* Only the commit of the one handler that holds the consumer writes a
\* terminal status, and every other writer finds the row open.
LEMMA StatusWriters ==
  ASSUME NoZombies, Base, RowOpen, Next, NEW c \in Consumers, status'[c] # status[c]
  PROVE  /\ status[c] \notin Terminal
         /\ \/ status'[c] \notin Terminal
            \/ \E h \in Handlers : con[h] = c /\ (Complete(h) \/ Fail(h))
<1>1. CASE \E d \in Dispatchers : Claim(d)
  BY <1>1 DEF Claim, Claimable, Terminal
<1>2. CASE \E d \in Dispatchers : FailEnqueue(d)
  <2>1. PICK d \in Dispatchers : FailEnqueue(d)
    BY <1>2
  <2>2. c = pass[d].row /\ lockedBy[c] = d[1] /\ status'[c] = "FAILED"
    BY <2>1 DEF FailEnqueue, Base, Shape, TypeOK, ledger
  <2>3. d[1] # None
    BY WorkersAssumption DEF Dispatchers
  <2> QED BY <2>2, <2>3 DEF Base, LedgerInv, TerminalUnlocked, Terminal
<1>3. CASE \E h \in Handlers : Begin(h)
  BY <1>3 DEF Begin, Base, Shape, TypeOK, Terminal, ledger
<1>4. CASE \E h \in Handlers : Complete(h) \/ Fail(h)
  <2>1. PICK h \in Handlers : Complete(h) \/ Fail(h)
    BY <1>4
  <2>2. con[h] = c
    BY <2>1 DEF Complete, Fail, CommitCompletion, CommitFailure, Base, Shape, TypeOK
  <2>3. Running(h, c)
    BY <2>1, <2>2 DEF Complete, Fail, Running
  <2> QED BY <2>1, <2>2, <2>3 DEF RowOpen
<1>5. CASE UNCHANGED status
  BY <1>5
<1> QED
  BY <1>1, <1>2, <1>3, <1>4, <1>5, ZombieSteps
     DEF Next, FaultStep, DispatcherStep, HandlerStep, TransportStep, Remove, Add, Lookup,
         RedisError, AbandonPass, Crash, Mark, Work, Settle, LoseAnswer, RollBack,
         Promote, RecoverStalled, Take, Evict, BecomeDue, LockAges, ledger

\* Who works after a step worked before it, or has just begun.
LEMMA RunnerBefore ==
  ASSUME NoZombies, Base, Next, NEW h \in Handlers, NEW c \in Consumers, Running(h, c)'
  PROVE  \/ Running(h, c) /\ ~Complete(h) /\ ~Fail(h)
         \/ Begin(h) /\ con[h] = c /\ status[c] \notin Terminal
<1>1. ASSUME NEW g \in Handlers, HandlerStep(g) \/ LoseAnswer(g) \/ RollBack(g)
      PROVE  \/ Running(h, c) /\ ~Complete(h) /\ ~Fail(h)
             \/ Begin(h) /\ con[h] = c /\ status[c] \notin Terminal
  <2>1. CASE g # h
    <3>1. pc'[h] = pc[h] /\ con'[h] = con[h] /\ pc'[g] # pc[g]
      BY <1>1, <2>1
         DEF HandlerStep, Begin, Mark, Work, Complete, Fail, Settle, LoseAnswer, RollBack,
             At, FailWith, Base, Shape, TypeOK
    <3>2. ~Complete(h) /\ ~Fail(h)
      BY <3>1 DEF Complete, Fail, At, IsTerminalFailure, Base, Shape, TypeOK
    <3> QED BY <3>1, <3>2 DEF Running
  <2>2. CASE g = h
    BY <1>1, <2>2
       DEF HandlerStep, Begin, Mark, Work, Complete, Fail, Settle, LoseAnswer, RollBack,
           At, FailWith, Running, Base, Shape, TypeOK
  <2> QED BY <2>1, <2>2
<1>2. CASE \E w \in Workers : Crash(w)
  BY <1>2 DEF Crash, Running, Complete, Fail, At, Base, Shape, TypeOK
<1>3. CASE \E d \in Consumers, g \in Handlers : Take(g, d)
  BY <1>3 DEF Take, Running, Complete, Fail, At, Base, Shape, TypeOK
<1>4. CASE UNCHANGED handler
  <2>1. Running(h, c) /\ pc'[h] = pc[h]
    BY <1>4 DEF handler, Running
  <2>2. ~Complete(h) /\ ~Fail(h)
    BY <2>1 DEF Complete, Fail, At, Base, Shape, TypeOK
  <2> QED BY <2>1, <2>2
<1> QED
  BY <1>1, <1>2, <1>3, <1>4, ZombieSteps
     DEF Next, FaultStep, DispatcherStep, TransportStep, Claim, Remove, Add, FailEnqueue,
         Lookup, RedisError, AbandonPass, Promote, RecoverStalled, Evict, BecomeDue, LockAges

LEMMA RowOpenStep == NoZombies /\ Base /\ RowOpen /\ [Next]_vars => RowOpen'
<1> SUFFICES ASSUME NoZombies, Base, RowOpen, [Next]_vars PROVE RowOpen'
  OBVIOUS
<1>1. CASE UNCHANGED vars
  BY <1>1 DEF vars, ledger, handler, RowOpen, Running
<1>2. CASE Next
  <2> SUFFICES ASSUME NEW h \in Handlers, NEW c \in Consumers, Running(h, c)'
               PROVE  status'[c] \notin Terminal
    BY DEF RowOpen
  <2>1. status[c] \notin Terminal /\ pc[h] # "idle" /\ con[h] = c
    BY <1>2, RunnerBefore DEF RowOpen, Running, Begin
  <2>2. ASSUME NEW g \in Handlers, con[g] = c, Complete(g) \/ Fail(g) PROVE FALSE
    <3>1. g = h
      BY <2>1, <2>2, OneHandler DEF Base, Complete, Fail
    <3> QED BY <1>2, <2>2, <3>1, RunnerBefore DEF Begin, Complete, Fail
  <2> QED BY <1>2, <2>1, <2>2, StatusWriters
<1> QED BY <1>1, <1>2

LEMMA OpenHolds == ASSUME NoZombies PROVE Spec => [](Base /\ RowOpen)
<1>1. Init => RowOpen
  BY DEF Init, RowOpen, Running
<1> QED BY <1>1, BaseHolds, RowOpenStep, PTL DEF Spec

LEMMA FinalStep ==
  ASSUME NoZombies, Base, RowOpen, [Next]_vars, NEW c \in Consumers, status[c] \in Terminal
  PROVE  status'[c] = status[c]
<1>1. CASE UNCHANGED vars
  BY <1>1 DEF vars, ledger
<1> QED BY <1>1, StatusWriters

\* Without zombies a completed consumer is never run again, and no dead letter
\* is revived.
THEOREM TerminalIsFinalHolds ==
  ASSUME NoZombies PROVE Spec => TerminalIsFinal
<1>1. Base /\ RowOpen /\ [Next]_vars
        => [\A c \in Consumers : status[c] \in Terminal => status'[c] = status[c]]_vars
  BY FinalStep
<1> QED BY <1>1, OpenHolds, PTL DEF Spec, TerminalIsFinal

\* Without zombies the encrypted command outlives every row that needs it.
THEOREM CommandKept ==
  ASSUME NoZombies PROVE Spec => []CommandKeptWhileNeeded
<1>1. Init => CommandKeptWhileNeeded
  BY DEF Init, CommandKeptWhileNeeded
<1>2. Base /\ RowOpen /\ CommandKeptWhileNeeded /\ [Next]_vars => CommandKeptWhileNeeded'
  <2> SUFFICES ASSUME Base, RowOpen, CommandKeptWhileNeeded, [Next]_vars,
                      Email \in Consumers, ~command'
               PROVE  status'[Email] \in Terminal
    BY DEF CommandKeptWhileNeeded
  <2>1. CASE ~command
    BY <2>1, FinalStep DEF CommandKeptWhileNeeded
  <2>2. CASE command
    <3>1. \E h \in Handlers : Complete(h) \/ Fail(h)
      BY <2>2, ZombieSteps
         DEF Next, FaultStep, DispatcherStep, HandlerStep, TransportStep, Claim, Remove, Add,
             FailEnqueue, Lookup, RedisError, AbandonPass, Crash, Begin, Mark, Work, Settle,
             LoseAnswer, RollBack, Promote, RecoverStalled, Take, Evict, BecomeDue, LockAges,
             event, vars
    <3>2. PICK h \in Handlers : Complete(h) \/ Fail(h)
      BY <3>1
    <3>3. con[h] = Email /\ status'[Email] \in Terminal
      BY <2>2, <3>2
         DEF Complete, Fail, CommitCompletion, CommitFailure, Terminal, Base, Shape, TypeOK
    <3> QED BY <3>3
  <2> QED BY <2>1, <2>2
<1> QED BY <1>1, <1>2, OpenHolds, PTL DEF Spec

-----------------------------------------------------------------------------
(* Attempts.                                                                *)

\* A working handler carries the number of its row's last attempt; an open row
\* nobody works for still has an attempt left, or a fault pays for it.
AttemptsInv ==
  \A c \in Consumers :
    /\ attempts[c] <= MaxAttempts + faults
    /\ \A h \in Handlers : Running(h, c) => att[h] = attempts[c]
    /\ status[c] \notin Terminal /\ (\A h \in Handlers : ~Running(h, c))
         => attempts[c] < MaxAttempts + faults

LEMMA FaultsGrow ==
  ASSUME Shape, [Next]_vars PROVE faults' \in Nat /\ faults' >= faults
<1>1. faults \in Nat
  BY DEF Shape, TypeOK
<1>2. faults' = faults \/ faults' = faults + 1
  BY DEF Next, FaultStep, DispatcherStep, HandlerStep, TransportStep, Claim, Remove, Add,
         FailEnqueue, Lookup, Begin, Mark, Work, Complete, Fail, Settle, Promote,
         RecoverStalled, Take, Evict, BecomeDue, LockAges, LoseRedis, RedisError,
         AbandonPass, Crash, LoseAnswer, RollBack, LoseCommit, LoseLock, Fault, vars
<1> QED BY <1>1, <1>2

\* A handler stops working by a commit, or by a fault.
LEMMA RunnerStops ==
  ASSUME NoZombies, Base, Next, NEW h \in Handlers, NEW c \in Consumers,
         Running(h, c), ~Running(h, c)'
  PROVE  faults' = faults + 1 \/ Complete(h) \/ Fail(h)
<1>1. ASSUME NEW g \in Handlers, HandlerStep(g) \/ LoseAnswer(g) \/ RollBack(g)
      PROVE  faults' = faults + 1 \/ Complete(h) \/ Fail(h)
  <2>1. CASE g # h
    BY <1>1, <2>1
       DEF HandlerStep, Begin, Mark, Work, Complete, Fail, Settle, LoseAnswer, RollBack,
           At, FailWith, Running, Base, Shape, TypeOK
  <2>2. CASE g = h
    BY <1>1, <2>2
       DEF HandlerStep, Begin, Mark, Work, Settle, LoseAnswer, RollBack, Fault,
           At, FailWith, Running, Base, Shape, TypeOK
  <2> QED BY <2>1, <2>2
<1>2. CASE \E w \in Workers : Crash(w)
  BY <1>2 DEF Crash, Fault
<1>3. CASE \E d \in Consumers, g \in Handlers : Take(g, d)
  BY <1>3 DEF Take, Running, Base, Shape, TypeOK
<1>4. CASE UNCHANGED handler
  BY <1>4 DEF handler, Running
<1> QED
  BY <1>1, <1>2, <1>3, <1>4, ZombieSteps
     DEF Next, FaultStep, DispatcherStep, TransportStep, Claim, Remove, Add, FailEnqueue,
         Lookup, RedisError, AbandonPass, Promote, RecoverStalled, Evict, BecomeDue, LockAges

\* The start of an attempt: its row was open, and nobody else works for it.
LEMMA AttemptsBegin ==
  ASSUME NoZombies, Base, AttemptsInv, NEW h \in Handlers, Begin(h)
  PROVE  AttemptsInv'
<1> DEFINE c == con[h]
<1>1. c \in Consumers /\ UNCHANGED <<con, faults>> /\ attempts[c] \in Nat /\ faults \in Nat
  BY DEF Begin, Base, Shape, TypeOK, Assigned
<1>2. \A g \in Handlers : ~Running(g, c)
  BY OneHandler DEF Begin, Running, Base
<1>3. \A g \in Handlers : g # h => pc'[g] = pc[g]
  BY DEF Begin, At, FailWith, Base, Shape, TypeOK
<1>4. CASE status[c] \in Terminal
  <2>1. UNCHANGED <<status, attempts, att>> /\ pc'[h] = "ack"
    BY <1>4 DEF Begin, At, ledger, Base, Shape, TypeOK
  <2> QED BY <1>1, <1>2, <1>3, <2>1 DEF AttemptsInv, Running, Begin
<1>5. CASE status[c] \notin Terminal
  <2>1. /\ attempts' = [attempts EXCEPT ![c] = attempts[c] + 1]
        /\ att' = [att EXCEPT ![h] = attempts[c] + 1]
        /\ status' = [status EXCEPT ![c] = "PROCESSING"]
    BY <1>5 DEF Begin
  <2>2. Running(h, c)'
    BY <1>1, <1>5 DEF Begin, At, FailWith, Running, Base, Shape, TypeOK
  <2>3. attempts[c] < MaxAttempts + faults
    BY <1>1, <1>2, <1>5 DEF AttemptsInv
  <2>4. attempts'[c] <= MaxAttempts + faults' /\ att'[h] = attempts'[c]
    BY <1>1, <2>1, <2>3, AttemptsAssumption DEF Base, Shape, TypeOK
  <2>5. \A d \in Consumers : d # c => attempts'[d] = attempts[d] /\ status'[d] = status[d]
    BY <2>1 DEF Base, Shape, TypeOK
  <2>6. \A g \in Handlers : g # h => att'[g] = att[g]
    BY <2>1 DEF Base, Shape, TypeOK
  <2>7. \A g \in Handlers : g # h => ~Running(g, c)'
    BY <1>1, <1>2, <1>3 DEF Running
  <2>8. \A d \in Consumers : d # c =>
           ~Running(h, d) /\ ~Running(h, d)'
             /\ \A g \in Handlers : g # h => (Running(g, d)' <=> Running(g, d))
    BY <1>1, <1>3 DEF Running
  <2>9. ASSUME NEW d \in Consumers, d # c
        PROVE  /\ attempts'[d] <= MaxAttempts + faults'
               /\ \A g \in Handlers : Running(g, d)' => att'[g] = attempts'[d]
               /\ status'[d] \notin Terminal /\ (\A g \in Handlers : ~Running(g, d)')
                    => attempts'[d] < MaxAttempts + faults'
    BY <1>1, <2>5, <2>6, <2>8, <2>9 DEF AttemptsInv
  <2> QED BY <1>1, <2>2, <2>4, <2>7, <2>9 DEF AttemptsInv
<1> QED BY <1>4, <1>5

LEMMA AttemptsOther ==
  ASSUME NoZombies, Base, RowOpen, AttemptsInv, Next, \A h \in Handlers : ~Begin(h)
  PROVE  AttemptsInv'
<1>1. attempts' = attempts
  BY ZombieSteps
     DEF Next, FaultStep, DispatcherStep, HandlerStep, TransportStep, Claim, Remove, Add,
         FailEnqueue, Lookup, RedisError, AbandonPass, Crash, Mark, Work, Complete, Fail,
         CommitCompletion, CommitFailure, Settle, LoseAnswer, RollBack, Promote,
         RecoverStalled, Take, Evict, BecomeDue, LockAges, ledger
<1>2. /\ faults \in Nat /\ faults' \in Nat /\ faults' >= faults
      /\ \A c \in Consumers : attempts[c] \in Nat
  BY FaultsGrow DEF Base, Shape, TypeOK
<1> SUFFICES ASSUME NEW c \in Consumers
             PROVE  /\ attempts'[c] <= MaxAttempts + faults'
                    /\ \A h \in Handlers : Running(h, c)' => att'[h] = attempts'[c]
                    /\ status'[c] \notin Terminal /\ (\A h \in Handlers : ~Running(h, c)')
                         => attempts'[c] < MaxAttempts + faults'
  BY DEF AttemptsInv
<1>3. attempts[c] <= MaxAttempts + faults /\ attempts'[c] <= MaxAttempts + faults'
  BY <1>1, <1>2, AttemptsAssumption DEF AttemptsInv
<1>4. ASSUME NEW h \in Handlers, Running(h, c)' PROVE att'[h] = attempts'[c]
  <2>1. Running(h, c)
    BY <1>4, RunnerBefore
  <2>2. att'[h] = att[h]
    <3>1. CASE \E g \in Handlers : Settle(g)
      BY <1>4, <3>1 DEF Settle, Running, Base, Shape, TypeOK
    <3>2. CASE \E w \in Workers : Crash(w)
      BY <1>4, <3>2 DEF Crash, Running
    <3>3. CASE UNCHANGED att
      BY <3>3
    <3> QED
      BY <3>1, <3>2, <3>3, ZombieSteps
         DEF Next, FaultStep, DispatcherStep, HandlerStep, TransportStep, Claim, Remove, Add,
             FailEnqueue, Lookup, RedisError, AbandonPass, Mark, Work, Complete, Fail,
             LoseAnswer, RollBack, Promote, RecoverStalled, Take, Evict, BecomeDue, LockAges,
             handler
  <2> QED BY <1>1, <2>1, <2>2 DEF AttemptsInv
<1>5. ASSUME status'[c] \notin Terminal, \A h \in Handlers : ~Running(h, c)'
      PROVE  attempts'[c] < MaxAttempts + faults'
  <2>1. status[c] \notin Terminal
    BY <1>5, FinalStep
  <2>2. CASE \A h \in Handlers : ~Running(h, c)
    BY <1>1, <1>2, <2>1, <2>2, AttemptsAssumption DEF AttemptsInv
  <2>3. ASSUME NEW h \in Handlers, Running(h, c) PROVE attempts'[c] < MaxAttempts + faults'
    <3>1. CASE faults' = faults + 1
      BY <1>1, <1>2, <1>3, <3>1, AttemptsAssumption
    <3>2. CASE Complete(h)
      BY <1>5, <2>3, <3>2
         DEF Complete, CommitCompletion, Running, Terminal, Base, Shape, TypeOK
    <3>3. CASE Fail(h)
      <4>1. ~IsTerminalFailure(h)
        BY <1>5, <2>3, <3>3 DEF Fail, CommitFailure, Running, Terminal, Base, Shape, TypeOK
      <4>2. att[h] < MaxAttempts /\ att[h] = attempts[c]
        BY <2>3, <4>1, AttemptsAssumption
           DEF IsTerminalFailure, AttemptsInv, Base, Shape, TypeOK
      <4> QED BY <1>1, <1>2, <4>2, AttemptsAssumption
    <3> QED BY <1>5, <2>3, <3>1, <3>2, <3>3, RunnerStops
  <2> QED BY <2>2, <2>3
<1> QED BY <1>3, <1>4, <1>5

\* Without zombies every attempt beyond the limit is paid for by a fault.
THEOREM AttemptsPaid ==
  ASSUME NoZombies PROVE Spec => []AttemptsPaidByFaults
<1>1. Init => AttemptsInv
  BY AttemptsAssumption DEF Init, AttemptsInv, Running
<1>2. Base /\ RowOpen /\ AttemptsInv /\ [Next]_vars => AttemptsInv'
  <2>1. ASSUME AttemptsInv, UNCHANGED vars PROVE AttemptsInv'
    BY <2>1 DEF AttemptsInv, Running, vars, ledger, handler
  <2> QED BY <2>1, AttemptsBegin, AttemptsOther
<1>3. AttemptsInv => AttemptsPaidByFaults
  BY DEF AttemptsInv, AttemptsPaidByFaults
<1> QED BY <1>1, <1>2, <1>3, OpenHolds, PTL DEF Spec

-----------------------------------------------------------------------------
(* External effects.                                                        *)

\* The consumer's effect is recorded, or about to be.
Done(c) ==
  \/ status[c] = "COMPLETED"
  \/ \E h \in Handlers : pc[h] = "complete" /\ con[h] = c

\* An effect nobody has recorded or is about to record is paid for by a fault.
RepeatsInv ==
  \A c \in Consumers : /\ performed[c] <= faults + 1
                       /\ ~Done(c) => performed[c] <= faults

\* Only a fault loses an effect on its way to the ledger.
LEMMA DoneStays ==
  ASSUME NoZombies, Base, RowOpen, Next, NEW c \in Consumers, Done(c), ~Done(c)'
  PROVE  faults' = faults + 1
<1>1. PICK h \in Handlers : pc[h] = "complete" /\ con[h] = c
  BY FinalStep DEF Done, Terminal
<1>2. Running(h, c) /\ ~(pc'[h] = "complete" /\ con'[h] = c) /\ status'[c] # "COMPLETED"
  BY <1>1 DEF Running, Done
<1>3. ASSUME NEW g \in Handlers, HandlerStep(g) \/ LoseAnswer(g) \/ RollBack(g)
      PROVE  faults' = faults + 1
  <2>1. CASE g # h
    BY <1>1, <1>2, <1>3, <2>1
       DEF HandlerStep, Begin, Mark, Work, Complete, Fail, Settle, LoseAnswer, RollBack,
           At, FailWith, Base, Shape, TypeOK
  <2>2. CASE g = h
    BY <1>1, <1>2, <1>3, <2>2
       DEF HandlerStep, Begin, Mark, Work, Complete, CommitCompletion, Fail, Settle,
           LoseAnswer, RollBack, Fault, Base, Shape, TypeOK
  <2> QED BY <2>1, <2>2
<1>4. CASE \E w \in Workers : Crash(w)
  BY <1>4 DEF Crash, Fault
<1>5. CASE \E d \in Consumers, g \in Handlers : Take(g, d)
  BY <1>1, <1>2, <1>5 DEF Take, Base, Shape, TypeOK
<1>6. CASE UNCHANGED handler
  BY <1>1, <1>2, <1>6 DEF handler
<1> QED
  BY <1>3, <1>4, <1>5, <1>6, ZombieSteps
     DEF Next, FaultStep, DispatcherStep, TransportStep, Claim, Remove, Add, FailEnqueue,
         Lookup, RedisError, AbandonPass, Promote, RecoverStalled, Evict, BecomeDue, LockAges

\* While a handler is at work the effect of its consumer is not yet done.
LEMMA NotDoneAtWork ==
  ASSUME Base, RowOpen, NEW h \in Handlers, pc[h] = "work"
  PROVE  con[h] \in Consumers /\ ~Done(con[h])
<1>1. con[h] \in Consumers /\ status[con[h]] # "COMPLETED"
  BY DEF Base, Shape, Assigned, RowOpen, Running, Terminal
<1>2. ASSUME NEW g \in Handlers, pc[g] = "complete", con[g] = con[h] PROVE FALSE
  BY <1>2, OneHandler DEF Base
<1> QED BY <1>1, <1>2 DEF Done

LEMMA RepeatsStep ==
  ASSUME NoZombies, Base, RowOpen, RepeatsInv, Next PROVE RepeatsInv'
<1>1. /\ faults \in Nat /\ faults' \in Nat /\ faults' >= faults
      /\ \A c \in Consumers : performed[c] \in Nat
  BY FaultsGrow DEF Base, Shape, TypeOK
<1>2. ASSUME NEW h \in Handlers, Work(h) PROVE RepeatsInv'
  <2>1. con[h] \in Consumers /\ ~Done(con[h]) /\ faults' = faults /\ status' = status
    BY <1>2, NotDoneAtWork DEF Work, ledger
  <2>2. \A c \in Consumers : c # con[h] =>
           performed'[c] = performed[c] /\ (Done(c) => Done(c)')
    BY <1>1, <1>2, <2>1, DoneStays DEF Work, Base, Shape, TypeOK
  <2>3. \/ performed'[con[h]] = performed[con[h]]
        \/ performed'[con[h]] = performed[con[h]] + 1 /\ Done(con[h])'
    <3>1. CASE UNCHANGED performed
      BY <3>1
    <3>2. CASE At(h, "complete")
      <4>1. pc'[h] = "complete" /\ con'[h] = con[h] /\ con' = con
        BY <1>2, <3>2 DEF Work, At, Base, Shape, TypeOK
      <4>2. Done(con[h])'
        BY <4>1 DEF Done
      <4>3. \/ performed'[con[h]] = performed[con[h]]
            \/ performed'[con[h]] = performed[con[h]] + 1
        BY <1>2, <2>1 DEF Work, Base, Shape, TypeOK
      <4> QED BY <4>2, <4>3
    <3> QED BY <1>2, <3>1, <3>2 DEF Work
  <2>4. performed[con[h]] <= faults /\ performed[con[h]] \in Nat
    BY <1>1, <2>1 DEF RepeatsInv
  <2>5. /\ performed'[con[h]] <= faults' + 1
        /\ ~Done(con[h])' => performed'[con[h]] <= faults'
    BY <1>1, <2>1, <2>3, <2>4
  <2>6. ASSUME NEW c \in Consumers, c # con[h]
        PROVE  performed'[c] <= faults' + 1 /\ (~Done(c)' => performed'[c] <= faults')
    BY <2>1, <2>2, <2>6 DEF RepeatsInv
  <2>7. con' = con
    BY <1>2 DEF Work
  <2> QED BY <2>5, <2>6, <2>7 DEF RepeatsInv
<1>3. ASSUME NEW h \in Handlers, LoseAnswer(h) PROVE RepeatsInv'
  <2>1. con[h] \in Consumers /\ ~Done(con[h]) /\ faults' = faults + 1
    BY <1>3, NotDoneAtWork DEF LoseAnswer, Fault
  <2>2. performed' = [performed EXCEPT ![con[h]] = @ + 1]
    BY <1>3 DEF LoseAnswer
  <2>3. ASSUME NEW c \in Consumers PROVE performed'[c] <= faults'
    <3>1. CASE c = con[h]
      BY <1>1, <2>1, <2>2, <3>1 DEF RepeatsInv, Base, Shape, TypeOK
    <3>2. CASE c # con[h]
      BY <1>1, <2>1, <2>2, <3>2 DEF RepeatsInv, Base, Shape, TypeOK
    <3> QED BY <3>1, <3>2
  <2>4. ASSUME NEW c \in Consumers PROVE performed'[c] <= faults' + 1
    <3>1. performed'[c] \in Nat
      BY <1>1, <2>1, <2>2 DEF Base, Shape, TypeOK
    <3> QED BY <1>1, <2>3, <3>1
  <2> QED BY <2>3, <2>4 DEF RepeatsInv
<1>4. ASSUME UNCHANGED performed PROVE RepeatsInv'
  <2> SUFFICES ASSUME NEW c \in Consumers
               PROVE  /\ performed'[c] <= faults' + 1
                      /\ ~Done(c)' => performed'[c] <= faults'
    BY DEF RepeatsInv
  <2>1. performed'[c] = performed[c] /\ performed[c] \in Nat
    BY <1>1, <1>4
  <2>2. performed[c] <= faults + 1 /\ (~Done(c) => performed[c] <= faults)
    BY DEF RepeatsInv
  <2>3. ~Done(c)' => ~Done(c) \/ faults' = faults + 1
    BY DoneStays
  <2> QED BY <1>1, <2>1, <2>2, <2>3
<1> QED
  BY <1>2, <1>3, <1>4, ZombieSteps
     DEF Next, FaultStep, DispatcherStep, HandlerStep, TransportStep, Claim, Remove, Add,
         FailEnqueue, Lookup, RedisError, AbandonPass, Crash, Begin, Mark, Complete, Fail,
         Settle, RollBack, Promote, RecoverStalled, Take, Evict, BecomeDue, LockAges

\* Without zombies every repetition of an external effect is paid for by a
\* fault: redelivery alone repeats none.
THEOREM RepeatsPaid ==
  ASSUME NoZombies PROVE Spec => []RepeatsPaidByFaults
<1>1. Init => RepeatsInv
  BY DEF Init, RepeatsInv
<1>2. Base /\ RowOpen /\ RepeatsInv /\ [Next]_vars => RepeatsInv'
  <2>1. ASSUME RepeatsInv, UNCHANGED vars PROVE RepeatsInv'
    BY <2>1 DEF RepeatsInv, Done, vars, ledger, handler
  <2> QED BY <2>1, RepeatsStep
<1>3. Base /\ RepeatsInv => RepeatsPaidByFaults
  BY DEF Base, Shape, TypeOK, RepeatsInv, RepeatsPaidByFaults
<1> QED BY <1>1, <1>2, <1>3, OpenHolds, PTL DEF Spec

-----------------------------------------------------------------------------
(* The refinement: every step of the outbox is a step of Delivery or none.  *)

debts == [c \in Consumers |-> DebtOf(c)]

PromiseStep == Promise!Next \/ UNCHANGED <<debts, performed>>

\* A row that stays open keeps its debt.
LEMMA DebtKept ==
  ASSUME NoZombies, Base, RowOpen, Next,
         \A h \in Handlers : ~Complete(h) /\ ~Fail(h)
  PROVE  debts' = debts
<1> SUFFICES ASSUME NEW c \in Consumers PROVE DebtOf(c)' = DebtOf(c)
  BY DEF debts
<1>1. CASE status'[c] = status[c]
  BY <1>1 DEF DebtOf
<1>2. CASE status'[c] # status[c]
  <2>1. status[c] \notin Terminal /\ status'[c] \notin Terminal
    BY <1>2, StatusWriters
  <2> QED BY <2>1 DEF DebtOf, Terminal
<1> QED BY <1>1, <1>2

\* The commit of a completion acknowledges the one debt, after its effect.
LEMMA CompleteAcknowledges ==
  ASSUME Base, RowOpen, EffectInv, NEW h \in Handlers, Complete(h)
  PROVE  con[h] \in Consumers /\ Promise!Acknowledge(con[h])
<1> DEFINE c == con[h]
<1>1. c \in Consumers /\ status[c] \notin Terminal /\ performed' = performed
  BY DEF Complete, Base, Shape, Assigned, RowOpen, Running
<1>2. c \in External => performed[c] > 0
  BY <1>1 DEF Complete, EffectInv, PerformedBeforeComplete, Base, Shape, TypeOK
<1>3. status' = [status EXCEPT ![c] = "COMPLETED"]
  BY DEF Complete, CommitCompletion
<1>4. debts[c] = "owed"
  BY <1>1 DEF debts, DebtOf, Terminal
<1>5. debts' = [debts EXCEPT ![c] = "acknowledged"]
  <2>1. ASSUME NEW d \in Consumers
        PROVE  DebtOf(d)' = IF d = c THEN "acknowledged" ELSE DebtOf(d)
    BY <1>1, <1>3 DEF DebtOf, Base, Shape, TypeOK
  <2> QED BY <2>1 DEF debts
<1> QED BY <1>1, <1>2, <1>4, <1>5 DEF Promise!Acknowledge, debts

\* The commit of a failure gives the one debt up, or leaves all as they are.
LEMMA FailGivesUp ==
  ASSUME Base, RowOpen, NEW h \in Handlers, Fail(h)
  PROVE  \/ con[h] \in Consumers /\ Promise!GiveUp(con[h])
         \/ UNCHANGED <<debts, performed>>
<1> DEFINE c == con[h]
<1>1. c \in Consumers /\ status[c] \notin Terminal /\ performed' = performed
  BY DEF Fail, Base, Shape, Assigned, RowOpen, Running
<1>2. status' = [status EXCEPT ![c] = IF IsTerminalFailure(h) THEN "DEAD_LETTER" ELSE "FAILED"]
  BY DEF Fail, CommitFailure
<1>3. debts[c] = "owed"
  BY <1>1 DEF debts, DebtOf, Terminal
<1>4. CASE IsTerminalFailure(h)
  <2>1. ASSUME NEW d \in Consumers
        PROVE  DebtOf(d)' = IF d = c THEN "given up" ELSE DebtOf(d)
    BY <1>1, <1>2, <1>4 DEF DebtOf, Base, Shape, TypeOK
  <2>2. debts' = [debts EXCEPT ![c] = "given up"]
    BY <2>1 DEF debts
  <2> QED BY <1>1, <1>3, <2>2 DEF Promise!GiveUp, debts
<1>5. CASE ~IsTerminalFailure(h)
  <2>1. ASSUME NEW d \in Consumers PROVE DebtOf(d)' = DebtOf(d)
    BY <1>1, <1>2, <1>5 DEF DebtOf, Terminal, Base, Shape, TypeOK
  <2> QED BY <1>1, <2>1 DEF debts
<1> QED BY <1>4, <1>5

\* A call of the provider performs an effect that is still owed.
LEMMA WorkPerforms ==
  ASSUME NoZombies, Base, RowOpen, Next, NEW h \in Handlers, Work(h) \/ LoseAnswer(h)
  PROVE  \/ con[h] \in Consumers /\ Promise!Perform(con[h])
         \/ UNCHANGED <<debts, performed>>
<1> DEFINE c == con[h]
<1>1. c \in Consumers /\ status[c] \notin Terminal /\ status' = status
  BY DEF Work, LoseAnswer, Base, Shape, Assigned, RowOpen, Running, ledger
<1>2. debts' = debts /\ debts[c] = "owed"
  BY <1>1 DEF debts, DebtOf, Terminal
<1>3. CASE c \in External /\ performed' = [performed EXCEPT ![c] = @ + 1]
  BY <1>1, <1>2, <1>3 DEF Promise!Perform, debts
<1>4. CASE performed' = performed
  BY <1>2, <1>4
<1>5. CASE c \notin External /\ performed' = [performed EXCEPT ![c] = @]
  BY <1>1, <1>2, <1>5 DEF Base, Shape, TypeOK
<1> QED BY <1>3, <1>4, <1>5 DEF Work, LoseAnswer

LEMMA RefinementStep ==
  ASSUME NoZombies, Base, RowOpen, EffectInv, [Next]_vars PROVE PromiseStep
<1>1. CASE UNCHANGED vars
  BY <1>1 DEF vars, ledger, PromiseStep, debts, DebtOf
<1>2. ASSUME NEW h \in Handlers, Next, Complete(h) PROVE PromiseStep
  BY <1>2, CompleteAcknowledges DEF PromiseStep, Promise!Next
<1>3. ASSUME NEW h \in Handlers, Next, Fail(h) PROVE PromiseStep
  BY <1>3, FailGivesUp DEF PromiseStep, Promise!Next
<1>4. ASSUME NEW h \in Handlers, Next, Work(h) \/ LoseAnswer(h) PROVE PromiseStep
  BY <1>4, WorkPerforms DEF PromiseStep, Promise!Next
<1>5. ASSUME Next, \A h \in Handlers : ~(Complete(h) \/ Fail(h) \/ Work(h) \/ LoseAnswer(h))
      PROVE  PromiseStep
  <2>1. performed' = performed
    BY <1>5, ZombieSteps
       DEF Next, FaultStep, DispatcherStep, HandlerStep, TransportStep, Claim, Remove, Add,
           FailEnqueue, Lookup, RedisError, AbandonPass, Crash, Begin, Mark, Settle,
           RollBack, Promote, RecoverStalled, Take, Evict, BecomeDue, LockAges
  <2> QED BY <1>5, <2>1, DebtKept DEF PromiseStep
<1> QED BY <1>1, <1>2, <1>3, <1>4, <1>5

\* Without zombies the outbox refines the safety part of the delivery promise:
\* at least once before it is acknowledged, never after, each debt once.
THEOREM RefinesDelivery ==
  ASSUME NoZombies
  PROVE  Spec => Promise!Init /\ [][Promise!Next]_<<debts, performed>>
<1>1. Init => Promise!Init
  BY DEF Init, Promise!Init, DebtOf
<1>2. Base /\ RowOpen /\ EffectInv /\ [Next]_vars => [Promise!Next]_<<debts, performed>>
  BY RefinementStep DEF PromiseStep
<1>3. Init => EffectInv
  BY InitEffect
<1>4. Base /\ EffectInv /\ [Next]_vars => EffectInv'
  BY EffectStep DEF Base
<1> QED BY <1>1, <1>2, <1>3, <1>4, OpenHolds, PTL DEF Spec

=============================================================================
