------------------------------- MODULE Outbox -------------------------------
(***************************************************************************)
(* The transactional outbox of one domain event: the PostgreSQL ledger     *)
(* (one row per consumer), the event row with its encrypted command, the   *)
(* optional user-visible job, the BullMQ records that transport the work,  *)
(* the dispatch passes of every worker process and its handlers.           *)
(*                                                                         *)
(* An action is one database transaction, one Redis call, or one call of a *)
(* provider: the places where two processes interleave, and where a crash  *)
(* or a lost answer separates two steps.                                   *)
(***************************************************************************)
EXTENDS Naturals, FiniteSets

CONSTANTS
  Consumers,     \* the consumers selected for the event when it is recorded
  Email,         \* the name of the e-mail consumer (in Consumers or not)
  External,      \* the consumers whose effect is committed outside the ledger
  Workers,       \* worker processes
  Slots,         \* concurrent handlers of a process (concurrency: 5)
  Passes,        \* dispatch passes of a process that may overlap (a timer starts them)
  MaxAttempts,   \* max_attempts of every row
  VisibleJob,    \* the event has a user-visible background job
  Faults,        \* the faults the environment may produce
  MaxFaults,     \* bound on the number of faults in a behaviour
  None           \* NULL

FaultKinds ==
  {"crash", "redis_error", "db_error", "ack_lost", "commit_lost", "stall", "redis_loss"}

\* The faults after which a handler may still run although BullMQ, or the
\* handler itself, no longer believes that it does.
ZombieFaults == {"commit_lost", "stall", "redis_loss"}

JobStatus == {"QUEUED", "RUNNING", "RETRYING", "COMPLETED", "DEAD_LETTER"}

ASSUME ConsumersAssumption == /\ IsFiniteSet(Consumers)
                              /\ Consumers # {}
                              /\ External \subseteq Consumers
                              /\ Email \in Consumers => Email \in External
ASSUME WorkersAssumption == Workers # {} /\ Passes # {} /\ None \notin Workers
ASSUME NoneAssumption == /\ None \notin Consumers
                         /\ None \notin Workers \X Slots
                         /\ None \notin JobStatus
ASSUME AttemptsAssumption == MaxAttempts \in Nat \ {0}
ASSUME FaultsAssumption == Faults \subseteq FaultKinds /\ MaxFaults \in Nat
ASSUME JobAssumption == VisibleJob \in BOOLEAN

Handlers == Workers \X Slots
Dispatchers == Workers \X Passes

ExecStatus == {"PENDING", "ENQUEUED", "PROCESSING", "COMPLETED", "FAILED", "DEAD_LETTER"}
Terminal == {"COMPLETED", "DEAD_LETTER"}
OutboxStatus == {"PENDING", "PROCESSING", "PROCESSED", "FAILED", "DEAD_LETTER"}
QueueStatus == {"none", "waiting", "delayed", "active", "completed", "failed"}
HandlerPC == {"idle", "begin", "mark", "work", "complete", "fail", "ack", "nack"}

VARIABLES
  status,      \* outbox_consumer_executions.status
  attempts,    \* outbox_consumer_executions.attempts
  lockedBy,    \* outbox_consumer_executions.locked_by
  stale,       \* locked_at is more than two minutes old
  due,         \* available_at <= now()
  outbox,      \* outbox_messages.status
  command,     \* outbox_messages.encrypted_headers IS NOT NULL
  job,         \* background_jobs.status
  queue,       \* state of the BullMQ record with the row's deterministic id
  made,        \* BullMQ attemptsMade
  stalled,     \* the BullMQ record was already recovered from a stall once
  owner,       \* the handler that holds the BullMQ job lock
  pass,        \* the dispatch passes of the workers
  pc, con, att, err,  \* handlers: step, consumer, snapshot.attempt_number, error class
  performed,   \* history: how often the consumer's external effect took place
  faults       \* history: faults so far

ledger == <<status, attempts, lockedBy, stale, due>>
event == <<outbox, command, job>>
bull == <<queue, made, stalled, owner>>
handler == <<pc, con, att, err>>
vars == <<ledger, event, bull, pass, handler, performed, faults>>

Pass == [at : {"idle", "rows", "remove", "add", "fail"},
         row : Consumers \cup {None}, rows : SUBSET Consumers]
IdlePass == [at |-> "idle", row |-> None, rows |-> {}]

Fault(kind) == kind \in Faults /\ faults < MaxFaults /\ faults' = faults + 1

-----------------------------------------------------------------------------
(* The producer: the API transaction that recorded the event.              *)

Init ==
  /\ status = [c \in Consumers |-> "PENDING"]
  /\ attempts = [c \in Consumers |-> 0]
  /\ lockedBy = [c \in Consumers |-> None]
  /\ stale = [c \in Consumers |-> FALSE]
  /\ due \in {[c \in Consumers |-> now] : now \in BOOLEAN}
  /\ outbox = "PENDING"
  /\ command = (Email \in Consumers)
  /\ job = IF VisibleJob THEN "QUEUED" ELSE None
  /\ queue = [c \in Consumers |-> "none"]
  /\ made = [c \in Consumers |-> 0]
  /\ stalled = [c \in Consumers |-> FALSE]
  /\ owner = [c \in Consumers |-> None]
  /\ pass = [d \in Dispatchers |-> IdlePass]
  /\ pc = [h \in Handlers |-> "idle"]
  /\ con = [h \in Handlers |-> None]
  /\ att = [h \in Handlers |-> 0]
  /\ err = [h \in Handlers |-> "none"]
  /\ performed = [c \in Consumers |-> 0]
  /\ faults = 0

\* selectOutboxConsumers, applied again to the persisted snapshot: the event
\* name and payload are immutable, only the encrypted command can disappear.
Selected(hasEmail) == IF hasEmail THEN Consumers ELSE Consumers \ {Email}

-----------------------------------------------------------------------------
(* Aggregates: weddingos_reconcile_outbox, in the transaction of its caller.*)

\* Mutant: a consumer whose handler still runs counts as done.
OutboxOfIgnoringRunning(st) ==
  IF \E c \in Consumers : st[c] = "DEAD_LETTER" THEN "DEAD_LETTER"
  ELSE IF \A c \in Consumers : st[c] \in {"COMPLETED", "PROCESSING"} THEN "PROCESSED"
  ELSE IF \E c \in Consumers : st[c] = "FAILED" THEN "FAILED" ELSE "PROCESSING"

OutboxOf(st) ==
  IF \E c \in Consumers : st[c] = "DEAD_LETTER" THEN "DEAD_LETTER"
  ELSE IF \A c \in Consumers : st[c] = "COMPLETED" THEN "PROCESSED"
  ELSE IF \E c \in Consumers : st[c] = "FAILED" THEN "FAILED" ELSE "PROCESSING"

\* Mutant: the job gets the event's status names.
JobOfWithEventNames(st) == OutboxOf(st)

JobOf(st) ==
  IF OutboxOf(st) = "DEAD_LETTER" THEN "DEAD_LETTER"
  ELSE IF OutboxOf(st) = "PROCESSED" THEN "COMPLETED"
  ELSE IF OutboxOf(st) = "FAILED" THEN "RETRYING" ELSE "RUNNING"

SetJob(value) == job' = IF VisibleJob THEN value ELSE job

\* Mutant: the linked job is forgotten.
ReconcileWithoutJob == outbox' = OutboxOf(status') /\ UNCHANGED job

Reconcile == /\ outbox' = OutboxOf(status')
             /\ SetJob(JobOf(status'))

Unlock(c) == /\ lockedBy' = [lockedBy EXCEPT ![c] = None]
             /\ stale' = [stale EXCEPT ![c] = FALSE]

-----------------------------------------------------------------------------
(* The dispatcher: dispatch(), started every 750 ms, whether or not the      *)
(* passes before have ended.                                                *)

\* Mutant: the rows of a dead dispatcher or handler are not reclaimed.
ClaimableFreshOnly(c) ==
  due[c] /\ status[c] \in {"PENDING", "FAILED"} /\ (lockedBy[c] = None \/ stale[c])

Claimable(c) ==
  /\ due[c]
  /\ \/ status[c] \in {"PENDING", "FAILED"} /\ (lockedBy[c] = None \/ stale[c])
     \/ status[c] \in {"ENQUEUED", "PROCESSING"} /\ stale[c]

\* One transaction; SKIP LOCKED and the LIMIT may leave claimable rows out.
Claim(d) ==
  /\ pass[d].at = "idle"
  /\ \E S \in SUBSET {c \in Consumers : Claimable(c)} :
       /\ S # {}
       /\ status' = [c \in Consumers |-> IF c \in S THEN "ENQUEUED" ELSE status[c]]
       /\ lockedBy' = [c \in Consumers |-> IF c \in S THEN d[1] ELSE lockedBy[c]]
       /\ stale' = [c \in Consumers |-> IF c \in S THEN FALSE ELSE stale[c]]
       /\ pass' = [pass EXCEPT ![d] = [at |-> "rows", row |-> None, rows |-> S]]
  /\ UNCHANGED <<attempts, due, event, bull, handler, performed, faults>>

\* The pass leaves its current row: the next row, or the end of the pass.
NextRow(d, rest) ==
  pass' = [pass EXCEPT ![d] =
             IF rest = {} THEN IdlePass ELSE [at |-> "rows", row |-> None, rows |-> rest]]

AtRow(d, c, step) ==
  pass' = [pass EXCEPT ![d] = [at |-> step, row |-> c, rows |-> @.rows \ {c}]]

\* getJob and getState: a live record is left to BullMQ.
Lookup(d, c) ==
  /\ pass[d].at = "rows" /\ c \in pass[d].rows
  /\ \/ queue[c] = "none" /\ AtRow(d, c, "add")
     \/ queue[c] \in {"completed", "failed"} /\ AtRow(d, c, "remove")
     \/ queue[c] \in {"waiting", "delayed", "active"} /\ NextRow(d, pass[d].rows \ {c})
  /\ UNCHANGED <<ledger, event, bull, handler, performed, faults>>

\* Mutant: remove does not respect the job lock.
RemoveForced(d) ==
  /\ pass[d].at = "remove"
  /\ AtRow(d, pass[d].row, "add")
  /\ queue' = [queue EXCEPT ![pass[d].row] = "none"]
  /\ UNCHANGED <<made, stalled, owner, ledger, event, handler, performed, faults>>

\* existing.remove(): refused while a handler holds the job lock.
Remove(d) ==
  /\ pass[d].at = "remove"
  /\ LET c == pass[d].row IN
       IF owner[c] # None
       THEN AtRow(d, c, "fail") /\ UNCHANGED bull
       ELSE /\ AtRow(d, c, "add")
            /\ queue' = [queue EXCEPT ![c] = "none"]
            /\ UNCHANGED <<made, stalled, owner>>
  /\ UNCHANGED <<ledger, event, handler, performed, faults>>

\* Mutant: a random job id, every add is a new delivery.
EnqueueRandomId(c) ==
  /\ queue' = [queue EXCEPT ![c] = "waiting"]
  /\ made' = [made EXCEPT ![c] = 0]
  /\ UNCHANGED <<stalled, owner>>

\* queue.add with a deterministic id: nothing happens when the id exists.
Enqueue(c) ==
  /\ queue' = [queue EXCEPT ![c] = IF @ = "none" THEN "waiting" ELSE @]
  /\ made' = [made EXCEPT ![c] = IF queue[c] = "none" THEN 0 ELSE @]
  /\ stalled' = [stalled EXCEPT ![c] = IF queue[c] = "none" THEN FALSE ELSE @]
  /\ UNCHANGED owner

Add(d) ==
  /\ pass[d].at = "add"
  /\ Enqueue(pass[d].row)
  /\ NextRow(d, pass[d].rows)
  /\ UNCHANGED <<ledger, event, handler, performed, faults>>

\* A Redis call fails; the failed add may have reached Redis all the same.
RedisError(d) ==
  /\ Fault("redis_error")
  /\ \/ /\ pass[d].at = "rows"
        /\ \E c \in pass[d].rows : AtRow(d, c, "fail")
        /\ UNCHANGED bull
     \/ /\ pass[d].at \in {"remove", "add"}
        /\ AtRow(d, pass[d].row, "fail")
        /\ UNCHANGED bull
     \/ /\ pass[d].at = "add"
        /\ AtRow(d, pass[d].row, "fail")
        /\ Enqueue(pass[d].row)
  /\ UNCHANGED <<ledger, event, handler, performed>>

\* Mutant: the row is failed whoever holds its lock.
FailEnqueueUnguarded(d) ==
  /\ pass[d].at = "fail"
  /\ LET c == pass[d].row IN
       /\ status' = [status EXCEPT ![c] = "FAILED"]
       /\ due' = [due EXCEPT ![c] = FALSE]
       /\ Unlock(c)
  /\ outbox' = "FAILED" /\ SetJob("RETRYING")
  /\ NextRow(d, pass[d].rows)
  /\ UNCHANGED <<attempts, command, bull, handler, performed, faults>>

\* weddingos_fail_consumer_enqueue: guarded by the lock owner alone.
FailEnqueue(d) ==
  /\ pass[d].at = "fail"
  /\ LET c == pass[d].row IN
       IF lockedBy[c] = d[1]
       THEN /\ status' = [status EXCEPT ![c] = "FAILED"]
            /\ due' = [due EXCEPT ![c] = FALSE]
            /\ Unlock(c)
            /\ outbox' = "FAILED"
            /\ SetJob("RETRYING")
            /\ UNCHANGED <<attempts, command>>
       ELSE UNCHANGED <<ledger, event>>
  /\ NextRow(d, pass[d].rows)
  /\ UNCHANGED <<bull, handler, performed, faults>>

\* The statement that reports the failure fails too: dispatch() rejects and
\* the rest of the batch stays claimed.
AbandonPass(d) ==
  /\ Fault("db_error")
  /\ pass[d].at = "fail"
  /\ pass' = [pass EXCEPT ![d] = IdlePass]
  /\ UNCHANGED <<ledger, event, bull, handler, performed>>

-----------------------------------------------------------------------------
(* BullMQ, external: one record per consumer, with a deterministic id.      *)

Take(h, c) ==
  /\ pc[h] = "idle" /\ queue[c] = "waiting"
  /\ queue' = [queue EXCEPT ![c] = "active"]
  /\ owner' = [owner EXCEPT ![c] = h]
  /\ pc' = [pc EXCEPT ![h] = "begin"]
  /\ con' = [con EXCEPT ![h] = c]
  /\ UNCHANGED <<ledger, event, made, stalled, pass, att, err, performed, faults>>

\* The handler's promise settles: BullMQ moves the record if the lock is
\* still the handler's, and ignores the result otherwise.
Settle(h) ==
  /\ pc[h] \in {"ack", "nack"}
  /\ LET c == con[h]
         failed == pc[h] = "nack"
         spent == made[c] + 1 >= MaxAttempts
     IN IF owner[c] = h
        THEN /\ queue' = [queue EXCEPT ![c] = IF ~failed THEN "completed"
                                              ELSE IF spent THEN "failed" ELSE "delayed"]
             /\ made' = [made EXCEPT ![c] = @ + 1]
             /\ owner' = [owner EXCEPT ![c] = None]
             /\ UNCHANGED stalled
        ELSE UNCHANGED bull
  /\ pc' = [pc EXCEPT ![h] = "idle"]
  /\ con' = [con EXCEPT ![h] = None]
  /\ att' = [att EXCEPT ![h] = 0]
  /\ err' = [err EXCEPT ![h] = "none"]
  /\ UNCHANGED <<ledger, event, pass, performed, faults>>

\* The exponential backoff of a retried record has elapsed.
Promote(c) ==
  /\ queue[c] = "delayed"
  /\ queue' = [queue EXCEPT ![c] = "waiting"]
  /\ UNCHANGED <<ledger, event, made, stalled, owner, pass, handler, performed, faults>>

\* An active record nobody renews: back to waiting once, then failed.
RecoverStalled(c) ==
  /\ queue[c] = "active" /\ owner[c] = None
  /\ queue' = [queue EXCEPT ![c] = IF stalled[c] THEN "failed" ELSE "waiting"]
  /\ stalled' = [stalled EXCEPT ![c] = TRUE]
  /\ UNCHANGED <<ledger, event, made, owner, pass, handler, performed, faults>>

\* removeOnComplete / removeOnFail drop old finished records.
Evict(c) ==
  /\ queue[c] \in {"completed", "failed"}
  /\ queue' = [queue EXCEPT ![c] = "none"]
  /\ UNCHANGED <<ledger, event, made, stalled, owner, pass, handler, performed, faults>>

\* A blocked process misses its lock renewal while its handler is alive.
LoseLock(c) ==
  /\ Fault("stall")
  /\ owner[c] # None
  /\ owner' = [owner EXCEPT ![c] = None]
  /\ UNCHANGED <<ledger, event, queue, made, stalled, pass, handler, performed>>

\* Redis restarts without its data.
LoseRedis ==
  /\ Fault("redis_loss")
  /\ \E c \in Consumers : queue[c] # "none"
  /\ queue' = [c \in Consumers |-> "none"]
  /\ owner' = [c \in Consumers |-> None]
  /\ UNCHANGED <<ledger, event, made, stalled, pass, handler, performed>>

-----------------------------------------------------------------------------
(* The handler: processConsumer and processPersistedConsumer.               *)

At(h, step) == pc' = [pc EXCEPT ![h] = step]
FailWith(h, class) == At(h, "fail") /\ err' = [err EXCEPT ![h] = class]

\* weddingos_begin_consumer_execution: no limit on attempts, no look at the
\* availability or at the lock. A terminal row makes the handler return.
Begin(h) ==
  /\ pc[h] = "begin"
  /\ LET c == con[h] IN
       IF status[c] \in Terminal
       THEN At(h, "ack") /\ UNCHANGED <<ledger, att, err>>
       ELSE /\ status' = [status EXCEPT ![c] = "PROCESSING"]
            /\ attempts' = [attempts EXCEPT ![c] = @ + 1]
            /\ lockedBy' = [lockedBy EXCEPT ![c] = h[1]]
            /\ stale' = [stale EXCEPT ![c] = FALSE]
            /\ att' = [att EXCEPT ![h] = attempts[c] + 1]
            /\ IF c \in Selected(command) THEN At(h, "mark") /\ UNCHANGED err
               ELSE FailWith(h, "permanent")
            /\ UNCHANGED due
  /\ UNCHANGED <<event, bull, pass, con, performed, faults>>

\* A transaction of its own: the visible job runs, whatever it was before.
Mark(h) ==
  /\ pc[h] = "mark"
  /\ SetJob("RUNNING")
  /\ At(h, "work")
  /\ UNCHANGED <<ledger, outbox, command, bull, pass, con, att, err, performed, faults>>

\* Mutant: a permanent refusal of the provider is taken for a success.
WorkSwallowingRefusal(h) ==
  /\ pc[h] = "work"
  /\ \/ /\ At(h, "complete")
        /\ performed' = [performed EXCEPT ![con[h]] = IF con[h] \in External THEN @ + 1 ELSE @]
        /\ UNCHANGED err
     \/ FailWith(h, "retryable") /\ UNCHANGED performed
     \/ At(h, "complete") /\ UNCHANGED <<err, performed>>
  /\ UNCHANGED <<ledger, event, bull, pass, con, att, faults>>

\* The consumer's own work: done, refused for now, or refused for good.
Work(h) ==
  /\ pc[h] = "work"
  /\ \/ /\ At(h, "complete")
        /\ performed' = [performed EXCEPT ![con[h]] = IF con[h] \in External THEN @ + 1 ELSE @]
        /\ UNCHANGED err
     \/ \E class \in {"retryable", "permanent"} :
          FailWith(h, class) /\ UNCHANGED performed
  /\ UNCHANGED <<ledger, event, bull, pass, con, att, faults>>

\* The provider accepts and the answer is lost (a timeout is retryable).
LoseAnswer(h) ==
  /\ Fault("ack_lost")
  /\ pc[h] = "work" /\ con[h] \in External
  /\ performed' = [performed EXCEPT ![con[h]] = @ + 1]
  /\ FailWith(h, "retryable")
  /\ UNCHANGED <<ledger, event, bull, pass, con, att>>

\* Mutants of completeConsumer: the command is kept, the event is not
\* reconciled.
CompletionKeepingCommand(c) ==
  /\ status' = [status EXCEPT ![c] = "COMPLETED"]
  /\ Unlock(c) /\ Reconcile /\ UNCHANGED <<command, attempts, due>>

CompletionWithoutReconcile(c) ==
  /\ status' = [status EXCEPT ![c] = "COMPLETED"]
  /\ Unlock(c) /\ command' = (command /\ c # Email)
  /\ UNCHANGED <<outbox, job, attempts, due>>

\* The ledger transaction of completeConsumer: the row is addressed by its id,
\* without a condition on its status or its lock owner.
CommitCompletion(c) ==
  /\ status' = [status EXCEPT ![c] = "COMPLETED"]
  /\ Unlock(c)
  /\ command' = (command /\ c # Email)
  /\ Reconcile
  /\ UNCHANGED <<attempts, due>>

Complete(h) ==
  /\ pc[h] = "complete"
  /\ CommitCompletion(con[h])
  /\ At(h, "ack")
  /\ UNCHANGED <<bull, pass, con, att, err, performed, faults>>

\* Mutant: one attempt too many.
IsTerminalFailureLate(h) == err[h] = "permanent" \/ att[h] > MaxAttempts

IsTerminalFailure(h) == err[h] = "permanent" \/ att[h] >= MaxAttempts

\* Mutant: every failed attempt drops the command.
FailureDroppingCommand(h) ==
  LET c == con[h] IN
    /\ status' = [status EXCEPT ![c] = IF IsTerminalFailure(h) THEN "DEAD_LETTER" ELSE "FAILED"]
    /\ due' = [due EXCEPT ![c] = IsTerminalFailure(h)]
    /\ Unlock(c) /\ Reconcile
    /\ command' = (command /\ c # Email)
    /\ UNCHANGED attempts

\* The ledger transaction of failConsumer: unconditional as well.
CommitFailure(h) ==
  LET c == con[h] IN
    /\ status' = [status EXCEPT ![c] = IF IsTerminalFailure(h) THEN "DEAD_LETTER" ELSE "FAILED"]
    /\ due' = [due EXCEPT ![c] = IsTerminalFailure(h)]
    /\ Unlock(c)
    /\ command' = (command /\ ~(c = Email /\ IsTerminalFailure(h)))
    /\ Reconcile
    /\ UNCHANGED attempts

\* A terminal failure ends the BullMQ job, another one is thrown to BullMQ.
Fail(h) ==
  /\ pc[h] = "fail"
  /\ CommitFailure(h)
  /\ At(h, IF IsTerminalFailure(h) THEN "ack" ELSE "nack")
  /\ UNCHANGED <<bull, pass, con, att, err, performed, faults>>

\* A transaction of the handler is rolled back. Only completeConsumer runs
\* inside the try block whose handler calls failConsumer.
RollBack(h) ==
  /\ Fault("db_error")
  /\ \/ pc[h] \in {"begin", "mark", "fail"} /\ At(h, "nack") /\ UNCHANGED err
     \/ pc[h] = "complete" /\ FailWith(h, "retryable")
  /\ UNCHANGED <<ledger, event, bull, pass, con, att, performed>>

\* A transaction commits and the connection breaks before the answer.
LoseCommit(h) ==
  /\ Fault("commit_lost")
  /\ \/ pc[h] = "complete" /\ CommitCompletion(con[h]) /\ FailWith(h, "retryable")
     \/ pc[h] = "fail" /\ CommitFailure(h) /\ At(h, "nack") /\ UNCHANGED err
  /\ UNCHANGED <<bull, pass, con, att, performed>>

-----------------------------------------------------------------------------
(* Processes and time.                                                      *)

\* A worker process dies and is restarted under a fresh worker id.
Crash(w) ==
  /\ Fault("crash")
  /\ \/ \E d \in Dispatchers : d[1] = w /\ pass[d] # IdlePass
     \/ \E s \in Slots : pc[<<w, s>>] # "idle"
  /\ pass' = [d \in Dispatchers |-> IF d[1] = w THEN IdlePass ELSE pass[d]]
  /\ pc' = [h \in Handlers |-> IF h[1] = w THEN "idle" ELSE pc[h]]
  /\ con' = [h \in Handlers |-> IF h[1] = w THEN None ELSE con[h]]
  /\ att' = [h \in Handlers |-> IF h[1] = w THEN 0 ELSE att[h]]
  /\ err' = [h \in Handlers |-> IF h[1] = w THEN "none" ELSE err[h]]
  /\ owner' = [c \in Consumers |-> IF owner[c] \in {w} \X Slots THEN None ELSE owner[c]]
  /\ UNCHANGED <<ledger, event, queue, made, stalled, performed>>

BecomeDue(c) ==
  /\ ~due[c]
  /\ due' = [due EXCEPT ![c] = TRUE]
  /\ UNCHANGED <<status, attempts, lockedBy, stale, event, bull, pass, handler, performed, faults>>

\* Two minutes pass: nothing renews locked_at, a slow handler's lock ages too.
LockAges(c) ==
  /\ lockedBy[c] # None /\ ~stale[c]
  /\ stale' = [stale EXCEPT ![c] = TRUE]
  /\ UNCHANGED <<status, attempts, lockedBy, due, event, bull, pass, handler, performed, faults>>

DispatcherStep(d) ==
  \/ Claim(d) \/ Remove(d) \/ Add(d) \/ FailEnqueue(d)
  \/ \E c \in Consumers : Lookup(d, c)

HandlerStep(h) ==
  Begin(h) \/ Mark(h) \/ Work(h) \/ Complete(h) \/ Fail(h) \/ Settle(h)

TransportStep(c) ==
  Promote(c) \/ RecoverStalled(c) \/ (\E h \in Handlers : Take(h, c))

FaultStep ==
  \/ LoseRedis
  \/ \E d \in Dispatchers : RedisError(d) \/ AbandonPass(d)
  \/ \E w \in Workers : Crash(w)
  \/ \E h \in Handlers : LoseAnswer(h) \/ RollBack(h) \/ LoseCommit(h)
  \/ \E c \in Consumers : LoseLock(c)

Next ==
  \/ \E d \in Dispatchers : DispatcherStep(d)
  \/ \E h \in Handlers : HandlerStep(h)
  \/ \E c \in Consumers : TransportStep(c) \/ Evict(c) \/ BecomeDue(c) \/ LockAges(c)
  \/ FaultStep

Spec == Init /\ [][Next]_vars

\* Timers keep running, handlers and provider calls return (every call has a
\* timeout), BullMQ promotes, recovers and hands out, and time passes.
Fairness ==
  /\ \A d \in Dispatchers : WF_vars(DispatcherStep(d))
  /\ \A h \in Handlers : WF_vars(HandlerStep(h))
  /\ \A c \in Consumers : /\ WF_vars(TransportStep(c))
                          /\ WF_vars(BecomeDue(c))
                          /\ WF_vars(LockAges(c))

FairSpec == Spec /\ Fairness

-----------------------------------------------------------------------------
(* Properties.                                                              *)

\* The variables hold values of their columns and of the handlers' steps.
TypeOK ==
  /\ status \in [Consumers -> ExecStatus]
  /\ attempts \in [Consumers -> Nat]
  /\ lockedBy \in [Consumers -> Workers \cup {None}]
  /\ stale \in [Consumers -> BOOLEAN]
  /\ due \in [Consumers -> BOOLEAN]
  /\ outbox \in OutboxStatus
  /\ command \in BOOLEAN
  /\ job \in JobStatus \cup {None}
  /\ queue \in [Consumers -> QueueStatus]
  /\ made \in [Consumers -> Nat]
  /\ stalled \in [Consumers -> BOOLEAN]
  /\ owner \in [Consumers -> Handlers \cup {None}]
  /\ pass \in [Dispatchers -> Pass]
  /\ pc \in [Handlers -> HandlerPC]
  /\ con \in [Handlers -> Consumers \cup {None}]
  /\ att \in [Handlers -> Nat]
  /\ err \in [Handlers -> {"none", "retryable", "permanent"}]
  /\ performed \in [Consumers -> Nat]
  /\ faults \in 0 .. MaxFaults

\* The event is PROCESSED exactly while every one of its consumers is
\* COMPLETED: no interleaving of claims, enqueue failures, late handlers and
\* reconciliations publishes a success some consumer does not have, or hides
\* one they all have (weddingos_reconcile_outbox, every writer of the rows).
ProcessedExactly ==
  outbox = "PROCESSED" <=> \A c \in Consumers : status[c] = "COMPLETED"

\* The user is never told that a job is COMPLETED while a consumer of its
\* event is not.
JobCompletedOnlyIfAll ==
  job = "COMPLETED" => \A c \in Consumers : status[c] = "COMPLETED"

\* Once the e-mail row is terminal its encrypted command (address, token) is
\* gone, and no later or late writer brings it back.
TerminalScrubsCommand ==
  Email \in Consumers /\ status[Email] \in Terminal => ~command

\* A terminal row holds no lock, so neither a claim nor the late report of a
\* failed enqueue (guarded by the lock owner only) can revive it.
TerminalUnlocked ==
  \A c \in Consumers : status[c] \in Terminal => lockedBy[c] = None

\* A row is COMPLETED only after its external effect took place at least once.
CompletedWasPerformed ==
  \A c \in External : status[c] = "COMPLETED" => performed[c] >= 1

\* Without zombies the command survives until the e-mail row is terminal: a
\* retry, a crash or a redelivery always finds the message it has to send.
CommandKeptWhileNeeded ==
  Email \in Consumers /\ ~command => status[Email] \in Terminal

\* Without zombies at most one handler works for a consumer at a time,
\* although stale rows are claimed and enqueued again behind a live handler.
Running(h, c) == con[h] = c /\ pc[h] \in {"mark", "work", "complete", "fail"}

SingleRun ==
  \A c \in Consumers : \A g, h \in Handlers : Running(g, c) /\ Running(h, c) => g = h

\* Every attempt beyond the limit is paid for by a fault that lost the run
\* before its failure was recorded.
AttemptsPaidByFaults ==
  \A c \in Consumers : attempts[c] <= MaxAttempts + faults

\* Every repetition of an external effect is paid for by a fault: redelivery
\* alone, by BullMQ or by the dispatcher, never repeats one.
RepeatsPaidByFaults ==
  \A c \in Consumers : performed[c] <= 1 + faults

\* Without zombies a row that is COMPLETED or DEAD_LETTER stays so: a
\* completed consumer is never run again and a dead letter is not revived.
TerminalIsFinal ==
  [][\A c \in Consumers : status[c] \in Terminal => status'[c] = status[c]]_vars

\* Every execution is eventually COMPLETED or DEAD_LETTER for good, through
\* crashes, lost answers and a failing Redis or database.
EventuallyTerminal ==
  \A c \in Consumers : <>[](status[c] \in Terminal)

\* The event's status eventually agrees with its rows for good.
OutboxEventuallyAgrees == <>[](outbox = OutboxOf(status))

\* The visible job eventually agrees with the rows for good.
JobEventuallyAgrees == VisibleJob => <>[](job = JobOf(status))

-----------------------------------------------------------------------------
(* What the outbox implements, and what it does not.                        *)

DebtOf(c) == CASE status[c] = "COMPLETED" -> "acknowledged"
               [] status[c] = "DEAD_LETTER" -> "given up"
               [] OTHER -> "owed"

Promise == INSTANCE Delivery WITH debt <- [c \in Consumers |-> DebtOf(c)]

\* Without zombies the ledger, the dispatcher, BullMQ and the handlers
\* together implement at-least-once delivery, liveness included.
ImplementsDelivery == Promise!Spec

\* "Partial success never causes a completed consumer to run again": a row
\* that is COMPLETED stays COMPLETED (docs/adr ADR 0005).
CompletedNeverRerun ==
  [][\A c \in Consumers : status[c] = "COMPLETED" => status'[c] = "COMPLETED"]_vars

\* "maximum implicit 5 attempts": no consumer is started more often than its
\* max_attempts (docs/SLICE_2A_HANDOFF.md).
AttemptsWithinLimit == \A c \in Consumers : attempts[c] <= MaxAttempts

\* The declared job lifecycle (transitions, assertJobTransition): a job that
\* is COMPLETED or DEAD_LETTER has no further transition.
JobTerminalIsFinal == [][(job \in {"COMPLETED", "DEAD_LETTER"}) => job' = job]_vars

\* The declared outbox lifecycle (outboxTransitions): an event that is
\* PROCESSED or DEAD_LETTER has no further transition.
OutboxTerminalIsFinal == [][(outbox \in {"PROCESSED", "DEAD_LETTER"}) => outbox' = outbox]_vars

=============================================================================
