------------------------------- MODULE Outbox -------------------------------
(***************************************************************************)
(* The durable event queue of src/outbox: the rows of the PostgreSQL table *)
(* outbox_event, the requests other parts of the API write into it inside  *)
(* their own transactions, the worker processes that claim, handle and     *)
(* settle events, and the operator's decisions on dead letters.            *)
(*                                                                         *)
(* Every SQL statement is one atomic step.  Between two statements of a    *)
(* worker anything may happen: another worker takes a stale claim over, a  *)
(* request rewrites the row, the process dies, the connection breaks with  *)
(* or without the statement having been applied.                           *)
(*                                                                         *)
(* A row is identified by its unique pair (event_type, aggregate_id).  Its *)
(* timestamps matter only through the comparison the queries make: each    *)
(* status has one delay (available_at for a pending row, the lock timeout  *)
(* for a claimed one, the retention for a settled one), and the set        *)
(* elapsed holds the rows whose delay is over.                             *)
(***************************************************************************)
EXTENDS Naturals, FiniteSets

CONSTANTS
    Events,              \* pairs (event_type, aggregate_id)
    TypeOf,              \* the event_type of each event
    Workers,             \* worker_id values; every process draws a fresh one
    NoWorker,            \* locked_by IS NULL
    MaxAttempts,         \* OUTBOX_MAX_ATTEMPTS
    AttemptsLimit,       \* the CHECK on outbox_event.attempts
    BatchSize,           \* OUTBOX_BATCH_SIZE
    HandlerConcurrency,  \* OUTBOX_HANDLER_CONCURRENCY
    PurgeBatchSize,      \* outbox_purge_batch_size
    MaxFaults,           \* bound: crashes, failed statements, overrun locks
    MaxRequests          \* bound: requests accepted and retries, for all events

EventTypes == {"identity.otp.send", "photo.delete", "notification.push",
               "account.erase", "billing.reconcile", "billing.store"}

ASSUME TypeAssumption == TypeOf \in [Events -> EventTypes]
ASSUME WorkerAssumption == NoWorker \notin Workers
ASSUME BoundAssumption ==
    /\ MaxAttempts \in Nat \ {0}
    /\ AttemptsLimit \in Nat
    /\ BatchSize \in Nat \ {0}
    /\ HandlerConcurrency \in Nat \ {0}
    /\ PurgeBatchSize \in Nat \ {0}
    /\ MaxFaults \in Nat
    /\ MaxRequests \in Nat

VARIABLES
    status,    \* outbox_event.status, or absent when there is no row
    attempts,  \* outbox_event.attempts
    lockedBy,  \* outbox_event.locked_by
    elapsed,   \* the rows whose current delay is over
    process,   \* the worker processes
    task,      \* where each worker is in process_event, for each event
    owed,      \* history: events with an accepted request not yet honoured
    current,   \* history: live handler runs begun after the last request
    faults,    \* crashes, failed statements and overrun locks so far
    requests   \* requests accepted and dead letters retried so far

row == <<status, attempts, lockedBy, elapsed>>
vars == <<status, attempts, lockedBy, elapsed, process, task, owed, current,
          faults, requests>>

Status == {"absent", "pending", "processing", "completed", "dead_letter",
           "discarded"}

\* none: no task; queued: claimed and waiting in the stream; running: claim
\* renewed and handler called; released: the handler has put the row back
\* itself; handled: the handler reported success; transient and permanent:
\* a failure that reschedule has yet to record.
TaskState == {"none", "queued", "running", "released", "handled",
              "transient", "permanent"}

TypeOK ==
    /\ status \in [Events -> Status]
    /\ attempts \in [Events -> 0..AttemptsLimit]
    /\ lockedBy \in [Events -> Workers \cup {NoWorker}]
    /\ elapsed \in SUBSET Events
    /\ process \in [Workers -> {"unused", "up", "dead"}]
    /\ task \in [Workers \X Events -> TaskState]
    /\ owed \in SUBSET Events
    /\ current \in SUBSET (Workers \X Events)
    /\ faults \in 0..MaxFaults
    /\ requests \in 0..MaxRequests

Init ==
    /\ status = [e \in Events |-> "absent"]
    /\ attempts = [e \in Events |-> 0]
    /\ lockedBy = [e \in Events |-> NoWorker]
    /\ elapsed = {}
    /\ process = [w \in Workers |-> "unused"]
    /\ task = [p \in Workers \X Events |-> "none"]
    /\ owed = {}
    /\ current = {}
    /\ faults = 0
    /\ requests = 0

\* Mutant: the WHERE clause tests the status only.
Owns_AnyWorker(w, e) == status[e] = "processing"

\* The WHERE clause of every statement by which a worker settles a claim.
Owns(w, e) == status[e] = "processing" /\ lockedBy[e] = w

\* A row nobody has claimed, whose delay begins.
Delayed(e, s, n) ==
    /\ status' = [status EXCEPT ![e] = s]
    /\ attempts' = [attempts EXCEPT ![e] = n]
    /\ lockedBy' = [lockedBy EXCEPT ![e] = NoWorker]
    /\ elapsed' = elapsed \ {e}

\* What an INSERT, requeue or an operator's retry leaves in the table.
Available(e) ==
    /\ status' = [status EXCEPT ![e] = "pending"]
    /\ attempts' = [attempts EXCEPT ![e] = 0]
    /\ lockedBy' = [lockedBy EXCEPT ![e] = NoWorker]
    /\ elapsed' = elapsed \cup {e}
-----------------------------------------------------------------------------
(* Requests, each part of the transaction of the component that makes it.  *)

\* The bookkeeping of a request that took effect: the event is owed a
\* handler run that begins from here on.
Request(e) ==
    /\ requests < MaxRequests
    /\ requests' = requests + 1
    /\ owed' = owed \cup {e}
    /\ current' = {p \in current : p[2] # e}
    /\ UNCHANGED <<process, task, faults>>

\* INSERT ... ON CONFLICT DO NOTHING; on a conflict nothing changes.
enqueue(e) ==
    /\ TypeOf[e] \in {"identity.otp.send", "photo.delete",
                      "notification.push", "account.erase"}
    /\ status[e] = "absent"
    /\ Available(e)
    /\ Request(e)

\* INSERT ... ON CONFLICT DO UPDATE, whatever the status of the row.
requeue(e) ==
    /\ TypeOf[e] = "photo.delete"
    /\ Available(e)
    /\ Request(e)

\* The conditional upsert of the billing code: a row that is still queued,
\* running or dead-lettered is left alone.  A customer reconciliation may
\* wait for the end of its safety window; the others are available at once.
schedule_due(e) ==
    /\ TypeOf[e] = "billing.reconcile"
    /\ status[e] \in {"absent", "completed", "discarded"}
    /\ Available(e) \/ Delayed(e, "pending", 0)
    /\ Request(e)

enqueue_store(e) ==
    /\ TypeOf[e] = "billing.store"
    /\ status[e] \in {"absent", "completed"}
    /\ Available(e)
    /\ Request(e)

\* The last step of an account erasure deletes the account's Stripe
\* reconciliation events, even one that a worker is handling.
delete_account_events(e) ==
    /\ TypeOf[e] = "billing.reconcile"
    /\ status[e] # "absent"
    /\ Delayed(e, "absent", 0)
    /\ owed' = owed \ {e}
    /\ UNCHANGED <<process, task, current, faults, requests>>
-----------------------------------------------------------------------------
(* Worker processes. *)

Batch(w) == {e \in Events : task[<<w, e>>] # "none"}

Started(w) == {e \in Events : task[<<w, e>>] \notin {"none", "queued"}}

SetTask(w, e, t) == task' = [task EXCEPT ![<<w, e>>] = t]

Fault == faults < MaxFaults /\ faults' = faults + 1

\* A process that starts draws a new worker_id.
start_worker(w) ==
    /\ process[w] = "unused"
    /\ process' = [process EXCEPT ![w] = "up"]
    /\ UNCHANGED <<row, task, owed, current, faults, requests>>

\* A process that dies loses its batch; its rows stay locked by an id that
\* nobody will use again.
crash(w) ==
    /\ process[w] = "up"
    /\ Fault
    /\ process' = [process EXCEPT ![w] = "dead"]
    /\ task' = [p \in Workers \X Events |->
                   IF p[1] = w THEN "none" ELSE task[p]]
    /\ current' = {p \in current : p[1] # w}
    /\ UNCHANGED <<row, owed, requests>>

\* Mutant: an abandoned claim is never taken over.
Claimable_PendingOnly == {e \in elapsed : status[e] = "pending"}

\* The rows the claim query selects: available, or locked for too long.
Claimable == {e \in elapsed : status[e] \in {"pending", "processing"}}

AttemptsOnClaim(e) == attempts[e] + 1

\* One UPDATE claims the batch.  SKIP LOCKED makes it any part of the
\* claimable rows up to the limit; it fails as a whole when the increment
\* would break the CHECK on attempts.  A worker polls again only when every
\* task of its previous batch has ended.
claim_batch(w) ==
    /\ process[w] = "up"
    /\ Batch(w) = {}
    /\ \E S \in SUBSET Claimable :
          /\ S # {}
          /\ Cardinality(S) <= BatchSize
          /\ \A e \in S : attempts[e] < AttemptsLimit
          /\ status' = [e \in Events |->
                          IF e \in S THEN "processing" ELSE status[e]]
          /\ attempts' = [e \in Events |->
                            IF e \in S THEN AttemptsOnClaim(e) ELSE attempts[e]]
          /\ lockedBy' = [e \in Events |->
                            IF e \in S THEN w ELSE lockedBy[e]]
          /\ elapsed' = elapsed \ S
          /\ task' = [p \in Workers \X Events |->
                        IF p[1] = w /\ p[2] \in S THEN "queued" ELSE task[p]]
    /\ UNCHANGED <<process, owed, current, faults, requests>>

\* process_event first renews the claim and calls the handler only if the
\* row is still its own; a failed statement counts as a handler failure,
\* whether or not it was applied.
renew_claim(w, e) ==
    /\ task[<<w, e>>] = "queued"
    /\ Cardinality(Started(w)) < HandlerConcurrency
    /\ \/ /\ Owns(w, e)
          /\ elapsed' = elapsed \ {e}
          /\ current' = current \cup {<<w, e>>}
          /\ SetTask(w, e, "running")
          /\ UNCHANGED faults
       \/ /\ ~Owns(w, e)
          /\ SetTask(w, e, "none")
          /\ UNCHANGED <<elapsed, current, faults>>
       \/ /\ Fault
          /\ \/ UNCHANGED elapsed
             \/ Owns(w, e) /\ elapsed' = elapsed \ {e}
          /\ SetTask(w, e, "transient")
          /\ UNCHANGED current
    /\ UNCHANGED <<status, attempts, lockedBy, process, owed, requests>>

\* The erasure handler ends a step by putting its own row back, with the
\* attempts reset after progress or given back when the account is busy.
release(w, e) ==
    /\ task[<<w, e>>] = "running"
    /\ TypeOf[e] = "account.erase"
    /\ Owns(w, e)
    /\ \/ Delayed(e, "pending", 0)
       \/ Delayed(e, "pending", IF attempts[e] > 0 THEN attempts[e] - 1 ELSE 0)
    /\ SetTask(w, e, "released")
    /\ UNCHANGED <<process, owed, current, faults, requests>>

\* The handler returns: success, a failure of either kind, or (erasure)
\* Deferred once its row is no longer its own.
dispatch(w, e) ==
    /\ \/ /\ task[<<w, e>>] = "running"
          /\ SetTask(w, e, "handled")
          /\ UNCHANGED current
       \/ /\ \/ /\ task[<<w, e>>] = "running"
                /\ SetTask(w, e, "transient") \/ SetTask(w, e, "permanent")
             \/ /\ task[<<w, e>>] \in {"running", "released"}
                /\ TypeOf[e] = "account.erase"
                /\ ~Owns(w, e)
                /\ SetTask(w, e, "none")
             \/ /\ task[<<w, e>>] = "released"
                /\ SetTask(w, e, "transient")
          /\ current' = current \ {<<w, e>>}
    /\ UNCHANGED <<row, process, owed, faults, requests>>

\* complete: only the present owner settles the row.
complete(w, e) ==
    /\ task[<<w, e>>] = "handled"
    /\ \/ /\ Owns(w, e)
          /\ Delayed(e, "completed", attempts[e])
          /\ owed' = IF <<w, e>> \in current THEN owed \ {e} ELSE owed
          /\ \/ SetTask(w, e, "none") /\ UNCHANGED faults
             \/ SetTask(w, e, "transient") /\ Fault
       \/ /\ ~Owns(w, e)
          /\ SetTask(w, e, "none")
          /\ UNCHANGED <<row, owed, faults>>
       \/ /\ Fault
          /\ SetTask(w, e, "transient")
          /\ UNCHANGED <<row, owed>>
    /\ current' = current \ {<<w, e>>}
    /\ UNCHANGED <<process, requests>>

\* The status reschedule gives: a permanent failure passes 1 as the maximum,
\* so the claim that has just counted one attempt is the last.
StatusAfterFailure(w, e) ==
    LET max == IF task[<<w, e>>] = "permanent" THEN 1 ELSE MaxAttempts
    IN  IF attempts[e] >= max THEN "dead_letter" ELSE "pending"

reschedule(w, e) ==
    /\ task[<<w, e>>] \in {"transient", "permanent"}
    /\ \/ /\ Owns(w, e)
          /\ Delayed(e, StatusAfterFailure(w, e), attempts[e])
          /\ UNCHANGED faults
       \/ /\ ~Owns(w, e)
          /\ UNCHANGED <<row, faults>>
       \/ /\ Fault
          /\ UNCHANGED row
    /\ SetTask(w, e, "none")
    /\ UNCHANGED <<process, owed, current, requests>>

Purgeable == {e \in elapsed : status[e] \in {"completed", "discarded"}}

\* The purge that ends a poll whose tasks all ended well.
purge_resolved(w) ==
    /\ process[w] = "up"
    /\ Batch(w) = {}
    /\ \E S \in SUBSET Purgeable :
          /\ S # {}
          /\ Cardinality(S) <= PurgeBatchSize
          /\ status' = [e \in Events |-> IF e \in S THEN "absent" ELSE status[e]]
          /\ attempts' = [e \in Events |-> IF e \in S THEN 0 ELSE attempts[e]]
          /\ elapsed' = elapsed \ S
    /\ UNCHANGED <<lockedBy, process, task, owed, current, faults, requests>>
-----------------------------------------------------------------------------
(* Operator decisions on dead letters. *)

retry_dead_letter(e) ==
    /\ status[e] = "dead_letter"
    /\ requests < MaxRequests
    /\ Available(e)
    /\ requests' = requests + 1
    /\ UNCHANGED <<process, task, owed, current, faults>>

\* Only a push, or the deletion of a photo whose row is gone; whether the
\* photo row is gone is not part of this module.
Discardable(e) == TypeOf[e] \in {"notification.push", "photo.delete"}

\* Mutant: any dead letter may be discarded.
discard_dead_letter_Any(e) ==
    /\ status[e] = "dead_letter"
    /\ Delayed(e, "discarded", attempts[e])
    /\ owed' = owed \ {e}
    /\ UNCHANGED <<process, task, current, faults, requests>>

discard_dead_letter(e) ==
    /\ status[e] = "dead_letter"
    /\ Discardable(e)
    /\ Delayed(e, "discarded", attempts[e])
    /\ owed' = owed \ {e}
    /\ UNCHANGED <<process, task, current, faults, requests>>

\* The routes of the operators; a request they refuse changes nothing.
retry(e) == retry_dead_letter(e)
discard(e) == discard_dead_letter(e)
-----------------------------------------------------------------------------
(* The clock: a delay, a lock timeout or a retention runs out. *)

\* Nobody is working on a claimed row: its worker died, or could not record
\* the failure of its handler.
Orphaned(e) == task[<<lockedBy[e], e>>] = "none"

\* A lock that times out under a task that is still waiting or running is
\* counted with the crashes.
time_passes(e) ==
    /\ e \notin elapsed
    /\ status[e] \in Status \ {"absent", "dead_letter"}
    /\ elapsed' = elapsed \cup {e}
    /\ IF status[e] # "processing" \/ Orphaned(e) THEN UNCHANGED faults
                                                  ELSE Fault
    /\ UNCHANGED <<status, attempts, lockedBy, process, task, owed, current,
                   requests>>
-----------------------------------------------------------------------------
Next ==
    \/ \E e \in Events :
          \/ enqueue(e) \/ requeue(e) \/ schedule_due(e) \/ enqueue_store(e)
          \/ delete_account_events(e)
          \/ retry(e) \/ discard(e)
          \/ time_passes(e)
    \/ \E w \in Workers :
          \/ start_worker(w) \/ crash(w) \/ claim_batch(w) \/ purge_resolved(w)
          \/ \E e \in Events :
                \/ renew_claim(w, e) \/ release(w, e) \/ dispatch(w, e)
                \/ complete(w, e) \/ reschedule(w, e)

Spec == Init /\ [][Next]_vars
-----------------------------------------------------------------------------
(* Safety *)

\* The CHECK chk_outbox_event_lock: a row carries a lock owner exactly while
\* it is being processed, after every statement that rewrites it.
LockMatchesStatus ==
    \A e \in Events : status[e] = "processing" <=> lockedBy[e] # NoWorker

\* A claim counts its attempt before any handler runs, whatever releases,
\* deferrals and resets went before.
ClaimCountsAttempt ==
    \A e \in Events : status[e] = "processing" => attempts[e] >= 1

\* A permanent failure that its owner records is a dead letter at once: the
\* maximum of 1 that process_event passes is reached on every claim, although
\* erasure steps reset and give back attempts and a takeover inherits them.
PermanentIsFinal ==
    \A w \in Workers, e \in Events :
       Owns(w, e) /\ task[<<w, e>>] = "permanent"
          => StatusAfterFailure(w, e) = "dead_letter"

\* Only reschedule compares attempts with the maximum; a claim that ends in a
\* crash, an overrun lock or a failed statement is counted and never compared.
\* An event is therefore claimed at most once more per such fault, and the
\* CHECK on attempts, which fails the claim of the whole batch, is out of
\* reach while there are no more than AttemptsLimit - MaxAttempts of them.
AttemptsWithinFaults ==
    \A e \in Events : attempts[e] <= MaxAttempts + faults

\* The worker that owns a row and runs its handler began that run after the
\* last accepted request: a request that arrives during a run takes the row
\* away from the run, and a worker cannot get it back before the run ends.
OwnerRunIsCurrent ==
    \A w \in Workers, e \in Events :
       Owns(w, e) /\ task[<<w, e>>] \in {"running", "handled"}
          => <<w, e>> \in current

\* No accepted request is lost: until a handler run begun after it reports
\* success, or an operator discards it, or the account's erasure deletes it,
\* its row is queued, claimed or kept as a dead letter, through crashes,
\* takeovers, failed statements and purges.  Conversely nothing is queued,
\* claimed or dead-lettered without such a request.
LiveIffOwed ==
    \A e \in Events :
       e \in owed <=> status[e] \in {"pending", "processing", "dead_letter"}
-----------------------------------------------------------------------------
(* The promise the outbox implements. *)

Debt == [e \in Events |->
           IF e \notin owed THEN "none"
           ELSE IF status[e] = "dead_letter" THEN "parked" ELSE "owed"]

Contract == INSTANCE AtLeastOnce
    WITH Runners <- Workers,
         Droppable <- {e \in Events : Discardable(e)
                                      \/ TypeOf[e] = "billing.reconcile"},
         debt <- Debt,
         runs <- current

\* Every step of rows, workers, operators and the clock is a step of the
\* contract, or leaves it as it is: in particular complete discharges an
\* event only through a run that began after the last request.
ImplementsContract == Contract!DebtSpec
-----------------------------------------------------------------------------
(* Liveness *)

\* A process supervisor keeps a worker running and the worker's loop never
\* stops polling; handlers return (their clients have timeouts); clocks
\* advance; the claim takes the oldest available rows first, so a row that
\* stays claimable by an idle worker is in the end part of a batch.
Fairness ==
    /\ \A w \in Workers :
          /\ WF_vars(start_worker(w))
          /\ \A e \in Events :
                WF_vars(\/ renew_claim(w, e) \/ dispatch(w, e)
                        \/ complete(w, e) \/ reschedule(w, e))
    /\ \A e \in Events :
          /\ WF_vars(time_passes(e))
          /\ WF_vars(\E w \in Workers : claim_batch(w) /\ attempts'[e] > attempts[e])

\* Every request is in the end honoured or handed to an operator, as long as
\* faults and new requests come to an end.  The erasure of an account is
\* released as often as the account is busy: its end is ErasureCompletes.
RequestsSettle ==
    \A e \in Events : TypeOf[e] # "account.erase" =>
       (e \in owed ~> (e \notin owed \/ status[e] = "dead_letter"))
=============================================================================
