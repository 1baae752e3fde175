------------------------------ MODULE Erasure ------------------------------
(***************************************************************************)
(* The erasure of an account: the transaction that accepts it, the steps   *)
(* stripe, photos, swipes and postgres that an outbox worker takes under   *)
(* the exclusive activity lock of the account, and what runs beside them:  *)
(* uploads and checkouts holding the shared lock, the maintenance that     *)
(* removes photos and swipes on its own, a second worker that takes a      *)
(* stale claim over, crashes and lost lock sessions.                       *)
(*                                                                         *)
(* An item is what an erasure has to remove: a Stripe customer, a profile  *)
(* photo or a swipe between two accounts.  An item has a row in PostgreSQL *)
(* (for a customer: a creation that was started and is not marked erased)  *)
(* and, for a customer or a photo, a copy at the provider.  The row of a   *)
(* customer may know its id or not; Stripe is asked again for one that is  *)
(* not known, under the same idempotency key, until its creation is 23     *)
(* hours old.  What the reconciliation of billing makes of such a row      *)
(* while the account is live is the subject of Checkout; it touches none   *)
(* of an account that is being erased.                                     *)
(***************************************************************************)
EXTENDS Naturals, FiniteSets

CONSTANTS
    Users,
    Items,
    Kind,         \* customer, photo or swipe
    Parties,      \* the accounts an item belongs to: one, or two for a swipe
    Workers,      \* worker_id values of the outbox
    NoWorker,
    NoUser,
    BatchSize,    \* CUSTOMER_, PHOTO_ and SWIPE_ERASURE_BATCH_SIZE
    MaxAttempts,  \* OUTBOX_MAX_ATTEMPTS
    Purgeable,    \* items that maintenance removes on its own
    MaxFaults     \* bound: failed calls, crashes, overrun and lost locks

ASSUME ItemAssumption ==
    /\ Kind \in [Items -> {"customer", "photo", "swipe"}]
    /\ Parties \in [Items -> SUBSET Users]
    /\ Purgeable \subseteq {i \in Items : Kind[i] # "customer"}
ASSUME NobodyAssumption == NoWorker \notin Workers /\ NoUser \notin Users
ASSUME BoundAssumption ==
    /\ BatchSize \in Nat \ {0}
    /\ MaxAttempts \in Nat \ {0}
    /\ MaxFaults \in Nat

VARIABLES
    step,       \* account_erasure.step, or none: deleted_at IS NULL
    event,      \* status of the account.erase event of the account
    lockedBy,   \* its locked_by
    attempts,   \* its attempts
    refusals,   \* ghost: those of them that ended in a refusal, not in a fault
    exclusive,  \* the worker whose session holds the exclusive lock
    rows,       \* items with a row
    remote,     \* customers and photos that exist at the provider
    activity,   \* where the upload or checkout that makes an item is
    phase,      \* where each worker is in process
    job,        \* the account whose event it handles
    seen,       \* the step it read under the lock
    todo,       \* the items its query selected
    more,       \* workers whose last batch was full
    lost,       \* items whose activity runs on although its session is gone
    made,       \* items the provider has made, under their idempotency key
    known,      \* customers whose created_customer_id is recorded
    overdue,    \* customers whose creation began 23 hours ago
    faults

queue == <<event, lockedBy, attempts, refusals>>
worker == <<phase, job, seen, todo, more>>
creation == <<made, known, overdue>>
vars == <<step, queue, exclusive, rows, remote, activity, worker, lost, creation, faults>>

Steps == {"stripe", "photos", "swipes", "postgres", "completed"}

Init ==
    /\ step = [u \in Users |-> "none"]
    /\ event = [u \in Users |-> "absent"]
    /\ lockedBy = [u \in Users |-> NoWorker]
    /\ attempts = [u \in Users |-> 0]
    /\ exclusive = [u \in Users |-> NoWorker]
    /\ rows = {i \in Items : Kind[i] = "swipe"}
    /\ remote = {}
    /\ activity = [i \in Items |-> IF Kind[i] = "swipe" THEN "over" ELSE "none"]
    /\ phase = [w \in Workers |-> "idle"]
    /\ job = [w \in Workers |-> NoUser]
    /\ seen = [w \in Workers |-> "none"]
    /\ todo = [w \in Workers |-> {}]
    /\ more = {}
    /\ lost = {}
    /\ made = {} /\ known = {} /\ overdue = {}
    /\ refusals = [u \in Users |-> 0]
    /\ faults = 0

Fault == faults < MaxFaults /\ faults' = faults + 1

Live(u) == step[u] = "none"

Mine(u) == {i \in Items : u \in Parties[i]}

\* Activities of the account whose session holds the shared lock.
Shared(u) == {i \in Mine(u) \ lost :
                activity[i] \in {"locked", "checked", "recorded", "made"}}
-----------------------------------------------------------------------------
(* Uploads and checkouts: run, run_existing and try_serialized. *)

\* pg_try_advisory_lock_shared; a refusal ends the request.
lock_shared(i) ==
    /\ activity[i] = "none"
    /\ \A u \in Parties[i] : exclusive[u] = NoWorker
    /\ activity' = [activity EXCEPT ![i] = "locked"]
    /\ UNCHANGED <<step, queue, exclusive, rows, remote, worker, lost, creation, faults>>

\* The accounts are counted after the lock is held.
check_accounts(i) ==
    /\ activity[i] = "locked"
    /\ activity' = [activity EXCEPT ![i] =
                      IF \A u \in Parties[i] : Live(u) THEN "checked" ELSE "over"]
    /\ UNCHANGED <<step, queue, exclusive, rows, remote, worker, lost, creation, faults>>

\* The row comes first.  That of a photo is written only for a live account
\* (the trigger of user_photo); begin_customer_creation marks a checkout that
\* was opened while the account was live, without looking again.
record_item(i) ==
    /\ activity[i] = "checked"
    /\ IF Kind[i] = "customer" \/ \A u \in Parties[i] : Live(u)
       THEN /\ rows' = rows \cup {i}
            /\ activity' = [activity EXCEPT ![i] = "recorded"]
       ELSE /\ activity' = [activity EXCEPT ![i] = "over"]
            /\ UNCHANGED rows
    /\ UNCHANGED <<step, queue, exclusive, remote, worker, lost, creation, faults>>

\* The provider makes an item once and repeats its first answer after that.
Make(i) == remote' = remote \cup ({i} \ made) /\ made' = made \cup {i}

\* assert_held, then the call that creates the customer or stores the photo.
\* A session that is gone may not have been noticed yet.
create_remote(i) ==
    /\ activity[i] = "recorded"
    /\ Make(i)
    /\ activity' = [activity EXCEPT ![i] = IF Kind[i] = "customer" THEN "made" ELSE "over"]
    /\ UNCHANGED <<step, queue, exclusive, rows, worker, lost, known, overdue, faults>>

\* The id of the customer is kept in the row.
record_created_customer(i) ==
    /\ activity[i] = "made"
    /\ known' = known \cup {i}
    /\ activity' = [activity EXCEPT ![i] = "over"]
    /\ UNCHANGED <<step, queue, exclusive, rows, remote, worker, lost, made, overdue, faults>>

\* 23 hours pass since a creation began whose customer is not known.
grow_overdue(i) ==
    /\ Kind[i] = "customer" /\ activity[i] = "over"
    /\ i \in rows \ (known \cup overdue)
    /\ overdue' = overdue \cup {i}
    /\ UNCHANGED <<step, queue, exclusive, rows, remote, activity, worker, lost, made,
                   known, faults>>

\* The request fails or is abandoned; dropping the owner unlocks.
abandon(i) ==
    /\ activity[i] \in {"locked", "checked", "recorded", "made"}
    /\ activity' = [activity EXCEPT ![i] = "over"]
    /\ UNCHANGED <<step, queue, exclusive, rows, remote, worker, lost, creation, faults>>

\* The session that holds the shared lock breaks; PostgreSQL frees the lock,
\* and the owner task finds out at its next probe.
lose_shared(i) ==
    /\ \E u \in Users : i \in Shared(u)
    /\ Fault
    /\ lost' = lost \cup {i}
    /\ UNCHANGED <<step, queue, exclusive, rows, remote, activity, worker, creation>>

\* Photo maintenance and the retention of swipes remove items on their own:
\* the object first, then the row.
purge(i) ==
    /\ i \in Purgeable \cap rows
    /\ activity[i] = "over"
    /\ remote' = remote \ {i}
    /\ rows' = rows \ {i} \/ (i \in remote /\ UNCHANGED rows)
    /\ UNCHANGED <<step, queue, exclusive, activity, worker, lost, creation, faults>>
-----------------------------------------------------------------------------
(* The event of the erasure. *)

Owns(w) == event[job[w]] = "processing" /\ lockedBy[job[w]] = w

\* The row is put back with n attempts, unlocked.
Queue(u, s, n) ==
    /\ event' = [event EXCEPT ![u] = s]
    /\ lockedBy' = [lockedBy EXCEPT ![u] = NoWorker]
    /\ attempts' = [attempts EXCEPT ![u] = n]
    /\ refusals' = IF n = 0 THEN [refusals EXCEPT ![u] = 0] ELSE refusals

Goto(w, p) == phase' = [phase EXCEPT ![w] = p]

\* The task of the worker is over.
Idle(w) ==
    /\ Goto(w, "idle")
    /\ job' = [job EXCEPT ![w] = NoUser]
    /\ seen' = [seen EXCEPT ![w] = "none"]
    /\ todo' = [todo EXCEPT ![w] = {}]
    /\ more' = more \ {w}

\* accept and enqueue_account_erasure; an account that is no longer live, or
\* has its erasure already, is left alone.
enqueue_account_erasure(u) ==
    /\ Live(u)
    /\ step' = [step EXCEPT ![u] = "stripe"]
    /\ Queue(u, "pending", 0)
    /\ UNCHANGED <<exclusive, rows, remote, activity, worker, lost, creation, faults>>

\* A worker claims the event, or takes over one whose lock has timed out:
\* its worker is dead, or still at work on it.
claim(w, u) ==
    /\ phase[w] = "idle"
    /\ \/ event[u] = "pending" /\ UNCHANGED faults
       \/ /\ event[u] = "processing"
          /\ IF job[lockedBy[u]] = u THEN Fault ELSE UNCHANGED faults
    /\ event' = [event EXCEPT ![u] = "processing"]
    /\ lockedBy' = [lockedBy EXCEPT ![u] = w]
    /\ attempts' = [attempts EXCEPT ![u] = @ + 1]
    /\ job' = [job EXCEPT ![w] = u]
    /\ Goto(w, "claimed")
    /\ UNCHANGED <<step, exclusive, rows, remote, activity, seen, todo, more, lost,
                   refusals, creation>>

\* The operator sends a dead letter round again.
retry(u) ==
    /\ event[u] = "dead_letter"
    /\ Queue(u, "pending", 0)
    /\ UNCHANGED <<step, exclusive, rows, remote, activity, worker, lost, creation, faults>>
-----------------------------------------------------------------------------
(* process: one step of an erasure. *)

\* Mutant: the worker goes ahead beside an upload or a checkout.
try_exclusive_Ignored(w) ==
    /\ phase[w] = "claimed"
    /\ \/ ~Owns(w) /\ Goto(w, "failed") /\ UNCHANGED exclusive
       \/ /\ Owns(w)
          /\ IF step[job[w]] = "completed"
             THEN Goto(w, "finished") /\ UNCHANGED exclusive
             ELSE IF exclusive[job[w]] = NoWorker
             THEN /\ exclusive' = [exclusive EXCEPT ![job[w]] = w]
                  /\ Goto(w, "guarded")
             ELSE Goto(w, "deferring") /\ UNCHANGED exclusive
    /\ UNCHANGED <<step, queue, rows, remote, activity, job, seen, todo, more,
                   lost, creation, faults>>

\* The claim is read, then the exclusive lock is tried without waiting.
try_exclusive(w) ==
    /\ phase[w] = "claimed"
    /\ \/ ~Owns(w) /\ Goto(w, "failed") /\ UNCHANGED exclusive
       \/ /\ Owns(w)
          /\ IF step[job[w]] = "completed"
             THEN Goto(w, "finished") /\ UNCHANGED exclusive
             ELSE IF exclusive[job[w]] = NoWorker /\ Shared(job[w]) = {}
             THEN /\ exclusive' = [exclusive EXCEPT ![job[w]] = w]
                  /\ Goto(w, "guarded")
             ELSE Goto(w, "deferring") /\ UNCHANGED exclusive
    /\ UNCHANGED <<step, queue, rows, remote, activity, job, seen, todo, more,
                   lost, creation, faults>>

\* Mutant: a busy account costs an attempt.
defer_Counted(w) ==
    /\ phase[w] = "deferring"
    /\ IF Owns(w)
       THEN Queue(job[w], IF attempts[job[w]] >= MaxAttempts
                          THEN "dead_letter" ELSE "pending", attempts[job[w]])
       ELSE UNCHANGED queue
    /\ Idle(w)
    /\ UNCHANGED <<step, exclusive, rows, remote, activity, lost, creation, faults>>

\* The account is busy: the event goes back with its attempt.
defer(w) ==
    /\ phase[w] = "deferring"
    /\ IF Owns(w)
       THEN Queue(job[w], "pending",
                  IF attempts[job[w]] > 0 THEN attempts[job[w]] - 1 ELSE 0)
       ELSE UNCHANGED queue
    /\ Idle(w)
    /\ UNCHANGED <<step, exclusive, rows, remote, activity, lost, creation, faults>>

\* The claim and the step are read again under the lock.
claimed(w) ==
    /\ phase[w] = "guarded"
    /\ IF Owns(w)
       THEN /\ seen' = [seen EXCEPT ![w] = step[job[w]]]
            /\ Goto(w, CASE step[job[w]] = "completed" -> "finishing"
                         [] step[job[w]] = "postgres" -> "removing"
                         [] OTHER -> "reading")
       ELSE Goto(w, "leaving") /\ UNCHANGED seen
    /\ UNCHANGED <<step, queue, exclusive, rows, remote, activity, job, todo,
                   more, lost, creation, faults>>

KindOf == [s \in Steps |-> CASE s = "stripe" -> "customer"
                             [] s = "photos" -> "photo"
                             [] OTHER -> "swipe"]

\* The rows that the step of a worker is about.
Found(w) == {i \in rows \cap Mine(job[w]) : Kind[i] = KindOf[seen[w]]}

\* The query of the step reads its snapshot: a batch, or what there is.
select_batch(w) ==
    /\ phase[w] = "reading"
    /\ \E S \in SUBSET Found(w) :
          /\ Cardinality(S) <= BatchSize
          /\ S # Found(w) => Cardinality(S) = BatchSize
          /\ todo' = [todo EXCEPT ![w] = S]
    /\ Goto(w, "selected")
    /\ UNCHANGED <<step, queue, exclusive, rows, remote, activity, job, seen,
                   more, lost, creation, faults>>

\* A SELECT returns the rows of its snapshot.  A statement that writes takes
\* them one by one and skips those another transaction has removed meanwhile.
Taken(w) == IF seen[w] = "stripe" THEN todo[w] ELSE todo[w] \cap rows

\* customer_creations_for_erasure and begin_account_deletion: the rows they
\* return are worked through, and their number tells whether more may follow.
take_batch(w) ==
    /\ phase[w] = "selected"
    /\ seen[w] \in {"stripe", "photos"}
    /\ todo' = [todo EXCEPT ![w] = Taken(w)]
    /\ more' = IF Cardinality(Taken(w)) = BatchSize THEN more \cup {w} ELSE more
    /\ Goto(w, "removing")
    /\ UNCHANGED <<step, queue, exclusive, rows, remote, activity, job, seen,
                   lost, creation, faults>>

\* resolve_customer_creation: a customer whose id the row does not have is asked
\* for again, and its id recorded.
Unresolved(w) == {i \in todo[w] \ known : Kind[i] = "customer"}

resolve_customer_creation(w, i) ==
    /\ phase[w] = "removing"
    /\ i \in Unresolved(w) \ overdue
    /\ Make(i)
    /\ known' = known \cup {i}
    /\ UNCHANGED <<step, queue, exclusive, rows, activity, worker, lost, overdue, faults>>

\* The customer is made and its id is not recorded.
resolve_fails(w, i) ==
    /\ phase[w] = "removing"
    /\ i \in Unresolved(w) \ overdue
    /\ Fault
    /\ Make(i)
    /\ Goto(w, "failing")
    /\ UNCHANGED <<step, queue, exclusive, rows, activity, job, seen, todo, more, lost,
                   known, overdue>>

\* The attempt of an account is refused although nothing failed.
Refuse(u) ==
    /\ refusals' = [refusals EXCEPT ![u] = @ + 1]
    /\ UNCHANGED <<event, lockedBy, attempts>>

\* ErasureStripeReconciliationRequired: after 23 hours a second customer could
\* be made, and the step refuses at every attempt.
reconciliation_required(w) ==
    /\ phase[w] = "removing"
    /\ Unresolved(w) \cap overdue # {}
    /\ Refuse(job[w])
    /\ Goto(w, "failing")
    /\ UNCHANGED <<step, exclusive, rows, remote, activity, job, seen, todo, more,
                   lost, creation, faults>>

\* Mutant: the row goes before the provider has confirmed.
remove_RowFirst(w, i) ==
    /\ phase[w] = "removing"
    /\ i \in todo[w] \ Unresolved(w)
    /\ rows' = rows \ {i}
    /\ todo' = [todo EXCEPT ![w] = @ \ {i}]
    /\ remote' = remote \ {i} \/ UNCHANGED remote
    /\ UNCHANGED <<step, queue, exclusive, activity, phase, job, seen, more,
                   lost, creation, faults>>

\* The provider confirms the deletion, then the row goes.
remove(w, i) ==
    /\ phase[w] = "removing"
    /\ i \in todo[w] \ Unresolved(w)
    /\ remote' = remote \ {i}
    /\ rows' = rows \ {i}
    /\ todo' = [todo EXCEPT ![w] = @ \ {i}]
    /\ UNCHANGED <<step, queue, exclusive, activity, phase, job, seen, more,
                   lost, creation, faults>>

\* Some call fails: the customer loop stops there, the photo loop goes on to
\* the end and reports the failure then.
remove_fails(w) ==
    /\ phase[w] = "removing"
    /\ Fault
    /\ \E S, T \in SUBSET (todo[w] \ Unresolved(w)) :
          /\ S \subseteq T /\ S # todo[w]
          /\ rows' = rows \ S
          /\ remote' = remote \ T
    /\ Goto(w, "failing")
    /\ UNCHANGED <<step, queue, exclusive, activity, job, seen, todo, more, lost, creation>>

After == [s \in Steps |-> CASE s = "stripe" -> "photos"
                            [] s = "photos" -> "swipes"
                            [] s = "swipes" -> "postgres"
                            [] OTHER -> "completed"]

\* The step moves on, or stays for another batch, and the event goes back
\* with its attempts reset.
Checkpoint(w, s) ==
    /\ step' = [step EXCEPT ![job[w]] = s]
    /\ Queue(job[w], "pending", 0)
    /\ Goto(w, "leaving")

\* delete_swipe_batch: one transaction deletes the batch and moves the step,
\* if the claim and the step are still the worker's.
delete_swipe_batch(w) ==
    /\ phase[w] = "selected"
    /\ seen[w] = "swipes"
    /\ IF Owns(w) /\ step[job[w]] = "swipes"
       THEN /\ rows' = rows \ todo[w]
            /\ Checkpoint(w, IF Cardinality(Taken(w)) < BatchSize
                             THEN "postgres" ELSE "swipes")
       ELSE /\ Goto(w, "leaving")
            /\ UNCHANGED <<step, queue, rows>>
    /\ UNCHANGED <<exclusive, remote, activity, job, seen, todo, more, lost, creation, faults>>

\* advance: the claim and the step are compared under their row locks.
advance(w) ==
    /\ phase[w] = "removing"
    /\ todo[w] = {}
    /\ seen[w] # "postgres"
    /\ IF Owns(w) /\ step[job[w]] = seen[w]
       THEN Checkpoint(w, IF w \in more THEN seen[w] ELSE After[seen[w]])
       ELSE Goto(w, "leaving") /\ UNCHANGED <<step, queue>>
    /\ UNCHANGED <<exclusive, rows, remote, activity, job, seen, todo, more,
                   lost, creation, faults>>

\* What the last transaction looks for before it anonymizes.
Remaining(u) == {i \in rows \cap Mine(u) : Kind[i] \in {"photo", "swipe"}}

\* advance from postgres: it refuses while a photo or a swipe is left, then
\* anonymizes the account; the event stays claimed until it is completed.
anonymize(w) ==
    /\ phase[w] = "removing"
    /\ seen[w] = "postgres"
    /\ IF Owns(w) /\ step[job[w]] = "postgres"
       THEN IF Remaining(job[w]) = {}
            THEN /\ step' = [step EXCEPT ![job[w]] = "completed"]
                 /\ Goto(w, "finishing") /\ UNCHANGED queue
            ELSE Goto(w, "failing") /\ Refuse(job[w]) /\ UNCHANGED step
       ELSE Goto(w, "leaving") /\ UNCHANGED <<step, queue>>
    /\ UNCHANGED <<exclusive, rows, remote, activity, job, seen, todo,
                   more, lost, creation, faults>>

\* A statement fails, or assert_held finds the session gone.
unavailable(w) ==
    /\ phase[w] \in {"guarded", "reading", "selected", "removing", "leaving",
                     "finishing"}
    /\ \/ Fault
       \/ exclusive[job[w]] # w /\ UNCHANGED faults
    /\ Goto(w, "failing")
    /\ UNCHANGED <<step, queue, exclusive, rows, remote, activity, job, seen,
                   todo, more, lost, creation>>

\* try_exclusive gives the lock back before the handler returns.
unlock(w) ==
    /\ phase[w] \in {"leaving", "finishing", "failing"}
    /\ exclusive' = [exclusive EXCEPT ![job[w]] = IF @ = w THEN NoWorker ELSE @]
    /\ IF phase[w] = "leaving" THEN Idle(w)
       ELSE /\ Goto(w, IF phase[w] = "failing" THEN "failed" ELSE "finished")
            /\ UNCHANGED <<job, seen, todo, more>>
    /\ UNCHANGED <<step, queue, rows, remote, activity, lost, creation, faults>>

\* The worker settles its event: complete after success, reschedule after a
\* failure, and neither unless the claim is still its own.
settle(w) ==
    /\ phase[w] \in {"finished", "failed"}
    /\ IF Owns(w)
       THEN Queue(job[w], IF phase[w] = "finished" THEN "completed"
                          ELSE IF attempts[job[w]] >= MaxAttempts
                          THEN "dead_letter" ELSE "pending", attempts[job[w]])
       ELSE UNCHANGED queue
    /\ Idle(w)
    /\ UNCHANGED <<step, exclusive, rows, remote, activity, lost, creation, faults>>

\* The process dies and its sessions with it; the event stays locked.
crash(w) ==
    /\ phase[w] # "idle"
    /\ Fault
    /\ Idle(w)
    /\ exclusive' = [u \in Users |-> IF exclusive[u] = w THEN NoWorker ELSE exclusive[u]]
    /\ UNCHANGED <<step, queue, rows, remote, activity, lost, creation>>

\* The session that holds the exclusive lock breaks under the worker.
lose_exclusive(u) ==
    /\ exclusive[u] # NoWorker
    /\ Fault
    /\ exclusive' = [exclusive EXCEPT ![u] = NoWorker]
    /\ UNCHANGED <<step, queue, rows, remote, activity, worker, lost, creation>>
-----------------------------------------------------------------------------
Process(w) ==
    \/ try_exclusive(w) \/ defer(w) \/ claimed(w)
    \/ select_batch(w) \/ take_batch(w)
    \/ \E i \in Items : resolve_customer_creation(w, i) \/ remove(w, i)
    \/ reconciliation_required(w)
    \/ delete_swipe_batch(w) \/ advance(w) \/ anonymize(w)
    \/ unlock(w) \/ settle(w)

RunActivity(i) ==
    \/ lock_shared(i) \/ check_accounts(i) \/ record_item(i)
    \/ create_remote(i) \/ record_created_customer(i)

Next ==
    \/ \E i \in Items : \/ RunActivity(i) \/ abandon(i) \/ lose_shared(i) \/ purge(i)
                        \/ grow_overdue(i)
    \/ \E u \in Users : enqueue_account_erasure(u) \/ retry(u) \/ lose_exclusive(u)
    \/ \E w \in Workers : \/ Process(w) \/ remove_fails(w) \/ unavailable(w) \/ crash(w)
                          \/ \E i \in Items : resolve_fails(w, i)
    \/ \E w \in Workers, u \in Users : claim(w, u)

Spec == Init /\ [][Next]_vars

\* Workers poll and finish what they start, and a started activity ends:
\* both are bounded by timeouts.  Nothing makes a user or a fault act.
Fairness ==
    /\ \A w \in Workers : WF_vars(Process(w)) /\ WF_vars(\E u \in Users : claim(w, u))
    /\ \A i \in Items : WF_vars(activity[i] # "none" /\ RunActivity(i))

LiveSpec == Spec /\ Fairness
-----------------------------------------------------------------------------
(* Properties *)

Unbroken(u) == Mine(u) \cap lost = {}

\* When an erasure is completed nothing of the account is left, here or at a
\* provider, although uploads and checkouts were under way when it was
\* accepted (unless PostgreSQL dropped the session that held their lock).
ErasedEverywhere ==
    \A u \in Users : step[u] = "completed" /\ Unbroken(u) =>
        Mine(u) \cap (rows \cup remote) = {}

\* A copy at a provider never outlives the row by which it can be found
\* (except after a lost lock session).
RemoteTracked == remote \subseteq rows \cup lost

\* When an erasure is completed nothing of the account is left, here or at a
\* provider, and until then a copy at a provider never outlives the row by
\* which it can be found (privacy/erasure/service.rs; media/service.rs).
NothingSurvives == ErasedEverywhere /\ RemoteTracked

\* When the account reaches the postgres step its swipes are gone, which the
\* last transaction requires and nothing after this step could still do.
SwipesGone ==
    \A u \in Users : step[u] = "postgres" =>
        \A i \in Mine(u) : Kind[i] = "swipe" => i \notin rows

\* An accepted erasure is completed, whatever runs beside it, or is left to the
\* operator as a dead letter, and that only after every attempt of the event met
\* a fault or a refusal: a busy account or a worker that takes over costs none.
\* Two refusals need no fault: the creation of a customer that was never
\* recorded is 23 hours old (ErasureStripeReconciliationRequired), which no
\* retry changes, and the last transaction finds a photo or a swipe that a
\* batch cut short has left behind (see SwipesGone).
ErasureCompletes ==
    \A u \in Users : step[u] = "stripe" ~>
        \/ step[u] = "completed"
        \/ event[u] = "dead_letter" /\ faults + refusals[u] >= MaxAttempts
=============================================================================
