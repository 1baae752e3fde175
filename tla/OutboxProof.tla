---------------------------- MODULE OutboxProof ----------------------------
(***************************************************************************)
(* The invariants of the outbox for any sets of events and workers and any *)
(* bounds, and the refinement of the at-least-once contract.               *)
(*                                                                         *)
(* The second part is about Jobs, the status row of the maintenance jobs,  *)
(* for any processes and passes.  The third is about Rewards, for any      *)
(* intents, transactions and deliveries of their proofs.  The three share  *)
(* nothing.                                                                *)
(***************************************************************************)
EXTENDS Outbox, Jobs, Rewards, FiniteSetTheorems, TLAPS

\* What a claim may still add: a row that is or can become claimable has been
\* claimed fewer times than the maximum and the faults allow.
AttemptsAccount ==
    \A e \in Events :
       /\ attempts[e] <= MaxAttempts + faults
       /\ status[e] = "pending" => attempts[e] < MaxAttempts + faults
       /\ status[e] = "processing" /\ (e \in elapsed \/ Orphaned(e))
             => attempts[e] < MaxAttempts + faults

\* A dead process has no tasks, and the run of a task that has not begun or
\* has failed is not current.
IInv ==
    /\ TypeOK
    /\ LockMatchesStatus
    /\ ClaimCountsAttempt
    /\ OwnerRunIsCurrent
    /\ LiveIffOwed
    /\ AttemptsAccount

\* The initial state has every part of the invariant.
LEMMA InitIInv == Init => IInv
  <1> SUFFICES ASSUME Init PROVE IInv
    BY Zenon
  <1>1. TypeOK
    BY BoundAssumption DEF Init, TypeOK, Status, TaskState
  <1>2. LockMatchesStatus /\ ClaimCountsAttempt /\ OwnerRunIsCurrent /\ LiveIffOwed
    BY Zenon DEF Init, LockMatchesStatus, ClaimCountsAttempt, OwnerRunIsCurrent,
           LiveIffOwed, Owns
  <1>3. AttemptsAccount
    BY SMTT(90), BoundAssumption DEF Init, AttemptsAccount
  <1> QED
    BY <1>1, <1>2, <1>3, Zenon DEF IInv

\* Every action keeps every variable in its type.
LEMMA TypeStep ==
  ASSUME TypeOK, [Next]_vars
  PROVE  TypeOK'
  <1> USE DEF TypeOK
  <1>1. ASSUME NEW e \in Events,
               enqueue(e) \/ requeue(e) \/ schedule_due(e) \/ enqueue_store(e)
        PROVE  TypeOK'
    <2>1. Request(e) /\ (Available(e) \/ Delayed(e, "pending", 0))
      BY <1>1, Zenon DEF enqueue, requeue, schedule_due, enqueue_store
    <2>2. /\ requests' \in 0..MaxRequests /\ owed' \in SUBSET Events
          /\ current' \in SUBSET (Workers \X Events)
          /\ UNCHANGED <<process, task, faults>>
      BY <2>1, BoundAssumption DEF Request
    <2>3. /\ status' \in [Events -> Status] /\ attempts' \in [Events -> 0..AttemptsLimit]
          /\ lockedBy' \in [Events -> Workers \cup {NoWorker}] /\ elapsed' \in SUBSET Events
      <3>1. 0 \in 0..AttemptsLimit /\ "pending" \in Status
        BY BoundAssumption DEF Status
      <3> QED BY <2>1, <3>1 DEF Available, Delayed
    <2> QED BY <2>2, <2>3, Zenon
  <1>2. ASSUME NEW e \in Events, delete_account_events(e) \/ discard_dead_letter(e)
        PROVE  TypeOK'
    BY SMTT(90), <1>2, BoundAssumption
    DEF delete_account_events, discard_dead_letter, Delayed, Status
  <1>11. ASSUME NEW e \in Events, retry_dead_letter(e)
        PROVE  TypeOK'
    BY <1>11, BoundAssumption DEF retry_dead_letter, Available, Status
  <1>12. ASSUME NEW e \in Events, time_passes(e)
        PROVE  TypeOK'
    BY <1>12, BoundAssumption DEF time_passes, Fault
  <1>3. ASSUME NEW w \in Workers, start_worker(w) \/ crash(w)
        PROVE  TypeOK'
    BY <1>3, BoundAssumption
    DEF start_worker, crash, Fault, row, TaskState
  <1>4. ASSUME NEW w \in Workers, claim_batch(w)
        PROVE  TypeOK'
    BY <1>4, BoundAssumption
    DEF claim_batch, Claimable, AttemptsOnClaim, Status, TaskState
  <1>5. ASSUME NEW w \in Workers, purge_resolved(w)
        PROVE  TypeOK'
    BY <1>5, BoundAssumption
    DEF purge_resolved, Purgeable, Status
  <1>6. ASSUME NEW w \in Workers, NEW e \in Events, renew_claim(w, e)
        PROVE  TypeOK'
    BY <1>6, BoundAssumption
    DEF renew_claim, SetTask, Fault, TaskState
  <1>7. ASSUME NEW w \in Workers, NEW e \in Events, release(w, e)
        PROVE  TypeOK'
    BY SMTT(90), <1>7, BoundAssumption
    DEF release, SetTask, Delayed, Status, TaskState
  <1>13. ASSUME NEW w \in Workers, NEW e \in Events, dispatch(w, e)
        PROVE  TypeOK'
    BY SMTT(90), <1>13 DEF dispatch, SetTask, row, TaskState
  <1>8. ASSUME NEW w \in Workers, NEW e \in Events, complete(w, e)
        PROVE  TypeOK'
    BY SMTT(90), <1>8, BoundAssumption
    DEF complete, SetTask, Delayed, Fault, row, Status, TaskState
  <1>9. ASSUME NEW w \in Workers, NEW e \in Events, reschedule(w, e)
        PROVE  TypeOK'
    BY SMTT(90), <1>9, BoundAssumption
    DEF reschedule, StatusAfterFailure, SetTask, Delayed, Fault, row, Status,
        TaskState
  <1>10. CASE UNCHANGED vars
    BY <1>10, Zenon DEF vars
  <1> QED
    BY <1>1, <1>2, <1>3, <1>4, <1>5, <1>6, <1>7, <1>8, <1>9, <1>10, <1>11,
       <1>12, <1>13, Zenon DEF Next, retry, discard

\* A lock owner exists exactly while the row is processed: every statement
\* that changes the status writes or clears the owner with it.
LEMMA LockStep ==
  ASSUME IInv, [Next]_vars
  PROVE  LockMatchesStatus'
  <1> USE WorkerAssumption DEF IInv, TypeOK, LockMatchesStatus
  <1>1. ASSUME NEW e \in Events,
               \/ enqueue(e) \/ requeue(e) \/ schedule_due(e) \/ enqueue_store(e)
               \/ delete_account_events(e) \/ discard_dead_letter(e)
               \/ retry_dead_letter(e)
        PROVE  LockMatchesStatus'
    BY <1>1, Zenon DEF enqueue, requeue, schedule_due, enqueue_store,
       delete_account_events, discard_dead_letter, retry_dead_letter,
       Available, Delayed
  <1>2. ASSUME NEW e \in Events, time_passes(e)
        PROVE  LockMatchesStatus'
    BY <1>2, Zenon DEF time_passes
  <1>3. ASSUME NEW w \in Workers, start_worker(w) \/ crash(w)
        PROVE  LockMatchesStatus'
    BY <1>3, Zenon DEF start_worker, crash, row
  <1>4. ASSUME NEW w \in Workers, claim_batch(w)
        PROVE  LockMatchesStatus'
    BY <1>4, ZenonT(90) DEF claim_batch
  <1>5. ASSUME NEW w \in Workers, purge_resolved(w)
        PROVE  LockMatchesStatus'
    BY <1>5, Zenon DEF purge_resolved, Purgeable
  <1>6. ASSUME NEW w \in Workers, NEW e \in Events, renew_claim(w, e)
        PROVE  LockMatchesStatus'
    BY <1>6, Zenon DEF renew_claim
  <1>7. ASSUME NEW w \in Workers, NEW e \in Events,
               release(w, e) \/ dispatch(w, e) \/ complete(w, e)
        PROVE  LockMatchesStatus'
    BY <1>7, Zenon DEF release, dispatch, complete, Delayed, row
  <1>8. ASSUME NEW w \in Workers, NEW e \in Events, reschedule(w, e)
        PROVE  LockMatchesStatus'
    BY <1>8, Zenon DEF reschedule, StatusAfterFailure, Delayed, row
  <1>9. CASE UNCHANGED vars
    BY <1>9, Zenon DEF vars
  <1> QED
    BY <1>1, <1>2, <1>3, <1>4, <1>5, <1>6, <1>7, <1>8, <1>9, Zenon DEF Next, retry, discard

\* The attempt counted by a claim is given back only together with the claim.
LEMMA CountStep ==
  ASSUME IInv, [Next]_vars
  PROVE  ClaimCountsAttempt'
  <1> USE DEF IInv, TypeOK, ClaimCountsAttempt
  <1>1. ASSUME NEW e \in Events,
               \/ enqueue(e) \/ requeue(e) \/ schedule_due(e) \/ enqueue_store(e)
               \/ delete_account_events(e) \/ discard_dead_letter(e)
               \/ retry_dead_letter(e)
        PROVE  ClaimCountsAttempt'
    BY <1>1, Zenon DEF enqueue, requeue, schedule_due, enqueue_store,
       delete_account_events, discard_dead_letter, retry_dead_letter,
       Available, Delayed
  <1>2. ASSUME NEW e \in Events, time_passes(e)
        PROVE  ClaimCountsAttempt'
    BY <1>2, Zenon DEF time_passes
  <1>3. ASSUME NEW w \in Workers, start_worker(w) \/ crash(w)
        PROVE  ClaimCountsAttempt'
    BY <1>3, Zenon DEF start_worker, crash, row
  <1>4. ASSUME NEW w \in Workers, claim_batch(w)
        PROVE  ClaimCountsAttempt'
    BY <1>4, BoundAssumption DEF claim_batch, AttemptsOnClaim
  <1>5. ASSUME NEW w \in Workers, purge_resolved(w)
        PROVE  ClaimCountsAttempt'
    BY <1>5, Zenon DEF purge_resolved
  <1>6. ASSUME NEW w \in Workers, NEW e \in Events, renew_claim(w, e)
        PROVE  ClaimCountsAttempt'
    BY <1>6, Zenon DEF renew_claim
  <1>7. ASSUME NEW w \in Workers, NEW e \in Events,
               release(w, e) \/ dispatch(w, e) \/ complete(w, e)
        PROVE  ClaimCountsAttempt'
    BY <1>7, Zenon DEF release, dispatch, complete, Delayed, row
  <1>8. ASSUME NEW w \in Workers, NEW e \in Events, reschedule(w, e)
        PROVE  ClaimCountsAttempt'
    BY <1>8, Zenon DEF reschedule, StatusAfterFailure, Delayed, row
  <1>9. CASE UNCHANGED vars
    BY SMTT(90), <1>9 DEF vars
  <1> QED
    BY <1>1, <1>2, <1>3, <1>4, <1>5, <1>6, <1>7, <1>8, <1>9, Zenon DEF Next, retry, discard

\* A run begins only with a renewed claim, and a request that outdates the
\* run takes the row away from its worker.
LEMMA RunStep ==
  ASSUME IInv, [Next]_vars
  PROVE  OwnerRunIsCurrent'
  <1> USE DEF IInv, TypeOK, OwnerRunIsCurrent, Owns
  <1>1. ASSUME NEW e \in Events,
               \/ enqueue(e) \/ requeue(e) \/ schedule_due(e) \/ enqueue_store(e)
        PROVE  OwnerRunIsCurrent'
    BY <1>1, ZenonT(90) DEF enqueue, requeue, schedule_due, enqueue_store, Available, Delayed,
       Request
  <1>2. ASSUME NEW e \in Events,
               \/ delete_account_events(e) \/ discard_dead_letter(e)
               \/ retry_dead_letter(e)
        PROVE  OwnerRunIsCurrent'
    BY <1>2, Zenon DEF delete_account_events, discard_dead_letter, retry_dead_letter,
       Available, Delayed
  <1>3. ASSUME NEW e \in Events, time_passes(e)
        PROVE  OwnerRunIsCurrent'
    BY <1>3, Zenon DEF time_passes
  <1>4. ASSUME NEW w \in Workers, start_worker(w) \/ crash(w)
        PROVE  OwnerRunIsCurrent'
    BY <1>4, Zenon DEF start_worker, crash, row
  <1>5. ASSUME NEW w \in Workers, claim_batch(w)
        PROVE  OwnerRunIsCurrent'
    BY <1>5 DEF claim_batch, Batch
  <1>6. ASSUME NEW w \in Workers, purge_resolved(w)
        PROVE  OwnerRunIsCurrent'
    BY <1>6, Zenon DEF purge_resolved
  <1>7. ASSUME NEW w \in Workers, NEW e \in Events, renew_claim(w, e)
        PROVE  OwnerRunIsCurrent'
    BY <1>7 DEF renew_claim, SetTask
  <1>8. ASSUME NEW w \in Workers, NEW e \in Events, release(w, e)
        PROVE  OwnerRunIsCurrent'
    BY <1>8, Zenon DEF release, SetTask, Delayed
  <1>9. ASSUME NEW w \in Workers, NEW e \in Events, dispatch(w, e)
        PROVE  OwnerRunIsCurrent'
    BY <1>9 DEF dispatch, SetTask, row
  <1>10. ASSUME NEW w \in Workers, NEW e \in Events, complete(w, e)
        PROVE  OwnerRunIsCurrent'
    BY <1>10 DEF complete, SetTask, Delayed, row
  <1>11. ASSUME NEW w \in Workers, NEW e \in Events, reschedule(w, e)
        PROVE  OwnerRunIsCurrent'
    BY <1>11, Zenon DEF reschedule, StatusAfterFailure, SetTask, Delayed, row
  <1>12. CASE UNCHANGED vars
    BY <1>12, Zenon DEF vars
  <1> QED
    BY <1>1, <1>2, <1>3, <1>4, <1>5, <1>6, <1>7, <1>8, <1>9, <1>10, <1>11,
       <1>12, Zenon DEF Next, retry, discard

\* A row leaves the live statuses only with its debt.  The case that matters
\* is complete: the owner's run is current, so it honours the last request.
LEMMA LiveStep ==
  ASSUME IInv, [Next]_vars
  PROVE  LiveIffOwed'
  <1> USE DEF IInv, TypeOK, LiveIffOwed, Owns
  <1>1. ASSUME NEW e \in Events,
               \/ enqueue(e) \/ requeue(e) \/ schedule_due(e) \/ enqueue_store(e)
        PROVE  LiveIffOwed'
    BY <1>1, ZenonT(90) DEF enqueue, requeue, schedule_due, enqueue_store, Available, Delayed,
       Request
  <1>2. ASSUME NEW e \in Events,
               \/ delete_account_events(e) \/ discard_dead_letter(e)
               \/ retry_dead_letter(e)
        PROVE  LiveIffOwed'
    BY <1>2, Zenon DEF delete_account_events, discard_dead_letter, retry_dead_letter,
       Available, Delayed
  <1>3. ASSUME NEW e \in Events, time_passes(e)
        PROVE  LiveIffOwed'
    BY <1>3, Zenon DEF time_passes
  <1>4. ASSUME NEW w \in Workers, start_worker(w) \/ crash(w)
        PROVE  LiveIffOwed'
    BY <1>4, Zenon DEF start_worker, crash, row
  <1>5. ASSUME NEW w \in Workers, claim_batch(w)
        PROVE  LiveIffOwed'
    BY <1>5, ZenonT(90) DEF claim_batch, Claimable
  <1>6. ASSUME NEW w \in Workers, purge_resolved(w)
        PROVE  LiveIffOwed'
    BY <1>6, Zenon DEF purge_resolved, Purgeable
  <1>7. ASSUME NEW w \in Workers, NEW e \in Events, renew_claim(w, e)
        PROVE  LiveIffOwed'
    BY <1>7, Zenon DEF renew_claim
  <1>8. ASSUME NEW w \in Workers, NEW e \in Events, release(w, e)
        PROVE  LiveIffOwed'
    BY <1>8, Zenon DEF release, Delayed
  <1>9. ASSUME NEW w \in Workers, NEW e \in Events, dispatch(w, e)
        PROVE  LiveIffOwed'
    BY <1>9, Zenon DEF dispatch, row
  <1>10. ASSUME NEW w \in Workers, NEW e \in Events, complete(w, e)
        PROVE  LiveIffOwed'
    BY <1>10 DEF OwnerRunIsCurrent, complete, Delayed, row
  <1>11. ASSUME NEW w \in Workers, NEW e \in Events, reschedule(w, e)
        PROVE  LiveIffOwed'
    BY <1>11, Zenon DEF reschedule, StatusAfterFailure, Delayed, row
  <1>12. CASE UNCHANGED vars
    BY SMTT(90), <1>12 DEF vars
  <1> QED
    BY <1>1, <1>2, <1>3, <1>4, <1>5, <1>6, <1>7, <1>8, <1>9, <1>10, <1>11,
       <1>12, Zenon DEF Next, retry, discard

\* A claim takes a row with an attempt to spare; a row whose worker gives up
\* without a statement has one more, because the fault is counted.
LEMMA AttemptsStep ==
  ASSUME IInv, [Next]_vars
  PROVE  AttemptsAccount'
  <1> USE BoundAssumption DEF IInv, TypeOK, AttemptsAccount, Orphaned, Owns
  <1>1. ASSUME NEW e \in Events,
               \/ enqueue(e) \/ requeue(e) \/ schedule_due(e) \/ enqueue_store(e)
        PROVE  AttemptsAccount'
    <2>1. \/ Available(e) \/ Delayed(e, "pending", 0)
      BY <1>1, Zenon DEF enqueue, requeue, schedule_due, enqueue_store
    <2>2. UNCHANGED <<faults, task>>
      BY <1>1, Zenon DEF enqueue, requeue, schedule_due, enqueue_store, Request
    <2>3. CASE Available(e)
      BY <2>2, <2>3, WorkerAssumption DEF Available
    <2>4. CASE Delayed(e, "pending", 0)
      BY <2>2, <2>4, WorkerAssumption DEF Delayed
    <2> QED BY <2>1, <2>3, <2>4, Zenon
  <1>2. ASSUME NEW e \in Events,
               \/ delete_account_events(e) \/ discard_dead_letter(e)
               \/ retry_dead_letter(e)
        PROVE  AttemptsAccount'
    <2>1. CASE retry_dead_letter(e)
      BY <2>1 DEF retry_dead_letter, Available
    <2>2. CASE delete_account_events(e)
      BY <2>2 DEF delete_account_events, Delayed
    <2>3. CASE discard_dead_letter(e)
      BY Zenon, <2>3 DEF discard_dead_letter, Delayed
    <2> QED
      BY <1>2, <2>1, <2>2, <2>3, Zenon
  <1>3. ASSUME NEW e \in Events, time_passes(e)
        PROVE  AttemptsAccount'
    BY <1>3 DEF time_passes, Fault
  <1>4. ASSUME NEW w \in Workers, start_worker(w) \/ crash(w)
        PROVE  AttemptsAccount'
    BY <1>4 DEF start_worker, crash, Fault, row, LockMatchesStatus
  <1>5. ASSUME NEW w \in Workers, claim_batch(w)
        PROVE  AttemptsAccount'
    <2>1. PICK S \in SUBSET Claimable :
             /\ status' = [e \in Events |->
                             IF e \in S THEN "processing" ELSE status[e]]
             /\ attempts' = [e \in Events |->
                               IF e \in S THEN AttemptsOnClaim(e) ELSE attempts[e]]
             /\ lockedBy' = [e \in Events |->
                               IF e \in S THEN w ELSE lockedBy[e]]
             /\ elapsed' = elapsed \ S
             /\ task' = [p \in Workers \X Events |->
                           IF p[1] = w /\ p[2] \in S THEN "queued" ELSE task[p]]
      BY Zenon, <1>5 DEF claim_batch
    <2>2. faults' = faults
      BY <1>5, Zenon DEF claim_batch
    <2>3. ASSUME NEW f \in Events, f \in S
          PROVE  attempts[f] < MaxAttempts + faults
      BY Zenon, <2>3 DEF Claimable
    <2>4. ASSUME NEW f \in Events, f \in S
          PROVE  /\ attempts'[f] <= MaxAttempts + faults'
                 /\ status'[f] = "processing"
                 /\ f \notin elapsed'
                 /\ task'[<<lockedBy'[f], f>>] = "queued"
      BY <2>1, <2>2, <2>3, <2>4 DEF AttemptsOnClaim
    <2>5. ASSUME NEW f \in Events, f \notin S
          PROVE  /\ attempts'[f] = attempts[f]
                 /\ status'[f] = status[f]
                 /\ lockedBy'[f] = lockedBy[f]
                 /\ f \in elapsed' <=> f \in elapsed
                 /\ status[f] = "processing" =>
                      task'[<<lockedBy'[f], f>>] = task[<<lockedBy[f], f>>]
      BY <2>1, <2>5, Zenon DEF LockMatchesStatus
    <2> QED
      BY ZenonT(90), <2>2, <2>4, <2>5
  <1>6. ASSUME NEW w \in Workers, purge_resolved(w)
        PROVE  AttemptsAccount'
    BY <1>6 DEF purge_resolved, Purgeable
  <1>7. ASSUME NEW w \in Workers, NEW e \in Events, renew_claim(w, e)
        PROVE  AttemptsAccount'
    BY SMTT(90), <1>7 DEF renew_claim, SetTask, Fault, LockMatchesStatus
  <1>8. ASSUME NEW w \in Workers, NEW e \in Events, release(w, e)
        PROVE  AttemptsAccount'
    <2>1. /\ status' = [status EXCEPT ![e] = "pending"]
          /\ lockedBy' = [lockedBy EXCEPT ![e] = NoWorker]
          /\ elapsed' = elapsed \ {e}
          /\ task' = [task EXCEPT ![<<w, e>>] = "released"]
          /\ faults' = faults
      BY SMTT(90), <1>8 DEF release, SetTask, Delayed
    <2>2. PICK n \in {0, IF attempts[e] > 0 THEN attempts[e] - 1 ELSE 0} :
             attempts' = [attempts EXCEPT ![e] = n]
      BY <1>8, Zenon DEF release, Delayed
    <2>3. /\ status'[e] = "pending"
          /\ attempts'[e] < MaxAttempts + faults'
      <3>1. /\ attempts[e] \in Nat
            /\ faults \in Nat
            /\ attempts[e] <= MaxAttempts + faults
        <4>1. attempts[e] \in 0..AttemptsLimit /\ faults \in 0..MaxFaults
          BY Zenon
        <4>2. attempts[e] <= MaxAttempts + faults
          BY Zenon, AttemptsAccount
        <4>3. attempts[e] \in Nat /\ faults \in Nat
          BY <4>1
        <4> QED
          BY <4>2, <4>3, Zenon
      <3>2. n < MaxAttempts + faults
        <4>1. CASE n = 0
          BY <4>1
        <4>2. CASE n # 0
          <5>1. n = attempts[e] - 1
            BY <4>2, <2>2, Zenon
          <5> QED
            BY <5>1, <3>1
        <4> QED
          BY <4>1, <4>2, Zenon
      <3>3. attempts'[e] = n
        BY <2>2, Zenon
      <3> QED
        BY <2>1, <3>2, <3>3, Zenon
    <2>4. ASSUME NEW f \in Events, f # e
          PROVE  /\ attempts'[f] = attempts[f]
                 /\ status'[f] = status[f]
                 /\ f \in elapsed' <=> f \in elapsed
                 /\ status[f] = "processing" =>
                      task'[<<lockedBy'[f], f>>] = task[<<lockedBy[f], f>>]
      BY <2>1, <2>2, <2>4, Zenon DEF LockMatchesStatus
    <2>5. attempts'[e] <= MaxAttempts + faults'
      BY <2>1, <2>2, <2>3
    <2> QED
      BY SMTT(90), <2>1, <2>3, <2>4, <2>5
  <1>9. ASSUME NEW w \in Workers, NEW e \in Events, dispatch(w, e)
        PROVE  AttemptsAccount'
    BY <1>9 DEF dispatch, SetTask, row, LockMatchesStatus
  <1>10. ASSUME NEW w \in Workers, NEW e \in Events, complete(w, e)
        PROVE  AttemptsAccount'
    BY <1>10 DEF complete, SetTask, Delayed, Fault, row, LockMatchesStatus
  <1>11. ASSUME NEW w \in Workers, NEW e \in Events, reschedule(w, e)
        PROVE  AttemptsAccount'
    BY <1>11 DEF reschedule, StatusAfterFailure, SetTask, Delayed, Fault, row,
       LockMatchesStatus
  <1>12. CASE UNCHANGED vars
    BY <1>12, Zenon DEF vars
  <1> QED
    BY ZenonT(90), <1>1, <1>2, <1>3, <1>4, <1>5, <1>6, <1>7, <1>8, <1>9, <1>10, <1>11,
       <1>12 DEF Next, retry, discard

\* The invariant is inductive.
LEMMA Inductive == IInv /\ [Next]_vars => IInv'
  BY TypeStep, LockStep, CountStep, RunStep, LiveStep, AttemptsStep, Zenon DEF IInv

LEMMA AlwaysIInv == Spec => []IInv
  <1>1. Init => IInv
    BY InitIInv, Zenon
  <1>2. IInv /\ [Next]_vars => IInv'
    BY Inductive, Zenon
  <1> QED
    BY <1>1, <1>2, PTL DEF Spec

\* Every row, task and counter keeps its type in every interleaving of
\* requests, workers, operators and faults.
THEOREM OutboxTypes == Spec => []TypeOK
  <1>1. IInv => TypeOK
    BY Zenon DEF IInv
  <1> QED
    BY <1>1, AlwaysIInv, PTL

\* The lock columns agree with the status after every statement, so that no
\* statement can fail on chk_outbox_event_lock.
THEOREM LocksMatch == Spec => []LockMatchesStatus
  <1>1. IInv => LockMatchesStatus
    BY Zenon DEF IInv
  <1> QED
    BY <1>1, AlwaysIInv, PTL

\* A permanent failure recorded by its owner is never retried by itself.
THEOREM PermanentFinal == Spec => []PermanentIsFinal
  <1>1. IInv => PermanentIsFinal
    BY Zenon DEF IInv, TypeOK, ClaimCountsAttempt, PermanentIsFinal, StatusAfterFailure,
           Owns
  <1> QED
    BY <1>1, AlwaysIInv, PTL

\* Claims of one event are bounded by the configured attempts and the faults.
THEOREM ClaimsBounded == Spec => []AttemptsWithinFaults
  <1>1. IInv => AttemptsWithinFaults
    BY Zenon DEF IInv, AttemptsAccount, AttemptsWithinFaults
  <1> QED
    BY <1>1, AlwaysIInv, PTL

\* A worker that owns a row and runs its handler honours the last request.
THEOREM OwnersRunCurrent == Spec => []OwnerRunIsCurrent
  <1>1. IInv => OwnerRunIsCurrent
    BY Zenon DEF IInv
  <1> QED
    BY <1>1, AlwaysIInv, PTL

\* No accepted request is lost and nothing is queued without one.
THEOREM RequestsKept == Spec => []LiveIffOwed
  <1>1. IInv => LiveIffOwed
    BY Zenon DEF IInv
  <1> QED
    BY <1>1, AlwaysIInv, PTL
-----------------------------------------------------------------------------
\* Debt moves only where owed or the status moves.
LEMMA DebtUnchanged ==
  ASSUME owed' = owed,
         \A e \in owed : status'[e] = "dead_letter" <=> status[e] = "dead_letter"
  PROVE  Debt' = Debt
  BY Zenon DEF Debt

\* One step of the outbox is one step of the contract, or a stutter.
LEMMA ContractStep ==
  ASSUME IInv, [Next]_vars
  PROVE  [Contract!DebtNext]_(Contract!debtVars)
  <1> USE DEF IInv, TypeOK, LiveIffOwed
  <1>1. ASSUME NEW e \in Events,
               \/ enqueue(e) \/ requeue(e) \/ schedule_due(e) \/ enqueue_store(e)
        PROVE  Contract!Ask(e)
    <2>1. status' = [status EXCEPT ![e] = "pending"]
      BY <1>1, Zenon DEF enqueue, requeue, schedule_due, enqueue_store, Available, Delayed
    <2>2. owed' = owed \cup {e} /\ current' = {p \in current : p[2] # e}
      BY <1>1, Zenon DEF enqueue, requeue, schedule_due, enqueue_store, Request
    <2> QED
      BY Zenon, <2>1, <2>2 DEF Contract!Ask, Debt
  <1>2. ASSUME NEW e \in Events,
               delete_account_events(e) \/ discard_dead_letter(e)
        PROVE  Contract!Drop(e) \/ UNCHANGED Contract!debtVars
    <2>1. /\ \E s \in {"absent", "discarded"} : status' = [status EXCEPT ![e] = s]
          /\ owed' = owed \ {e}
          /\ current' = current
          /\ Discardable(e) \/ TypeOf[e] = "billing.reconcile"
      BY <1>2, Zenon DEF delete_account_events, discard_dead_letter, Delayed
    <2>2. Debt' = [Debt EXCEPT ![e] = "none"]
      BY Zenon, <2>1 DEF Debt
    <2>3. CASE e \in owed
      BY <2>1, <2>2, <2>3, Zenon DEF Contract!Drop, Debt
    <2>4. CASE e \notin owed
      BY <2>1, <2>2, <2>4 DEF Contract!debtVars, Debt
    <2> QED
      BY <2>3, <2>4, Zenon
  <1>3. ASSUME NEW e \in Events, retry_dead_letter(e)
        PROVE  Contract!Resume(e)
    BY Zenon, <1>3 DEF retry_dead_letter, Available, Contract!Resume, Debt
  <1>4. ASSUME NEW e \in Events, time_passes(e)
        PROVE  UNCHANGED Contract!debtVars
    BY <1>4, DebtUnchanged, Zenon DEF time_passes, Contract!debtVars
  <1>5. ASSUME NEW w \in Workers, start_worker(w)
        PROVE  UNCHANGED Contract!debtVars
    BY <1>5, DebtUnchanged, Zenon DEF start_worker, row, Contract!debtVars
  <1>6. ASSUME NEW w \in Workers, crash(w)
        PROVE  Contract!Abort
    <2>1. current' = current \ {p \in current : p[1] = w}
      BY <1>6, Zenon DEF crash
    <2>2. Debt' = Debt
      BY <1>6, DebtUnchanged, Zenon DEF crash, row
    <2> QED
      BY Zenon, <2>1, <2>2 DEF Contract!Abort
  <1>7. ASSUME NEW w \in Workers, claim_batch(w)
        PROVE  UNCHANGED Contract!debtVars
    <2>1. \A e \in owed : status'[e] = "dead_letter" <=> status[e] = "dead_letter"
      BY <1>7, ZenonT(90) DEF claim_batch, Claimable
    <2> QED
      BY Zenon, <1>7, <2>1, DebtUnchanged DEF claim_batch, Contract!debtVars
  <1>8. ASSUME NEW w \in Workers, purge_resolved(w)
        PROVE  UNCHANGED Contract!debtVars
    <2>1. \A e \in owed : status'[e] = "dead_letter" <=> status[e] = "dead_letter"
      BY <1>8, Zenon DEF purge_resolved, Purgeable
    <2> QED
      BY SMTT(90), <1>8, <2>1, DebtUnchanged DEF purge_resolved, Contract!debtVars
  <1>9. ASSUME NEW w \in Workers, NEW e \in Events, renew_claim(w, e)
        PROVE  Contract!Begin(w, e) \/ UNCHANGED Contract!debtVars
    <2>1. Debt' = Debt
      BY <1>9, DebtUnchanged, Zenon DEF renew_claim
    <2>2. CASE current' = current
      BY <2>1, <2>2, Zenon DEF Contract!debtVars
    <2>3. CASE current' # current
      <3>1. Owns(w, e) /\ current' = current \cup {<<w, e>>}
        BY <1>9, <2>3, Zenon DEF renew_claim
      <3>2. Debt[e] = "owed"
        BY SMTT(90), <3>1 DEF Owns, Debt
      <3> QED
        BY <2>1, <3>1, <3>2, Zenon DEF Contract!Begin
    <2> QED
      BY <2>2, <2>3, Zenon
  <1>10. ASSUME NEW w \in Workers, NEW e \in Events, release(w, e)
         PROVE  UNCHANGED Contract!debtVars
    <2>1. \A f \in owed : status'[f] = "dead_letter" <=> status[f] = "dead_letter"
      BY <1>10, Zenon DEF release, Delayed, Owns
    <2> QED
      BY SMTT(90), <1>10, <2>1, DebtUnchanged DEF release, Contract!debtVars
  <1>11. ASSUME NEW w \in Workers, NEW e \in Events, dispatch(w, e)
         PROVE  Contract!Abort \/ UNCHANGED Contract!debtVars
    <2>1. Debt' = Debt
      BY <1>11, DebtUnchanged, Zenon DEF dispatch, row
    <2>2. CASE current' = current
      BY <2>1, <2>2, Zenon DEF Contract!debtVars
    <2>3. CASE current' # current
      <3>1. current' = current \ ({<<w, e>>} \cap current)
        BY <1>11, <2>3, Zenon DEF dispatch
      <3> QED
        BY ZenonT(90), <2>1, <3>1 DEF Contract!Abort
    <2> QED
      BY <2>2, <2>3, Zenon
  <1>12. ASSUME NEW w \in Workers, NEW e \in Events, complete(w, e)
         PROVE  Contract!Discharge(w, e) \/ Contract!Abort
    <2>1. current' = current \ {<<w, e>>}
      BY <1>12, Zenon DEF complete
    <2>2. CASE Owns(w, e) /\ status' = [status EXCEPT ![e] = "completed"]
      <3>1. <<w, e>> \in current /\ Debt[e] = "owed"
        BY <1>12, <2>2, Zenon DEF complete, OwnerRunIsCurrent, Owns, Debt
      <3>2. owed' = owed \ {e}
        BY <1>12, <2>2, <3>1, Zenon DEF complete, Delayed, row, Owns
      <3>3. Debt' = [Debt EXCEPT ![e] = "none"]
        BY Zenon, <2>2, <3>2 DEF Debt
      <3> QED
        BY <2>1, <3>1, <3>3, Zenon DEF Contract!Discharge
    <2>3. CASE status' = status /\ owed' = owed
      <3>1. Debt' = Debt
        BY <2>3, DebtUnchanged, Zenon
      <3>2. current' = current \ ({<<w, e>>} \cap current)
        BY <2>1, Zenon
      <3> QED
        BY Zenon, <3>1, <3>2 DEF Contract!Abort
    <2> QED
      BY <1>12, <2>2, <2>3, Zenon DEF complete, Delayed, row
  <1>13. ASSUME NEW w \in Workers, NEW e \in Events, reschedule(w, e)
         PROVE  Contract!Park(e) \/ UNCHANGED Contract!debtVars
    <2>1. owed' = owed /\ current' = current
      BY <1>13, Zenon DEF reschedule
    <2>2. CASE Owns(w, e) /\ status' = [status EXCEPT ![e] = "dead_letter"]
      <3>1. Debt[e] = "owed" /\ Debt' = [Debt EXCEPT ![e] = "parked"]
        BY Zenon, <2>1, <2>2 DEF Owns, Debt
      <3> QED
        BY <2>1, <3>1, Zenon DEF Contract!Park
    <2>3. CASE \/ status' = status
               \/ Owns(w, e) /\ status' = [status EXCEPT ![e] = "pending"]
      <3>1. \A f \in owed : status'[f] = "dead_letter" <=> status[f] = "dead_letter"
        BY <2>3, Zenon DEF Owns
      <3> QED
        BY <2>1, <3>1, DebtUnchanged, Zenon DEF Contract!debtVars
    <2> QED
      BY <1>13, <2>2, <2>3, Zenon DEF reschedule, StatusAfterFailure, Delayed, row
  <1>14. CASE UNCHANGED vars
    BY <1>14, DebtUnchanged, Zenon DEF vars, Contract!debtVars
  <1> QED
    BY <1>1, <1>2, <1>3, <1>4, <1>5, <1>6, <1>7, <1>8, <1>9, <1>10, <1>11,
       <1>12, <1>13, <1>14, Zenon DEF Next, retry, discard, Contract!DebtNext

\* The outbox implements the at-least-once contract: a debt disappears only
\* through a handler run begun after the last request, through an operator's
\* discard or through the erasure of its account.
THEOREM OutboxImplementsContract == Spec => ImplementsContract
  <1>1. Init => Contract!DebtInit
    BY Zenon DEF Init, Contract!DebtInit, Debt
  <1>2. IInv /\ [Next]_vars => [Contract!DebtNext]_(Contract!debtVars)
    BY ContractStep, Zenon
  <1> QED
    BY <1>1, <1>2, AlwaysIInv, PTL DEF Spec, ImplementsContract, Contract!DebtSpec
-----------------------------------------------------------------------------
(* The row of a maintenance job describes its newest pass.  A pass that is *)
(* still running has reported nothing (Unreported), so that the row, which *)
(* agrees with the passes recorded (RowAgrees), can only be moved forward. *)


PassType == [started : Nat, begun : BOOLEAN, told : {"no", "succeeded", "skipped", "failed"}]
RowType == [run : Nat, started : Nat, succeeded : Nat, remaining : BOOLEAN,
            status : {"none", "running", "succeeded", "skipped", "failed"}]
ProcType == [at : {"off", "start", "work", "batch", "finish"}, run : Nat, batches : Nat,
             remaining : BOOLEAN, status : {"running", "succeeded", "skipped", "failed"}]

PassTypes ==
    /\ clock \in Nat
    /\ DOMAIN runs \subseteq Nat \ {0}
    /\ \A r \in DOMAIN runs : runs[r] \in PassType
    /\ job_row \in RowType
    /\ proc \in [Procs -> ProcType]

Unreported ==
    /\ \A p \in Procs : proc[p].at # "off" =>
          /\ proc[p].run \in DOMAIN runs
          /\ runs[proc[p].run].told = "no"
          /\ proc[p].at = "start" => ~runs[proc[p].run].begun
          /\ proc[p].at = "finish" => proc[p].status # "running"
    /\ \A p, q \in Procs : proc[p].at # "off" /\ proc[q].at # "off" /\ proc[p].run = proc[q].run
                             => p = q

RowAgrees ==
    /\ Recorded = {} => job_row.run = 0 /\ job_row.started = 0
    /\ Recorded # {} =>
          /\ job_row.run \in Recorded
          /\ job_row.started = runs[job_row.run].started
          /\ \A r \in Recorded : runs[r].started <= job_row.started
          /\ job_row.status = IF runs[job_row.run].told = "no" THEN "running" ELSE runs[job_row.run].told

PassInv == PassTypes /\ Unreported /\ RowAgrees

LEMMA PassInit == JobInit => PassInv
  BY DEF JobInit, PassInv, PassTypes, PassType, RowType, ProcType, Unreported, RowAgrees, Recorded,
     NoRow, Off
\* A step that writes neither the row nor what a pass reported.
LEMMA PassMoves ==
    ASSUME PassInv, NEW p \in Procs, UNCHANGED <<clock, job_row, runs>>,
           proc' \in [Procs -> ProcType],
           \A q \in Procs : q # p => proc'[q] = proc[q],
           \/ proc'[p].at = "off"
           \/ /\ proc[p].at # "off" /\ proc'[p].at # "start"
              /\ proc'[p].run = proc[p].run
              /\ proc'[p].at = "finish" => proc'[p].status # "running"
    PROVE  PassInv'
<1>1. PassTypes'
  BY Zenon DEF PassInv, PassTypes, PassType, RowType, ProcType
<1>2. Unreported'
  BY DEF PassInv, Unreported
<1>3. RowAgrees'
  BY Zenon DEF PassInv, RowAgrees, Recorded
<1> QED BY <1>1, <1>2, <1>3, Zenon DEF PassInv

\* What one process may become.
LEMMA ProcStep ==
    ASSUME PassTypes, NEW p \in Procs, NEW x \in ProcType, proc' = [proc EXCEPT ![p] = x]
    PROVE  /\ proc' \in [Procs -> ProcType] /\ proc'[p] = x
           /\ \A q \in Procs : q # p => proc'[q] = proc[q]
  BY Zenon DEF PassTypes

\* The fields of a process after each kind of assignment.
LEMMA ProcAt ==
    ASSUME NEW x \in ProcType, NEW a \in {"off", "start", "work", "batch", "finish"},
           NEW y, y = [x EXCEPT !.at = a]
    PROVE  y \in ProcType /\ y.at = a /\ y.run = x.run /\ y.status = x.status
  BY Zenon DEF ProcType

LEMMA ProcCounts ==
    ASSUME NEW x \in ProcType, NEW y, y = [x EXCEPT !.batches = @ + 1]
    PROVE  y \in ProcType /\ y.at = x.at /\ y.run = x.run /\ y.status = x.status
  BY DEF ProcType

LEMMA ProcAgain ==
    ASSUME NEW x \in ProcType, NEW y, y = [x EXCEPT !.at = "work", !.batches = @ + 1]
    PROVE  y \in ProcType /\ y.at = "work" /\ y.run = x.run
<1> DEFINE z == [x EXCEPT !.at = "work"]
<1>1. y = [z EXCEPT !.batches = @ + 1]
  BY Zenon DEF ProcType
<1>2. z \in ProcType /\ z.at = "work" /\ z.run = x.run
  BY ProcAt
<1> HIDE DEF z
<1> QED BY <1>1, <1>2, ProcCounts, Zenon

LEMMA PassStarts == ASSUME PassInv, NEW p \in Procs, track(p) PROVE PassInv'
<1> USE DEF PassInv
<1>0. PICK r \in 1..MaxRuns :
        /\ DOMAIN runs = 1..(r - 1)
        /\ proc' = [proc EXCEPT ![p] = [Off EXCEPT !.at = "start", !.run = r]]
        /\ runs' = [s \in 1..r |-> IF s < r THEN runs[s] ELSE
                       [started |-> clock, begun |-> FALSE, told |-> "no"]]
        /\ UNCHANGED <<clock, job_row>>
  BY Zenon DEF track
<1>1. /\ r \in Nat /\ r # 0 /\ r \notin DOMAIN runs
      /\ DOMAIN runs' = DOMAIN runs \cup {r}
      /\ \A s \in DOMAIN runs : runs'[s] = runs[s]
      /\ runs'[r] = [started |-> clock, begun |-> FALSE, told |-> "no"]
  BY <1>0, RunsAssumption
<1>2. Off \in ProcType
  BY Zenon DEF Off, ProcType
<1>3. /\ proc' \in [Procs -> ProcType] /\ proc'[p].at = "start" /\ proc'[p].run = r
      /\ \A q \in Procs : q # p => proc'[q] = proc[q]
  <2> DEFINE x == [Off EXCEPT !.at = "start", !.run = r]
  <2>0. x = [Off EXCEPT !.at = "start", !.run = r]
    BY Zenon
  <2>2. proc' = [proc EXCEPT ![p] = x]
    BY <1>0, Zenon
  <2> HIDE DEF x
  <2>1. x \in ProcType /\ x.at = "start" /\ x.run = r
    <3>1. PICK z \in ProcType : z = Off
      BY <1>2, Zenon
    <3>2. x = [z EXCEPT !.at = "start", !.run = r]
      BY <2>0, <3>1, Zenon
    <3> QED BY <1>1, <3>2, Zenon DEF ProcType
  <2> QED BY <2>1, <2>2, ProcStep, Zenon
<1>4. PassTypes'
  <2>1. [started |-> clock, begun |-> FALSE, told |-> "no"] \in PassType
    BY Zenon DEF PassTypes, PassType
  <2> QED BY <1>0, <1>1, <1>3, <2>1, Zenon DEF PassTypes
<1>5. Unreported'
  BY <1>1, <1>3 DEF Unreported
<1>6. Recorded' = Recorded /\ \A s \in Recorded : s \in DOMAIN runs
  BY <1>1 DEF Recorded
<1>7. RowAgrees'
  BY <1>0, <1>1, <1>6, Zenon DEF RowAgrees
<1> QED BY <1>4, <1>5, <1>7, Zenon

LEMMA StartRecorded == ASSUME PassInv, NEW p \in Procs, record_start(p) PROVE PassInv'
<1> DEFINE r == proc[p].run
<1> USE DEF PassInv
<1>0. r \in DOMAIN runs /\ runs[r].told = "no" /\ ~runs[r].begun /\ proc[p].at = "start"
  BY Zenon DEF record_start, Unreported
<1>1. /\ DOMAIN runs' = DOMAIN runs
      /\ \A s \in DOMAIN runs : /\ runs'[s].started = runs[s].started /\ runs'[s].told = runs[s].told
                                /\ s # r => runs'[s] = runs[s]
      /\ runs'[r].begun
      /\ \A s \in DOMAIN runs : runs'[s] \in PassType
  BY <1>0, ZenonT(90) DEF record_start, PassTypes, PassType, RowType, ProcType
<1>2. /\ UNCHANGED clock
      /\ proc'[p].at = "work" /\ proc'[p].run = r
      /\ \A q \in Procs : q # p => proc'[q] = proc[q]
  BY Zenon DEF record_start, PassTypes, PassType, RowType, ProcType
<1>3. \/ /\ job_row.started <= runs[r].started
         /\ job_row' = [job_row EXCEPT !.run = r, !.status = "running",
                                   !.started = runs[r].started, !.remaining = FALSE]
      \/ ~(job_row.started <= runs[r].started) /\ job_row' = job_row
  BY Zenon DEF record_start, start
<1>4. PassTypes'
  <2>1. proc' \in [Procs -> ProcType]
    <3>1. proc[p] \in ProcType
      BY Zenon DEF PassTypes
    <3>2. [proc[p] EXCEPT !.at = "work"] \in ProcType
      BY <3>1, ProcAt, Zenon
    <3> QED BY <3>2, ProcStep, Zenon DEF record_start
  <2>2. job_row' \in RowType
    BY <1>0, <1>3, Zenon DEF PassTypes, PassType, RowType, ProcType
  <2> QED BY <1>1, <1>2, <2>1, <2>2, Zenon DEF PassTypes, PassType, RowType, ProcType
<1>5. Unreported'
  BY <1>0, <1>1, <1>2 DEF Unreported
<1>6. Recorded' = Recorded \cup {r} /\ r \notin Recorded /\ \A s \in Recorded : s \in DOMAIN runs
  BY <1>0, <1>1, Zenon DEF Recorded
<1>7. RowAgrees'
  <2>1. CASE job_row.started <= runs[r].started
    <3>1. /\ job_row'.run = r /\ job_row'.status = "running"
          /\ job_row'.started = runs[r].started
      BY <1>3, <2>1, Zenon DEF PassTypes, PassType, RowType, ProcType
    <3>2. \A s \in Recorded : runs[s].started <= runs[r].started
      BY <1>0, <1>6, <2>1 DEF RowAgrees, PassTypes, PassType, RowType, ProcType
    <3> QED BY <1>0, <1>1, <1>6, <3>1, <3>2 DEF RowAgrees, PassTypes, PassType, RowType, ProcType
  <2>2. CASE ~(job_row.started <= runs[r].started)
    <3>1. Recorded # {}
      BY <1>0, <2>2 DEF RowAgrees, PassTypes, PassType, RowType, ProcType
    <3> QED BY <1>0, <1>1, <1>3, <1>6, <2>2, <3>1 DEF RowAgrees, PassTypes, PassType, RowType, ProcType
  <2> QED BY <2>1, <2>2, Zenon
<1> QED BY <1>4, <1>5, <1>7, Zenon

LEMMA EndRecorded == ASSUME PassInv, NEW p \in Procs, record_finish(p) PROVE PassInv'
<1> DEFINE r == proc[p].run
<1> USE DEF PassInv
<1>0. /\ r \in DOMAIN runs /\ proc[p].at = "finish"
      /\ proc[p].status \in {"succeeded", "skipped", "failed"}
      /\ proc[p].remaining \in BOOLEAN
  BY Zenon DEF record_finish, Unreported, PassTypes, PassType, RowType, ProcType
<1>1. /\ DOMAIN runs' = DOMAIN runs
      /\ \A s \in DOMAIN runs : /\ runs'[s].started = runs[s].started /\ runs'[s].begun = runs[s].begun
                                /\ s # r => runs'[s] = runs[s]
      /\ runs'[r].told = proc[p].status
      /\ \A s \in DOMAIN runs : runs'[s] \in PassType
  BY <1>0, ZenonT(90) DEF record_finish, PassTypes, PassType, RowType, ProcType
<1>2. /\ UNCHANGED clock
      /\ proc'[p].at = "off"
      /\ \A q \in Procs : q # p => proc'[q] = proc[q]
  BY Zenon DEF record_finish, PassTypes, PassType, RowType, ProcType, Off
<1>3. /\ job_row'.run = job_row.run /\ job_row'.started = job_row.started
      /\ job_row.run = r => job_row'.status = proc[p].status
      /\ job_row.run # r => job_row' = job_row
      /\ job_row' \in RowType
  <2>1. CASE job_row.run # r
    BY <2>1, Zenon DEF record_finish, finish, PassTypes
  <2>2. CASE job_row.run = r
    <3> DEFINE st == proc[p].status
               re == proc[p].remaining
    <3>1. PICK c \in Nat : job_row' = [job_row EXCEPT !.status = st, !.remaining = re, !.succeeded = c]
      <4>1. job_row' = [job_row EXCEPT !.status = st, !.remaining = re,
                                   !.succeeded = IF st = "succeeded" THEN clock ELSE @]
        BY <2>2, Zenon DEF record_finish, finish
      <4>2. CASE st = "succeeded"
        BY <4>1, <4>2, Zenon DEF PassTypes
      <4>3. CASE st # "succeeded"
        BY <4>1, <4>3, Zenon DEF PassTypes, RowType
      <4> QED BY <4>2, <4>3, Zenon
    <3>2. st \in {"succeeded", "skipped", "failed"} /\ re \in BOOLEAN /\ job_row \in RowType
      BY <1>0, Zenon DEF PassTypes
    <3> HIDE DEF st, re
    <3>3. /\ job_row'.run = job_row.run /\ job_row'.started = job_row.started
          /\ job_row'.status = st /\ job_row' \in RowType
      BY <3>1, <3>2, Zenon DEF RowType
    <3> QED BY <2>2, <3>3, Zenon DEF st
  <2> QED BY <2>1, <2>2, Zenon
<1>4. PassTypes'
  <2>1. proc' \in [Procs -> ProcType]
    BY Zenon DEF PassTypes, PassType, RowType, ProcType, record_finish, Off
  <2> QED BY <1>1, <1>2, <1>3, <2>1, Zenon DEF PassTypes, PassType, RowType, ProcType
<1>5. Unreported'
  BY <1>0, <1>1, <1>2 DEF Unreported
<1>6. Recorded' = Recorded /\ \A s \in Recorded : s \in DOMAIN runs
  BY <1>1, Zenon DEF Recorded
<1>7. RowAgrees'
  BY <1>0, <1>1, <1>3, <1>6, ZenonT(90) DEF RowAgrees
<1> QED BY <1>4, <1>5, <1>7, Zenon

LEMMA PassNext == ASSUME PassInv, JobNext PROVE PassInv'
<1> USE DEF PassInv
<1>1. ASSUME NEW p \in Procs,
             \/ record_fails(p) \/ matches_lock(p) \/ privacy_lock(p)
             \/ work_fails(p) \/ process_dies(p)
             \/ \E counts \in Counts :
                   \/ matches_batch(p, counts) \/ privacy_batch(p, counts)
                   \/ photos_batch(p, counts) \/ billing_schedule(p, counts)
      PROVE  PassInv'
  <2>0. proc[p] \in ProcType
    BY Zenon DEF PassTypes
  <2>1. ASSUME NEW s \in {"succeeded", "skipped", "failed"}, NEW b \in BOOLEAN, Ended(p, s, b),
               proc[p].at # "off",
               UNCHANGED <<clock, job_row, runs>>
        PROVE  PassInv'
    <3> DEFINE x == [proc[p] EXCEPT !.at = "finish", !.status = s, !.remaining = b]
    <3>0. x = [proc[p] EXCEPT !.at = "finish", !.status = s, !.remaining = b]
      BY Zenon
    <3>2. proc' = [proc EXCEPT ![p] = x]
      BY <2>1, Zenon DEF PassTypes, Ended
    <3> HIDE DEF x
    <3>1. x \in ProcType /\ x.at = "finish" /\ x.status = s /\ x.run = proc[p].run
      <4>1. PICK z \in ProcType : z = proc[p]
        BY <2>0, Zenon
      <4>2. x = [z EXCEPT !.at = "finish", !.status = s, !.remaining = b]
        BY <3>0, <4>1, Zenon
      <4> QED BY <4>1, <4>2, Zenon DEF ProcType
    <3> QED BY <2>1, <3>1, <3>2, ProcStep, PassMoves, Zenon
  <2>2. ASSUME NEW a \in {"work", "batch"}, proc' = [proc EXCEPT ![p].at = a], proc[p].at # "off",
               UNCHANGED <<clock, job_row, runs>>
        PROVE  PassInv'
    <3> DEFINE x == [proc[p] EXCEPT !.at = a]
    <3>1. x \in ProcType /\ x.at = a /\ x.run = proc[p].run
      BY <2>0, <2>2, ProcAt
    <3>2. proc' = [proc EXCEPT ![p] = x]
      BY <2>2, Zenon DEF PassTypes
    <3> HIDE DEF x
    <3> QED BY <2>2, <3>1, <3>2, ProcStep, PassMoves, Zenon
  <2>3. ASSUME proc' = [proc EXCEPT ![p].batches = @ + 1], proc[p].at \in {"work", "batch"},
               UNCHANGED <<clock, job_row, runs>>
        PROVE  PassInv'
    <3> DEFINE x == [proc[p] EXCEPT !.batches = @ + 1]
    <3>1. x \in ProcType /\ x.at = proc[p].at /\ x.run = proc[p].run
      BY <2>0, <2>3, ProcCounts, Zenon
    <3>2. proc' = [proc EXCEPT ![p] = x]
      BY <2>3, Zenon DEF PassTypes
    <3> HIDE DEF x
    <3> QED BY <2>3, <3>1, <3>2, ProcStep, PassMoves, Zenon
  <2>4. ASSUME proc' = [proc EXCEPT ![p].at = "work", ![p].batches = @ + 1], proc[p].at = "batch",
               UNCHANGED <<clock, job_row, runs>>
        PROVE  PassInv'
    <3> DEFINE x == [proc[p] EXCEPT !.at = "work", !.batches = @ + 1]
    <3>1. x \in ProcType /\ x.at = "work" /\ x.run = proc[p].run
      BY <2>0, <2>4, ProcAgain, Zenon
    <3>2. proc' = [proc EXCEPT ![p] = x]
      BY <2>4, Zenon DEF PassTypes
    <3> HIDE DEF x
    <3> QED BY <2>4, <3>1, <3>2, ProcStep, PassMoves, ZenonT(90)
  <2>5. ASSUME proc' = [proc EXCEPT ![p] = Off], UNCHANGED <<clock, job_row, runs>>
        PROVE  PassInv'
    <3>1. Off \in ProcType /\ Off.at = "off"
      BY Zenon DEF Off, ProcType
    <3> QED BY <2>5, <3>1, ProcStep, PassMoves, Zenon
  <2>6. CASE record_fails(p)
    BY <2>2, <2>5, <2>6, Zenon DEF record_fails
  <2>7. CASE matches_lock(p) \/ privacy_lock(p)
    BY <2>1, <2>2, <2>7, Zenon DEF matches_lock, privacy_lock
  <2>8. CASE work_fails(p) \/ process_dies(p)
    BY <2>1, <2>5, <2>8, Zenon DEF work_fails, process_dies
  <2>9. ASSUME NEW counts \in Counts,
               \/ matches_batch(p, counts) \/ privacy_batch(p, counts)
               \/ photos_batch(p, counts) \/ billing_schedule(p, counts)
        PROVE  PassInv'
    <3>1. is_full(counts) \in BOOLEAN /\ (maximum(counts) >= JobBatchSize) \in BOOLEAN
          /\ (counts[1] = JobBatchSize) \in BOOLEAN
      BY DEF is_full
    <3> QED
      BY <2>1, <2>3, <2>4, <2>9, <3>1, Zenon DEF matches_batch, privacy_batch, photos_batch,
         billing_schedule
  <2> QED BY <1>1, <2>6, <2>7, <2>8, <2>9, Zenon
<1>2. ASSUME tick PROVE PassInv'
  <2>1. clock' \in Nat
    BY <1>2 DEF tick, PassInv, PassTypes
  <2> QED
    BY <1>2, <2>1, ZenonT(90) DEF tick, PassInv, PassTypes, Unreported, RowAgrees, Recorded
<1> QED
  BY <1>1, <1>2, PassStarts, StartRecorded, EndRecorded, Zenon DEF JobNext

\* The row of maintenance_job_status describes the newest pass recorded and what
\* that pass reported, for any number of processes and passes and any delay or
\* loss of their writes (operations/maintenance.rs, start, finish).
THEOREM RowShowsNewest == JobSpec => []NewestRunShown
<1>1. PassInv /\ [JobNext]_jobVars => PassInv'
  <2> SUFFICES ASSUME PassInv, UNCHANGED jobVars PROVE PassInv'
    BY PassNext, Zenon
  <2> QED
    BY Zenon DEF jobVars, PassInv, PassTypes, PassType, RowType, ProcType, Unreported, RowAgrees, Recorded
<1>2. PassInv => NewestRunShown
  BY Zenon DEF PassInv, RowAgrees, NewestRunShown
<1> QED BY PassInit, <1>1, <1>2, PTL DEF JobSpec

-----------------------------------------------------------------------------
(***************************************************************************)
(* The advertisements that pay for a continuation.  An intent whose proof  *)
(* may still be credited (Held) is the only one of its owner, and there is *)
(* room for its credit: no second one begins beside it, and a new week     *)
(* begins with an empty stock.  A transaction belongs to one intent, so    *)
(* what it was paid is what that intent was credited with.                 *)
(***************************************************************************)
IntentStates == {"none", "pending", "completed", "cancelled"}

RewardTypes ==
    /\ time \in Nat
    /\ deadline \in [Intents -> Nat]
    /\ state \in [Intents -> IntentStates]
    /\ transaction \in [Intents -> Transactions \cup {NoTransaction}]
    /\ credited \subseteq Intents
    /\ stock \in [Owners -> Nat]
    /\ stockWeek \in [Owners -> Nat]
    /\ callbacks \subseteq [intent : Intents, transaction : Transactions, event : Nat]

Held(i) ==
    state[i] = "pending" /\ time <= deadline[i] + GRACE
        /\ reward_week(time) <= reward_week(deadline[i])

SlotsOK ==
    /\ \A u \in Owners : stockWeek[u] <= reward_week(time)
    /\ \A i \in Intents : Held(i) => Stock(Owner[i]) < REWARD_STOCK_LIMIT
    /\ \A i, j \in Intents : Held(i) /\ Held(j) /\ Owner[i] = Owner[j] => i = j

CreditedFor(x) == {i \in credited : transaction[i] = x}

PaymentsOK ==
    /\ \A i \in credited : state[i] = "completed"
    /\ \A i \in Intents : transaction[i] # NoTransaction => state[i] = "completed"
    /\ \A i, j \in Intents :
          transaction[i] = transaction[j] /\ transaction[i] # NoTransaction => i = j
    /\ \A x \in Transactions : \/ CreditedFor(x) = {} /\ paid[x] = 0
                               \/ \E i \in Intents : CreditedFor(x) = {i} /\ paid[x] = 1
    /\ paid = [x \in Transactions |-> paid[x]]

RewardsOK == RewardTypes /\ SlotsOK /\ PaymentsOK

LEMMA RewardWeek ==
    ASSUME NEW s \in Nat, NEW t \in Nat, s <= t
    PROVE  /\ reward_week(s) \in Nat /\ reward_week(t) \in Nat
           /\ reward_week(s) <= reward_week(t)
<1> USE RewardsAssumption
<1>1. /\ reward_week(s) \in Nat /\ reward_week(t) \in Nat
      /\ reward_week(s) * REWARD_WEEK <= s /\ t < reward_week(t) * REWARD_WEEK + REWARD_WEEK
  BY DEF reward_week
<1>2. SUFFICES ASSUME reward_week(t) + 1 <= reward_week(s) PROVE FALSE
  BY <1>1
<1>3. (reward_week(t) + 1) * REWARD_WEEK <= reward_week(s) * REWARD_WEEK
  BY <1>1, <1>2
<1> QED BY <1>1, <1>3

\* Time goes on: an intent that is held was held before, and the stock of a
\* user is what it was or begins again.
LEMMA LaterHeld ==
    ASSUME RewardTypes, SlotsOK, time' \in Nat, time <= time', NEW i \in Intents,
           state'[i] = "pending" => state[i] = "pending" /\ deadline'[i] = deadline[i], Held(i)'
    PROVE  Held(i)
<1>1. /\ state[i] = "pending" /\ deadline'[i] = deadline[i] /\ deadline[i] \in Nat /\ time \in Nat
      /\ time' <= deadline[i] + GRACE /\ reward_week(time') <= reward_week(deadline[i])
  BY Zenon DEF Held, RewardTypes, reward_week
<1>2. reward_week(time) \in Nat /\ reward_week(time') \in Nat /\ reward_week(time) <= reward_week(time')
  BY <1>1, RewardWeek, Zenon
<1>3. reward_week(deadline[i]) \in Nat
  BY <1>1, RewardWeek
<1>4. time <= deadline[i] + GRACE /\ reward_week(time) <= reward_week(deadline[i])
  BY <1>1, <1>2, <1>3, RewardsAssumption
<1> QED BY <1>1, <1>4, Zenon DEF Held

LEMMA LaterStock ==
    ASSUME RewardTypes, SlotsOK, time' \in Nat, time <= time', NEW u \in Owners,
           UNCHANGED <<stock, stockWeek>>
    PROVE  /\ Stock(u) \in Nat /\ Stock(u)' \in Nat /\ Stock(u)' <= Stock(u)
           /\ stockWeek'[u] <= reward_week(time)'
<1>1. /\ stock[u] \in Nat /\ stockWeek[u] \in Nat /\ time \in Nat /\ stockWeek[u] <= reward_week(time)
  BY Zenon DEF RewardTypes, SlotsOK
<1>2. reward_week(time) \in Nat /\ reward_week(time') \in Nat /\ reward_week(time) <= reward_week(time')
  BY <1>1, RewardWeek, Zenon
<1>3. reward_week(time)' = reward_week(time')
  BY Zenon DEF reward_week
<1> HIDE DEF reward_week
<1> QED BY <1>1, <1>2, <1>3 DEF Stock

\* No intent becomes held, and no stock grows.
LEMMA SlotsKept ==
    ASSUME RewardTypes, SlotsOK, time' \in Nat, time <= time', UNCHANGED <<stock, stockWeek>>,
           \A i \in Intents :
              state'[i] = "pending" => state[i] = "pending" /\ deadline'[i] = deadline[i]
    PROVE  SlotsOK'
<1>1. ASSUME NEW i \in Intents, Held(i)' PROVE Held(i) /\ Stock(Owner[i])' < REWARD_STOCK_LIMIT
  <2>1. Held(i)
    BY <1>1, LaterHeld, Zenon
  <2>2. Stock(Owner[i]) < REWARD_STOCK_LIMIT /\ Owner[i] \in Owners
    BY <2>1, RewardsAssumption, Zenon DEF SlotsOK
  <2>3. Stock(Owner[i]) \in Nat /\ Stock(Owner[i])' \in Nat /\ Stock(Owner[i])' <= Stock(Owner[i])
    BY <2>2, LaterStock, Zenon
  <2>4. Stock(Owner[i])' < REWARD_STOCK_LIMIT
    BY <2>2, <2>3, RewardsAssumption
  <2> QED BY <2>1, <2>4, Zenon
<1>2. ASSUME NEW u \in Owners PROVE stockWeek'[u] <= reward_week(time)'
  BY LaterStock, Zenon
<1>3. ASSUME NEW i \in Intents, NEW j \in Intents, Held(i)', Held(j)', Owner[i] = Owner[j]
      PROVE  i = j
  BY <1>1, <1>3, Zenon DEF SlotsOK
<1> QED BY <1>1, <1>2, <1>3, Zenon DEF SlotsOK

\* Nothing that is paid changes.
LEMMA PaymentsKept ==
    ASSUME PaymentsOK, UNCHANGED <<transaction, credited, paid>>,
           \A i \in Intents : state[i] = "completed" => state'[i] = "completed",
           credited \subseteq Intents
    PROVE  PaymentsOK'
<1>1. ASSUME NEW x \in Transactions PROVE CreditedFor(x)' = CreditedFor(x)
  BY Zenon DEF CreditedFor
<1>2. \A x \in Transactions : \/ CreditedFor(x)' = {} /\ paid'[x] = 0
                              \/ \E i \in Intents : CreditedFor(x)' = {i} /\ paid'[x] = 1
  BY <1>1, Zenon DEF PaymentsOK
<1> QED BY <1>2, Zenon DEF PaymentsOK

LEMMA CreateIntent ==
    ASSUME RewardsOK, NEW i \in Intents, create_on(i) PROVE RewardsOK'
<1> USE DEF RewardsOK
<1>1. /\ state[i] = "none" /\ state' = [state EXCEPT ![i] = "pending"] /\ time' = time + 1
      /\ Stock(Owner[i]) < REWARD_STOCK_LIMIT /\ Outstanding(Owner[i]) = {}
      /\ UNCHANGED <<transaction, credited, stock, stockWeek, callbacks, paid>>
  BY Zenon DEF create_on
<1>2. PICK inserted \in {time, time'} : deadline' = [deadline EXCEPT ![i] = inserted + LIFETIME]
  BY Zenon DEF create_on
<1>3. time \in Nat /\ time' \in Nat /\ time <= time' /\ inserted + LIFETIME \in Nat
  BY <1>1, <1>2, RewardsAssumption DEF RewardTypes
<1>4. /\ state'[i] = "pending" /\ state' \in [Intents -> IntentStates]
      /\ deadline' \in [Intents -> Nat]
      /\ \A j \in Intents : j # i => state'[j] = state[j] /\ deadline'[j] = deadline[j]
  <2>1. "pending" \in IntentStates
    BY DEF IntentStates
  <2> QED BY <2>1, <1>1, <1>2, <1>3, Zenon DEF RewardTypes
<1>5. RewardTypes'
  BY <1>1, <1>3, <1>4, Zenon DEF RewardTypes
<1>6. PaymentsOK'
  BY <1>1, <1>4, PaymentsKept, Zenon DEF RewardTypes
<1>7. ASSUME NEW j \in Intents, j # i, Held(j)' PROVE Held(j) /\ Owner[j] # Owner[i]
  <2>1. Held(j) /\ deadline'[j] = deadline[j] /\ state'[j] = state[j]
    BY <1>3, <1>4, <1>7, LaterHeld, Zenon
  <2>2. time' <= deadline[j] + GRACE /\ deadline[j] \in Nat
    BY <1>7, <2>1, Zenon DEF Held, RewardTypes
  <2>3. deadline[j] + GRACE > time
    BY <1>1, <1>3, <2>2, RewardsAssumption
  <2>4. reward_week(time) \in Nat /\ reward_week(deadline[j]) \in Nat
    BY <1>3, <2>2, RewardWeek
  <2>5. reward_week(deadline[j]) >= reward_week(time) /\ state[j] = "pending"
    BY <2>1, <2>4 DEF Held
  <2> QED BY <1>1, <2>1, <2>3, <2>5, Zenon DEF Outstanding
<1>8. ASSUME NEW u \in Owners
      PROVE  /\ Stock(u) \in Nat /\ Stock(u)' \in Nat /\ Stock(u)' <= Stock(u)
             /\ stockWeek'[u] <= reward_week(time)'
  BY <1>1, <1>3, LaterStock, Zenon
<1>9. ASSUME NEW j \in Intents, Held(j)' PROVE Stock(Owner[j])' < REWARD_STOCK_LIMIT
  <2>1. Stock(Owner[j]) < REWARD_STOCK_LIMIT /\ Owner[j] \in Owners
    BY <1>1, <1>7, <1>9, RewardsAssumption, Zenon DEF SlotsOK
  <2>2. Stock(Owner[j]) \in Nat /\ Stock(Owner[j])' \in Nat /\ Stock(Owner[j])' <= Stock(Owner[j])
    BY <2>1, <1>8, Zenon
  <2> QED BY <2>1, <2>2, RewardsAssumption
<1>10. ASSUME NEW j \in Intents, NEW k \in Intents, Held(j)', Held(k)', Owner[j] = Owner[k]
       PROVE  j = k
  BY <1>7, <1>10, Zenon DEF SlotsOK
<1>11. SlotsOK'
  BY <1>8, <1>9, <1>10, Zenon DEF SlotsOK
<1> QED BY <1>5, <1>6, <1>11, Zenon

LEMMA CompleteIntent ==
    ASSUME RewardsOK, NEW c \in callbacks, complete_on(c) PROVE RewardsOK'
<1> USE DEF RewardsOK
<1>1. c \in [intent : Intents, transaction : Transactions, event : Nat]
  BY Zenon DEF RewardTypes
<1>2. PICK i \in Intents, x \in Transactions, event \in Nat :
        i = c.intent /\ x = c.transaction /\ event = c.event
  BY <1>1
<1>3. /\ state[i] = "pending" /\ event <= deadline[i] /\ time <= deadline[i] + GRACE
      /\ \A j \in Intents : transaction[j] # x
      /\ state' = [state EXCEPT ![i] = "completed"]
      /\ transaction' = [transaction EXCEPT ![i] = x]
      /\ UNCHANGED <<created, deadline, callbacks, time>>
  BY <1>2, Zenon DEF complete_on, Accepted, Unused
<1>4. /\ state' \in [Intents -> IntentStates] /\ state'[i] = "completed"
      /\ transaction' \in [Intents -> Transactions \cup {NoTransaction}] /\ transaction'[i] = x
      /\ \A j \in Intents : j # i => state'[j] = state[j] /\ transaction'[j] = transaction[j]
  <2>1. "completed" \in IntentStates
    BY DEF IntentStates
  <2> QED BY <2>1, <1>3, Zenon DEF RewardTypes
<1>5. x # NoTransaction /\ transaction[i] = NoTransaction /\ i \notin credited
  BY <1>3, RewardsAssumption DEF PaymentsOK
<1>6. ASSUME NEW j \in Intents, Held(j)' PROVE Held(j) /\ j # i
  <2>1. j # i
    BY <1>4, <1>6 DEF Held
  <2> QED BY <2>1, <1>3, <1>4, <1>6, Zenon DEF Held, reward_week
<1>7. CASE ~CurrentWeek(c)
  <2>1. UNCHANGED <<stock, stockWeek, credited, paid>>
    BY <1>7, Zenon DEF complete_on
  <2>2. RewardTypes'
    BY <1>3, <1>4, <2>1, Zenon DEF RewardTypes
  <2>3. SlotsOK'
    BY <1>3, <1>6, <2>1, Zenon DEF SlotsOK, Stock, reward_week
  <2>4. ASSUME NEW y \in Transactions PROVE CreditedFor(y)' = CreditedFor(y)
    BY <1>4, <1>5, <2>1, Zenon DEF CreditedFor, RewardTypes
  <2>5. \A y \in Transactions : \/ CreditedFor(y)' = {} /\ paid'[y] = 0
                                \/ \E j \in Intents : CreditedFor(y)' = {j} /\ paid'[y] = 1
    BY <2>1, <2>4, Zenon DEF PaymentsOK
  <2>6. \A j \in credited' : state'[j] = "completed"
    BY <1>4, <2>1, Zenon DEF PaymentsOK, RewardTypes
  <2>7. \A j \in Intents : transaction'[j] # NoTransaction => state'[j] = "completed"
    BY <1>4, Zenon DEF PaymentsOK
  <2>8. ASSUME NEW j \in Intents, NEW k \in Intents,
               transaction'[j] = transaction'[k], transaction'[j] # NoTransaction
        PROVE  j = k
    <3>1. CASE j = i
      BY <1>3, <1>4, <2>8, <3>1, Zenon
    <3>2. CASE k = i
      BY <1>3, <1>4, <2>8, <3>2, Zenon
    <3>3. CASE j # i /\ k # i
      <4>1. transaction'[j] = transaction[j] /\ transaction'[k] = transaction[k]
        BY <1>4, <3>3, Zenon
      <4> QED BY <4>1, <2>8, Zenon DEF PaymentsOK
    <3> QED BY <3>1, <3>2, <3>3, Zenon
  <2>9. paid' = [y \in Transactions |-> paid'[y]]
    BY <2>1, Zenon DEF PaymentsOK
  <2> QED BY <2>2, <2>3, <2>5, <2>6, <2>7, <2>8, <2>9, Zenon DEF PaymentsOK
<1>8. CASE CurrentWeek(c)
  <2> DEFINE u == Owner[i]
  <2>1. /\ grant_credit(u) /\ credited' = credited \cup {i}
        /\ paid' = [paid EXCEPT ![x] = paid[x] + 1] /\ reward_week(event) = reward_week(time)
    BY <1>2, <1>8, Zenon DEF complete_on, CurrentWeek
  <2>2. /\ u \in Owners /\ stock[u] \in Nat /\ stockWeek[u] \in Nat /\ deadline[i] \in Nat
        /\ time \in Nat
    BY RewardsAssumption, Zenon DEF RewardTypes
  <2>3. Held(i)
    <3>1. reward_week(event) <= reward_week(deadline[i])
      BY <1>3, <2>2, RewardWeek, Zenon
    <3> QED BY <1>3, <2>1, <3>1, Zenon DEF Held
  <2>4. PICK n \in Nat : stock' = [stock EXCEPT ![u] = n]
    <3>1. (IF stockWeek[u] = reward_week(time) THEN stock[u] + 1 ELSE 1) \in Nat
      BY <2>2
    <3> QED BY <2>1, <3>1, Zenon DEF grant_credit
  <2>5. reward_week(time) \in Nat /\ stockWeek' = [stockWeek EXCEPT ![u] = reward_week(time)]
    <3>1. time <= time
      BY <2>2
    <3>2. reward_week(time) \in Nat
      BY <2>2, <3>1, RewardWeek, Zenon
    <3> QED BY <2>1, <3>2, Zenon DEF grant_credit
  <2>6. /\ stock' \in [Owners -> Nat] /\ stockWeek' \in [Owners -> Nat]
        /\ stockWeek'[u] = reward_week(time)
        /\ \A w \in Owners : w # u => stock'[w] = stock[w] /\ stockWeek'[w] = stockWeek[w]
    BY <2>2, <2>4, <2>5, Zenon DEF RewardTypes
  <2>7. RewardTypes'
    BY <1>3, <1>4, <2>1, <2>6, Zenon DEF RewardTypes
  <2>8. reward_week(time)' = reward_week(time)
    BY <1>3, Zenon DEF reward_week
  <2>9. ASSUME NEW w \in Owners PROVE stockWeek'[w] <= reward_week(time)'
    BY <2>5, <2>6, <2>8 DEF SlotsOK
  <2>10. ASSUME NEW j \in Intents, Held(j)' PROVE Stock(Owner[j])' < REWARD_STOCK_LIMIT
    <3>1. Held(j) /\ Owner[j] # u /\ Owner[j] \in Owners
      BY <1>6, <2>3, <2>10, RewardsAssumption, Zenon DEF SlotsOK
    <3>2. Stock(Owner[j])' = Stock(Owner[j])
      BY <3>1, <2>6, <2>8, Zenon DEF Stock
    <3> QED BY <3>1, <3>2, Zenon DEF SlotsOK
  <2>11. SlotsOK'
    BY <1>6, <2>9, <2>10, Zenon DEF SlotsOK
  <2>12. /\ CreditedFor(x)' = {i} /\ CreditedFor(x) = {}
         /\ \A y \in Transactions : y # x => CreditedFor(y)' = CreditedFor(y)
    <3>1. credited \subseteq Intents /\ credited' \subseteq Intents
      BY <2>7, Zenon DEF RewardTypes
    <3>2. CreditedFor(x) = {}
      BY <1>3, <3>1, Zenon DEF CreditedFor
    <3>3. ASSUME NEW j \in credited', transaction'[j] = x PROVE j = i
      BY <1>3, <1>4, <3>1, <3>3, Zenon
    <3>4. CreditedFor(x)' = {i}
      BY <1>4, <2>1, <3>3, Zenon DEF CreditedFor
    <3>5. ASSUME NEW y \in Transactions, y # x PROVE CreditedFor(y)' = CreditedFor(y)
      <4>1. ASSUME NEW j \in CreditedFor(y)' PROVE j \in CreditedFor(y)
        <5>1. j \in credited' /\ transaction'[j] = y
          BY <4>1, Zenon DEF CreditedFor
        <5>2. j # i
          BY <1>4, <3>5, <5>1, Zenon
        <5>3. j \in credited /\ transaction'[j] = transaction[j]
          BY <1>4, <2>1, <3>1, <5>1, <5>2, Zenon
        <5> QED BY <5>1, <5>3, Zenon DEF CreditedFor
      <4>2. ASSUME NEW j \in CreditedFor(y) PROVE j \in CreditedFor(y)'
        <5>1. j \in credited /\ transaction[j] = y /\ j # i
          BY <1>5, <4>2, Zenon DEF CreditedFor
        <5>2. j \in credited' /\ transaction'[j] = transaction[j]
          BY <1>4, <2>1, <3>1, <5>1, Zenon
        <5> QED BY <5>1, <5>2, Zenon DEF CreditedFor
      <4> QED BY <4>1, <4>2, Zenon
    <3> QED BY <3>2, <3>4, <3>5, Zenon
  <2>13. paid[x] = 0
    BY <2>12, Zenon DEF PaymentsOK
  <2>14. /\ paid'[x] = 1 /\ paid' = [y \in Transactions |-> paid'[y]]
         /\ \A y \in Transactions : y # x => paid'[y] = paid[y]
    <3>1. paid' = [paid EXCEPT ![x] = 1]
      <4>1. paid[x] + 1 = 1
        BY <2>13
      <4> QED BY <2>1, <4>1, Zenon
    <3> QED BY <3>1, Zenon DEF PaymentsOK
  <2>15. \A y \in Transactions : \/ CreditedFor(y)' = {} /\ paid'[y] = 0
                                 \/ \E j \in Intents : CreditedFor(y)' = {j} /\ paid'[y] = 1
    <3> SUFFICES ASSUME NEW y \in Transactions
                 PROVE  \/ CreditedFor(y)' = {} /\ paid'[y] = 0
                        \/ \E j \in Intents : CreditedFor(y)' = {j} /\ paid'[y] = 1
      BY Zenon
    <3>1. CASE y = x
      BY <2>12, <2>14, <3>1, Zenon
    <3>2. CASE y # x
      <4>1. CreditedFor(y)' = CreditedFor(y) /\ paid'[y] = paid[y]
        BY <2>12, <2>14, <3>2, Zenon
      <4>2. \/ CreditedFor(y) = {} /\ paid[y] = 0
            \/ \E j \in Intents : CreditedFor(y) = {j} /\ paid[y] = 1
        BY Zenon DEF PaymentsOK
      <4> HIDE DEF CreditedFor
      <4> QED BY <4>1, <4>2, Zenon
    <3> QED BY <3>1, <3>2, Zenon
  <2>16. \A j \in credited' : state'[j] = "completed"
    BY <1>4, <2>1, Zenon DEF PaymentsOK, RewardTypes
  <2>17. \A j \in Intents : transaction'[j] # NoTransaction => state'[j] = "completed"
    BY <1>4, Zenon DEF PaymentsOK
  <2>18. ASSUME NEW j \in Intents, NEW k \in Intents,
                transaction'[j] = transaction'[k], transaction'[j] # NoTransaction
         PROVE  j = k
    <3>1. CASE j = i
      BY <1>3, <1>4, <2>18, <3>1, Zenon
    <3>2. CASE k = i
      BY <1>3, <1>4, <2>18, <3>2, Zenon
    <3>3. CASE j # i /\ k # i
      <4>1. transaction'[j] = transaction[j] /\ transaction'[k] = transaction[k]
        BY <1>4, <3>3, Zenon
      <4> QED BY <4>1, <2>18, Zenon DEF PaymentsOK
    <3> QED BY <3>1, <3>2, <3>3, Zenon
  <2>19. PaymentsOK'
    BY <2>14, <2>15, <2>16, <2>17, <2>18, Zenon DEF PaymentsOK
  <2> QED BY <2>7, <2>11, <2>19, Zenon
<1> QED BY <1>7, <1>8, Zenon

LEMMA DebitStock ==
    ASSUME RewardsOK, NEW u \in Owners, debit(u) PROVE RewardsOK'
<1> USE DEF RewardsOK
<1>1. /\ Stock(u) > 0 /\ stock' = [stock EXCEPT ![u] = stock[u] - 1]
      /\ UNCHANGED <<created, deadline, state, transaction, credited, stockWeek, callbacks, paid, time>>
  BY Zenon DEF debit, rowVars
<1>2. stock[u] \in Nat /\ stock[u] > 0
  BY <1>1 DEF RewardTypes, Stock
<1>3. PICK n \in Nat : n = stock[u] - 1 /\ n < stock[u]
  BY <1>2
<1>4. /\ stock' \in [Owners -> Nat] /\ stock'[u] = n
      /\ \A w \in Owners : w # u => stock'[w] = stock[w]
  BY <1>1, <1>3, Zenon DEF RewardTypes
<1>5. RewardTypes'
  BY <1>1, <1>4, Zenon DEF RewardTypes
<1>6. ASSUME NEW i \in Intents PROVE Held(i)' <=> Held(i)
  BY <1>1, Zenon DEF Held, reward_week
<1>7. ASSUME NEW i \in Intents, Held(i) PROVE Stock(Owner[i])' < REWARD_STOCK_LIMIT
  <2>1. Stock(Owner[i]) < REWARD_STOCK_LIMIT /\ Owner[i] \in Owners
    BY <1>7, RewardsAssumption, Zenon DEF SlotsOK
  <2>2. CASE Owner[i] # u
    <3>1. Stock(Owner[i])' = Stock(Owner[i])
      BY <2>1, <2>2, <1>1, <1>4, Zenon DEF Stock, reward_week
    <3> QED BY <2>1, <3>1, Zenon
  <2>3. CASE Owner[i] = u
    <3>1. Stock(u) = stock[u] /\ (Stock(u)' = stock'[u] \/ Stock(u)' = 0)
      <4>1. stockWeek[u] = reward_week(time)
        BY <1>1 DEF Stock
      <4> QED BY <4>1, Zenon DEF Stock
    <3> QED BY <3>1, <2>1, <2>3, <1>2, <1>3, <1>4, RewardsAssumption
  <2> QED BY <2>2, <2>3, Zenon
<1>8. SlotsOK'
  BY <1>1, <1>6, <1>7, Zenon DEF SlotsOK, reward_week
<1>9. PaymentsOK'
  BY <1>1, PaymentsKept, Zenon DEF RewardTypes
<1> QED BY <1>5, <1>8, <1>9, Zenon

LEMMA RewardStep ==
    ASSUME RewardsOK, [RewardNext]_rewardVars PROVE RewardsOK'
<1> USE DEF RewardsOK
<1>1. ASSUME UNCHANGED <<deadline, transaction, credited, stock, stockWeek, paid>>,
             time' \in Nat, time <= time', state' \in [Intents -> IntentStates],
             callbacks' \subseteq [intent : Intents, transaction : Transactions, event : Nat],
             \A i \in Intents : state'[i] = state[i] \/ (state'[i] = "cancelled" /\ state[i] = "pending")
      PROVE  RewardsOK'
  <2>1. RewardTypes'
    BY <1>1, Zenon DEF RewardTypes
  <2>2. SlotsOK'
    <3>1. \A i \in Intents : state'[i] = "pending" => state[i] = "pending" /\ deadline'[i] = deadline[i]
      BY <1>1
    <3> QED BY <1>1, <3>1, SlotsKept, Zenon
  <2>3. PaymentsOK'
    <3>1. \A i \in Intents : state[i] = "completed" => state'[i] = "completed"
      BY <1>1
    <3> QED BY <1>1, <3>1, PaymentsKept, Zenon DEF RewardTypes
  <2> QED BY <2>1, <2>2, <2>3, Zenon
<1>2. time \in Nat /\ time <= time
  BY DEF RewardTypes
<1>3. ASSUME NEW i \in Intents, create_intent(i) PROVE RewardsOK'
  BY <1>3, CreateIntent, Zenon DEF create_intent
<1>4. ASSUME NEW i \in Intents, cancel(i) PROVE RewardsOK'
  <2>1. /\ state[i] = "pending" /\ state' = [state EXCEPT ![i] = "cancelled"]
        /\ UNCHANGED <<deadline, transaction, credited, stock, stockWeek, paid, callbacks, time>>
    BY <1>4, Zenon DEF cancel, cancel_on
  <2>2. "cancelled" \in IntentStates
    BY DEF IntentStates
  <2>3. /\ state' \in [Intents -> IntentStates] /\ state'[i] = "cancelled"
        /\ \A j \in Intents : j # i => state'[j] = state[j]
    BY <2>1, <2>2, Zenon DEF RewardTypes
  <2> QED BY <1>1, <1>2, <2>1, <2>3, Zenon DEF RewardTypes
<1>5. ASSUME NEW c \in callbacks, webhook(c) PROVE RewardsOK'
  BY <1>5, CompleteIntent, Zenon DEF webhook, complete_verified_callback
<1>6. ASSUME NEW i \in Intents, NEW x \in Transactions, NEW event \in 0..(RewardClock + SKEW),
             watched(i, x, event)
      PROVE  RewardsOK'
  <2>1. event \in Nat
    BY RewardsAssumption
  <2>2. [intent |-> i, transaction |-> x, event |-> event]
           \in [intent : Intents, transaction : Transactions, event : Nat]
    BY <2>1
  <2>3. callbacks' \subseteq [intent : Intents, transaction : Transactions, event : Nat]
        /\ UNCHANGED <<deadline, state, transaction, credited, stock, stockWeek, paid, time>>
    BY <1>6, <2>2, Zenon DEF watched, rowVars, RewardTypes
  <2> QED BY <1>1, <1>2, <2>3, Zenon DEF RewardTypes
<1>7. ASSUME NEW u \in Owners, debit(u) PROVE RewardsOK'
  BY <1>7, DebitStock, Zenon
<1>8. ASSUME NEW u \in Owners, change_plan(u) PROVE RewardsOK'
  BY <1>1, <1>2, <1>8, Zenon DEF change_plan, rowVars, RewardTypes
<1>9. CASE reward_tick
  <2>1. time' \in Nat /\ time <= time'
    BY <1>2, <1>9 DEF reward_tick
  <2> QED BY <1>1, <1>9, <2>1, Zenon DEF reward_tick, rowVars, RewardTypes
<1>10. CASE UNCHANGED rewardVars
  BY <1>1, <1>2, <1>10, Zenon DEF rewardVars, rowVars, RewardTypes
<1> QED BY <1>3, <1>4, <1>5, <1>6, <1>7, <1>8, <1>9, <1>10, Zenon DEF RewardNext

\* A transaction and an intent pay one credit at most, however often, late and
\* for whichever intents the provider delivers the proof, and an advertisement
\* that may still be credited finds room in the wallet (advertising/pg.rs,
\* complete_on, create_on): for any number of users, intents and callbacks, any
\* length of the week and any horizon.
THEOREM RewardsArePaidOnce == RewardSpec => []RewardsHold
<1>1. RewardInit => RewardsOK
  <2> SUFFICES ASSUME RewardInit PROVE RewardsOK
    BY Zenon
  <2>1. RewardTypes
    BY DEF RewardInit, RewardTypes, IntentStates
  <2>2. SlotsOK
    <3>1. reward_week(time) \in Nat
      BY RewardWeek DEF RewardInit
    <3>2. \A u \in Owners : stockWeek[u] <= reward_week(time)
      BY <3>1 DEF RewardInit
    <3>3. \A i \in Intents : ~Held(i)
      BY DEF RewardInit, Held
    <3> QED BY <3>2, <3>3, Zenon DEF SlotsOK
  <2>3. PaymentsOK
    <3>1. \A x \in Transactions : CreditedFor(x) = {} /\ paid[x] = 0
      BY Zenon DEF RewardInit, CreditedFor
    <3> QED BY <3>1, Zenon DEF RewardInit, PaymentsOK
  <2> QED BY <2>1, <2>2, <2>3, Zenon DEF RewardsOK
<1>2. RewardsOK /\ [RewardNext]_rewardVars => RewardsOK'
  BY RewardStep, Zenon
<1>3. RewardsOK => RewardsHold
  <2> SUFFICES ASSUME RewardsOK PROVE RewardsHold
    BY Zenon
  <2>1. ASSUME NEW x \in Transactions
        PROVE  paid[x] = Cardinality({i \in credited : transaction[i] = x}) /\ paid[x] <= 1
    <3>1. CASE CreditedFor(x) = {} /\ paid[x] = 0
      BY <3>1, FS_EmptySet DEF CreditedFor
    <3>2. ASSUME NEW i \in Intents, CreditedFor(x) = {i}, paid[x] = 1
          PROVE  paid[x] = Cardinality({j \in credited : transaction[j] = x}) /\ paid[x] <= 1
      <4>1. Cardinality(CreditedFor(x)) = 1
        BY <3>2, FS_Singleton, ZenonT(90)
      <4> QED BY <3>2, <4>1 DEF CreditedFor
    <3> QED BY <3>1, <3>2, Zenon DEF RewardsOK, PaymentsOK
  <2>2. ASSUME NEW i \in Intents, NEW event \in 0..(RewardClock + SKEW), Creditable(i, event)
        PROVE  Stock(Owner[i]) < REWARD_STOCK_LIMIT
    <3> DEFINE c == [intent |-> i, transaction |-> NoTransaction, event |-> event]
    <3>1. c.intent = i /\ c.event = event
      BY Zenon
    <3>2. /\ state[i] = "pending" /\ event <= deadline[i] /\ time <= deadline[i] + GRACE
          /\ reward_week(event) = reward_week(time)
      BY <2>2, <3>1 DEF Creditable, Accepted
    <3>3. event \in Nat /\ deadline[i] \in Nat
      BY RewardsAssumption DEF RewardsOK, RewardTypes
    <3>4. reward_week(event) <= reward_week(deadline[i])
      BY <3>2, <3>3, RewardWeek, Zenon
    <3>5. Held(i)
      BY <3>2, <3>4, Zenon DEF Held
    <3> QED BY <3>5, Zenon DEF RewardsOK, SlotsOK
  <2> QED BY <2>1, <2>2, Zenon DEF RewardsHold, PaidOnce, RewardHasRoom, RewardsOK, PaymentsOK
<1> QED BY <1>1, <1>2, <1>3, PTL DEF RewardSpec
=============================================================================
