--------------------------- MODULE StorePurchases ---------------------------
(***************************************************************************)
(* Purchases made in the app stores (billing/stores/).  The store is the   *)
(* authority: every path (a member's request, a store notification, the    *)
(* periodic reconciliation) asks it for the state of a purchase and writes *)
(* what it answers.  A verification notes the database time first, asks    *)
(* the store second and writes third, and several run at once.             *)
(*                                                                         *)
(* Time is counted in changes of the store's state: a snapshot taken at    *)
(* time t holds the state numbered t.  The outbox that carries the work    *)
(* is reduced to what its own module shows: an event that fails returns    *)
(* to pending or becomes a dead letter, and one whose lease ran out may be *)
(* worked twice.                                                           *)
(***************************************************************************)
EXTENDS Naturals, FiniteSets

CONSTANTS Purchases,    \* purchases at the store
          Replaced,     \* the purchase each one replaces, or NoPurchase
          Verifiers,    \* verifications in flight
          MaxTime,      \* bound on the changes of the store's state
          MaxRuns,      \* bound on the verifications begun
          NoPurchase

ASSUME PurchaseAssumption ==
    NoPurchase \notin Purchases /\ Replaced \in [Purchases -> Purchases \cup {NoPurchase}]

VARIABLES
    now,        \* time
    needsAck,   \* purchases the store wants acknowledged
    account,    \* the account: "live", "deleted" or "purged"
    bound,      \* billing_store_account: the account has its store identity
    row,        \* billing_store_subscription
    notice,     \* billing_store_notification: unprocessed references
    acknowledge,\* outbox status of billing.store.acknowledge, by purchase
    reconcile,  \* outbox status of billing.store.reconcile, by purchase
    verifier,   \* the verifications in flight
    acker,      \* purchases whose acknowledgement a worker has just sent
    ended,      \* [purchase -> newest start of a verification that succeeded]
    runs

external == <<now, needsAck>>
queues == <<notice, acknowledge, reconcile, acker>>
storeVars == <<external, account, bound, row, queues, verifier, ended, runs>>

NoRow == [owned |-> FALSE, state |-> 0, verified |-> 0, superseded |-> FALSE,
          acknowledged |-> TRUE, present |-> FALSE]
Idle == [pc |-> "idle", of |-> NoPurchase, kind |-> "none", observed |-> 0, state |-> 0,
         ack |-> FALSE]

-----------------------------------------------------------------------------
(* The store.                                                              *)
StoreChanges ==
    /\ now < MaxTime /\ now' = now + 1
    /\ UNCHANGED <<needsAck, account, bound, row, queues, verifier, ended, runs>>

(* Before buying, the app asks for the identity the purchase is bound to;  *)
(* a subscription that is not over refuses another.  The last state of the *)
(* store is the end of the subscription.                                   *)
purchase_allowed ==
    \A p \in Purchases : row[p].owned => row[p].superseded \/ row[p].state = MaxTime

upsert_account == account = "live" /\ bound' = TRUE

intent ==
    /\ purchase_allowed /\ upsert_account
    /\ UNCHANGED <<external, account, row, queues, verifier, ended, runs>>

request_intent == account = "live" /\ ~ bound /\ intent

(* It tells of a change, possibly more than once: the event id is unique.  *)
receive(p) ==
    /\ notice' = notice \cup {p}
    /\ UNCHANGED <<external, account, bound, row, acknowledge, reconcile, acker, verifier, ended, runs>>

notification(p) == p \notin notice /\ bound /\ receive(p)

store_notification(p) == notification(p)

-----------------------------------------------------------------------------
(* Verification.                                                           *)
observed_at(v, p, kind) ==
    /\ verifier[v].pc = "idle" /\ runs < MaxRuns /\ runs' = runs + 1
    /\ verifier' = [verifier EXCEPT ![v] =
            [Idle EXCEPT !.pc = "call", !.of = p, !.kind = kind, !.observed = now]]
    /\ UNCHANGED <<external, account, bound, row, acknowledge, notice, acker, ended>>

(* A member's request; the references of a notification and of a           *)
(* reconciliation are read first and must still be there.                  *)
verify(v, p) == account = "live" /\ bound /\ observed_at(v, p, "request") /\ UNCHANGED reconcile

process_notification(v, p) ==
    p \in notice /\ observed_at(v, p, "notification") /\ UNCHANGED reconcile

process_reconcile(v, p) ==
    /\ reconcile[p] = "pending" /\ row[p].owned
    /\ reconcile' = [reconcile EXCEPT ![p] = "processing"]
    /\ observed_at(v, p, "reconcile")

(* The store answers with its state of this moment, or not at all.         *)
gateway_verify(v) ==
    /\ verifier[v].pc = "call"
    /\ verifier' = [verifier EXCEPT ![v].pc = "apply", ![v].state = now,
                                    ![v].ack = (verifier[v].of \in needsAck)]
    /\ UNCHANGED <<external, account, bound, row, queues, ended, runs>>

\* Mutant: the row is stamped when it is written, not when the call began.
Observed_AtWrite(v) == now

Observed(v) == verifier[v].observed

(* OWNER_SQL and LOCK_OWNER_SQL: the account the purchase is bound to.     *)
Owner == account = "live" /\ bound

enqueue(status) == IF status \in {"none", "completed"} THEN "pending" ELSE status

(* APPLY_SUBSCRIPTION_SQL: not over a newer observation, nor a superseded  *)
(* row, nor a row of nobody.                                               *)
Writable(v, p) ==
    ~ row[p].present \/ (row[p].owned /\ row[p].verified <= Observed(v) /\ ~ row[p].superseded)

Applied(v, p) ==
    [present |-> TRUE, owned |-> TRUE, state |-> verifier[v].state,
     verified |-> Observed(v), superseded |-> FALSE,
     acknowledged |-> (row[p].present /\ row[p].acknowledged) \/ ~ verifier[v].ack]

(* SUPERSEDE_LINKED_SQL: the purchase this one replaces ends.              *)
Supersedes(v, p, q) ==
    /\ Replaced[p] = q /\ row[q].present /\ row[q].owned /\ row[q].verified <= Observed(v)

apply_snapshot(v, p) ==
    /\ row' = [q \in Purchases |->
            IF q = p THEN Applied(v, p)
            ELSE IF Supersedes(v, p, q)
                 THEN [row[q] EXCEPT !.superseded = TRUE, !.verified = Observed(v)]
            ELSE row[q]]
    /\ acknowledge' = IF verifier[v].ack
                      THEN [acknowledge EXCEPT ![p] = enqueue(@)] ELSE acknowledge

(* What the run leaves of its event: complete_notification, Completed; or  *)
(* the process stops first and the event is worked again.                  *)
complete(v, p) ==
    /\ notice' = IF verifier[v].kind = "notification" THEN notice \ {p} ELSE notice
    /\ reconcile' = IF verifier[v].kind = "reconcile"
                    THEN [reconcile EXCEPT ![p] = "completed"] ELSE reconcile

stop(v, p) ==
    /\ reconcile' = IF verifier[v].kind = "reconcile"
                    THEN [reconcile EXCEPT ![p] = "pending"] ELSE reconcile
    /\ UNCHANGED notice

apply(v) ==
    LET p == verifier[v].of IN
    /\ verifier[v].pc = "apply" /\ Owner
    /\ ~ row[p].present \/ row[p].owned
    /\ IF Writable(v, p) THEN apply_snapshot(v, p) ELSE UNCHANGED <<row, acknowledge>>
    /\ complete(v, p) \/ stop(v, p)
    /\ ended' = [ended EXCEPT ![p] = IF verifier[v].observed > @ THEN verifier[v].observed ELSE @]
    /\ verifier' = [verifier EXCEPT ![v] = Idle]
    /\ UNCHANGED <<external, account, bound, acker, runs>>

(* The run fails: the store is unavailable (retried), or its answer is not *)
(* one of this application's or the account is gone (a dead letter).       *)
handle(v) ==
    LET p == verifier[v].of
    IN \E permanent \in BOOLEAN :
    /\ verifier[v].pc = "call" \/ (permanent /\ verifier[v].pc = "apply" /\ ~ Owner)
    /\ reconcile' = IF verifier[v].kind # "reconcile" THEN reconcile
                    ELSE [reconcile EXCEPT ![p] = IF permanent THEN "dead_letter" ELSE "pending"]
    /\ notice' = IF permanent /\ verifier[v].kind = "notification" THEN notice \ {p} ELSE notice
    /\ verifier' = [verifier EXCEPT ![v] = Idle]
    /\ UNCHANGED <<external, account, bound, row, acknowledge, acker, ended, runs>>

-----------------------------------------------------------------------------
(* Acknowledgement: the store first, the row second, the event third.      *)
gateway_acknowledge(p) ==
    /\ acknowledge[p] \in {"pending", "processing"} /\ row[p].owned
    /\ acknowledge' = [acknowledge EXCEPT ![p] = "processing"]
    /\ needsAck' = needsAck \ {p}
    /\ acker' = acker \cup {p}
    /\ UNCHANGED <<now, account, bound, row, notice, reconcile, verifier, ended, runs>>

(* The answer was lost, or the worker with it: the event is tried again,   *)
(* or has been too often.                                                  *)
\* Mutant: a failed acknowledgement counts as done.
acknowledge_fails_Done(p) ==
    /\ p \in acker /\ acker' = acker \ {p}
    /\ acknowledge' = [acknowledge EXCEPT ![p] = "completed"]
    /\ UNCHANGED <<external, account, bound, row, notice, reconcile, verifier, ended, runs>>

acknowledge_fails(p) ==
    /\ p \in acker /\ acker' = acker \ {p}
    /\ \E s \in {"pending", "dead_letter"} :
            acknowledge' = [acknowledge EXCEPT ![p] = s]
    /\ UNCHANGED <<external, account, bound, row, notice, reconcile, verifier, ended, runs>>

acknowledged(p) ==
    /\ p \in acker /\ acker' = acker \ {p}
    /\ row' = [row EXCEPT ![p].acknowledged = TRUE]
    /\ acknowledge' = [acknowledge EXCEPT ![p] = "completed"]
    /\ UNCHANGED <<external, account, bound, notice, reconcile, verifier, ended, runs>>

(* No reference left: the purge detached the row; nothing is owed.         *)
process_nothing(p) ==
    /\ ~ row[p].owned /\ p \notin acker
    /\ \/ /\ acknowledge[p] = "pending" /\ UNCHANGED reconcile
          /\ acknowledge' = [acknowledge EXCEPT ![p] = "completed"]
       \/ /\ reconcile[p] = "pending" /\ UNCHANGED acknowledge
          /\ reconcile' = [reconcile EXCEPT ![p] = "completed"]
    /\ UNCHANGED <<external, account, bound, row, notice, acker, verifier, ended, runs>>

-----------------------------------------------------------------------------
(* Every six hours; what is superseded or detached is left alone.          *)
schedule ==
    /\ reconcile' = [p \in Purchases |->
            IF row[p].owned /\ ~ row[p].superseded THEN enqueue(reconcile[p]) ELSE reconcile[p]]
    /\ UNCHANGED <<external, account, bound, row, notice, acknowledge, acker, verifier, ended, runs>>

AccountDeleted ==
    /\ account = "live" /\ account' = "deleted"
    /\ UNCHANGED <<external, bound, row, queues, verifier, ended, runs>>

(* The purge of the account sets the rows' user_id to null.                *)
AccountPurged ==
    /\ account = "deleted" /\ account' = "purged"
    /\ bound' = FALSE
    /\ row' = [p \in Purchases |-> [row[p] EXCEPT !.owned = FALSE]]
    /\ UNCHANGED <<external, queues, verifier, ended, runs>>

StoreInit ==
    /\ now = 1 /\ needsAck = Purchases /\ account = "live" /\ bound = FALSE
    /\ row = [p \in Purchases |-> NoRow]
    /\ notice = {} /\ acker = {}
    /\ acknowledge = [p \in Purchases |-> "none"]
    /\ reconcile = [p \in Purchases |-> "none"]
    /\ verifier = [v \in Verifiers |-> Idle]
    /\ ended = [p \in Purchases |-> 0]
    /\ runs = 0

Verify(v) ==
    \/ \E p \in Purchases : verify(v, p) \/ process_notification(v, p) \/ process_reconcile(v, p)
    \/ gateway_verify(v) \/ apply(v) \/ handle(v)

StoreNext ==
    \/ \E v \in Verifiers : Verify(v)
    \/ \E p \in Purchases : \/ store_notification(p) \/ gateway_acknowledge(p)
                            \/ acknowledge_fails(p) \/ acknowledged(p) \/ process_nothing(p)
    \/ request_intent \/ schedule \/ StoreChanges \/ AccountDeleted \/ AccountPurged

StoreSpec == StoreInit /\ [][StoreNext]_storeVars

-----------------------------------------------------------------------------
(* When a verification has succeeded, the row holds a state the store had  *)
(* when the verification began or later, unless another purchase replaced  *)
(* it: a slow run never writes over the answer of one begun after it       *)
(* (observed_at before the call, verified_at <= in APPLY_SUBSCRIPTION_SQL).*)
VerifiedIsCurrent ==
    \A p \in Purchases : row[p].present /\ ~ row[p].superseded => row[p].state >= ended[p]

(* A purchase the store wants acknowledged and that no acknowledgement was *)
(* recorded for has an event that owes it, whatever order the              *)
(* verifications and the acknowledgement end in.                           *)
AcknowledgementOwed ==
    \A p \in Purchases : row[p].owned /\ ~ row[p].acknowledged =>
        acknowledge[p] \in {"pending", "processing", "dead_letter"}

\* A slow verification never writes over the answer of one begun after it, and
\* a purchase the store wants acknowledged has an event that owes it
\* (billing/stores/pg.rs, apply_subscription, acknowledge).
PurchasesHold == VerifiedIsCurrent /\ AcknowledgementOwed
=============================================================================
