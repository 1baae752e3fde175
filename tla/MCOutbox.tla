------------------------------ MODULE MCOutbox ------------------------------
(***************************************************************************)
(* What runs beside the requests: the outbox with its workers, the         *)
(* maintenance passes, and the copy of the subscription that webhooks and  *)
(* reconciliations keep.  They share no state, so a behaviour follows one  *)
(* of them and the others stay where they started.  The outbox is followed *)
(* for each set of Casts, an event of every kind of request between them.  *)
(***************************************************************************)
EXTENDS Outbox, Jobs

CONSTANTS
    photo, erase, bill, store,
    Subs, Handlers, MaxEvents

MCTypeOf == [e \in Events |->
    CASE e = photo -> "photo.delete"
      [] e = erase -> "account.erase"
      [] e = bill  -> "billing.reconcile"
      [] e = store -> "billing.store"]

Casts == {{photo, bill}, {photo, store}, {erase}}

ASSUME SubsAssumption ==
    Subs \subseteq Nat \ {0} /\ Subs # {} /\ MaxTime \in Nat /\ MaxEvents \in Nat

VARIABLES
    focus, cast,
    now, truth, invoiced, changes, events, recorded, copy, invoice, handler, reconciliation

Subscriptions == INSTANCE Subscriptions
    WITH bill <- invoiced, row <- copy, job <- reconciliation

subscriptionVars == <<now, truth, invoiced, changes, events, recorded, copy, invoice, handler,
                      reconciliation>>
allVars == <<focus, cast, vars, jobVars, subscriptionVars>>

\* The outbox that is not followed has its workers up and nothing to do.
OutboxRests ==
    /\ status = [e \in Events |-> "absent"] /\ attempts = [e \in Events |-> 0]
    /\ lockedBy = [e \in Events |-> NoWorker] /\ elapsed = {}
    /\ process = [w \in Workers |-> "up"] /\ task = [p \in Workers \X Events |-> "none"]
    /\ owed = {} /\ current = {} /\ faults = 0 /\ requests = 0

MCInit ==
    /\ JobInit
    /\ \/ focus = "outbox" /\ Init /\ cast \in Casts
       \/ focus \in {"jobs", "subscriptions"} /\ OutboxRests /\ cast = {}
    /\ focus # "jobs" => job = "photos"
    /\ Subscriptions!Init

MCNext ==
    /\ UNCHANGED <<focus, cast>>
    /\ \/ /\ focus = "outbox" /\ Next /\ owed' \subseteq cast
          /\ UNCHANGED <<jobVars, subscriptionVars>>
       \/ focus = "jobs" /\ JobNext /\ UNCHANGED <<vars, subscriptionVars>>
       \/ focus = "subscriptions" /\ Subscriptions!Next /\ UNCHANGED <<vars, jobVars>>

Reconciling == focus = "subscriptions" /\ UNCHANGED <<focus, cast, vars, jobVars>>

\* While the outbox rests, none of its fair actions is enabled; the fairness
\* of the subscriptions speaks of the behaviours that follow them.
MCSpec ==
    /\ MCInit /\ [][MCNext]_allVars
    /\ Fairness
    /\ WF_allVars(Reconciling /\ Subscriptions!subscription_context)
    /\ WF_allVars(Reconciling /\ Subscriptions!subscription_projection)
    /\ WF_allVars(Reconciling /\ Subscriptions!apply_subscription)

\* When Stripe stops changing, the copy comes to agree with it and stays so,
\* although webhooks are lost, late or repeated; on the way a reconciliation
\* never puts an older state in the place of a newer one a webhook brought
\* meanwhile (reconcile/pg.rs, apply_subscription_transaction).
Converges ==
    /\ focus = "subscriptions" => Subscriptions!Converges
    /\ [][Subscriptions!KeepsNewer]_allVars
=============================================================================
