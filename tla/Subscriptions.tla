---------------------------- MODULE Subscriptions ----------------------------
(***************************************************************************)
(* The copy of a Stripe subscription in user_subscription, and of invoices *)
(* in billing_invoice, for one account whose customer is linked: webhooks  *)
(* that Stripe sends late, twice and in any order (src/src/billing/        *)
(* webhook), and the reconciliation that reads Stripe directly (src/src/   *)
(* billing/reconcile).                                                     *)
(*                                                                         *)
(* An event is stamped with a whole second, the API's clock is finer: a    *)
(* second is two instants long.  Every change at Stripe has a number, and  *)
(* what is copied keeps the number it was copied at; the code has no such  *)
(* number, the properties do.                                              *)
(***************************************************************************)
EXTENDS Integers, FiniteSets

CONSTANTS
  Subs,         \* the account's subscriptions, in the order of their creation
  Handlers,     \* webhook requests that may be running at once
  MaxTime,      \* bound: instants
  MaxEvents     \* bound: events made by Stripe

VARIABLES
  now,        \* the clock of the API and of Stripe
  truth,      \* Stripe: the status of every subscription
  bill,       \* Stripe: "none", or the status of the account's invoice
  changes,    \* Stripe: how many changes were made
  events,     \* Stripe: the events it made
  recorded,   \* the rows of stripe_webhook_event
  row,        \* user_subscription
  invoice,    \* billing_invoice
  handler,    \* a webhook request: the event and the projection it made of it
  job         \* the reconciliation: where it is and what it read

vars == <<now, truth, bill, changes, events, recorded, row, invoice,
          handler, job>>

\* StripeSubscriptionStatus, by what the code tells apart: active stands for
\* trialing, past_due, incomplete and paused, canceled for incomplete_expired.
Terminal == {"canceled"}
Final    == {"canceled", "unpaid"}
Statuses == {"active", "unpaid", "canceled"}

Never    == -1               \* SQL NULL for a time, before every time

\* The field created of an event is a Unix time in whole seconds.
Second(t) == t - (t % 2)

Greatest(a, b) == IF a > b THEN a ELSE b
Absent  == [sub |-> 0, status |-> "none", seen |-> 0, event_at |-> Never, snapshot_at |-> Never]
Unpaid  == [status |-> "none", event_at |-> Never]
NoEvent == [id |-> 0, kind |-> "none", sub |-> 0, status |-> "none", at |-> Never, seen |-> 0]
Idle    == [event |-> NoEvent, status |-> "none", seen |-> 0]
NoJob   == [at |-> "none", snapshot |-> Never, touched |-> FALSE,
            sub |-> 0, status |-> "none", seen |-> 0]

Init ==
  /\ now = 0
  /\ truth = [s \in Subs |-> "none"]
  /\ bill = "none" /\ changes = 0 /\ events = {}
  /\ recorded = {}
  /\ row = Absent /\ invoice = Unpaid
  /\ handler = [h \in Handlers |-> Idle]
  /\ job = NoJob

-----------------------------------------------------------------------------
(* Stripe.                                                                 *)

Current == {s \in Subs : truth[s] \in Statuses \ Terminal}

Emit(kind, s, status, seen) ==
  events' = events \cup {[id |-> Cardinality(events) + 1, kind |-> kind, sub |-> s,
                          status |-> status, at |-> Second(now), seen |-> seen]}

\* A subscription starts (the account has no other: Checkout!PayOnce), fails to
\* be paid, recovers or ends; the change is announced.
change(s, status) ==
  /\ Cardinality(events) < MaxEvents
  /\ \/ truth[s] = "none" /\ Current = {} /\ status = "active"
     \/ truth[s] \in {"active", "unpaid"} /\ status # truth[s]
  /\ truth' = [truth EXCEPT ![s] = status]
  /\ changes' = changes + 1
  /\ Emit("subscription", s, status, changes + 1)
  /\ UNCHANGED <<now, bill, recorded, row, invoice, handler, job>>

\* An attempt to collect an invoice of the subscription fails (it stays open) or
\* succeeds; the model follows one invoice.
collect(s, outcome) ==
  /\ Cardinality(events) < MaxEvents
  /\ s \in Current /\ bill # "paid"
  /\ \A e \in events : e.kind = "invoice" => e.sub = s
  /\ bill' = outcome
  /\ Emit("invoice", s, outcome, changes)
  /\ UNCHANGED <<now, truth, changes, recorded, row, invoice, handler, job>>

tick ==
  /\ now < MaxTime
  /\ now' = now + 1
  /\ UNCHANGED <<truth, bill, changes, events, recorded, row, invoice, handler, job>>

-----------------------------------------------------------------------------
(* Webhooks.                                                               *)

\* command, for an event about an invoice that is not recorded yet: the
\* subscription is read from Stripe.
command(h, e) ==
  /\ e.kind = "invoice" /\ handler[h] = Idle /\ e.id \notin recorded
  /\ handler' = [handler EXCEPT ![h] = [event |-> e, status |-> truth[e.sub], seen |-> changes]]
  /\ UNCHANGED <<now, truth, bill, changes, events, recorded, row, invoice, job>>

\* The WHERE of upsert_subscription, for a projection with time t.
Accepts(s, status, t) ==
  \/ row = Absent
  \/ /\ row.sub = s \/ row.status \in Terminal
     /\ \/ row.event_at < t
        \/ row.event_at = t /\ (row.status \notin Final \/ status \in Final)
     /\ row.snapshot_at <= t

\* ... and, of the others, those that are merely late.
Stale(s, status, t) ==
  row.event_at >= t \/ row.snapshot_at > t \/ (row.sub # s /\ status \in Terminal)

\* The WHERE of upsert_invoice.
InvoiceAccepts(status, t) ==
  \/ invoice.event_at < t
  \/ invoice.event_at = t /\ (invoice.status # "paid" \/ status = "paid")

\* What an event says of a subscription and of an invoice, dated by the event.
map_subscription(e, status, seen) ==
  [Absent EXCEPT !.sub = e.sub, !.status = status, !.seen = seen, !.event_at = e.at]
map_invoice(e) == [status |-> e.status, event_at |-> e.at]

\* apply: the event is recorded and its command carried out in one transaction,
\* with the status of the subscription and the event's time, never the time of
\* the reading.  A projection for another subscription than the current one is
\* refused, and Stripe sends the event again.
Apply(e, status, seen) ==
  /\ IF \/ e.id \in recorded
        \/ ~Accepts(e.sub, status, e.at) /\ ~Stale(e.sub, status, e.at)
     THEN UNCHANGED <<recorded, row, invoice, job>>
     ELSE /\ recorded' = recorded \cup {e.id}
          /\ IF Accepts(e.sub, status, e.at)
             THEN /\ row' = [map_subscription(e, status, seen) EXCEPT
                             !.snapshot_at = Greatest(row.snapshot_at, e.at)]
                  /\ job' = [job EXCEPT !.touched = job # NoJob]
             ELSE UNCHANGED <<row, job>>
          /\ invoice' = IF e.kind = "invoice" /\ InvoiceAccepts(e.status, e.at)
                        THEN map_invoice(e) ELSE invoice
  /\ UNCHANGED <<now, truth, bill, changes, events>>

apply_invoice(h) ==
  /\ handler[h] # Idle
  /\ handler' = [handler EXCEPT ![h] = Idle]
  /\ Apply(handler[h].event, handler[h].status, handler[h].seen)

\* An event about a subscription carries its state.
apply_subscription_event(e) ==
  /\ e.kind = "subscription"
  /\ Apply(e, e.status, e.seen)
  /\ UNCHANGED handler

-----------------------------------------------------------------------------
(* Reconciliation.                                                         *)

\* The worker notes the version of the row (here: whether the row is written
\* from now on) and the time, before it asks Stripe.
subscription_context ==
  /\ job = NoJob
  /\ job' = [NoJob EXCEPT !.at = "read", !.snapshot = now]
  /\ UNCHANGED <<now, truth, bill, changes, events, recorded, row, invoice, handler>>

\* Of the customer's subscriptions, the current one or else the last created.
Selected ==
  LET known == {s \in Subs : truth[s] # "none"}
      among == IF Current # {} THEN Current ELSE known
  IN IF among = {} THEN 0 ELSE CHOOSE s \in among : \A o \in among : o <= s

subscription_projection ==
  /\ job.at = "read"
  /\ job' = [job EXCEPT !.at = "fetched", !.sub = Selected, !.seen = changes,
                        !.status = IF Selected = 0 THEN "none" ELSE truth[Selected]]
  /\ UNCHANGED <<now, truth, bill, changes, events, recorded, row, invoice, handler>>

\* Mutant: the version of the row is not compared.
Outdated_Unversioned == row.snapshot_at > job.snapshot

\* Mutant: another subscription must have ended here first, as for webhooks.
Outdated_SameOnly ==
  \/ job.touched \/ row.snapshot_at > job.snapshot
  \/ row # Absent /\ row.sub # job.sub /\ row.status \notin Terminal

\* The row was written since, or holds a later snapshot.
Outdated == job.touched \/ row.snapshot_at > job.snapshot

\* What Stripe said replaces the row; a customer without a subscription has
\* none here either.
apply_subscription ==
  /\ job.at = "fetched"
  /\ job' = NoJob
  /\ row' = IF Outdated THEN row
            ELSE IF job.sub # 0
            THEN [row EXCEPT !.sub = job.sub, !.status = job.status, !.seen = job.seen,
                             !.snapshot_at = job.snapshot]
            ELSE IF row # Absent
            THEN [row EXCEPT !.status = "canceled", !.seen = job.seen,
                             !.snapshot_at = job.snapshot]
            ELSE row
  /\ UNCHANGED <<now, truth, bill, changes, events, recorded, invoice, handler>>

-----------------------------------------------------------------------------

Webhook ==
  \/ \E e \in events : apply_subscription_event(e)
  \/ \E h \in Handlers : apply_invoice(h) \/ \E e \in events : command(h, e)

Next ==
  \/ \E s \in Subs, status \in Statuses : change(s, status)
  \/ \E s \in Subs, outcome \in {"open", "paid"} : collect(s, outcome)
  \/ tick \/ Webhook
  \/ subscription_context \/ subscription_projection \/ apply_subscription

Spec == Init /\ [][Next]_vars

\* The maintenance job schedules a reconciliation of every linked customer in
\* turn, for ever, and the worker carries it out.  Webhooks may all be lost.
Fairness ==
  /\ WF_vars(subscription_context)
  /\ WF_vars(subscription_projection)
  /\ WF_vars(apply_subscription)

LiveSpec == Spec /\ Fairness

-----------------------------------------------------------------------------
(* Properties.                                                             *)

\* A reconciliation never puts an older state of the subscription in the place
\* of a newer one that a webhook brought while it was asking Stripe
\* (projection_version in apply_subscription_transaction).
KeepsNewer == job # NoJob /\ job' = NoJob => row'.seen >= row.seen

Agrees == row.sub = Selected /\ (Selected # 0 => row.status = truth[Selected])

\* When Stripe stops changing, the copy comes to agree with it and stays so,
\* although webhooks are lost, late, repeated or dropped because of the second
\* they share with a snapshot.
Converges == <>[]Agrees
=============================================================================
