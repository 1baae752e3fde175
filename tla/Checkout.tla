------------------------------ MODULE Checkout ------------------------------
(***************************************************************************)
(* Buying a subscription on the web site (src/src/billing): one account,   *)
(* its rows of billing_checkout_session and billing_customer, and the part *)
(* of Stripe those rows talk about.                                        *)
(*                                                                         *)
(* An attempt is identified by the idempotency key the browser sent.  The  *)
(* Stripe objects an attempt makes carry that key in their own idempotency *)
(* key (histae-customer-<attempt>, histae-checkout-<attempt>), so Stripe   *)
(* makes at most one customer and one session per attempt and the key      *)
(* names them too.                                                         *)
(*                                                                         *)
(* Time is three facts about an attempt that become true, until the column *)
(* they are about is written again: its row was last taken over a minute   *)
(* ago (stale), its expires_at is past (lapsed), its customer creation     *)
(* began 23 hours ago (overdue).                                           *)
(***************************************************************************)
EXTENDS Naturals, FiniteSets

CONSTANTS
  Keys,          \* idempotency keys, one attempt each
  Annual,        \* the keys sent with billing_period = annual
  Requests,      \* API requests that may be running at once
  None,          \* SQL NULL
  MaxCalls,      \* bound: POST /api/web/billing/checkout calls
  MaxFaults      \* bound: errors, lost answers, crashes and lost leases

ASSUME KeysAssumption == None \notin Keys /\ Annual \subseteq Keys
ASSUME BoundsAssumption == MaxCalls \in Nat /\ MaxFaults \in Nat

VARIABLES
  status,        \* billing_checkout_session.status, or "absent"
  generation,    \* .creation_generation
  request,       \* .stripe_checkout_request: the customer it names, or None
  session_id,    \* the attempts whose .stripe_session_id is set
  started,       \* .customer_creation_started_at is set
  created,       \* .created_customer_id is set
  erased,        \* .customer_erased_at is set
  stale, lapsed, overdue,
  customer,      \* billing_customer.stripe_customer_id, or None
  unlinked,      \* .stripe_customer_deleted_at is set
  subscribed,    \* user_subscription holds a status that is not terminal
  queue,         \* the billing.customer.reconcile event of an attempt
  job,           \* what the worker read for the event it handles
  session,       \* Stripe: the checkout session of an attempt
  customers,     \* Stripe: the customer of an attempt
  subscription,  \* Stripe: the subscription its session started
  lease,         \* who holds the billing.checkout lock
  pc, key, gen, cust,   \* a request's position and local variables
  calls, faults

rows     == <<status, generation, request, session_id, stale, lapsed>>
creation == <<started, created, erased, overdue, queue>>
link     == <<customer, unlinked>>
stripe   == <<session, customers, subscription>>
locals   == <<key, gen, cust>>
vars     == <<rows, creation, link, stripe, locals, subscribed, job, lease, pc,
              calls, faults>>

NoJob    == [of |-> None, found |-> None]

Init ==
  /\ status = [k \in Keys |-> "absent"]
  /\ generation = [k \in Keys |-> 0]
  /\ request = [k \in Keys |-> None]
  /\ session_id = {} /\ started = {} /\ created = {} /\ erased = {}
  /\ stale = {} /\ lapsed = {} /\ overdue = {}
  /\ customer = None /\ unlinked = FALSE /\ subscribed = FALSE
  /\ queue = [k \in Keys |-> "none"] /\ job = NoJob
  /\ session = [k \in Keys |-> "none"]
  /\ customers = [k \in Keys |-> "none"]
  /\ subscription = [k \in Keys |-> "none"]
  /\ lease = None
  /\ pc = [r \in Requests |-> "idle"]
  /\ key = [r \in Requests |-> None]
  /\ gen = [r \in Requests |-> 0]
  /\ cust = [r \in Requests |-> None]
  /\ calls = 0 /\ faults = 0

-----------------------------------------------------------------------------
(* A request moves on, or ends and lets go of what it holds.               *)

Goto(r, p) == pc' = [pc EXCEPT ![r] = p] /\ UNCHANGED <<locals, lease>>

Return(r) ==
  /\ pc' = [pc EXCEPT ![r] = "idle"]
  /\ key' = [key EXCEPT ![r] = None]
  /\ gen' = [gen EXCEPT ![r] = 0]
  /\ cust' = [cust EXCEPT ![r] = None]
  /\ lease' = IF lease = r THEN None ELSE lease

\* Every change of a status writes updated_at too, and only a row in creation is
\* ever looked at for its age.
SetStatus(s) == status' = s /\ stale' = {k \in stale : s[k] = "creating"}

Fault == faults < MaxFaults /\ faults' = faults + 1

\* The customer of the account as the queries see it: one whose row is marked
\* deleted is no customer.
Linked == IF unlinked THEN None ELSE customer

\* BillingService::create_checkout_in takes the billing.checkout lock of the
\* account or answers checkout_already_in_progress.
create_checkout_in(r, k) ==
  /\ pc[r] = "idle" /\ lease = None /\ calls < MaxCalls
  /\ calls' = calls + 1
  /\ lease' = r
  /\ pc' = [pc EXCEPT ![r] = "begin"]
  /\ key' = [key EXCEPT ![r] = k]
  /\ UNCHANGED <<rows, creation, link, stripe, gen, cust, subscribed, job, faults>>

-----------------------------------------------------------------------------
(* begin_checkout: one transaction over the account's rows.                *)

\* Mutant: an attempt whose request may have reached Stripe counts as over.
Uncertain_Known(s, k) == s[k] \in {"creating", "open"}

\* A row behind which Stripe may hold a session that can still be paid.
Uncertain(s, k) ==
  \/ s[k] \in {"creating", "open"}
  \/ s[k] = "failed" /\ request[k] # None /\ k \notin lapsed

\* The key was used and its time is over: the row is closed for good.
Overrun(k) == (status[k] = "open" \/ request[k] # None) /\ k \in lapsed

\* The key is answered from its row: the open session is sent again, a closed
\* attempt is consumed, a recent creation is in progress.
Answered(k) ==
  \/ status[k] \in {"open", "completed", "expired"}
  \/ status[k] = "failed" /\ k \in session_id
  \/ status[k] = "creating" /\ k \notin stale

\* The two UPDATEs every other call makes: sessions past their time expire,
\* creations nobody finished within a minute fail.
Swept ==
  LET closed == [k \in Keys |->
        IF k \in lapsed /\ (status[k] = "open" \/ (status[k] = "failed" /\ request[k] # None))
        THEN "expired" ELSE status[k]]
  IN  [k \in Keys |-> IF closed[k] = "creating" /\ k \in stale THEN "failed" ELSE closed[k]]

\* Another attempt may own a customer at Stripe that no row of the account
\* links yet.
Unresolved(k) == Linked = None /\ \E j \in (started \ erased) \ {k} : TRUE

has_active_subscription == subscribed

Rival(k) == \E j \in Keys \ {k} : Uncertain(Swept, j)

begin_checkout_transaction(r) ==
  LET k == key[r] IN
  /\ pc[r] \in {"begin", "again"}
  /\ \/ /\ Overrun(k)
        /\ SetStatus([status EXCEPT ![k] = "expired"])
        /\ Return(r)
        /\ UNCHANGED <<generation, session_id, lapsed>>
     \/ /\ ~Overrun(k) /\ Answered(k)
        /\ Return(r)
        /\ UNCHANGED <<status, generation, session_id, stale, lapsed>>
     \/ /\ ~Overrun(k) /\ ~Answered(k)
        /\ has_active_subscription \/ Rival(k) \/ Unresolved(k)
        /\ SetStatus(Swept)
        /\ IF ~has_active_subscription /\ Rival(k) /\ pc[r] = "begin" THEN Goto(r, "replace") ELSE Return(r)
        /\ UNCHANGED <<generation, session_id, lapsed>>
     \/ /\ ~Overrun(k) /\ ~Answered(k)
        /\ ~(has_active_subscription \/ Rival(k) \/ Unresolved(k))
        /\ status' = [Swept EXCEPT ![k] = "creating"]
        /\ generation' = [generation EXCEPT ![k] = @ + 1]
        /\ session_id' = session_id \ {k}
        /\ stale' = {j \in stale \ {k} : Swept[j] = "creating"}
        /\ lapsed' = IF request[k] = None THEN lapsed \ {k} ELSE lapsed
        /\ pc' = [pc EXCEPT ![r] = IF Linked = None THEN "customer" ELSE "check"]
        /\ gen' = [gen EXCEPT ![r] = generation[k] + 1]
        /\ cust' = [cust EXCEPT ![r] = Linked]
        /\ UNCHANGED <<key, lease>>
  /\ UNCHANGED <<request, creation, link, stripe, subscribed, job, calls, faults>>

\* An open session for the other formula, when it is the account's only live
\* attempt, is closed before the new purchase.
checkout_to_replace(r) ==
  LET open == {j \in Keys : /\ status[j] = "open" /\ j \in session_id
                            /\ (j \in Annual) # (key[r] \in Annual)
                            /\ \A i \in Keys \ {j} : ~Uncertain(status, i)}
  IN /\ pc[r] = "replace"
     /\ \/ /\ open = {} /\ Return(r)
        \/ \E j \in open :
             /\ pc' = [pc EXCEPT ![r] = "expire"]
             /\ cust' = [cust EXCEPT ![r] = j]
             /\ UNCHANGED <<key, gen, lease>>
     /\ UNCHANGED <<rows, creation, link, stripe, subscribed, job, calls, faults>>

\* Stripe's answer to POST checkout/sessions/<id>/expire, read back when it is
\* refused: an open session closes, a paid one stays.
Expire(k) == session' = [session EXCEPT ![k] = IF @ = "open" THEN "expired" ELSE @]

\* The replaced session is expired at Stripe; only a confirmed expiry goes on.
expire_checkout_session(r) ==
  /\ pc[r] = "expire"
  /\ \/ /\ Expire(cust[r])
        /\ IF session[cust[r]] = "complete" THEN Return(r) ELSE Goto(r, "mark")
        /\ UNCHANGED faults
     \/ Fault /\ Return(r) /\ (Expire(cust[r]) \/ UNCHANGED session)
  /\ UNCHANGED <<rows, creation, link, customers, subscription, subscribed, job, calls>>

\* ... and its row with it, before the purchase begins again.
mark_checkout_expired(r) ==
  LET j == cust[r] IN
  /\ pc[r] = "mark"
  /\ IF j \in session_id /\ status[j] \in {"open", "expired"}
     THEN SetStatus([status EXCEPT ![j] = "expired"]) /\ Goto(r, "again")
     ELSE UNCHANGED <<status, stale>> /\ Return(r)
  /\ UNCHANGED <<generation, request, session_id, lapsed, creation, link, stripe,
                 subscribed, job, calls, faults>>

-----------------------------------------------------------------------------
(* The Stripe customer of the account, made once per attempt.              *)

\* Mutant: the creation is repeated however long ago it began.
Resolution_Late(k) ==
  IF k \in erased THEN "fail" ELSE IF k \in created THEN "save" ELSE "create"

\* What resolve_customer_creation_with_lease does about the row: a customer
\* that is known is used, and none is asked for after 23 hours.
Resolution(k) ==
  IF k \in erased THEN "fail"
  ELSE IF k \in created THEN "save"
  ELSE IF k \in overdue THEN "fail" ELSE "create"

\* The intent is written before Stripe is called, with the event that will
\* settle it 23 hours later.  A lost lease may be noticed right after.
begin_customer_creation(r) ==
  LET k == key[r] IN
  /\ pc[r] = "customer"
  /\ started' = started \cup {k}
  /\ queue' = [queue EXCEPT ![k] = IF @ = "none" THEN "pending" ELSE @]
  /\ Goto(r, Resolution(k)) \/ (lease # r /\ Return(r))
  /\ UNCHANGED <<rows, created, erased, overdue, link, stripe, subscribed, job, calls, faults>>

\* Stripe remembers an idempotency key for a day: within it the same customer
\* is returned, after it a second one would be made.
Customer(k) ==
  customers' = [customers EXCEPT ![k] = IF @ = "none" THEN "live"
                                        ELSE IF k \in overdue THEN "twice" ELSE @]

create_customer(r) ==
  /\ pc[r] = "create"
  /\ \/ Customer(key[r]) /\ Goto(r, "record") /\ UNCHANGED faults
     \/ Fault /\ Goto(r, "fail") /\ (Customer(key[r]) \/ UNCHANGED customers)
  /\ UNCHANGED <<rows, creation, link, session, subscription, subscribed, job, calls>>

record_created_customer(r) ==
  /\ pc[r] = "record"
  /\ \/ created' = created \cup {key[r]} /\ Goto(r, "save") /\ UNCHANGED faults
     \/ Fault /\ Goto(r, "fail") /\ UNCHANGED created
  /\ UNCHANGED <<rows, started, erased, overdue, queue, link, stripe, subscribed, job, calls>>

\* The upsert of billing_customer that links a customer: a row with another
\* customer keeps it unless that one is deleted.
CanLink(k) == customer \in {None, k} \/ unlinked
LinkTo(k)  == customer' = k /\ unlinked' = FALSE

\* save_customer links the customer and drops the event.  When it fails the
\* request still holds the customer as unattached.
save_customer(r) ==
  LET k == key[r]
      saved == LinkTo(k) /\ queue' = [queue EXCEPT ![k] = IF @ = "pending" THEN "none" ELSE @]
  IN /\ pc[r] = "save"
     /\ \/ /\ CanLink(k) /\ saved
           /\ pc' = [pc EXCEPT ![r] = "prepare"]
           /\ cust' = [cust EXCEPT ![r] = k]
           /\ UNCHANGED <<key, gen, lease, faults>>
        \/ /\ ~CanLink(k) /\ Goto(r, "fail_customer")
           /\ UNCHANGED <<link, queue, faults>>
        \/ /\ Fault /\ Goto(r, "fail_customer")
           /\ (CanLink(k) /\ saved) \/ UNCHANGED <<link, queue>>
     /\ UNCHANGED <<rows, started, created, erased, overdue, stripe, subscribed, job, calls>>

-----------------------------------------------------------------------------
(* The Checkout session.                                                   *)

\* An account that already had a customer is looked up at Stripe, because the
\* webhook of a paid session may not have arrived.
has_current_subscription(r) ==
  /\ pc[r] = "check"
  /\ \/ /\ Goto(r, IF \E k \in Keys : request[k] = cust[r] /\ subscription[k] = "current"
                   THEN "fail" ELSE "prepare")
        /\ UNCHANGED faults
     \/ Fault /\ Goto(r, "fail")
  /\ UNCHANGED <<rows, creation, link, stripe, subscribed, job, calls>>

\* The condition of every write a request makes to its row after it began.
Owns(r) == status[key[r]] = "creating" /\ generation[key[r]] = gen[r]

\* The request to Stripe is stored before it is sent, by the owner of the row
\* only, and a retry sends the stored one.
prepare_checkout_request(r) ==
  LET k == key[r] IN
  /\ pc[r] = "prepare"
  /\ IF Owns(r)
     THEN /\ request' = [request EXCEPT ![k] = IF @ = None THEN cust[r] ELSE @]
          /\ lapsed' = IF request[k] = None THEN lapsed \ {k} ELSE lapsed
          /\ Goto(r, IF k \in lapsed' THEN "fail" ELSE "post")
     ELSE UNCHANGED <<request, lapsed>> /\ Goto(r, "fail")
  /\ UNCHANGED <<status, generation, session_id, stale, creation, link, stripe, subscribed,
                 job, calls, faults>>

\* Stripe makes the session of an attempt once and answers a repeated request
\* with the first answer.  It refuses one for a customer that is deleted or
\* with a time that is past.
Refused(k) == session[k] = "none" /\ (customers[request[k]] # "live" \/ k \in lapsed)
Session(k) ==
  session' = [session EXCEPT ![k] = IF @ = "none" /\ ~Refused(k) THEN "open" ELSE @]

create_checkout_session(r) ==
  LET k == key[r] IN
  /\ pc[r] = "post"
  /\ \/ Session(k) /\ Goto(r, IF Refused(k) THEN "fail" ELSE "open") /\ UNCHANGED faults
     \/ Fault /\ Goto(r, "fail") /\ (Session(k) \/ UNCHANGED session)
     \/ Fault /\ ~Refused(k) /\ Session(k) /\ Goto(r, "fail_session")
  /\ UNCHANGED <<rows, creation, link, customers, subscription, subscribed, job, calls>>

mark_checkout_open(r) ==
  LET k == key[r] IN
  /\ pc[r] = "open"
  /\ \/ /\ Owns(r)
        /\ SetStatus([status EXCEPT ![k] = "open"])
        /\ session_id' = session_id \cup {k}
        /\ Return(r)
     \/ ~Owns(r) /\ Goto(r, "fail_session") /\ UNCHANGED <<status, stale, session_id>>
  /\ UNCHANGED <<generation, request, lapsed, creation, link, stripe, subscribed,
                 job, calls, faults>>

-----------------------------------------------------------------------------
(* A failed request cleans up, if the row is still its own.                *)

mark_checkout_failed(r) ==
  LET k == key[r] IN
  /\ pc[r] \in {"fail", "fail_session", "fail_customer"}
  /\ IF Owns(r)
     THEN /\ SetStatus([status EXCEPT ![k] = "failed"])
          /\ session_id' = IF pc[r] = "fail_session" THEN session_id \cup {k} ELSE session_id
          /\ CASE pc[r] = "fail"          -> Return(r)
               [] pc[r] = "fail_session"  -> Goto(r, "drop_session")
               [] pc[r] = "fail_customer" -> Goto(r, "drop_customer")
     ELSE UNCHANGED <<status, stale, session_id>> /\ Return(r)
  /\ UNCHANGED <<generation, request, lapsed, creation, link, stripe, subscribed,
                 job, calls, faults>>

drop_session(r) ==
  /\ pc[r] = "drop_session"
  /\ Return(r)
  /\ \/ Expire(key[r]) /\ UNCHANGED faults
     \/ Fault /\ UNCHANGED session
  /\ UNCHANGED <<rows, creation, link, customers, subscription, subscribed, job, calls>>

\* A customer deleted at Stripe takes its subscriptions and open sessions with it.
Deleted(c) ==
  LET of == {k \in Keys : request[k] = c} IN
  /\ customers' = [customers EXCEPT ![c] = IF @ = "live" THEN "deleted" ELSE @]
  /\ session' = [k \in Keys |-> IF k \in of /\ session[k] = "open" THEN "expired" ELSE session[k]]
  /\ subscription' = [k \in Keys |->
       IF k \in of /\ subscription[k] = "current" THEN "ended" ELSE subscription[k]]

delete_customer_confirmed(r) ==
  /\ pc[r] = "drop_customer"
  /\ \/ Deleted(key[r]) /\ Goto(r, "erase") /\ UNCHANGED faults
     \/ Fault /\ Return(r) /\ (Deleted(key[r]) \/ UNCHANGED stripe)
  /\ UNCHANGED <<rows, creation, link, subscribed, job, calls>>

mark_created_customer_erased(r) ==
  /\ pc[r] = "erase"
  /\ erased' = erased \cup {key[r]}
  /\ Return(r)
  /\ UNCHANGED <<rows, started, created, overdue, queue, link, stripe, subscribed, job,
                 calls, faults>>

\* The lock's connection breaks: the lock is free, and the request learns of it
\* at a later probe, if it still asks.
lose_lease(r) ==
  /\ lease = r /\ Fault
  /\ lease' = None
  /\ UNCHANGED <<rows, creation, link, stripe, locals, subscribed, job, pc, calls>>

\* ActivityLease::assert_held may fail a request whose lease is lost before its
\* next call to Stripe or to its row; it leaves everything as it is.  It reads
\* what the last probe of the connection found, so it may also notice later.
assert_held(r) ==
  /\ pc[r] \notin {"idle", "begin", "replace", "again", "customer", "save",
                   "drop_session", "drop_customer", "erase"}
  /\ lease # r
  /\ Return(r)
  /\ UNCHANGED <<rows, creation, link, stripe, subscribed, job, calls, faults>>

crash(r) ==
  /\ pc[r] # "idle" /\ Fault
  /\ Return(r)
  /\ UNCHANGED <<rows, creation, link, stripe, subscribed, job, calls>>

-----------------------------------------------------------------------------
(* Stripe, its webhooks and time.                                          *)

pay(k) ==
  /\ session[k] = "open" /\ customers[request[k]] = "live"
  /\ session' = [session EXCEPT ![k] = "complete"]
  /\ subscription' = [subscription EXCEPT ![k] = "current"]
  /\ UNCHANGED <<rows, creation, link, customers, locals, subscribed, job, lease, pc, calls, faults>>

cancel(k) ==
  /\ subscription[k] = "current"
  /\ subscription' = [subscription EXCEPT ![k] = "ended"]
  /\ UNCHANGED <<rows, creation, link, session, customers, locals, subscribed, job, lease, pc,
                 calls, faults>>

\* A deletion Stripe has made, and may have told in a customer.deleted event.
Gone == {"deleted", "told"}

\* Somebody deletes the customer in Stripe's dashboard.
delete_customer(c) ==
  /\ customers[c] = "live" /\ customer = c /\ Fault
  /\ Deleted(c)
  /\ UNCHANGED <<rows, creation, link, locals, subscribed, job, lease, pc, calls>>

\* checkout.session.completed and checkout.session.expired close the row.
webhook_checkout(k) ==
  /\ session[k] \in {"complete", "expired"}
  /\ k \in session_id /\ status[k] \in {"open", "creating"}
  /\ SetStatus([status EXCEPT ![k] = IF session[k] = "complete" THEN "completed" ELSE "expired"])
  /\ UNCHANGED <<generation, request, session_id, lapsed, creation, link, stripe, locals,
                 subscribed, job, lease, pc, calls, faults>>

\* The subscription events and the reconciliation of a linked customer copy
\* what Stripe says; how they are ordered is the subject of Subscriptions.
Current == \E k \in Keys : subscription[k] = "current" /\ request[k] = customer

apply_subscription ==
  /\ customer # None /\ ~unlinked
  /\ subscribed' = Current
  /\ unlinked' = (customers[customer] \in Gone)
  /\ UNCHANGED <<rows, creation, customer, stripe, locals, job, lease, pc, calls, faults>>

\* customer.deleted, handled once, cancels the subscription and closes the live
\* attempts.
mark_customer_deleted ==
  /\ customer # None /\ ~unlinked /\ customers[customer] = "deleted"
  /\ subscribed' = FALSE /\ unlinked' = TRUE
  /\ SetStatus([k \in Keys |->
       IF status[k] \in {"creating", "open"} THEN "failed" ELSE status[k]])
  /\ customers' = [customers EXCEPT ![customer] = "told"]
  /\ UNCHANGED <<generation, request, session_id, lapsed, creation, customer, session,
                 subscription, locals, job, lease, pc, calls, faults>>

\* A minute passes since the row was taken.
grow_stale(k) ==
  /\ status[k] = "creating" /\ k \notin stale
  /\ stale' = stale \cup {k}
  /\ UNCHANGED <<status, generation, request, session_id, lapsed, creation, link, stripe, locals,
                 subscribed, job, lease, pc, calls, faults>>

\* expires_at passes, for the row and for the session that was given it.
lapse(k) ==
  /\ status[k] # "absent" /\ k \notin lapsed
  /\ status[k] # "creating" \/ k \in stale
  /\ lapsed' = lapsed \cup {k}
  /\ Expire(k)
  /\ UNCHANGED <<status, generation, request, session_id, stale, creation, link, customers,
                 subscription, locals, subscribed, job, lease, pc, calls, faults>>

\* 23 hours pass since a creation began whose customer is not known (nothing
\* asks for the age of another).  A request to Stripe is not in
\* flight for that long: its client gives up after STRIPE_TIMEOUT.
grow_overdue(k) ==
  /\ k \in (started \cap lapsed) \ (created \cup overdue)
  /\ \A r \in Requests : ~(pc[r] = "create" /\ key[r] = k)
  /\ overdue' = overdue \cup {k}
  /\ UNCHANGED <<rows, started, created, erased, queue, link, stripe, locals, subscribed, job,
                 lease, pc, calls, faults>>

-----------------------------------------------------------------------------
(* The reconciliation of customer creations, by the outbox worker.         *)

\* A creation is settled when its customer is the linked one or was erased.
customer_creation_resolved(k) == k \in erased \/ (k \in created /\ Linked = k)

\* The maintenance job queues what is still unsettled.
schedule_due(k) ==
  /\ k \in started \ erased /\ queue[k] = "none"
  /\ IF k \in created THEN Linked # k ELSE k \in overdue
  /\ queue' = [queue EXCEPT ![k] = "pending"]
  /\ UNCHANGED <<rows, started, created, erased, overdue, link, stripe, locals, subscribed, job,
                 lease, pc, calls, faults>>

\* The search at Stripe by the attempt in the metadata, when the row does not
\* know the customer.
find_created_customer(k) == IF k \in created \/ customers[k] = "live" THEN k ELSE None

\* The worker reads the attempt and, if its customer is not known, searches
\* Stripe for it, under the account's shared lock and not under the checkout
\* lock.  An event that is not due yet is retried later.
reconcile_customer_creation(k) ==
  /\ queue[k] = "pending" /\ job = NoJob
  /\ \/ /\ k \notin started \/ customer_creation_resolved(k)
        /\ queue' = [queue EXCEPT ![k] = "none"] /\ UNCHANGED job
     \/ /\ k \in started /\ ~customer_creation_resolved(k)
        /\ k \in created \cup overdue
        /\ job' = [of |-> k, found |-> find_created_customer(k)]
        /\ UNCHANGED queue
  /\ UNCHANGED <<rows, started, created, erased, overdue, link, stripe, locals, subscribed,
                 lease, pc, calls, faults>>

\* What was read is written back: nothing found clears the intent, and with it
\* the moment it began, so that the key may be tried again for another 23 hours;
\* a customer found is linked, and either way the attempt is over.  A second
\* customer is left to an operator.
recover_customer_creation ==
  LET k == job.of IN
  /\ job # NoJob /\ job' = NoJob
  /\ \/ /\ k \in erased
        /\ queue' = [queue EXCEPT ![k] = "none"]
        /\ UNCHANGED <<status, stale, started, created, overdue, link>>
     \/ /\ k \notin erased /\ k \notin created /\ job.found = None
        /\ started' = started \ {k} /\ overdue' = overdue \ {k}
        /\ SetStatus([status EXCEPT ![k] = "failed"])
        /\ queue' = [queue EXCEPT ![k] = "none"]
        /\ UNCHANGED <<created, link>>
     \/ /\ k \notin erased /\ (k \in created \/ job.found = k)
        /\ IF CanLink(k)
           THEN /\ LinkTo(k)
                /\ created' = created \cup {k}
                /\ SetStatus([status EXCEPT ![k] = "failed"])
                /\ queue' = [queue EXCEPT ![k] = "none"]
           ELSE /\ queue' = [queue EXCEPT ![k] = "dead"]
                /\ UNCHANGED <<status, stale, created, link>>
        /\ UNCHANGED <<started, overdue>>
  /\ UNCHANGED <<generation, request, session_id, lapsed, erased, stripe, locals,
                 subscribed, lease, pc, calls, faults>>

-----------------------------------------------------------------------------

Request(r) ==
  \/ \E k \in Keys : create_checkout_in(r, k)
  \/ begin_checkout_transaction(r) \/ checkout_to_replace(r)
  \/ expire_checkout_session(r) \/ mark_checkout_expired(r)
  \/ begin_customer_creation(r) \/ create_customer(r)
  \/ record_created_customer(r) \/ save_customer(r)
  \/ has_current_subscription(r) \/ prepare_checkout_request(r)
  \/ create_checkout_session(r) \/ mark_checkout_open(r)
  \/ mark_checkout_failed(r) \/ drop_session(r)
  \/ delete_customer_confirmed(r) \/ mark_created_customer_erased(r)
  \/ lose_lease(r) \/ assert_held(r) \/ crash(r)

Attempt(k) ==
  \/ pay(k) \/ cancel(k) \/ delete_customer(k) \/ webhook_checkout(k)
  \/ grow_stale(k) \/ lapse(k) \/ grow_overdue(k)
  \/ schedule_due(k) \/ reconcile_customer_creation(k)

Next ==
  \/ \E r \in Requests : Request(r)
  \/ \E k \in Keys : Attempt(k)
  \/ apply_subscription \/ mark_customer_deleted \/ recover_customer_creation

Spec == Init /\ [][Next]_vars

\* Requests finish what they begin, time passes, the worker and the maintenance
\* job keep running and Stripe delivers its events; nothing makes a user buy.
Fairness ==
  /\ \A r \in Requests : WF_vars(pc[r] # "idle" /\ Request(r))
  /\ \A k \in Keys :
       /\ WF_vars(grow_stale(k)) /\ WF_vars(lapse(k)) /\ WF_vars(grow_overdue(k))
       /\ WF_vars(schedule_due(k)) /\ WF_vars(reconcile_customer_creation(k))
       /\ WF_vars(webhook_checkout(k))
  /\ WF_vars(apply_subscription) /\ WF_vars(mark_customer_deleted)
  /\ WF_vars(recover_customer_creation)

LiveSpec == Spec /\ Fairness

-----------------------------------------------------------------------------
(* Properties.                                                             *)

\* The account is never charged twice: of the sessions that can be paid and
\* the subscriptions that run, there is at most one, whatever requests, lost
\* leases, late webhooks and reconciliations do (begin_checkout's guards, the
\* stored request and the look-up at Stripe).
PayOnce ==
  Cardinality({k \in Keys : session[k] = "open" \/ subscription[k] = "current"}) <= 1

\* Every customer alive at Stripe can be found from the database: it is the
\* linked one, or the row of its attempt still says that a creation began and
\* was not undone, so reconciliation and account erasure reach it.
CustomersTracked ==
  \A k \in Keys :
    /\ customers[k] # "twice"
    /\ customers[k] = "live" => Linked = k \/ k \in started \ erased

\* A key that was never used can buy: no subscription, no live attempt, no
\* unsettled creation, and no customer that Stripe has deleted.
Purchasable ==
  \A k \in Keys : status[k] = "absent" =>
    /\ ~subscribed /\ ~Rival(k) /\ ~Unresolved(k)
    /\ Linked # None => customers[Linked] = "live"

\* Once the customer is deleted at Stripe, which cancels the subscription, the
\* account can in time make a new attempt.
NewAttemptPossible == (\E k \in Keys : customers[k] \in Gone) ~> Purchasable
=============================================================================
