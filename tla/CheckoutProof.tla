---------------------------- MODULE CheckoutProof ----------------------------
(***************************************************************************)
(* No customer made at Stripe is lost, and an account is charged once at   *)
(* most, for any set of keys, any number of concurrent requests and any    *)
(* number of faults.                                                       *)
(*                                                                         *)
(* Customers.  Whatever names a customer names one that was made (Known),  *)
(* and a customer that is alive was made by an attempt whose row says that *)
(* the creation began (Tracked).  The row forgets it only after a search   *)
(* at Stripe that found none, made when no request can still ask for one   *)
(* (the creation is overdue until the row is cleared, and may begin again  *)
(* after it): that is why Tracked speaks of the requests at "create" and   *)
(* of what the worker holds, too.                                          *)
(*                                                                         *)
(* Payments.  A stored request whose customer is alive names the linked    *)
(* one (LinkedAlive).  An attempt is armed when Stripe may still open, or  *)
(* let somebody pay, the session of its stored request.  An armed attempt, *)
(* and one in creation or open, counts as live, and begin_checkout lets at *)
(* most one be live at a time (OneLive).  A request that still owns its    *)
(* row has looked for a subscription after the row became the only live    *)
(* one, so that an armed attempt never meets a subscription that is paid   *)
(* (OnePaid).                                                              *)
(*                                                                         *)
(* The last part is about the purchases in the application stores.         *)
(***************************************************************************)
EXTENDS Checkout, StorePurchases, FiniteSetTheorems, TLAPS

Points == {"idle", "begin", "again", "replace", "expire", "mark", "customer", "create",
           "record", "save", "check", "prepare", "post", "open", "fail", "fail_session",
           "fail_customer", "drop_session", "drop_customer", "erase"}

RowTypes ==
  /\ status \in [Keys -> {"absent", "creating", "open", "completed", "expired", "failed"}]
  /\ generation \in [Keys -> Nat]
  /\ request \in [Keys -> Keys \cup {None}]
  /\ session_id \in SUBSET Keys /\ stale \in SUBSET Keys /\ lapsed \in SUBSET Keys

CreationTypes ==
  /\ started \in SUBSET Keys /\ created \in SUBSET Keys /\ erased \in SUBSET Keys
  /\ overdue \in SUBSET Keys
  /\ customer \in Keys \cup {None}
  /\ job \in {NoJob} \cup [of : Keys, found : Keys \cup {None}]

StripeTypes ==
  /\ session \in [Keys -> {"none", "open", "complete", "expired"}]
  /\ customers \in [Keys -> {"none", "live", "deleted", "told"}]
  /\ subscription \in [Keys -> {"none", "current", "ended"}]

LocalTypes ==
  /\ pc \in [Requests -> Points]
  /\ key \in [Requests -> Keys \cup {None}]
  /\ gen \in [Requests -> Nat]
  /\ cust \in [Requests -> Keys \cup {None}]
  /\ \A r \in Requests : pc[r] # "idle" => key[r] \in Keys

TypeOK == RowTypes /\ CreationTypes /\ StripeTypes /\ LocalTypes

\* Whatever names a customer names one that was made.
Made(k) == customers[k] # "none"

KnownRows ==
  /\ \A k \in created : Made(k)
  /\ customer # None => Made(customer)
  /\ \A k \in Keys : request[k] # None => Made(request[k])
  /\ job.found # None => Made(job.found)

KnownLocals ==
  \A r \in Requests :
    /\ pc[r] \in {"record", "save", "fail_customer", "drop_customer"} => Made(key[r])
    /\ pc[r] \in {"check", "prepare"} => cust[r] \in Keys /\ Made(cust[r])

Known == KnownRows /\ KnownLocals

\* A customer that is alive belongs to a creation that began, and one that is
\* recorded as erased, or not found at Stripe, does not come to life.
Tracked ==
  /\ \A k \in Keys : customers[k] = "live" => k \in started
  /\ \A k \in erased : customers[k] \in Gone
  /\ \A r \in Requests :
       /\ pc[r] = "create" => key[r] \in started /\ key[r] \notin overdue
       /\ pc[r] = "erase" => customers[key[r]] \in Gone
  /\ job # NoJob /\ job.found = None => job.of \in overdue /\ customers[job.of] # "live"

CustomersInv == TypeOK /\ Known /\ Tracked

-----------------------------------------------------------------------------
\* Wherever a request goes or returns, its local variables keep their types.
LEMMA MoveTypes ==
  ASSUME LocalTypes, NEW r \in Requests, pc[r] # "idle",
         (\E p \in Points : Goto(r, p)) \/ Return(r)
  PROVE  LocalTypes'
  BY DEF LocalTypes, Goto, Return, locals, Points

LEMMA RowsUnchanged == ASSUME RowTypes, UNCHANGED rows PROVE RowTypes'
  BY Zenon DEF RowTypes, rows
LEMMA LocalsUnchanged == ASSUME LocalTypes, UNCHANGED <<locals, pc>> PROVE LocalTypes'
  BY Zenon DEF LocalTypes, locals

LEMMA SweptType == ASSUME RowTypes PROVE Swept \in [Keys -> {"absent", "creating", "open", "completed", "expired", "failed"}]
  BY Zenon DEF RowTypes, Swept

LEMMA LocalStep == ASSUME TypeOK, Next PROVE LocalTypes'
<1> USE DEF TypeOK
<1>1. ASSUME NEW r \in Requests, NEW k \in Keys, create_checkout_in(r, k) PROVE LocalTypes'
  BY <1>1, Zenon DEF create_checkout_in, LocalTypes, Points
<1>2. ASSUME NEW r \in Requests, begin_checkout_transaction(r) PROVE LocalTypes'
  <2>1. pc[r] # "idle" BY <1>2, Zenon DEF begin_checkout_transaction
  <2>2. CASE (\E p \in Points : Goto(r, p)) \/ Return(r)
    BY <2>1, <2>2, MoveTypes, Zenon
  <2>3. CASE /\ pc' = [pc EXCEPT ![r] = IF Linked = None THEN "customer" ELSE "check"]
             /\ gen' = [gen EXCEPT ![r] = generation[key[r]] + 1]
             /\ cust' = [cust EXCEPT ![r] = Linked]
             /\ UNCHANGED key
    <3>1. Linked \in Keys \cup {None} BY Zenon DEF Linked, CreationTypes
    <3>2. generation[key[r]] + 1 \in Nat BY <2>1 DEF LocalTypes, RowTypes
    <3> QED BY <2>1, <2>3, <3>1, <3>2, Zenon DEF LocalTypes, Points
  <2> QED BY <1>2, <2>2, <2>3, Zenon DEF begin_checkout_transaction, Points
<1>3. ASSUME NEW r \in Requests, checkout_to_replace(r) PROVE LocalTypes'
  <2>1. pc[r] # "idle" BY <1>3, Zenon DEF checkout_to_replace
  <2>2. CASE Return(r) BY <2>1, <2>2, MoveTypes, Zenon
  <2>3. ASSUME NEW j \in Keys, pc' = [pc EXCEPT ![r] = "expire"],
               cust' = [cust EXCEPT ![r] = j], UNCHANGED <<key, gen>>
        PROVE LocalTypes'
    BY <2>1, <2>3, Zenon DEF LocalTypes, Points
  <2> QED BY <1>3, <2>2, <2>3, Zenon DEF checkout_to_replace
<1>4. ASSUME NEW r \in Requests, save_customer(r) PROVE LocalTypes'
  <2>1. pc[r] # "idle" BY <1>4, Zenon DEF save_customer
  <2>2. CASE Goto(r, "fail_customer") BY <2>1, <2>2, MoveTypes, Zenon DEF Points
  <2>3. CASE /\ pc' = [pc EXCEPT ![r] = "prepare"]
             /\ cust' = [cust EXCEPT ![r] = key[r]] /\ UNCHANGED <<key, gen>>
    BY <2>1, <2>3, Zenon DEF LocalTypes, Points
  <2> QED BY <1>4, <2>2, <2>3, Zenon DEF save_customer
<1>5. ASSUME NEW r \in Requests,
             \/ expire_checkout_session(r) \/ mark_checkout_expired(r)
             \/ begin_customer_creation(r) \/ create_customer(r)
             \/ record_created_customer(r)
             \/ has_current_subscription(r) \/ prepare_checkout_request(r)
      PROVE  LocalTypes'
  <2>1. pc[r] # "idle" /\ ((\E p \in Points : Goto(r, p)) \/ Return(r))
    BY <1>5, Zenon DEF expire_checkout_session, mark_checkout_expired, begin_customer_creation,
       create_customer, record_created_customer, has_current_subscription,
       prepare_checkout_request, Resolution, Points
  <2> QED BY <2>1, MoveTypes, Zenon
<1>6. ASSUME NEW r \in Requests,
             \/ create_checkout_session(r) \/ mark_checkout_open(r)
             \/ mark_checkout_failed(r) \/ drop_session(r)
             \/ delete_customer_confirmed(r) \/ mark_created_customer_erased(r)
             \/ assert_held(r) \/ crash(r)
      PROVE  LocalTypes'
  <2>1. pc[r] # "idle" /\ ((\E p \in Points : Goto(r, p)) \/ Return(r))
    BY <1>6, Zenon DEF create_checkout_session, mark_checkout_open,
       mark_checkout_failed, drop_session, delete_customer_confirmed,
       mark_created_customer_erased, assert_held, crash, Points
  <2> QED BY <2>1, MoveTypes, Zenon
<1>7. ASSUME NEW r \in Requests, lose_lease(r) PROVE LocalTypes'
  BY <1>7, LocalsUnchanged, Zenon DEF lose_lease
<1>8. ASSUME NEW k \in Keys, Attempt(k) PROVE LocalTypes'
  BY <1>8, LocalsUnchanged, Zenon DEF Attempt, pay, cancel, delete_customer, webhook_checkout,
     grow_stale, lapse, grow_overdue, schedule_due, reconcile_customer_creation
<1>9. CASE apply_subscription \/ mark_customer_deleted \/ recover_customer_creation
  BY <1>9, LocalsUnchanged, Zenon DEF apply_subscription, mark_customer_deleted,
     recover_customer_creation
<1> QED
  BY <1>1, <1>2, <1>3, <1>4, <1>5, <1>6, <1>7, <1>8, <1>9, Zenon DEF Next, Request

LEMMA RowStep == ASSUME TypeOK, Next PROVE RowTypes'
<1> USE DEF TypeOK
<1>1. CASE UNCHANGED rows
  BY <1>1, RowsUnchanged, Zenon
<1>2. ASSUME NEW r \in Requests, begin_checkout_transaction(r) PROVE RowTypes'
  BY <1>2, SweptType DEF begin_checkout_transaction, RowTypes, LocalTypes, SetStatus
<1>3. ASSUME NEW r \in Requests, mark_checkout_expired(r) PROVE RowTypes'
  BY <1>3, Zenon DEF mark_checkout_expired, RowTypes, SetStatus
<1>4. ASSUME NEW r \in Requests, prepare_checkout_request(r) PROVE RowTypes'
  BY <1>4, Zenon DEF prepare_checkout_request, RowTypes, LocalTypes
<1>5. ASSUME NEW r \in Requests, mark_checkout_open(r) \/ mark_checkout_failed(r) PROVE RowTypes'
  <2>1. /\ \/ UNCHANGED <<status, stale>>
           \/ \E s \in {"open", "failed"} : SetStatus([status EXCEPT ![key[r]] = s])
        /\ session_id' = session_id \/ session_id' = session_id \cup {key[r]}
        /\ UNCHANGED <<generation, request, lapsed>> /\ key[r] \in Keys
    BY <1>5, Zenon DEF mark_checkout_open, mark_checkout_failed, LocalTypes
  <2> QED BY <2>1 DEF RowTypes, SetStatus
<1>6. ASSUME NEW k \in Keys, webhook_checkout(k) \/ grow_stale(k) \/ lapse(k) PROVE RowTypes'
  BY <1>6, Zenon DEF webhook_checkout, grow_stale, lapse, RowTypes, SetStatus
<1>7. CASE mark_customer_deleted \/ recover_customer_creation
  BY <1>7, Zenon DEF mark_customer_deleted, recover_customer_creation, RowTypes, SetStatus, rows
<1>8. ASSUME NEW r \in Requests, Request(r) PROVE RowTypes'
  BY <1>1, <1>2, <1>3, <1>4, <1>5, <1>8, Zenon DEF Request, create_checkout_in, checkout_to_replace,
     expire_checkout_session, begin_customer_creation, create_customer,
     record_created_customer, save_customer, has_current_subscription,
     create_checkout_session, drop_session, delete_customer_confirmed,
     mark_created_customer_erased, lose_lease, assert_held, crash
<1>9. ASSUME NEW k \in Keys, Attempt(k) PROVE RowTypes'
  BY <1>1, <1>6, <1>9, Zenon DEF Attempt, pay, cancel, delete_customer, grow_overdue,
     schedule_due, reconcile_customer_creation
<1>10. CASE apply_subscription
  BY <1>1, <1>10, Zenon DEF apply_subscription
<1> QED
  BY <1>7, <1>8, <1>9, <1>10, Zenon DEF Next

LEMMA CreationStep == ASSUME TypeOK, Next PROVE CreationTypes'
<1> USE DEF TypeOK
<1>1. CASE UNCHANGED <<started, created, erased, overdue, link, job>>
  BY <1>1, Zenon DEF CreationTypes, link
<1>2. ASSUME NEW r \in Requests,
             \/ begin_customer_creation(r) \/ record_created_customer(r)
             \/ mark_created_customer_erased(r)
      PROVE  CreationTypes'
  BY <1>2, ZenonT(90) DEF begin_customer_creation, record_created_customer, mark_created_customer_erased,
     CreationTypes, LocalTypes, link
<1>3. ASSUME NEW r \in Requests, save_customer(r) PROVE CreationTypes'
  BY <1>3, Zenon DEF save_customer, CreationTypes, LocalTypes, link, LinkTo
<1>4. ASSUME NEW k \in Keys, grow_overdue(k) PROVE CreationTypes'
  BY <1>4, Zenon DEF grow_overdue, CreationTypes, link
<1>5. ASSUME NEW k \in Keys, reconcile_customer_creation(k) PROVE CreationTypes'
  BY <1>5 DEF reconcile_customer_creation, find_created_customer, CreationTypes, link
<1>6. CASE apply_subscription \/ mark_customer_deleted
  BY <1>6, Zenon DEF apply_subscription, mark_customer_deleted, CreationTypes, creation
<1>7. CASE recover_customer_creation
  <2>1. job.of \in Keys
    BY <1>7, Zenon DEF recover_customer_creation, CreationTypes
  <2> QED BY <1>7, <2>1, Zenon DEF recover_customer_creation, CreationTypes, link, LinkTo
<1>8. ASSUME NEW r \in Requests, Request(r) PROVE CreationTypes'
  BY <1>1, <1>2, <1>3, <1>8, Zenon DEF Request, create_checkout_in, begin_checkout_transaction,
     checkout_to_replace, expire_checkout_session, mark_checkout_expired, create_customer,
     has_current_subscription, prepare_checkout_request, create_checkout_session,
     mark_checkout_open, mark_checkout_failed, drop_session, delete_customer_confirmed,
     lose_lease, assert_held, crash, creation
<1>9. ASSUME NEW k \in Keys, Attempt(k) PROVE CreationTypes'
  BY <1>1, <1>4, <1>5, <1>9, Zenon DEF Attempt, pay, cancel, delete_customer, webhook_checkout,
     grow_stale, lapse, schedule_due, creation
<1> QED
  BY <1>6, <1>7, <1>8, <1>9, Zenon DEF Next

LEMMA StripeStep == ASSUME TypeOK, Tracked, Next PROVE StripeTypes'
<1> USE DEF TypeOK
<1>1. CASE UNCHANGED stripe
  BY <1>1, Zenon DEF StripeTypes, stripe
<1>2. ASSUME NEW r \in Requests, expire_checkout_session(r) \/ drop_session(r) PROVE StripeTypes'
  BY <1>2, ZenonT(90) DEF expire_checkout_session, drop_session, StripeTypes, LocalTypes, Expire
<1>3. ASSUME NEW r \in Requests, create_customer(r) PROVE StripeTypes'
  BY <1>3, Zenon DEF create_customer, StripeTypes, LocalTypes, Tracked, Customer
<1>4. ASSUME NEW r \in Requests, create_checkout_session(r) PROVE StripeTypes'
  BY <1>4, ZenonT(90) DEF create_checkout_session, StripeTypes, LocalTypes, Session
<1>5. ASSUME NEW r \in Requests, delete_customer_confirmed(r) PROVE StripeTypes'
  BY <1>5 DEF delete_customer_confirmed, StripeTypes, LocalTypes, Deleted, stripe
<1>6. ASSUME NEW k \in Keys, pay(k) \/ cancel(k) \/ lapse(k) PROVE StripeTypes'
  BY <1>6, Zenon DEF pay, cancel, lapse, StripeTypes, Expire
<1>7. ASSUME NEW k \in Keys, delete_customer(k) PROVE StripeTypes'
  BY <1>7, Zenon DEF delete_customer, StripeTypes, Deleted
<1>8. CASE mark_customer_deleted
  BY <1>8, Zenon DEF mark_customer_deleted, StripeTypes
<1>9. ASSUME NEW r \in Requests, Request(r) PROVE StripeTypes'
  BY <1>1, <1>2, <1>3, <1>4, <1>5, <1>9, Zenon DEF Request, create_checkout_in,
     begin_checkout_transaction, checkout_to_replace, mark_checkout_expired,
     begin_customer_creation, record_created_customer, save_customer,
     has_current_subscription, prepare_checkout_request, mark_checkout_open,
     mark_checkout_failed, mark_created_customer_erased, lose_lease, assert_held, crash
<1>10. ASSUME NEW k \in Keys, Attempt(k) PROVE StripeTypes'
  BY <1>1, <1>6, <1>7, <1>10, Zenon DEF Attempt, webhook_checkout, grow_stale, grow_overdue,
     schedule_due, reconcile_customer_creation
<1>11. CASE apply_subscription \/ recover_customer_creation
  BY <1>1, <1>11, Zenon DEF apply_subscription, recover_customer_creation
<1> QED
  BY <1>8, <1>9, <1>10, <1>11, Zenon DEF Next

-----------------------------------------------------------------------------
(* Which handlers write what: everything else leaves a variable alone.     *)

LEMMA RequestFrame ==
  ASSUME NEW r \in Requests, Request(r)
  PROVE  /\ UNCHANGED <<job, overdue>>
         /\ UNCHANGED link \/ save_customer(r)
         /\ UNCHANGED started \/ begin_customer_creation(r)
         /\ UNCHANGED created \/ record_created_customer(r)
         /\ UNCHANGED erased \/ mark_created_customer_erased(r)
         /\ UNCHANGED request \/ prepare_checkout_request(r)
         /\ UNCHANGED lapsed \/ begin_checkout_transaction(r) \/ prepare_checkout_request(r)
         /\ \/ UNCHANGED status
            \/ begin_checkout_transaction(r) \/ mark_checkout_expired(r)
            \/ mark_checkout_open(r) \/ mark_checkout_failed(r)
         /\ UNCHANGED customers \/ create_customer(r) \/ delete_customer_confirmed(r)
         /\ \/ UNCHANGED session
            \/ expire_checkout_session(r) \/ create_checkout_session(r)
            \/ drop_session(r) \/ delete_customer_confirmed(r)
         /\ UNCHANGED subscription \/ delete_customer_confirmed(r)
<1> USE DEF Request, create_checkout_in, begin_checkout_transaction, checkout_to_replace,
           expire_checkout_session, mark_checkout_expired, begin_customer_creation, create_customer,
           record_created_customer, save_customer, has_current_subscription,
           prepare_checkout_request, create_checkout_session, mark_checkout_open,
           mark_checkout_failed, drop_session, delete_customer_confirmed,
           mark_created_customer_erased, lose_lease, assert_held, crash
<1>1. UNCHANGED <<job, overdue>>
  BY Zenon DEF creation
<1>2. UNCHANGED link \/ save_customer(r)
  BY Zenon
<1>3. /\ UNCHANGED started \/ begin_customer_creation(r)
      /\ UNCHANGED created \/ record_created_customer(r)
      /\ UNCHANGED erased \/ mark_created_customer_erased(r)
  BY Zenon DEF creation
<1>4. UNCHANGED request \/ prepare_checkout_request(r)
  BY Zenon DEF rows
<1>5. UNCHANGED lapsed \/ begin_checkout_transaction(r) \/ prepare_checkout_request(r)
  BY Zenon DEF rows
<1>6. \/ UNCHANGED status
      \/ begin_checkout_transaction(r) \/ mark_checkout_expired(r)
      \/ mark_checkout_open(r) \/ mark_checkout_failed(r)
  BY Zenon DEF rows
<1>7. UNCHANGED customers \/ create_customer(r) \/ delete_customer_confirmed(r)
  BY Zenon DEF stripe
<1>8. \/ UNCHANGED session
      \/ expire_checkout_session(r) \/ create_checkout_session(r)
      \/ drop_session(r) \/ delete_customer_confirmed(r)
  BY Zenon DEF stripe
<1>9. UNCHANGED subscription \/ delete_customer_confirmed(r)
  BY Zenon DEF stripe
<1> QED BY ONLY <1>1, <1>2, <1>3, <1>4, <1>5, <1>6, <1>7, <1>8, <1>9, Zenon

LEMMA AttemptFrame ==
  ASSUME NEW k \in Keys, Attempt(k)
  PROVE  /\ UNCHANGED <<locals, pc, link, started, created, erased, request, generation>>
         /\ UNCHANGED job \/ reconcile_customer_creation(k)
         /\ UNCHANGED overdue \/ grow_overdue(k)
         /\ UNCHANGED <<lapsed>> \/ lapse(k)
         /\ UNCHANGED status \/ webhook_checkout(k)
         /\ UNCHANGED customers \/ Deleted(k)
         /\ UNCHANGED session \/ lapse(k) \/ pay(k) \/ Deleted(k)
         /\ UNCHANGED subscription \/ pay(k) \/ cancel(k) \/ Deleted(k)
<1> USE DEF Attempt, pay, cancel, delete_customer, webhook_checkout, grow_stale, lapse,
            grow_overdue, schedule_due, reconcile_customer_creation
<1>1. UNCHANGED <<locals, pc, link, started, created, erased, request, generation>>
  BY Zenon DEF rows, creation
<1>2. /\ UNCHANGED job \/ reconcile_customer_creation(k)
      /\ UNCHANGED overdue \/ grow_overdue(k)
      /\ UNCHANGED <<lapsed>> \/ lapse(k)
      /\ UNCHANGED status \/ webhook_checkout(k)
  BY Zenon DEF rows, creation
<1>3. /\ UNCHANGED customers \/ Deleted(k)
      /\ UNCHANGED session \/ lapse(k) \/ pay(k) \/ Deleted(k)
      /\ UNCHANGED subscription \/ pay(k) \/ cancel(k) \/ Deleted(k)
  BY Zenon DEF stripe
<1> QED BY ONLY <1>1, <1>2, <1>3, Zenon

LEMMA OtherFrame ==
  /\ apply_subscription =>
       UNCHANGED <<locals, pc, customer, started, created, erased, overdue, job, rows, stripe>>
  /\ mark_customer_deleted =>
       UNCHANGED <<locals, pc, customer, started, created, erased, overdue, job, generation,
                   request, lapsed, session, subscription>>
  /\ recover_customer_creation =>
       /\ UNCHANGED <<locals, pc, erased, generation, request, lapsed, stripe>>
       /\ overdue' \subseteq overdue /\ job' = NoJob
  BY Zenon DEF apply_subscription, mark_customer_deleted, recover_customer_creation, creation, rows

\* What may become of a customer in one step: an attempt in creation makes it,
\* or it is deleted for good.
LEMMA CustomerMoves ==
  ASSUME TypeOK, Tracked, Next, NEW c \in Keys
  PROVE  \/ customers'[c] = customers[c]
         \/ /\ customers[c] = "none" /\ customers'[c] = "live"
            /\ c \in started /\ c \notin overdue
         \/ customers[c] \in {"live", "deleted"} /\ customers'[c] \in Gone
<1> USE DEF TypeOK
<1>1. CASE UNCHANGED customers
  BY <1>1, Zenon
<1>2. ASSUME NEW r \in Requests, create_customer(r)
      PROVE  \/ customers'[c] = customers[c]
             \/ /\ customers[c] = "none" /\ customers'[c] = "live"
                /\ c \in started /\ c \notin overdue
  BY <1>2, ZenonT(90) DEF create_customer, Customer, Tracked, LocalTypes, StripeTypes
<1>3. ASSUME NEW k \in Keys, Deleted(k)
      PROVE  customers'[c] = customers[c]
             \/ (customers[c] \in {"live", "deleted"} /\ customers'[c] \in Gone)
  BY <1>3, Zenon DEF Deleted, StripeTypes, Gone
<1>4. ASSUME NEW r \in Requests, delete_customer_confirmed(r)
      PROVE  customers'[c] = customers[c]
             \/ (customers[c] \in {"live", "deleted"} /\ customers'[c] \in Gone)
  BY <1>3, <1>4, Zenon DEF delete_customer_confirmed, LocalTypes, stripe
<1>5. CASE mark_customer_deleted
  BY <1>5, Zenon DEF mark_customer_deleted, StripeTypes, Gone
<1> QED
  BY <1>1, <1>2, <1>3, <1>4, <1>5, RequestFrame, AttemptFrame, OtherFrame, Zenon DEF Next, stripe

\* A customer that was made stays made, one that is deleted stays deleted, and
\* one that is alive after a step was alive before it, if it was made.
LEMMA MadeStays ==
  ASSUME TypeOK, Tracked, Next, NEW c \in Keys
  PROVE  /\ Made(c) => Made(c)'
         /\ customers[c] \in Gone => customers'[c] \in Gone
         /\ Made(c) /\ customers'[c] = "live" => customers[c] = "live"
  BY CustomerMoves, Zenon DEF Made, Gone

LEMMA KnownRowsStep == ASSUME TypeOK, Known, Tracked, Next PROVE KnownRows'
<1> USE DEF TypeOK
<1>0. \A c \in Keys : Made(c) => Made(c)'
  BY MadeStays, Zenon
<1>1. \A k \in created' : Made(k)'
  <2>1. CASE UNCHANGED created
    BY <1>0, <2>1, Zenon DEF Known, KnownRows, CreationTypes
  <2>2. ASSUME NEW r \in Requests, record_created_customer(r) PROVE \A k \in created' : Made(k)'
    BY <1>0, <2>2 DEF record_created_customer, Known, KnownRows, KnownLocals, CreationTypes, LocalTypes
  <2>3. CASE recover_customer_creation
    <3>1. job.of \in Keys BY <2>3, Zenon DEF recover_customer_creation, CreationTypes
    <3> QED
      BY <1>0, <2>3, <3>1, KeysAssumption, Zenon DEF recover_customer_creation, Known, KnownRows, CreationTypes
  <2> QED BY <2>1, <2>2, <2>3, RequestFrame, AttemptFrame, OtherFrame, Zenon DEF Next
<1>2. (customer # None => Made(customer))'
  <2>1. CASE UNCHANGED customer
    BY <1>0, <2>1, Zenon DEF Known, KnownRows, CreationTypes
  <2>2. ASSUME NEW r \in Requests, save_customer(r) PROVE (customer # None => Made(customer))'
    BY <1>0, <2>2, Zenon DEF save_customer, LinkTo, link, Known, KnownRows, KnownLocals, CreationTypes, LocalTypes
  <2>3. CASE recover_customer_creation
    <3>1. job.of \in Keys BY <2>3, Zenon DEF recover_customer_creation, CreationTypes
    <3> QED
      BY <1>0, <2>3, <3>1, KeysAssumption, Zenon
      DEF recover_customer_creation, LinkTo, link, Known, KnownRows, CreationTypes
  <2> QED BY <2>1, <2>2, <2>3, RequestFrame, AttemptFrame, OtherFrame, Zenon DEF Next, link
<1>3. (\A k \in Keys : request[k] # None => Made(request[k]))'
  <2>1. CASE UNCHANGED request
    BY <1>0, <2>1, Zenon DEF Known, KnownRows, RowTypes
  <2>2. ASSUME NEW r \in Requests, prepare_checkout_request(r)
        PROVE  (\A k \in Keys : request[k] # None => Made(request[k]))'
    BY <1>0, <2>2, ZenonT(90) DEF prepare_checkout_request, Known, KnownRows, KnownLocals, RowTypes, LocalTypes
  <2> QED BY <2>1, <2>2, RequestFrame, AttemptFrame, OtherFrame, Zenon DEF Next, rows
<1>4. (job.found # None => Made(job.found))'
  <2>1. CASE UNCHANGED job
    BY <1>0, <2>1 DEF Known, KnownRows, CreationTypes, NoJob
  <2>2. ASSUME NEW k \in Keys, reconcile_customer_creation(k) PROVE (job.found # None => Made(job.found))'
    BY <1>0, <2>1, <2>2 DEF reconcile_customer_creation, find_created_customer, Known, KnownRows, Made
  <2>3. CASE recover_customer_creation
    BY <2>3, Zenon DEF recover_customer_creation, NoJob
  <2> QED BY <2>1, <2>2, <2>3, RequestFrame, AttemptFrame, OtherFrame, Zenon DEF Next
<1> QED BY <1>1, <1>2, <1>3, <1>4, Zenon DEF KnownRows

-----------------------------------------------------------------------------
(* The local variables of a request belong to it, and each of its points is
   entered from few others. *)

LEMMA Bystanders ==
  ASSUME TypeOK, NEW r \in Requests, Request(r), NEW q \in Requests, q # r
  PROVE  pc'[q] = pc[q] /\ key'[q] = key[q] /\ gen'[q] = gen[q] /\ cust'[q] = cust[q]
<1> USE DEF TypeOK, LocalTypes
<1>1. ASSUME NEW k \in Keys, create_checkout_in(r, k)
      PROVE  pc'[q] = pc[q] /\ key'[q] = key[q] /\ gen'[q] = gen[q] /\ cust'[q] = cust[q]
  BY <1>1, Zenon DEF create_checkout_in
<1>2. CASE begin_checkout_transaction(r) \/ checkout_to_replace(r) \/ save_customer(r)
  BY <1>2, Zenon DEF begin_checkout_transaction, checkout_to_replace, save_customer, Goto, Return, locals
<1>3. CASE (\E p \in Points : Goto(r, p)) \/ Return(r)
  BY <1>3, Zenon DEF Goto, Return, locals
<1>4. CASE lose_lease(r)
  BY <1>4, Zenon DEF lose_lease, locals
<1> QED
  BY <1>1, <1>2, <1>3, <1>4, Zenon DEF Request, expire_checkout_session, mark_checkout_expired,
     begin_customer_creation, create_customer, record_created_customer,
     has_current_subscription, prepare_checkout_request, create_checkout_session,
     mark_checkout_open, mark_checkout_failed, drop_session, delete_customer_confirmed,
     mark_created_customer_erased, assert_held, crash, Resolution, Points

LEMMA Enters ==
  ASSUME TypeOK, NEW r \in Requests, Request(r)
  PROVE  \/ UNCHANGED <<pc, locals>>
         \/ pc'[r] \in {"idle", "begin"}
         \/ /\ pc[r] # "idle" /\ key'[r] = key[r]
            /\ pc'[r] = "expire" => checkout_to_replace(r)
            /\ pc'[r] = "mark" => expire_checkout_session(r)
            /\ pc'[r] = "customer" => begin_checkout_transaction(r)
            /\ pc'[r] = "create" => begin_customer_creation(r)
            /\ pc'[r] = "record" => create_customer(r)
            /\ pc'[r] = "save" => begin_customer_creation(r) \/ record_created_customer(r)
            /\ pc'[r] = "check" => begin_checkout_transaction(r)
            /\ pc'[r] = "prepare" => save_customer(r) \/ has_current_subscription(r)
            /\ pc'[r] = "post" => prepare_checkout_request(r)
            /\ pc'[r] = "open" => create_checkout_session(r)
            /\ pc'[r] = "fail_session" => create_checkout_session(r) \/ mark_checkout_open(r)
            /\ pc'[r] = "fail_customer" => save_customer(r)
            /\ pc'[r] = "drop_customer" => mark_checkout_failed(r)
            /\ pc'[r] = "erase" => delete_customer_confirmed(r)
<1> USE DEF TypeOK, LocalTypes
<1>1. CASE \E k \in Keys : create_checkout_in(r, k)
  BY <1>1, Zenon DEF create_checkout_in
<1>2. CASE begin_checkout_transaction(r)
  BY <1>2, ZenonT(90) DEF begin_checkout_transaction, Goto, Return, locals
<1>3. CASE checkout_to_replace(r) \/ save_customer(r)
  BY <1>3, Zenon DEF checkout_to_replace, save_customer, Goto, Return, locals
<1>4. CASE expire_checkout_session(r) \/ mark_checkout_expired(r)
  BY <1>4, Zenon DEF expire_checkout_session, mark_checkout_expired, Goto, Return, locals
<1>5. CASE begin_customer_creation(r) \/ create_customer(r) \/ record_created_customer(r)
  BY <1>5, Zenon DEF begin_customer_creation, create_customer, record_created_customer, Resolution,
     Goto, Return, locals
<1>6. CASE has_current_subscription(r) \/ prepare_checkout_request(r)
  BY <1>6, Zenon DEF has_current_subscription, prepare_checkout_request, Goto, locals
<1>7. CASE create_checkout_session(r) \/ mark_checkout_open(r)
  BY <1>7, Zenon DEF create_checkout_session, mark_checkout_open, Goto, Return, locals
<1>8. CASE mark_checkout_failed(r)
  BY <1>8, Zenon DEF mark_checkout_failed, Goto, Return, locals
<1>9. CASE delete_customer_confirmed(r)
  BY <1>9, Zenon DEF delete_customer_confirmed, Goto, Return, locals
<1>10. CASE drop_session(r) \/ mark_created_customer_erased(r) \/ assert_held(r) \/ crash(r)
  BY <1>10, Zenon DEF drop_session, mark_created_customer_erased, assert_held, crash, Return
<1>11. CASE lose_lease(r)
  BY <1>11, Zenon DEF lose_lease
<1> QED
  BY <1>1, <1>2, <1>3, <1>4, <1>5, <1>6, <1>7, <1>8, <1>9, <1>10, <1>11, Zenon DEF Request

\* Outside the handlers of the requests nobody touches their variables.
LEMMA Untouched ==
  ASSUME Next, \A r \in Requests : ~Request(r)
  PROVE  UNCHANGED <<pc, key, gen, cust>>
  BY AttemptFrame, OtherFrame, Zenon DEF Next, locals

-----------------------------------------------------------------------------
(* The customers. *)

LEMMA KnownLocalsStep == ASSUME TypeOK, Known, Tracked, Next PROVE KnownLocals'
<1> USE DEF TypeOK
<1>0. \A c \in Keys : Made(c) => Made(c)'
  BY MadeStays, Zenon
<1> SUFFICES ASSUME NEW q \in Requests
             PROVE  /\ pc'[q] \in {"record", "save", "fail_customer", "drop_customer"} => Made(key[q])'
                    /\ pc'[q] \in {"check", "prepare"} => (cust[q] \in Keys /\ Made(cust[q]))'
  BY Zenon DEF KnownLocals
<1>1. CASE pc'[q] = pc[q] /\ key'[q] = key[q] /\ cust'[q] = cust[q]
  BY <1>0, <1>1, Zenon DEF Known, KnownLocals, LocalTypes
<1>2. CASE Request(q)
  <2>1. CASE UNCHANGED <<pc, locals>> \/ pc'[q] \in {"idle", "begin"}
    BY <1>1, <2>1, Zenon DEF locals
  <2>2. CASE pc[q] # "idle" /\ key'[q] = key[q] /\ pc'[q] = "record" /\ create_customer(q)
    BY <2>2, ZenonT(90) DEF create_customer, Customer, Goto, Made, LocalTypes, StripeTypes, locals
  <2>3. CASE /\ pc[q] # "idle" /\ key'[q] = key[q] /\ pc'[q] = "save"
             /\ begin_customer_creation(q) \/ record_created_customer(q)
    BY <1>0, <2>3, Zenon DEF begin_customer_creation, record_created_customer, Resolution, Known,
       KnownRows, KnownLocals, LocalTypes, Goto, Return
  <2>4. CASE pc[q] # "idle" /\ key'[q] = key[q] /\ save_customer(q)
    BY <1>0, <2>4, Zenon DEF save_customer, Known, KnownLocals, LocalTypes, Goto
  <2>5. CASE pc[q] # "idle" /\ key'[q] = key[q] /\ pc'[q] = "drop_customer" /\ mark_checkout_failed(q)
    BY <1>0, <2>5, Zenon DEF mark_checkout_failed, Known, KnownLocals, LocalTypes, Goto, Return
  <2>6. CASE pc'[q] = "check" /\ begin_checkout_transaction(q)
    BY <1>0, <2>6, ZenonT(90) DEF begin_checkout_transaction, Linked, Known, KnownRows, LocalTypes,
       CreationTypes, Goto, Return
  <2>7. CASE pc[q] # "idle" /\ pc'[q] = "prepare" /\ has_current_subscription(q)
    BY <1>0, <2>7, Zenon DEF has_current_subscription, Known, KnownLocals, LocalTypes, Goto, locals
  <2> QED BY <1>2, <2>1, <2>2, <2>3, <2>4, <2>5, <2>6, <2>7, Enters, Zenon
<1> QED BY <1>1, <1>2, Bystanders, Untouched, Zenon

LEMMA TrackedStep == ASSUME TypeOK, Known, Tracked, Next PROVE Tracked'
<1> USE DEF TypeOK
<1>1. ASSUME NEW k \in Keys, customers'[k] = "live" PROVE k \in started'
  <2>1. k \in started
    BY <1>1, CustomerMoves, Zenon DEF Tracked, Gone
  <2>2. CASE UNCHANGED started \/ \E r \in Requests : begin_customer_creation(r)
    BY <2>1, <2>2, Zenon DEF begin_customer_creation
  <2>3. CASE recover_customer_creation
    BY <1>1, <2>1, <2>3, OtherFrame, Zenon DEF recover_customer_creation, Tracked, stripe
  <2> QED BY <2>2, <2>3, RequestFrame, AttemptFrame, OtherFrame, Zenon DEF Next
<1>2. ASSUME NEW k \in erased' PROVE customers'[k] \in Gone
  <2>1. CASE k \in erased
    BY <2>1, MadeStays, Zenon DEF Tracked, CreationTypes
  <2>2. ASSUME NEW r \in Requests, mark_created_customer_erased(r) PROVE customers'[k] \in Gone
    BY <1>2, <2>1, <2>2, Zenon DEF mark_created_customer_erased, Tracked, LocalTypes, stripe
  <2> QED BY <1>2, <2>1, <2>2, RequestFrame, AttemptFrame, OtherFrame, Zenon DEF Next
<1>3. ASSUME NEW q \in Requests, pc'[q] = "create" PROVE key'[q] \in started' /\ key'[q] \notin overdue'
  <2>1. CASE pc[q] = "create" /\ key'[q] = key[q]
    <3>1. key[q] \in started /\ key[q] \notin overdue
      BY <2>1, Zenon DEF Tracked
    <3>2. CASE UNCHANGED started \/ \E r \in Requests : begin_customer_creation(r)
      <4>1. key[q] \in started' BY <3>1, <3>2, Zenon DEF begin_customer_creation
      <4>2. key[q] \notin overdue'
        BY <2>1, <3>1, RequestFrame, AttemptFrame, OtherFrame, Zenon DEF Next, grow_overdue
      <4> QED BY <2>1, <4>1, <4>2, Zenon
    <3>3. CASE recover_customer_creation
      BY <2>1, <3>1, <3>3, OtherFrame, Zenon DEF recover_customer_creation, Tracked
    <3> QED BY <3>2, <3>3, RequestFrame, AttemptFrame, OtherFrame, Zenon DEF Next
  <2>2. CASE Request(q)
    <3>1. CASE key'[q] = key[q] /\ begin_customer_creation(q)
      BY <1>3, <3>1, Zenon DEF begin_customer_creation, Goto, Return, LocalTypes, Resolution
    <3> QED BY <1>3, <2>1, <2>2, <3>1, Enters, Zenon DEF locals
  <2> QED BY <1>3, <2>1, <2>2, Bystanders, Untouched, Zenon
<1>4. ASSUME NEW q \in Requests, pc'[q] = "erase" PROVE customers'[key'[q]] \in Gone
  <2>1. CASE pc[q] = "erase" /\ key'[q] = key[q]
    BY <2>1, MadeStays, Zenon DEF Tracked, LocalTypes
  <2>2. CASE Request(q)
    <3>1. CASE pc[q] # "idle" /\ key'[q] = key[q] /\ delete_customer_confirmed(q)
      BY <1>4, <3>1 DEF delete_customer_confirmed, Deleted, Goto, Return, LocalTypes,
         StripeTypes, Known, KnownLocals, Made, Gone
    <3> QED BY <1>4, <2>1, <2>2, <3>1, Enters, Zenon DEF locals
  <2> QED BY <1>4, <2>1, <2>2, Bystanders, Untouched, Zenon
<1>5. ASSUME job' # NoJob, job'.found = None
      PROVE  job'.of \in overdue' /\ customers'[job'.of] # "live"
  <2>1. overdue \subseteq overdue'
    BY <1>5, RequestFrame, AttemptFrame, OtherFrame, Zenon DEF Next, grow_overdue
  <2>2. CASE UNCHANGED job
    BY <1>5, <2>1, <2>2, CustomerMoves, Zenon DEF Tracked, CreationTypes, Gone
  <2>3. ASSUME NEW k \in Keys, reconcile_customer_creation(k), job' # job
        PROVE  job'.of \in overdue' /\ customers'[job'.of] # "live"
    BY <1>5, <2>3, KeysAssumption DEF reconcile_customer_creation, find_created_customer, stripe
  <2>4. CASE recover_customer_creation
    BY <1>5, <2>4, Zenon DEF recover_customer_creation
  <2> QED BY <2>2, <2>3, <2>4, RequestFrame, AttemptFrame, OtherFrame, Zenon DEF Next
<1> QED BY <1>1, <1>2, <1>3, <1>4, <1>5, Zenon DEF Tracked

-----------------------------------------------------------------------------
LEMMA CustomersInit == Init => CustomersInv
<1> SUFFICES ASSUME Init PROVE CustomersInv
  BY Zenon
<1> USE KeysAssumption DEF Init
<1>1. TypeOK
  BY Zenon DEF TypeOK, RowTypes, CreationTypes, StripeTypes, LocalTypes, Points
<1>2. Known /\ Tracked
  BY Zenon DEF Known, KnownRows, KnownLocals, Tracked, NoJob
<1> QED BY <1>1, <1>2, Zenon DEF CustomersInv

LEMMA CustomersStep == ASSUME CustomersInv, [Next]_vars PROVE CustomersInv'
<1>1. CASE Next
  BY <1>1, LocalStep, RowStep, CreationStep, StripeStep, KnownRowsStep, KnownLocalsStep,
     TrackedStep, Zenon DEF CustomersInv, TypeOK, Known
<1>2. CASE UNCHANGED vars
  BY <1>2, Zenon DEF CustomersInv, vars, rows, creation, link, stripe, locals, TypeOK, RowTypes,
     CreationTypes, StripeTypes, LocalTypes, Known, KnownRows, KnownLocals, Made, Tracked
<1> QED BY <1>1, <1>2, Zenon

\* No customer made at Stripe is lost: one that is alive is linked, or the row
\* of its attempt says that a creation began and was not undone, and no
\* idempotency key makes two (begin_customer_creation, record_created_customer,
\* recover_customer_creation).
THEOREM NoCustomerLost == Spec => []CustomersTracked
<1>1. CustomersInv => CustomersTracked
  BY Zenon DEF CustomersInv, TypeOK, StripeTypes, Tracked, Gone, CustomersTracked
<1> QED BY <1>1, CustomersInit, CustomersStep, PTL DEF Spec

-----------------------------------------------------------------------------
\* A request never holds a generation its row has not reached.
Generations ==
  \A r \in Requests : IF pc[r] = "idle" THEN gen[r] = 0 ELSE gen[r] <= generation[key[r]]

\* The stored requests whose customer is alive name the linked one.
Alive(c) == c # None /\ customers[c] = "live"

LinkedAlive ==
  /\ \A k \in Keys : Alive(request[k]) => Linked = request[k]
  /\ \A r \in Requests : pc[r] \in {"check", "prepare"} /\ Alive(cust[r]) => Linked = cust[r]

\* What the rows and the requests know of the sessions at Stripe.
Sessions ==
  /\ \A k \in Keys :
       /\ session[k] # "none" => request[k] # None
       /\ session[k] = "open" => k \notin lapsed /\ Alive(request[k])
       /\ status[k] = "open" => session[k] # "none"
       /\ subscription[k] = "current" => session[k] = "complete" /\ Alive(request[k])
  /\ \A r \in Requests :
       /\ pc[r] = "post" => request[key[r]] # None
       /\ pc[r] \in {"open", "fail_session"} => session[key[r]] # "none"
       /\ pc[r] \in {"expire", "mark"} => cust[r] \in Keys /\ session[cust[r]] # "none"
       /\ pc[r] = "mark" => session[cust[r]] = "expired"

\* Stripe has, or would still make, a session of the attempt that can be paid.
Armed(k) == Alive(request[k]) /\ k \notin lapsed /\ session[k] \in {"none", "open"}
Live(k)  == status[k] \in {"creating", "open"} \/ Armed(k)

OneLive ==
  /\ \A k \in Keys : Armed(k) => status[k] \in {"creating", "open", "failed"}
  /\ \A j, k \in Keys : Live(j) /\ Live(k) => j = k

Paid(k) == subscription[k] = "current"

OnePaid ==
  /\ \A k \in Keys : Armed(k) => \A j \in Keys \ {k} : ~Paid(j)
  /\ \A j, k \in Keys : Paid(j) /\ Paid(k) => j = k
  /\ \A r \in Requests : pc[r] # "idle" /\ Owns(r) => \A j \in Keys \ {key[r]} :
       /\ pc[r] \in {"customer", "create", "record", "save", "prepare"} => ~Paid(j)
       /\ pc[r] = "check" /\ Paid(j) => request[j] = cust[r]

IInv == /\ CustomersInv /\ Generations /\ LinkedAlive /\ Sessions
        /\ OneLive /\ OnePaid

-----------------------------------------------------------------------------
LEMMA GenerationStep == ASSUME TypeOK, Generations, Next PROVE Generations'
<1> USE DEF TypeOK
<1>1. ASSUME NEW r \in Requests, pc[r] # "idle", UNCHANGED generation,
             (\E p \in Points \ {"idle"} : Goto(r, p)) \/ Return(r)
      PROVE  Generations'
  BY <1>1, Zenon DEF Generations, LocalTypes, Goto, Return, locals
<1>2. CASE UNCHANGED <<generation, locals, pc>>
  BY <1>2, Zenon DEF Generations, locals
<1>3. ASSUME NEW r \in Requests, NEW k \in Keys, create_checkout_in(r, k) PROVE Generations'
  BY <1>3 DEF create_checkout_in, Generations, LocalTypes, RowTypes, rows
<1>4. ASSUME NEW r \in Requests, begin_checkout_transaction(r) PROVE Generations'
  <2>1. pc[r] # "idle" BY <1>4, Zenon DEF begin_checkout_transaction
  <2>2. CASE UNCHANGED generation /\ (Goto(r, "replace") \/ Return(r))
    BY <1>1, <2>1, <2>2, Zenon DEF Points
  <2>3. CASE /\ generation' = [generation EXCEPT ![key[r]] = @ + 1]
             /\ pc' = [pc EXCEPT ![r] = IF Linked = None THEN "customer" ELSE "check"]
             /\ gen' = [gen EXCEPT ![r] = generation[key[r]] + 1]
             /\ UNCHANGED key
    BY <2>1, <2>3 DEF Generations, LocalTypes, RowTypes
  <2> QED BY <1>4, <2>2, <2>3, Zenon DEF begin_checkout_transaction
<1>5. ASSUME NEW r \in Requests, checkout_to_replace(r) PROVE Generations'
  BY <1>5, ZenonT(90) DEF checkout_to_replace, Return, Generations, LocalTypes, rows
<1>6. ASSUME NEW r \in Requests, save_customer(r) PROVE Generations'
  BY <1>6, Zenon DEF save_customer, Goto, Generations, LocalTypes, rows, locals
<1>7. ASSUME NEW r \in Requests,
             \/ expire_checkout_session(r) \/ mark_checkout_expired(r)
             \/ begin_customer_creation(r) \/ create_customer(r)
             \/ record_created_customer(r)
             \/ has_current_subscription(r) \/ prepare_checkout_request(r)
      PROVE  Generations'
  <2>1. /\ pc[r] # "idle" /\ UNCHANGED generation
        /\ (\E p \in Points \ {"idle"} : Goto(r, p)) \/ Return(r)
    BY <1>7, Zenon DEF expire_checkout_session, mark_checkout_expired, begin_customer_creation,
       create_customer, record_created_customer, has_current_subscription,
       prepare_checkout_request, Resolution, Points, rows
  <2> QED BY <1>1, <2>1, Zenon
<1>8. ASSUME NEW r \in Requests,
             \/ create_checkout_session(r) \/ mark_checkout_open(r)
             \/ mark_checkout_failed(r) \/ drop_session(r)
             \/ delete_customer_confirmed(r) \/ mark_created_customer_erased(r)
             \/ assert_held(r) \/ crash(r)
      PROVE  Generations'
  <2>1. /\ pc[r] # "idle" /\ UNCHANGED generation
        /\ (\E p \in Points \ {"idle"} : Goto(r, p)) \/ Return(r)
    BY <1>8, Zenon DEF create_checkout_session, mark_checkout_open,
       mark_checkout_failed, drop_session, delete_customer_confirmed,
       mark_created_customer_erased, assert_held, crash, Points, rows
  <2> QED BY <1>1, <2>1, Zenon
<1>9. ASSUME NEW r \in Requests, lose_lease(r) PROVE Generations'
  BY <1>2, <1>9, Zenon DEF lose_lease, rows
<1>10. ASSUME NEW k \in Keys, Attempt(k) PROVE Generations'
  BY <1>2, <1>10, Zenon DEF Attempt, pay, cancel, delete_customer, webhook_checkout,
     grow_stale, lapse, grow_overdue, schedule_due, reconcile_customer_creation, rows
<1>11. CASE apply_subscription \/ mark_customer_deleted \/ recover_customer_creation
  BY <1>2, <1>11, Zenon DEF apply_subscription, mark_customer_deleted, recover_customer_creation, rows
<1> QED
  BY <1>3, <1>4, <1>5, <1>6, <1>7, <1>8, <1>9, <1>10, <1>11, Zenon DEF Next, Request

\* A customer that is linked and stays alive stays linked.
LEMMA LinkStays ==
  ASSUME TypeOK, Tracked, Next, NEW c \in Keys, Linked = c, customers[c] = "live",
         customers'[c] = "live"
  PROVE  Linked' = c
<1> USE DEF TypeOK
<1>0. customer = c /\ ~unlinked
  BY KeysAssumption, Zenon DEF Linked
<1>1. CASE UNCHANGED link
  BY <1>1, Zenon DEF link, Linked
<1>2. ASSUME NEW r \in Requests, save_customer(r) PROVE Linked' = c
  BY <1>0, <1>1, <1>2, KeysAssumption, Zenon DEF save_customer, CanLink, LinkTo, Linked, link
<1>3. CASE recover_customer_creation
  BY <1>0, <1>1, <1>3, KeysAssumption, Zenon DEF recover_customer_creation, CanLink, LinkTo, Linked, link
<1>4. CASE apply_subscription
  <2>1. ~(customers[customer] \in Gone)
    BY <1>0, Zenon DEF Gone
  <2>2. ~unlinked'
    BY <1>4, <2>1, Zenon DEF apply_subscription
  <2> QED BY <1>0, <1>4, <2>2, Zenon DEF apply_subscription, Linked
<1>5. CASE mark_customer_deleted
  BY <1>0, <1>5, Zenon DEF mark_customer_deleted
<1> QED BY <1>1, <1>2, <1>3, <1>4, <1>5, RequestFrame, AttemptFrame, Zenon DEF Next

\* The request to Stripe is stored once, by the owner of the row.
LEMMA RequestMoves ==
  ASSUME TypeOK, Next, NEW k \in Keys
  PROVE  \/ request'[k] = request[k]
         \/ /\ request[k] = None
            /\ \E r \in Requests : /\ prepare_checkout_request(r) /\ pc[r] = "prepare"
                                   /\ key[r] = k /\ Owns(r) /\ request'[k] = cust[r]
<1> USE DEF TypeOK
<1>1. CASE UNCHANGED request
  BY <1>1, Zenon
<1>2. CASE \E r \in Requests : prepare_checkout_request(r)
  BY <1>2, ZenonT(90) DEF prepare_checkout_request, RowTypes, LocalTypes
<1> QED BY <1>1, <1>2, RequestFrame, AttemptFrame, OtherFrame, Zenon DEF Next, rows

LEMMA LinkedStep == ASSUME TypeOK, Known, Tracked, LinkedAlive, Next PROVE LinkedAlive'
<1> USE DEF TypeOK
<1>0. ASSUME NEW c \in Keys, Made(c), Alive(c)', Alive(c) => Linked = c PROVE Linked' = c
  BY <1>0, MadeStays, LinkStays, Zenon DEF Alive, Made
<1>1. ASSUME NEW k \in Keys, Alive(request[k])' PROVE Linked' = request'[k]
  <2>1. CASE request'[k] = request[k]
    BY <1>0, <1>1, <2>1, Zenon DEF Alive, Known, KnownRows, LinkedAlive, RowTypes
  <2>2. ASSUME NEW r \in Requests, pc[r] = "prepare", request'[k] = cust[r]
        PROVE  Linked' = request'[k]
    BY <1>0, <1>1, <2>2, Zenon DEF Alive, Known, KnownLocals, LinkedAlive
  <2> QED BY <2>1, <2>2, RequestMoves, Zenon
<1>2. ASSUME NEW q \in Requests, pc'[q] \in {"check", "prepare"}, Alive(cust[q])'
      PROVE  Linked' = cust'[q]
  <2>1. CASE pc[q] \in {"check", "prepare"} /\ cust'[q] = cust[q]
    BY <1>0, <1>2, <2>1, Zenon DEF Alive, Known, KnownLocals, LinkedAlive
  <2>2. CASE Request(q)
    <3>1. CASE pc'[q] = "check" /\ begin_checkout_transaction(q)
      BY <1>2, <3>1, Zenon DEF begin_checkout_transaction, Goto, Return, LocalTypes, Linked, link
    <3>2. CASE pc'[q] = "prepare" /\ save_customer(q)
      BY <1>2, <3>2, KeysAssumption, Zenon DEF save_customer, LinkTo, Linked, Goto, LocalTypes
    <3>3. CASE pc[q] # "idle" /\ pc'[q] = "prepare" /\ has_current_subscription(q)
      BY <2>1, <3>3, Zenon DEF has_current_subscription, Goto, locals
    <3> QED BY <1>2, <2>1, <2>2, <3>1, <3>2, <3>3, Enters, Zenon DEF locals
  <2> QED BY <1>2, <2>1, <2>2, Bystanders, Untouched, Zenon
<1> QED BY <1>1, <1>2, Zenon DEF LinkedAlive

-----------------------------------------------------------------------------
(* The sessions at Stripe. *)

\* A customer that is alive stays so unless it is deleted.
LEMMA AliveMoves ==
  ASSUME TypeOK, Tracked, Next, NEW c \in Keys, Alive(c)
  PROVE  Alive(c)' \/ Deleted(c)
<1> USE DEF TypeOK, Alive
<1>1. CASE UNCHANGED customers
  BY <1>1, Zenon
<1>2. ASSUME NEW r \in Requests, create_customer(r) PROVE Alive(c)'
  BY <1>2, Zenon DEF create_customer, Customer, Tracked, LocalTypes, StripeTypes
<1>3. ASSUME NEW k \in Keys, Deleted(k) PROVE Alive(c)' \/ Deleted(c)
  BY <1>3, Zenon DEF Deleted, StripeTypes
<1>4. ASSUME NEW r \in Requests, delete_customer_confirmed(r) PROVE Alive(c)' \/ Deleted(c)
  BY <1>3, <1>4, Zenon DEF delete_customer_confirmed, LocalTypes, stripe
<1>5. CASE mark_customer_deleted
  BY <1>5, Zenon DEF mark_customer_deleted, StripeTypes
<1> QED
  BY <1>1, <1>2, <1>3, <1>4, <1>5, RequestFrame, AttemptFrame, OtherFrame, Zenon DEF Next, stripe

\* A session opens for a stored request that Stripe does not refuse, and is
\* paid or expires once.
LEMMA SessionMoves ==
  ASSUME TypeOK, Sessions, Next, NEW k \in Keys
  PROVE  \/ session'[k] = session[k]
         \/ /\ session[k] = "none" /\ session'[k] = "open"
            /\ Alive(request[k]) /\ k \notin lapsed
            /\ \E r \in Requests : create_checkout_session(r)
         \/ session[k] = "open" /\ session'[k] = "complete" /\ pay(k)
         \/ session[k] = "open" /\ session'[k] = "expired"
<1> USE DEF TypeOK
<1>1. CASE UNCHANGED session
  BY <1>1, Zenon
<1>2. ASSUME NEW j \in Keys, Expire(j) \/ Deleted(j)
      PROVE  session'[k] = session[k] \/ (session[k] = "open" /\ session'[k] = "expired")
  BY <1>2, ZenonT(90) DEF Expire, Deleted, StripeTypes
<1>3. ASSUME NEW r \in Requests, create_checkout_session(r)
      PROVE  \/ session'[k] = session[k]
             \/ /\ session[k] = "none" /\ session'[k] = "open"
                /\ Alive(request[k]) /\ k \notin lapsed
  BY <1>3, SMTT(20) DEF create_checkout_session, Session, Refused, Sessions, Alive, LocalTypes, StripeTypes
<1>4. ASSUME NEW j \in Keys, pay(j)
      PROVE  session'[k] = session[k] \/ (session[k] = "open" /\ session'[k] = "complete" /\ pay(k))
  BY <1>4, Zenon DEF pay, StripeTypes
<1>5. ASSUME NEW r \in Requests, expire_checkout_session(r) \/ drop_session(r) \/ delete_customer_confirmed(r)
      PROVE  UNCHANGED session \/ \E j \in Keys : Expire(j) \/ Deleted(j)
  <2>1. CASE expire_checkout_session(r)
    BY <2>1, Zenon DEF expire_checkout_session, Sessions
  <2>2. CASE drop_session(r) \/ delete_customer_confirmed(r)
    BY <2>2, Zenon DEF drop_session, delete_customer_confirmed, LocalTypes, stripe
  <2> QED BY <1>5, <2>1, <2>2, Zenon
<1>6. ASSUME NEW j \in Keys, lapse(j) PROVE Expire(j)
  BY <1>6, Zenon DEF lapse
<1> QED
  BY <1>1, <1>2, <1>3, <1>4, <1>5, <1>6, RequestFrame, AttemptFrame, OtherFrame, Zenon DEF Next, stripe

LEMMA SessionsStep ==
  ASSUME TypeOK, Known, Tracked, Sessions, Next PROVE Sessions'
<1> USE DEF TypeOK
<1>a. ASSUME NEW k \in Keys
      PROVE  /\ request[k] # None => request'[k] = request[k]
             /\ session[k] # "none" => session'[k] # "none"
             /\ session[k] = "expired" => session'[k] = "expired"
             /\ session[k] = "complete" => session'[k] = "complete"
  BY RequestMoves, SessionMoves, Zenon
<1>1. ASSUME NEW k \in Keys, session'[k] # "none" PROVE request'[k] # None
  BY <1>1, <1>a, SessionMoves DEF Sessions, Alive
<1>2. ASSUME NEW k \in Keys, session'[k] = "open" PROVE k \notin lapsed' /\ Alive(request[k])'
  <2>1. Alive(request[k]) /\ k \notin lapsed /\ request'[k] = request[k] /\ request[k] \in Keys
    BY <1>2, <1>a, SessionMoves DEF Sessions, Alive, RowTypes
  <2>2. Alive(request[k])'
    <3>1. CASE Deleted(request[k])
      BY <1>2, <2>1, <3>1, Zenon DEF Deleted
    <3> QED BY <2>1, <3>1, AliveMoves, Zenon DEF Alive
  <2>3. k \notin lapsed'
    <3>1. ASSUME NEW j \in Keys, lapse(j) PROVE k \notin lapsed'
      BY <1>2, <2>1, <3>1, Zenon DEF lapse, Expire, StripeTypes
    <3>2. ASSUME NEW r \in Requests, begin_checkout_transaction(r) \/ prepare_checkout_request(r)
          PROVE  k \notin lapsed'
      BY <2>1, <3>2, Zenon DEF begin_checkout_transaction, prepare_checkout_request
    <3> QED BY <2>1, <3>1, <3>2, RequestFrame, AttemptFrame, OtherFrame, Zenon DEF Next, rows
  <2> QED BY <2>2, <2>3, Zenon
<1>3. ASSUME NEW k \in Keys, status'[k] = "open" PROVE session'[k] # "none"
  <2>1. CASE status[k] = "open"
    BY <1>a, <2>1, Zenon DEF Sessions
  <2>2. ASSUME NEW r \in Requests, mark_checkout_open(r), status'[k] # status[k] PROVE session'[k] # "none"
    BY <1>3, <1>a, <2>2 DEF mark_checkout_open, SetStatus, Sessions, RowTypes, LocalTypes
  <2>3. ASSUME NEW r \in Requests, begin_checkout_transaction(r) \/ mark_checkout_expired(r) \/ mark_checkout_failed(r)
        PROVE  status[k] = "open"
    BY <1>3, <2>3, Zenon DEF begin_checkout_transaction, mark_checkout_expired, mark_checkout_failed,
       SetStatus, Swept, RowTypes
  <2>4. ASSUME NEW j \in Keys, webhook_checkout(j) PROVE status[k] = "open"
    BY <1>3, <2>4, Zenon DEF webhook_checkout, SetStatus, RowTypes
  <2>5. CASE mark_customer_deleted \/ recover_customer_creation
    BY <1>3, <2>1, <2>5, Zenon DEF mark_customer_deleted, recover_customer_creation, SetStatus, RowTypes
  <2> QED
    BY <1>3, <2>1, <2>2, <2>3, <2>4, <2>5, RequestFrame, AttemptFrame, OtherFrame, Zenon DEF Next, rows
<1>4. ASSUME NEW k \in Keys, subscription'[k] = "current"
      PROVE  session'[k] = "complete" /\ Alive(request[k])'
  <2>1. CASE pay(k)
    <3>1. request[k] # None
      BY <2>1, Zenon DEF pay, Sessions
    <3> QED BY <2>1, <3>1, <1>a, Zenon DEF pay, Alive, StripeTypes
  <2>2. CASE subscription[k] = "current"
    <3>1. session[k] = "complete" /\ Alive(request[k]) /\ request[k] \in Keys /\ request'[k] = request[k]
      BY <2>2, <1>a DEF Sessions, Alive, RowTypes
    <3>2. ~Deleted(request[k])
      BY <1>4, <2>2, <3>1, Zenon DEF Deleted
    <3> QED BY <3>1, <3>2, <1>a, AliveMoves, Zenon DEF Alive
  <2>3. subscription[k] = "current" \/ pay(k)
    <3>1. ASSUME NEW j \in Keys, pay(j) \/ cancel(j) \/ Deleted(j)
          PROVE  subscription[k] = "current" \/ pay(k)
      BY <1>4, <3>1, Zenon DEF pay, cancel, Deleted, StripeTypes
    <3>2. ASSUME NEW r \in Requests, delete_customer_confirmed(r) PROVE subscription[k] = "current"
      BY <1>4, <3>2, Zenon DEF delete_customer_confirmed, Deleted, StripeTypes, stripe
    <3> QED BY <1>4, <3>1, <3>2, RequestFrame, AttemptFrame, OtherFrame, Zenon DEF Next, stripe
  <2> QED BY <2>1, <2>2, <2>3, Zenon
<1>5. ASSUME NEW q \in Requests
      PROVE  /\ pc'[q] = "post" => request'[key'[q]] # None
             /\ pc'[q] \in {"open", "fail_session"} => session'[key'[q]] # "none"
             /\ pc'[q] \in {"expire", "mark"} => cust'[q] \in Keys /\ session'[cust'[q]] # "none"
             /\ pc'[q] = "mark" => session'[cust'[q]] = "expired"
  <2>1. CASE pc'[q] = pc[q] /\ key'[q] = key[q] /\ cust'[q] = cust[q]
    BY <1>a, <2>1 DEF Sessions, LocalTypes
  <2>2. CASE Request(q)
    <3>1. CASE pc[q] # "idle" /\ key'[q] = key[q] /\ pc'[q] = "post" /\ prepare_checkout_request(q)
      BY <3>1, KeysAssumption DEF prepare_checkout_request, Known, KnownLocals, LocalTypes, RowTypes,
         Goto
    <3>2. CASE pc[q] # "idle" /\ key'[q] = key[q] /\ create_checkout_session(q)
      BY <3>2 DEF create_checkout_session, Session, Refused, Goto, LocalTypes, StripeTypes
    <3>3. CASE pc[q] # "idle" /\ key'[q] = key[q] /\ pc'[q] = "fail_session" /\ mark_checkout_open(q)
      BY <1>a, <3>3, ZenonT(90) DEF mark_checkout_open, Sessions, Goto, Return, LocalTypes
    <3>4. CASE pc'[q] = "expire" /\ checkout_to_replace(q)
      BY <3>4, <1>a, SMTT(20) DEF checkout_to_replace, Sessions, Return, LocalTypes
    <3>5. CASE pc[q] # "idle" /\ pc'[q] = "mark" /\ expire_checkout_session(q)
      <4>1. cust[q] \in Keys /\ session[cust[q]] # "none" /\ cust'[q] = cust[q]
        BY <3>5, Zenon DEF expire_checkout_session, Sessions, Goto, Return, locals, LocalTypes
      <4>2. Expire(cust[q]) /\ session[cust[q]] # "complete"
        BY <3>5, Zenon DEF expire_checkout_session, Return, LocalTypes
      <4> QED BY <3>5, <4>1, <4>2, Zenon DEF Expire, StripeTypes
    <3> QED BY <2>1, <2>2, <3>1, <3>2, <3>3, <3>4, <3>5, Enters, Zenon DEF locals
  <2> QED BY <2>1, <2>2, Bystanders, Untouched, Zenon
<1> QED BY <1>1, <1>2, <1>3, <1>4, <1>5, Zenon DEF Sessions

-----------------------------------------------------------------------------
(* At most one live attempt. *)

\* begin_checkout takes the row: the last branch of its transaction.
Takes(r) ==
  /\ begin_checkout_transaction(r) /\ pc[r] \in {"begin", "again"}
  /\ ~Rival(key[r])
  /\ status' = [Swept EXCEPT ![key[r]] = "creating"]
  /\ generation' = [generation EXCEPT ![key[r]] = @ + 1]
  /\ pc' = [pc EXCEPT ![r] = IF Linked = None THEN "customer" ELSE "check"]
  /\ cust' = [cust EXCEPT ![r] = Linked]

\* A status changes in few ways: the row is taken, its owner opens it, it
\* fails, or it is closed because nobody can pay any more.
LEMMA StatusMoves ==
  ASSUME TypeOK, Sessions, Next, NEW k \in Keys
  PROVE  \/ status'[k] = status[k]
         \/ status'[k] = "failed"
         \/ status[k] = "creating" /\ status'[k] = "open"
         \/ /\ status'[k] \in {"expired", "completed"}
            /\ k \in lapsed \/ session[k] \in {"complete", "expired"}
         \/ status'[k] = "creating" /\ \E r \in Requests : Takes(r) /\ key[r] = k
<1> USE DEF TypeOK
<1>1. CASE UNCHANGED status
  BY <1>1, Zenon
<1>2. ASSUME NEW r \in Requests, begin_checkout_transaction(r)
      PROVE  \/ status'[k] = status[k] \/ status'[k] = "failed"
             \/ status'[k] = "expired" /\ k \in lapsed
             \/ status'[k] = "creating" /\ Takes(r) /\ key[r] = k
  <2> SUFFICES ASSUME status'[k] # status[k], status'[k] # "failed",
                      ~(status'[k] = "expired" /\ k \in lapsed)
               PROVE  status'[k] = "creating" /\ Takes(r) /\ key[r] = k
    BY Zenon
  <2>1. \/ ~Rival(key[r]) /\ status' = [Swept EXCEPT ![key[r]] = "creating"]
           /\ generation' = [generation EXCEPT ![key[r]] = @ + 1]
           /\ pc' = [pc EXCEPT ![r] = IF Linked = None THEN "customer" ELSE "check"]
           /\ cust' = [cust EXCEPT ![r] = Linked]
        \/ status' = [status EXCEPT ![key[r]] = "expired"] /\ key[r] \in lapsed
        \/ status' = Swept
        \/ status' = status
    BY <1>2, Zenon DEF begin_checkout_transaction, Overrun, SetStatus
  <2>2. Swept[k] = status[k] \/ Swept[k] = "failed" \/ (Swept[k] = "expired" /\ k \in lapsed)
    BY Zenon DEF Swept, RowTypes
  <2>3. pc[r] \in {"begin", "again"}
    BY <1>2, Zenon DEF begin_checkout_transaction
  <2>4. k = key[r] /\ status' = [Swept EXCEPT ![key[r]] = "creating"]
    BY <2>1, <2>2, SweptType, Zenon DEF RowTypes
  <2> QED BY <1>2, <2>1, <2>2, <2>3, <2>4, SweptType, Zenon DEF Takes, RowTypes
<1>3. ASSUME NEW r \in Requests, mark_checkout_expired(r)
      PROVE  \/ status'[k] = status[k]
             \/ status'[k] = "expired" /\ session[k] = "expired"
  BY <1>3 DEF mark_checkout_expired, SetStatus, Sessions, RowTypes
<1>4. ASSUME NEW r \in Requests, mark_checkout_open(r) \/ mark_checkout_failed(r)
      PROVE  \/ status'[k] = status[k] \/ status'[k] = "failed"
             \/ status[k] = "creating" /\ status'[k] = "open"
  BY <1>4, Zenon DEF mark_checkout_open, mark_checkout_failed, SetStatus, Owns, RowTypes
<1>5. ASSUME NEW j \in Keys, webhook_checkout(j)
      PROVE  \/ status'[k] = status[k]
             \/ status'[k] \in {"expired", "completed"} /\ session[k] \in {"complete", "expired"}
  BY <1>5, Zenon DEF webhook_checkout, SetStatus, RowTypes
<1>6. CASE mark_customer_deleted \/ recover_customer_creation
  BY <1>6, Zenon DEF mark_customer_deleted, recover_customer_creation, SetStatus, RowTypes
<1> QED
  BY <1>1, <1>2, <1>3, <1>4, <1>5, <1>6, RequestFrame, AttemptFrame, OtherFrame, Zenon DEF Next, rows

\* The time of an attempt starts anew only while it has no stored request.
LEMMA LapsedStays ==
  ASSUME TypeOK, Next, NEW k \in Keys, k \in lapsed, request[k] # None
  PROVE  k \in lapsed'
<1>1. ASSUME NEW r \in Requests, begin_checkout_transaction(r) \/ prepare_checkout_request(r)
      PROVE  k \in lapsed'
  BY <1>1, Zenon DEF begin_checkout_transaction, prepare_checkout_request
<1>2. ASSUME NEW j \in Keys, lapse(j) PROVE k \in lapsed'
  BY <1>2, Zenon DEF lapse
<1> QED BY <1>1, <1>2, RequestFrame, AttemptFrame, OtherFrame, Zenon DEF Next, rows

\* An attempt is armed by the owner of its row, which stores the request.
LEMMA ArmedMoves ==
  ASSUME TypeOK, Known, Tracked, Sessions, Next, NEW k \in Keys, Armed(k)'
  PROVE  \/ Armed(k)
         \/ \E r \in Requests : /\ prepare_checkout_request(r) /\ pc[r] = "prepare"
                                /\ key[r] = k /\ Owns(r)
<1> USE DEF TypeOK
<1>1. CASE request'[k] = request[k]
  <2>1. request[k] \in Keys /\ Alive(request[k])
    BY <1>1, MadeStays, Zenon DEF Armed, Alive, Known, KnownRows, RowTypes
  <2>2. k \notin lapsed
    BY <2>1, LapsedStays, KeysAssumption, Zenon DEF Armed
  <2>3. session[k] \in {"none", "open"}
    BY SessionMoves, Zenon DEF Armed
  <2> QED BY <2>1, <2>2, <2>3, Zenon DEF Armed
<1> QED BY <1>1, RequestMoves, Zenon

\* Only taking its row brings an attempt to life.
LEMMA LiveMoves ==
  ASSUME TypeOK, Known, Tracked, Sessions, Next, NEW k \in Keys, Live(k)'
  PROVE  Live(k) \/ \E r \in Requests : Takes(r) /\ key[r] = k
<1>1. CASE Armed(k)'
  BY <1>1, ArmedMoves, ZenonT(90) DEF Live, Owns
<1>2. CASE status'[k] \in {"creating", "open"}
  BY <1>2, StatusMoves, Zenon DEF Live
<1> QED BY <1>1, <1>2, Zenon DEF Live

\* Whoever takes a row leaves no other attempt alive.
LEMMA TakesAlone ==
  ASSUME TypeOK, Known, Tracked, Sessions, OneLive, Next, NEW r \in Requests, Takes(r),
         NEW j \in Keys, j # key[r]
  PROVE  ~Live(j)'
<1> USE DEF TypeOK
<1>1. ~Uncertain(Swept, j)
  BY Zenon DEF Takes, Rival
<1>2. status'[j] = Swept[j]
  BY SweptType, Zenon DEF Takes
<1>3. ~Armed(j)
  <2> SUFFICES ASSUME Armed(j) PROVE FALSE
    BY Zenon
  <2>1. status[j] \in {"creating", "open", "failed"} /\ j \notin lapsed /\ request[j] # None
    BY Zenon DEF OneLive, Armed, Alive
  <2>2. Swept[j] \in {"creating", "open", "failed"}
    BY <2>1, Zenon DEF Swept
  <2> QED BY <1>1, <2>1, <2>2, Zenon DEF Uncertain
<1>4. ~Armed(j)'
  <2> SUFFICES ASSUME Armed(j)' PROVE FALSE
    BY Zenon
  <2>1. PICK q \in Requests : prepare_checkout_request(q) /\ pc[q] = "prepare" /\ key[q] = j
    BY <1>3, ArmedMoves, Zenon
  <2>2. q # r /\ pc'[r] \in {"customer", "check"} /\ pc[r] \in {"begin", "again"}
    BY <2>1, Zenon DEF Takes, LocalTypes
  <2>3. pc'[r] = pc[r]
    BY <2>1, <2>2, Zenon DEF LocalTypes, prepare_checkout_request, Goto
  <2> QED BY <2>2, <2>3, Zenon
<1> QED BY <1>1, <1>2, <1>4, Zenon DEF Live, Uncertain

LEMMA OneLiveStep ==
  ASSUME TypeOK, Known, Tracked, Sessions, OneLive, Next PROVE OneLive'
<1>1. ASSUME NEW k \in Keys, Armed(k)' PROVE status'[k] \in {"creating", "open", "failed"}
  <2>1. CASE Armed(k)
    BY <2>1, StatusMoves, Zenon DEF OneLive, Armed
  <2>2. ASSUME NEW r \in Requests, prepare_checkout_request(r), key[r] = k, Owns(r)
        PROVE  status'[k] = "creating"
    BY <2>2, Zenon DEF prepare_checkout_request, Owns
  <2> QED BY <1>1, <2>1, <2>2, ArmedMoves, Zenon
<1>2. ASSUME NEW j \in Keys, NEW k \in Keys, Live(j)', Live(k)' PROVE j = k
  BY <1>2, LiveMoves, TakesAlone, Zenon DEF OneLive
<1> QED BY <1>1, <1>2, Zenon DEF OneLive

-----------------------------------------------------------------------------
(* At most one payment. *)

\* A subscription that runs was running before or is being paid, and what can
\* be paid is armed.
LEMMA PaidMoves ==
  ASSUME TypeOK, Sessions, Next, NEW j \in Keys, Paid(j)'
  PROVE  Paid(j) \/ (pay(j) /\ Armed(j))
<1> USE DEF TypeOK, Paid
<1>1. ASSUME NEW k \in Keys, pay(k) \/ cancel(k) \/ Deleted(k) PROVE Paid(j) \/ pay(j)
  BY <1>1, Zenon DEF pay, cancel, Deleted, StripeTypes
<1>2. ASSUME NEW r \in Requests, delete_customer_confirmed(r) PROVE Paid(j)
  BY <1>2, Zenon DEF delete_customer_confirmed, Deleted, StripeTypes, stripe
<1>3. Paid(j) \/ pay(j)
  BY <1>1, <1>2, RequestFrame, AttemptFrame, OtherFrame, Zenon DEF Next, stripe
<1>4. ASSUME pay(j) PROVE Armed(j)
  BY <1>4, Zenon DEF pay, Armed, Sessions
<1> QED BY <1>3, <1>4, Zenon

\* While a request owns its row, nothing else can be paid.
LEMMA OwnerAlone ==
  ASSUME TypeOK, OneLive, NEW r \in Requests, pc[r] # "idle", Owns(r),
         NEW j \in Keys, j # key[r]
  PROVE  ~Armed(j)
  BY Zenon DEF TypeOK, LocalTypes, OneLive, Live, Owns

\* A request owns its row since it took it: a later request that takes the row
\* gives it a later generation.
LEMMA OwnsMoves ==
  ASSUME TypeOK, Generations, Sessions, Next, NEW q \in Requests, pc[q] # "idle", pc'[q] # "idle",
         key'[q] = key[q], Owns(q)'
  PROVE  Takes(q) \/ (Owns(q) /\ gen'[q] = gen[q])
<1> USE DEF TypeOK
<1>1. CASE gen'[q] = gen[q] /\ ~Takes(q)
  <2>1. key[q] \in Keys /\ status'[key[q]] = "creating" /\ generation'[key[q]] = gen[q]
        /\ gen[q] <= generation[key[q]]
    BY <1>1, Zenon DEF Owns, Generations, LocalTypes
  <2>2. ASSUME NEW r \in Requests, Takes(r), key[r] = key[q] PROVE FALSE
    <3>1. generation'[key[q]] = generation[key[q]] + 1
      BY <2>1, <2>2, Zenon DEF Takes, RowTypes
    <3> QED BY <2>1, <3>1 DEF RowTypes, LocalTypes
  <2>3. status[key[q]] = "creating"
    BY <2>1, <2>2, StatusMoves, Zenon
  <2>4. generation[key[q]] <= generation'[key[q]]
    <3>1. ASSUME NEW r \in Requests, Request(r) PROVE
             generation' = generation \/ generation' = [generation EXCEPT ![key[r]] = @ + 1]
      BY <3>1, Zenon DEF Request, create_checkout_in, begin_checkout_transaction, checkout_to_replace,
           expire_checkout_session, mark_checkout_expired, begin_customer_creation, create_customer,
           record_created_customer, save_customer, has_current_subscription,
           prepare_checkout_request, create_checkout_session, mark_checkout_open,
           mark_checkout_failed, drop_session, delete_customer_confirmed,
           mark_created_customer_erased, lose_lease, assert_held, crash, rows
    <3>2. generation' = generation
          \/ \E r \in Requests : generation' = [generation EXCEPT ![key[r]] = @ + 1]
      BY <3>1, AttemptFrame, OtherFrame, Zenon DEF Next, rows
    <3> QED BY <2>1, <3>2 DEF RowTypes
  <2>5. generation[key[q]] = gen[q]
    BY <2>1, <2>4 DEF RowTypes, LocalTypes
  <2> QED BY <1>1, <2>3, <2>5, Zenon DEF Owns
<1>2. CASE gen'[q] # gen[q]
  <2>1. Request(q)
    BY <1>2, Bystanders, Untouched, Zenon
  <2>2. begin_checkout_transaction(q)
    <3>1. ASSUME Goto(q, pc'[q]) \/ Return(q) PROVE FALSE
      BY <1>2, <3>1, Zenon DEF Goto, Return, locals, LocalTypes
    <3> QED
      BY <1>2, <2>1, <3>1, Zenon DEF Request, create_checkout_in, checkout_to_replace,
           expire_checkout_session, mark_checkout_expired, begin_customer_creation, create_customer,
           record_created_customer, save_customer, has_current_subscription,
           prepare_checkout_request, create_checkout_session, mark_checkout_open,
           mark_checkout_failed, drop_session, delete_customer_confirmed,
           mark_created_customer_erased, lose_lease, assert_held, crash, Goto, locals
  <2> QED
    BY <1>2, <2>2, Zenon DEF Takes, begin_checkout_transaction, Goto, Return, locals, LocalTypes
<1> QED BY <1>1, <1>2, Zenon

LEMMA OnePaidStep == ASSUME IInv, Next PROVE OnePaid'
<1> USE DEF IInv, CustomersInv
<1>1. ASSUME NEW k \in Keys, Armed(k)', NEW j \in Keys \ {k} PROVE ~Paid(j)'
  <2>1. CASE Armed(k)
    BY <2>1, PaidMoves, Zenon DEF OneLive, OnePaid, Live
  <2>2. ASSUME NEW r \in Requests, prepare_checkout_request(r), pc[r] = "prepare", key[r] = k, Owns(r)
        PROVE  ~Paid(j)'
    BY <2>2, PaidMoves, OwnerAlone, Zenon DEF OnePaid
  <2> QED BY <1>1, <2>1, <2>2, ArmedMoves, Zenon
<1>2. ASSUME NEW j \in Keys, NEW k \in Keys, Paid(j)', Paid(k)' PROVE j = k
  BY <1>2, PaidMoves, Zenon DEF OnePaid, OneLive, Live
<1>3. ASSUME NEW q \in Requests, pc'[q] # "idle", Owns(q)', NEW j \in Keys \ {key'[q]}, Paid(j)'
      PROVE  /\ pc'[q] \notin {"customer", "create", "record", "save", "prepare"}
             /\ pc'[q] = "check" => request'[j] = cust'[q]
  <2> SUFFICES ASSUME pc'[q] \in {"customer", "create", "record", "save", "prepare", "check"}
               PROVE  pc'[q] = "check" /\ request'[j] = cust'[q]
    BY Zenon
  <2>1. /\ pc[q] # "idle" /\ key'[q] = key[q]
        /\ (pc'[q] = pc[q] /\ cust'[q] = cust[q]) \/ Request(q)
    BY <1>3, Enters, Bystanders, Untouched, Zenon DEF locals
  <2>2. CASE Takes(q)
    <3>1. Paid(j) /\ UNCHANGED <<request, link>>
      BY <1>3, <2>2, PaidMoves, Zenon DEF Takes, begin_checkout_transaction, stripe, Paid
    <3>2. Linked = request[j] /\ request[j] # None
      BY <3>1, Zenon DEF Paid, Sessions, LinkedAlive, Alive
    <3> QED BY <2>2, <3>1, <3>2, Zenon DEF Takes, TypeOK, LocalTypes
  <2>3. CASE Owns(q) /\ ~Takes(q)
    <3>1. Paid(j) /\ request'[j] = request[j]
      BY <1>3, <2>1, <2>3, PaidMoves, OwnerAlone, RequestMoves, ZenonT(90) DEF Paid, Sessions, Alive
    <3>2. pc[q] \notin {"customer", "create", "record", "save", "prepare"}
          /\ (pc[q] = "check" => request[j] = cust[q])
      BY <2>1, <2>3, <3>1, Zenon DEF OnePaid
    <3>3. CASE pc'[q] = pc[q] /\ cust'[q] = cust[q]
      BY <3>1, <3>2, <3>3, Zenon
    <3>4. CASE Request(q)
      <4>1. CASE begin_checkout_transaction(q)
        BY <2>1, <2>3, <4>1, Zenon DEF begin_checkout_transaction, Takes, Goto, Return, TypeOK, LocalTypes
      <4>2. CASE begin_customer_creation(q) \/ create_customer(q) \/ record_created_customer(q) \/ save_customer(q)
        BY <3>2, <4>2, Zenon DEF begin_customer_creation, create_customer, record_created_customer, save_customer
      <4>3. CASE has_current_subscription(q)
        BY <3>1, <3>2, <4>3, Zenon DEF has_current_subscription, Goto, Paid, TypeOK, LocalTypes
      <4> QED BY <2>1, <3>3, <3>4, <4>1, <4>2, <4>3, Enters, Zenon DEF locals
    <3> QED BY <2>1, <3>3, <3>4, Zenon
  <2> QED BY <1>3, <2>1, <2>2, <2>3, OwnsMoves, Zenon
<1> QED BY <1>1, <1>2, <1>3, Zenon DEF OnePaid

-----------------------------------------------------------------------------
(* The results. *)

LEMMA Initially == Init => IInv
<1> SUFFICES ASSUME Init PROVE IInv
  BY Zenon
<1> USE DEF Init
<1>1. Generations /\ LinkedAlive /\ Sessions
  BY Zenon DEF Generations, LinkedAlive, Sessions, Alive
<1>2. OneLive /\ OnePaid
  BY Zenon DEF OneLive, OnePaid, Live, Armed, Alive, Paid
<1> QED BY <1>1, <1>2, CustomersInit, Zenon DEF IInv

LEMMA Stutter == ASSUME IInv, UNCHANGED vars PROVE IInv'
<1> USE DEF IInv, vars, rows, link, stripe, locals
<1>1. (Generations /\ LinkedAlive)'
  BY Zenon DEF Generations, LinkedAlive, Linked, Alive
<1>2. Sessions'
  BY Zenon DEF Sessions, Alive
<1>3. (OneLive /\ OnePaid)'
  BY Zenon DEF OneLive, OnePaid, Live, Armed, Alive, Paid, Owns
<1> QED BY <1>1, <1>2, <1>3, CustomersStep, Zenon

\* The inductive invariant holds of every behaviour of the checkout handlers,
\* Stripe, its webhooks and the reconciliation.
THEOREM Invariance == Spec => []IInv
<1>1. ASSUME IInv, Next PROVE IInv'
  BY <1>1, CustomersStep, GenerationStep, LinkedStep, SessionsStep, OneLiveStep, OnePaidStep, Zenon
  DEF IInv, CustomersInv
<1> QED BY <1>1, Initially, Stutter, PTL DEF Spec

\* The account is never charged twice: of the sessions that can be paid and the
\* subscriptions that run there is at most one, for any number of keys, of
\* requests at once, of lost leases, crashes and late webhooks (begin_checkout,
\* prepare_checkout_request, has_current_subscription).
THEOREM ChargedOnce == Spec => []PayOnce
<1>1. IInv => PayOnce
  <2> SUFFICES ASSUME IInv PROVE PayOnce
    BY Zenon
  <2> DEFINE S == {k \in Keys : session[k] = "open" \/ subscription[k] = "current"}
  <2>1. ASSUME NEW k \in S PROVE Armed(k) \/ Paid(k)
    BY <2>1, Zenon DEF IInv, Sessions, Armed, Paid
  <2>2. \A j, k \in S : j = k
    BY <2>1, Zenon DEF IInv, OneLive, Live, OnePaid
  <2>3. CASE S = {}
    BY <2>3, FS_EmptySet DEF PayOnce
  <2>4. CASE S # {}
    <3>1. PICK k \in S : TRUE
      BY <2>4, Zenon
    <3>2. S = {k}
      BY <2>2, <3>1, Zenon
    <3> HIDE DEF S
    <3>3. Cardinality(S) = 1
      BY <3>2, FS_Singleton, Zenon
    <3> QED BY <3>3 DEF PayOnce, S
  <2> QED BY <2>3, <2>4, Zenon
<1> QED BY <1>1, Invariance, PTL
-----------------------------------------------------------------------------
(***************************************************************************)
(* The purchases at an application store.  A verification that is to be    *)
(* written holds a state no older than its beginning (VerifierOK), and the *)
(* stamp of a row lies between the newest verification that succeeded and  *)
(* the state the row holds (PurchaseOK): a verification that finds a newer *)
(* stamp leaves the row, and one that finds an older stamp is newer than   *)
(* everything that succeeded.                                              *)
(***************************************************************************)
Stati == {"none", "pending", "processing", "completed", "dead_letter"}

PurchaseRows == [owned : BOOLEAN, state : Nat, verified : Nat, superseded : BOOLEAN,
                 acknowledged : BOOLEAN, present : BOOLEAN]

Verifications == [pc : {"idle", "call", "apply"}, of : Purchases \cup {NoPurchase},
                  kind : {"none", "request", "notification", "reconcile"},
                  observed : Nat, state : Nat, ack : BOOLEAN]

PurchaseTypes ==
    /\ now \in Nat
    /\ row \in [Purchases -> PurchaseRows]
    /\ acknowledge \in [Purchases -> Stati]
    /\ verifier \in [Verifiers -> Verifications]
    /\ ended \in [Purchases -> Nat]

VerifierOK(v) ==
    /\ verifier[v].pc # "idle" => verifier[v].of \in Purchases /\ verifier[v].observed <= now
    /\ verifier[v].pc = "apply" => verifier[v].observed <= verifier[v].state

PurchaseOK(p) ==
    /\ ~row[p].present => ended[p] = 0 /\ ~row[p].owned
    /\ row[p].present /\ ~row[p].superseded =>
          ended[p] <= row[p].verified /\ row[p].verified <= row[p].state
    /\ row[p].owned /\ ~row[p].acknowledged =>
          acknowledge[p] \in {"pending", "processing", "dead_letter"}

StoreOK ==
    /\ PurchaseTypes
    /\ \A v \in Verifiers : VerifierOK(v)
    /\ \A p \in Purchases : PurchaseOK(p)

\* Rows, stamps and what is owed stay, and so do the verifications.
LEMMA StoreKept ==
    ASSUME StoreOK, UNCHANGED <<row, acknowledge, ended>>, now' \in Nat, now <= now',
           verifier' \in [Verifiers -> Verifications],
           \A v \in Verifiers : verifier'[v] = verifier[v] \/ VerifierOK(v)'
    PROVE  StoreOK'
<1>1. PurchaseTypes' /\ \A p \in Purchases : PurchaseOK(p)'
  BY Zenon DEF StoreOK, PurchaseTypes, PurchaseOK
<1>2. ASSUME NEW v \in Verifiers PROVE VerifierOK(v)'
  <2>1. CASE verifier'[v] = verifier[v]
    <3>1. now \in Nat /\ VerifierOK(v) /\ verifier[v] \in Verifications
      BY Zenon DEF StoreOK, PurchaseTypes
    <3> QED BY <3>1, <2>1 DEF VerifierOK, Verifications
  <2> QED BY <2>1, Zenon
<1> QED BY <1>1, <1>2, Zenon DEF StoreOK

LEMMA IdleType == Idle \in Verifications /\ Idle.pc = "idle"
BY DEF Idle, Verifications

\* A verification ends and the rows stay.
LEMMA VerifierEnds ==
    ASSUME StoreOK, NEW v \in Verifiers, verifier' = [verifier EXCEPT ![v] = Idle],
           UNCHANGED <<row, acknowledge, ended, now>>
    PROVE  StoreOK'
<1>1. /\ verifier' \in [Verifiers -> Verifications] /\ verifier'[v] = Idle
      /\ \A w \in Verifiers : w # v => verifier'[w] = verifier[w]
  BY IdleType, Zenon DEF StoreOK, PurchaseTypes
<1>2. VerifierOK(v)'
  BY <1>1, IdleType DEF VerifierOK
<1>3. now' \in Nat /\ now <= now'
  BY DEF StoreOK, PurchaseTypes
<1> QED BY <1>1, <1>2, <1>3, StoreKept, Zenon

LEMMA ObservedStep ==
    ASSUME StoreOK, NEW v \in Verifiers, NEW p \in Purchases,
           NEW kind \in {"request", "notification", "reconcile"}, observed_at(v, p, kind)
    PROVE  StoreOK'
<1> DEFINE r == [Idle EXCEPT !.pc = "call", !.of = p, !.kind = kind, !.observed = now]
<1>1. now \in Nat
  BY Zenon DEF StoreOK, PurchaseTypes
<1>2. /\ r \in Verifications /\ r.of = p /\ r.observed = now /\ r.pc = "call"
  BY <1>1, Zenon DEF Idle, Verifications
<1>3. verifier' = [verifier EXCEPT ![v] = r] /\ UNCHANGED <<row, acknowledge, ended, now>>
  BY Zenon DEF observed_at, external
<1> HIDE DEF r
<1>4. /\ verifier' \in [Verifiers -> Verifications] /\ verifier'[v] = r
      /\ \A w \in Verifiers : w # v => verifier'[w] = verifier[w]
  BY <1>2, <1>3, Zenon DEF StoreOK, PurchaseTypes
<1>5. VerifierOK(v)' /\ now <= now' /\ now' \in Nat
  BY <1>1, <1>2, <1>3, <1>4 DEF VerifierOK
<1> QED BY <1>3, <1>4, <1>5, StoreKept, Zenon

LEMMA AnsweredStep ==
    ASSUME StoreOK, NEW v \in Verifiers, gateway_verify(v) PROVE StoreOK'
<1>1. PICK x \in Verifications : x = verifier[v]
  BY Zenon DEF StoreOK, PurchaseTypes
<1>2. now \in Nat /\ VerifierOK(v) /\ verifier[v].pc = "call"
      /\ UNCHANGED <<row, acknowledge, ended, now>>
  BY Zenon DEF StoreOK, PurchaseTypes, gateway_verify, external, queues
<1>3. PICK ack \in BOOLEAN : verifier' = [verifier EXCEPT ![v].pc = "apply", ![v].state = now,
                                                         ![v].ack = ack]
  <2>1. \A c : c = (verifier[v].of \in needsAck) => c \in BOOLEAN
    OBVIOUS
  <2> QED BY <2>1, Zenon DEF gateway_verify
<1> DEFINE r == [x EXCEPT !.pc = "apply", !.state = now, !.ack = ack]
<1>4. r \in Verifications /\ r.of = x.of /\ r.observed = x.observed /\ r.pc = "apply" /\ r.state = now
  BY <1>1, <1>2, Zenon DEF Verifications
<1>5. verifier' = [verifier EXCEPT ![v] = r]
  BY <1>1, <1>3, Zenon DEF StoreOK, PurchaseTypes
<1> HIDE DEF r
<1>6. /\ verifier' \in [Verifiers -> Verifications] /\ verifier'[v] = r
      /\ \A w \in Verifiers : w # v => verifier'[w] = verifier[w]
  BY <1>4, <1>5, Zenon DEF StoreOK, PurchaseTypes
<1>7. x.of \in Purchases /\ x.observed <= now
  BY <1>1, <1>2, Zenon DEF VerifierOK
<1>8. VerifierOK(v)' /\ now <= now' /\ now' \in Nat
  BY <1>2, <1>4, <1>6, <1>7 DEF VerifierOK
<1> QED BY <1>2, <1>6, <1>8, StoreKept, Zenon

\* What a verification writes over the row of its purchase.
LEMMA AppliedRow ==
    ASSUME StoreOK, NEW v \in Verifiers, NEW p \in Purchases, verifier[v].pc = "apply"
    PROVE  /\ Applied(v, p) \in PurchaseRows
           /\ Applied(v, p).present /\ Applied(v, p).owned /\ ~Applied(v, p).superseded
           /\ Applied(v, p).verified = verifier[v].observed
           /\ Applied(v, p).verified <= Applied(v, p).state
           /\ ~Applied(v, p).acknowledged => verifier[v].ack
<1>1. PICK x \in Verifications : x = verifier[v]
  BY Zenon DEF StoreOK, PurchaseTypes
<1>2. PICK r \in PurchaseRows : r = row[p]
  BY Zenon DEF StoreOK, PurchaseTypes
<1>3. x.observed <= x.state /\ x.observed \in Nat /\ x.state \in Nat /\ x.ack \in BOOLEAN
  BY <1>1 DEF StoreOK, VerifierOK, Verifications
<1>4. PICK b \in BOOLEAN : b = ((r.present /\ r.acknowledged) \/ ~x.ack)
  BY Zenon
<1>5. Applied(v, p) = [present |-> TRUE, owned |-> TRUE, state |-> x.state,
                       verified |-> x.observed, superseded |-> FALSE, acknowledged |-> b]
  BY <1>1, <1>2, <1>4, Zenon DEF Applied, Observed
<1>6. ~b => x.ack
  BY <1>4, Zenon
<1> QED BY <1>1, <1>3, <1>5, <1>6 DEF PurchaseRows

LEMMA ApplyStep ==
    ASSUME StoreOK, NEW v \in Verifiers, apply(v) PROVE StoreOK'
<1>0. PICK p \in Purchases : p = verifier[v].of
  BY Zenon DEF StoreOK, VerifierOK, apply
<1>1. /\ verifier[v].pc = "apply" /\ verifier[v] \in Verifications
      /\ PurchaseOK(p) /\ row[p] \in PurchaseRows /\ ended[p] \in Nat
  BY Zenon DEF StoreOK, PurchaseTypes, apply
<1>2. PICK o \in Nat : o = verifier[v].observed
  BY <1>1 DEF Verifications
<1>3. /\ ended' = [ended EXCEPT ![p] = IF o > ended[p] THEN o ELSE ended[p]]
      /\ verifier' = [verifier EXCEPT ![v] = Idle] /\ UNCHANGED now
      /\ ~row[p].present \/ row[p].owned
  BY <1>0, <1>2, Zenon DEF apply, external
<1>4. PICK e \in Nat : e = (IF o > ended[p] THEN o ELSE ended[p]) /\ e >= o /\ e >= ended[p]
                       /\ (e = o \/ e = ended[p])
  BY <1>1, <1>2
<1>5. /\ ended' \in [Purchases -> Nat] /\ ended'[p] = e
      /\ \A q \in Purchases : q # p => ended'[q] = ended[q]
  BY <1>1, <1>3, <1>4, Zenon DEF StoreOK, PurchaseTypes
<1>6. verifier' \in [Verifiers -> Verifications] /\ \A w \in Verifiers : VerifierOK(w)'
  <2>1. /\ verifier' \in [Verifiers -> Verifications] /\ verifier'[v] = Idle
        /\ \A w \in Verifiers : w # v => verifier'[w] = verifier[w]
    BY <1>3, IdleType, Zenon DEF StoreOK, PurchaseTypes
  <2>2. ASSUME NEW w \in Verifiers PROVE VerifierOK(w)'
    <3>1. CASE w = v
      BY <3>1, <2>1, IdleType, Zenon DEF VerifierOK
    <3>2. CASE w # v
      <4>1. VerifierOK(w) /\ verifier'[w] = verifier[w] /\ now' = now
        BY <3>2, <2>1, <1>3, Zenon DEF StoreOK
      <4> QED BY <4>1, Zenon DEF VerifierOK
    <3> QED BY <3>1, <3>2, Zenon
  <2> QED BY <2>1, <2>2, Zenon
<1>7. CASE ~Writable(v, p)
  <2>1. UNCHANGED <<row, acknowledge>>
    BY <1>0, <1>7, Zenon DEF apply
  <2>2. row[p].present /\ (row[p].superseded \/ row[p].verified > o)
    <3>1. row[p].present /\ (row[p].superseded \/ ~(row[p].verified <= o))
      BY <1>2, <1>3, <1>7, Zenon DEF Writable, Observed
    <3> QED BY <3>1, <1>1, <1>2 DEF PurchaseRows
  <2>3. PurchaseOK(p)'
    <3>1. row[p].verified \in Nat
      BY <1>1 DEF PurchaseRows
    <3> QED BY <3>1, <1>1, <1>2, <1>4, <1>5, <2>1, <2>2 DEF PurchaseOK
  <2>4. ASSUME NEW q \in Purchases, q # p PROVE PurchaseOK(q)'
    BY <2>1, <2>4, <1>5, Zenon DEF StoreOK, PurchaseOK
  <2> QED BY <1>3, <1>5, <1>6, <2>1, <2>3, <2>4, Zenon DEF StoreOK, PurchaseTypes
<1>8. CASE Writable(v, p)
  <2>1. apply_snapshot(v, p)
    BY <1>0, <1>8, Zenon DEF apply
  <2>2. row'[p] = Applied(v, p)
    BY <1>1, <2>1, Zenon DEF apply_snapshot
  <2>3. ASSUME NEW q \in Purchases, q # p
        PROVE  /\ row'[q] \in PurchaseRows /\ row'[q].present = row[q].present
               /\ row'[q].owned = row[q].owned /\ row'[q].acknowledged = row[q].acknowledged
               /\ row'[q].superseded \/ row'[q] = row[q]
    <3>1. CASE Supersedes(v, p, q)
      <4>1. row'[q] = [row[q] EXCEPT !.superseded = TRUE, !.verified = Observed(v)]
        BY <2>1, <2>3, <3>1, Zenon DEF apply_snapshot
      <4>2. /\ row'[q] \in PurchaseRows /\ row'[q].superseded
            /\ row'[q].present = row[q].present /\ row'[q].owned = row[q].owned
            /\ row'[q].acknowledged = row[q].acknowledged
        <5>1. PICK x \in PurchaseRows : x = row[q]
          BY Zenon DEF StoreOK, PurchaseTypes
        <5>2. row'[q] = [x EXCEPT !.superseded = TRUE, !.verified = o]
          BY <4>1, <5>1, <1>2, Zenon DEF Observed
        <5>3. PICK r : r = row'[q] /\ r = [x EXCEPT !.superseded = TRUE, !.verified = o]
          BY <5>2, Zenon
        <5>4. /\ r \in PurchaseRows /\ r.superseded /\ r.present = x.present
              /\ r.owned = x.owned /\ r.acknowledged = x.acknowledged
          BY <5>3, <1>2, Zenon DEF PurchaseRows
        <5> QED BY <5>1, <5>3, <5>4, Zenon
      <4> QED BY <4>2, Zenon
    <3>2. CASE ~Supersedes(v, p, q)
      <4>1. row'[q] = row[q]
        BY <2>1, <2>3, <3>2, Zenon DEF apply_snapshot
      <4> QED BY <4>1, Zenon DEF StoreOK, PurchaseTypes
    <3> QED BY <3>1, <3>2, Zenon
  <2>4. /\ Applied(v, p) \in PurchaseRows
        /\ Applied(v, p).present /\ Applied(v, p).owned /\ ~Applied(v, p).superseded
        /\ Applied(v, p).verified = o /\ Applied(v, p).verified <= Applied(v, p).state
        /\ ~Applied(v, p).acknowledged => verifier[v].ack
    BY <1>1, <1>2, AppliedRow, Zenon
  <2>5. row' \in [Purchases -> PurchaseRows]
    <3>1. ASSUME NEW q \in Purchases PROVE row'[q] \in PurchaseRows
      BY <2>2, <2>3, <2>4, Zenon
    <3>2. row' = [q \in Purchases |-> row'[q]]
      BY <2>1, Zenon DEF apply_snapshot
    <3> QED BY <3>1, <3>2, Zenon
  <2>6. /\ acknowledge' \in [Purchases -> Stati]
        /\ verifier[v].ack => acknowledge'[p] \in {"pending", "processing", "dead_letter"}
        /\ \A q \in Purchases : q # p => acknowledge'[q] = acknowledge[q]
    <3>1. CASE ~verifier[v].ack
      BY <2>1, <3>1, Zenon DEF apply_snapshot, StoreOK, PurchaseTypes
    <3>2. CASE verifier[v].ack
      <4>1. acknowledge' = [acknowledge EXCEPT ![p] = enqueue(acknowledge[p])]
            /\ acknowledge[p] \in Stati
        BY <2>1, <3>2, <1>1, Zenon DEF apply_snapshot, StoreOK, PurchaseTypes
      <4>2. enqueue(acknowledge[p]) \in {"pending", "processing", "dead_letter"}
            /\ enqueue(acknowledge[p]) \in Stati
        BY <4>1, Zenon DEF enqueue, Stati
      <4> QED BY <4>1, <4>2, <1>1, Zenon DEF StoreOK, PurchaseTypes
    <3> QED BY <3>1, <3>2, Zenon
  <2>7. ended[p] <= o
    <3>1. CASE ~row[p].present
      BY <3>1, <1>1, <1>2 DEF PurchaseOK
    <3>2. CASE row[p].present
      <4>1. row[p].verified <= o /\ ~row[p].superseded
        BY <3>2, <1>2, <1>8, Zenon DEF Writable, Observed
      <4>2. ended[p] <= row[p].verified /\ row[p].verified \in Nat
        BY <4>1, <3>2, <1>1 DEF PurchaseOK, PurchaseRows
      <4> QED BY <4>1, <4>2, <1>1, <1>2
    <3> QED BY <3>1, <3>2, Zenon
  <2>8. e = o
    BY <2>7, <1>1, <1>2, <1>4
  <2>9. PurchaseOK(p)'
    <3>1. ended'[p] <= row'[p].verified /\ row'[p].verified <= row'[p].state
      BY <2>2, <2>4, <2>8, <1>2, <1>5
    <3> QED BY <3>1, <2>2, <2>4, <2>6, Zenon DEF PurchaseOK
  <2>10. ASSUME NEW q \in Purchases, q # p PROVE PurchaseOK(q)'
    <3>1. PurchaseOK(q) /\ ended'[q] = ended[q] /\ acknowledge'[q] = acknowledge[q]
      BY <2>10, <2>6, <1>5, Zenon DEF StoreOK
    <3> QED BY <3>1, <2>3, <2>10, Zenon DEF PurchaseOK
  <2>11. PurchaseTypes'
    BY <2>5, <2>6, <1>3, <1>5, <1>6, Zenon DEF StoreOK, PurchaseTypes
  <2>12. \A q \in Purchases : PurchaseOK(q)'
    BY <2>9, <2>10, Zenon
  <2> QED BY <2>11, <2>12, <1>6, Zenon DEF StoreOK
<1> QED BY <1>7, <1>8, Zenon

\* The status of an acknowledgement changes, and what is owed stays owed.
LEMMA OwedStep ==
    ASSUME StoreOK, NEW p \in Purchases, NEW s \in Stati,
           acknowledge' = [acknowledge EXCEPT ![p] = s],
           s \in {"pending", "processing", "dead_letter"} \/ ~row[p].owned,
           UNCHANGED <<now, row, verifier, ended>>
    PROVE  StoreOK'
<1>1. /\ acknowledge' \in [Purchases -> Stati] /\ acknowledge'[p] = s
      /\ \A q \in Purchases : q # p => acknowledge'[q] = acknowledge[q]
  BY Zenon DEF StoreOK, PurchaseTypes
<1>2. ASSUME NEW q \in Purchases PROVE PurchaseOK(q)'
  BY <1>1, Zenon DEF StoreOK, PurchaseOK
<1>3. ASSUME NEW v \in Verifiers PROVE VerifierOK(v)'
  BY Zenon DEF StoreOK, VerifierOK
<1> QED BY <1>1, <1>2, <1>3, Zenon DEF StoreOK, PurchaseTypes

LEMMA AcknowledgedStep ==
    ASSUME StoreOK, NEW p \in Purchases, acknowledged(p) PROVE StoreOK'
<1>1. PICK x \in PurchaseRows : x = row[p]
  BY Zenon DEF StoreOK, PurchaseTypes
<1> DEFINE r == [x EXCEPT !.acknowledged = TRUE]
<1>2. /\ r \in PurchaseRows /\ r.acknowledged /\ r.present = x.present /\ r.owned = x.owned
      /\ r.superseded = x.superseded /\ r.verified = x.verified /\ r.state = x.state
  BY <1>1, Zenon DEF PurchaseRows
<1>3. /\ row' = [row EXCEPT ![p] = r] /\ acknowledge' = [acknowledge EXCEPT ![p] = "completed"]
      /\ UNCHANGED <<now, verifier, ended>>
  BY <1>1, Zenon DEF acknowledged, external
<1> HIDE DEF r
<1>4. /\ row' \in [Purchases -> PurchaseRows] /\ row'[p] = r
      /\ \A q \in Purchases : q # p => row'[q] = row[q] /\ acknowledge'[q] = acknowledge[q]
  BY <1>2, <1>3, Zenon DEF StoreOK, PurchaseTypes
<1>5. acknowledge' \in [Purchases -> Stati]
  <2>1. "completed" \in Stati
    BY DEF Stati
  <2> QED BY <2>1, <1>3, Zenon DEF StoreOK, PurchaseTypes
<1>6. PurchaseOK(p)'
  <2>1. PurchaseOK(p) /\ ended'[p] = ended[p]
    BY <1>3, Zenon DEF StoreOK
  <2> QED BY <2>1, <1>1, <1>2, <1>4, Zenon DEF PurchaseOK
<1>7. ASSUME NEW q \in Purchases PROVE PurchaseOK(q)'
  BY <1>3, <1>4, <1>6, Zenon DEF StoreOK, PurchaseOK
<1>8. ASSUME NEW v \in Verifiers PROVE VerifierOK(v)'
  BY <1>3, Zenon DEF StoreOK, VerifierOK
<1> QED BY <1>3, <1>4, <1>5, <1>7, <1>8, Zenon DEF StoreOK, PurchaseTypes

LEMMA PurgedStep ==
    ASSUME StoreOK, AccountPurged PROVE StoreOK'
<1>1. UNCHANGED <<now, acknowledge, verifier, ended>>
  BY Zenon DEF AccountPurged, external, queues
<1>2. ASSUME NEW p \in Purchases
      PROVE  /\ row'[p] \in PurchaseRows /\ ~row'[p].owned /\ row'[p].present = row[p].present
             /\ row'[p].superseded = row[p].superseded /\ row'[p].verified = row[p].verified
             /\ row'[p].state = row[p].state
  <2>1. PICK x \in PurchaseRows : x = row[p]
    BY Zenon DEF StoreOK, PurchaseTypes
  <2>2. row'[p] = [x EXCEPT !.owned = FALSE]
    BY <2>1, Zenon DEF AccountPurged
  <2> QED BY <2>1, <2>2, Zenon DEF PurchaseRows
<1>3. row' \in [Purchases -> PurchaseRows]
  <2>1. row' = [p \in Purchases |-> row'[p]]
    BY Zenon DEF AccountPurged
  <2> QED BY <1>2, <2>1, Zenon
<1>4. ASSUME NEW p \in Purchases PROVE PurchaseOK(p)'
  <2>1. PurchaseOK(p) /\ ended'[p] = ended[p]
    BY <1>1, Zenon DEF StoreOK
  <2> QED BY <2>1, <1>2, Zenon DEF PurchaseOK
<1>5. ASSUME NEW v \in Verifiers PROVE VerifierOK(v)'
  BY <1>1, Zenon DEF StoreOK, VerifierOK
<1> QED BY <1>1, <1>3, <1>4, <1>5, Zenon DEF StoreOK, PurchaseTypes

LEMMA StoreStep ==
    ASSUME StoreOK, [StoreNext]_storeVars PROVE StoreOK'
<1>1. ASSUME UNCHANGED <<now, row, acknowledge, verifier, ended>> PROVE StoreOK'
  <2>1. now' \in Nat /\ now <= now'
    BY <1>1 DEF StoreOK, PurchaseTypes
  <2> QED BY <1>1, <2>1, StoreKept, Zenon DEF StoreOK, PurchaseTypes
<1>2. ASSUME NEW v \in Verifiers, Verify(v) PROVE StoreOK'
  <2>1. ASSUME NEW p \in Purchases,
               verify(v, p) \/ process_notification(v, p) \/ process_reconcile(v, p)
        PROVE  StoreOK'
    BY <2>1, ObservedStep, Zenon DEF verify, process_notification, process_reconcile
  <2>2. CASE gateway_verify(v)
    BY <2>2, AnsweredStep, Zenon
  <2>3. CASE apply(v)
    BY <2>3, ApplyStep, Zenon
  <2>4. CASE handle(v)
    BY <2>4, VerifierEnds, Zenon DEF handle, external
  <2> QED BY <1>2, <2>1, <2>2, <2>3, <2>4, Zenon DEF Verify
<1>3. ASSUME NEW p \in Purchases, store_notification(p) PROVE StoreOK'
  BY <1>1, <1>3, Zenon DEF store_notification, notification, receive, external
<1>4. ASSUME NEW p \in Purchases, gateway_acknowledge(p) PROVE StoreOK'
  <2>1. "processing" \in Stati
    BY DEF Stati
  <2> QED BY <1>4, <2>1, OwedStep, Zenon DEF gateway_acknowledge
<1>5. ASSUME NEW p \in Purchases, acknowledge_fails(p) PROVE StoreOK'
  <2>1. "pending" \in Stati /\ "dead_letter" \in Stati
    BY DEF Stati
  <2> QED BY <1>5, <2>1, OwedStep, Zenon DEF acknowledge_fails, external
<1>6. ASSUME NEW p \in Purchases, acknowledged(p) PROVE StoreOK'
  BY <1>6, AcknowledgedStep, Zenon
<1>7. ASSUME NEW p \in Purchases, process_nothing(p) PROVE StoreOK'
  <2>1. "completed" \in Stati
    BY DEF Stati
  <2>2. ~row[p].owned /\ UNCHANGED <<now, row, verifier, ended>>
        /\ (acknowledge' = [acknowledge EXCEPT ![p] = "completed"] \/ UNCHANGED acknowledge)
    BY <1>7, Zenon DEF process_nothing, external
  <2> QED BY <1>1, <2>1, <2>2, OwedStep, Zenon
<1>8. CASE StoreChanges
  <2>1. /\ UNCHANGED <<row, acknowledge, verifier, ended>> /\ now' = now + 1 /\ now \in Nat
    BY <1>8, Zenon DEF StoreChanges, queues, StoreOK, PurchaseTypes
  <2>2. now' \in Nat /\ now <= now'
    BY <2>1
  <2> QED BY <2>1, <2>2, StoreKept, Zenon DEF StoreOK, PurchaseTypes
<1>9. CASE request_intent \/ schedule \/ AccountDeleted \/ UNCHANGED storeVars
  BY <1>1, <1>9, Zenon DEF request_intent, intent, schedule, AccountDeleted, external, queues,
     storeVars
<1>10. CASE AccountPurged
  BY <1>10, PurgedStep, Zenon
<1> QED BY <1>2, <1>3, <1>4, <1>5, <1>6, <1>7, <1>8, <1>9, <1>10, Zenon DEF StoreNext

\* A slow verification never writes over the answer of one begun after it, and a
\* purchase the store wants acknowledged has an event that owes it, in whatever
\* order verifications and acknowledgements end (billing/stores/pg.rs,
\* apply_subscription, acknowledge): for any number of purchases and of
\* verifications at once.
THEOREM PurchasesAreCurrent == StoreSpec => []PurchasesHold
<1>1. StoreInit => StoreOK
  <2> SUFFICES ASSUME StoreInit PROVE StoreOK
    BY Zenon
  <2>1. PurchaseTypes
    <3>1. NoRow \in PurchaseRows
      BY DEF NoRow, PurchaseRows
    <3> QED BY <3>1, IdleType DEF StoreInit, PurchaseTypes, Stati
  <2>2. ASSUME NEW v \in Verifiers PROVE VerifierOK(v)
    BY IdleType, Zenon DEF StoreInit, VerifierOK
  <2>3. ASSUME NEW p \in Purchases PROVE PurchaseOK(p)
    <3>1. row[p] = NoRow /\ ended[p] = 0
      BY Zenon DEF StoreInit
    <3> QED BY <3>1 DEF PurchaseOK, NoRow
  <2> QED BY <2>1, <2>2, <2>3, Zenon DEF StoreOK
<1>2. StoreOK /\ [StoreNext]_storeVars => StoreOK'
  BY StoreStep, Zenon
<1>3. StoreOK => PurchasesHold
  <2> SUFFICES ASSUME StoreOK PROVE PurchasesHold
    BY Zenon
  <2>1. ASSUME NEW p \in Purchases, row[p].present, ~row[p].superseded
        PROVE  row[p].state >= ended[p]
    <3>1. row[p] \in PurchaseRows /\ ended[p] \in Nat /\ PurchaseOK(p)
      BY Zenon DEF StoreOK, PurchaseTypes
    <3> QED BY <2>1, <3>1 DEF PurchaseOK, PurchaseRows
  <2> QED BY <2>1, Zenon DEF PurchasesHold, VerifiedIsCurrent, AcknowledgementOwed, StoreOK,
      PurchaseOK
<1> QED BY <1>1, <1>2, <1>3, PTL DEF StoreSpec
=============================================================================
