----------------------------- MODULE SmsSafety -----------------------------
(***************************************************************************)
(* What decides whether an SMS may be sent at all: the budgets per phone   *)
(* and in total, the suspension switch and the phone policy, which imports *)
(* from two public lists feed and administrators override                  *)
(* (src/src/identity/mobile/sms_safety, phone_blocklist).                  *)
(*                                                                         *)
(* reserve runs with the control row locked and the policy lock shared;    *)
(* changes and imports take the policy lock exclusively.  Each transaction *)
(* is therefore one step.  What happens between an administrator's reading *)
(* and their decision is not: it is guarded by a version.  Ages of permits *)
(* are counted in ticks; the lifetimes of decisions, observations and      *)
(* imports (days) end by steps of their own.  Hashes, hints, reasons and   *)
(* audit entries are left out.                                             *)
(***************************************************************************)
EXTENDS Integers, FiniteSets

CONSTANTS Phones, Admins, NoView,
          Deliveries,             \* numbered in the order of their permits
          HOUR, DAY, RETAIN,      \* 1, 24 and 25 hours, in ticks
          hourly_per_phone, daily_per_phone, hourly_global, daily_global,
          MaxDecisions,           \* bound on the decisions applied
          MaxChanges              \* bound on expiries, imports and demotions

ASSUME BudgetAssumption ==
    /\ IsFiniteSet(Deliveries) /\ "sms" \notin Phones
    /\ HOUR \in Nat \ {0} /\ DAY \in Nat /\ RETAIN \in Nat
    /\ HOUR <= DAY /\ DAY <= RETAIN
    /\ hourly_per_phone \in Nat /\ daily_per_phone \in Nat
    /\ hourly_global \in Nat /\ daily_global \in Nat

Sources == {"castle", "ip1"}

VARIABLES age,        \* ticks since the permit of a delivery, -1 without one
          stored,     \* the deliveries with a row of sms_send_attempt
          phone,      \* the phone of a delivery
          forced,     \* SMS_SENDING_SUSPENDED of the environment
          control,    \* sms_send_control: suspended, version
          entry,      \* phone_blocklist_entry: decision, version, live (decision_until ahead)
          seen,       \* <<source, phone>>: unexpired observations
          fresh,      \* the sources imported within 7 days
          era,        \* how often the entry of a phone was deleted (history)
          role,       \* of an administrator
          view,       \* what an administrator last read
          decided,    \* decisions applied so far
          changes

permits  == <<age, stored, phone>>
policy   == <<entry, seen, fresh, era>>
admin    == <<role, view>>
smsVars == <<permits, forced, control, policy, admin, decided, changes>>

NoEntry == [decision |-> "automatic", version |-> 0, live |-> FALSE, row |-> FALSE]

SmsInit ==
    /\ age = [d \in Deliveries |-> -1] /\ stored = {}
    /\ phone \in [Deliveries -> Phones] /\ forced \in BOOLEAN
    /\ control = [suspended |-> FALSE, version |-> 0]
    /\ entry = [p \in Phones |-> NoEntry] /\ seen = {}
    /\ fresh \in {{}, Sources} /\ era = [p \in Phones |-> 0]
    /\ role \in [Admins -> {"superadmin", "admin", "user"}]
    /\ view = [a \in Admins |-> NoView]
    /\ decided = 0 /\ changes = 0
-----------------------------------------------------------------------------
(* The permit of an SMS. *)

Within(D, span) == {d \in D : age[d] >= 0 /\ age[d] < span}

OfPhone(d) == {e \in stored : phone[e] = phone[d]}

\* The budgets, counted over the stored rows.
InBudget(d) ==
    /\ Cardinality(Within(OfPhone(d), DAY)) < daily_per_phone
    /\ Cardinality(Within(OfPhone(d), HOUR)) < hourly_per_phone
    /\ Cardinality(Within(stored, DAY)) < daily_global
    /\ Cardinality(Within(stored, HOUR)) < hourly_global

\* CHECK_POLICY: a decision counts while it lasts, otherwise the observations.
allowed(p) == entry[p].live /\ entry[p].decision = "allow"

otp_blocked_on(p) ==
    IF entry[p].live THEN entry[p].decision = "block"
    ELSE \E s \in Sources : <<s, p>> \in seen

ready == fresh # {}

\* The three answers, read under the shared policy lock.
check_on(p) == [allowed |-> allowed(p), blocked |-> otp_blocked_on(p), ready |-> ready]

permit_on(p) == LET c == check_on(p) IN c.allowed \/ (~c.blocked /\ c.ready)

\* Mutant: rows are deleted once they are out of the hourly count.
Forgotten_Hour == {d \in stored : age[d] >= HOUR}

\* The rows the cleanup of reserve, and retention, may delete.
Forgotten == {d \in stored : age[d] >= RETAIN}

\* The transaction of a permit; a delivery gets one permit only.
reserve_tx(d) ==
    /\ age[d] = -1 /\ \A e \in Deliveries : e < d => age[e] >= 0
    /\ ~control.suspended /\ permit_on(phone[d]) /\ InBudget(d)
    /\ age' = [age EXCEPT ![d] = 0]
    /\ stored' = (stored \cup {d}) \ Forgotten
    /\ UNCHANGED <<phone, forced, control, policy, admin, decided, changes>>

\* SmsSendGuard: the switch of the environment needs no database.
reserve(d) == ~forced /\ reserve_tx(d)

\* The retention query on sms_send_attempt.
purge_attempts ==
    /\ Forgotten # {} /\ stored' = stored \ Forgotten
    /\ UNCHANGED <<age, phone, forced, control, policy, admin, decided, changes>>

permits_age ==
    /\ \E d \in Deliveries : age[d] >= 0 /\ age[d] < RETAIN
    /\ age' = [d \in Deliveries |-> IF age[d] >= 0 /\ age[d] < RETAIN THEN age[d] + 1 ELSE age[d]]
    /\ UNCHANGED <<stored, phone, forced, control, policy, admin, decided, changes>>
-----------------------------------------------------------------------------
(* Administrators.  A view stays usable until its decision is sent. *)

look(a, v) == view' = [view EXCEPT ![a] = v] /\ UNCHANGED <<permits, forced, control, policy, role, decided, changes>>

\* GET /api/admin/sms-safety.
snapshot(a) ==
    /\ role[a] # "user" /\ view[a] = NoView
    /\ look(a, [of |-> "sms", version |-> control.version, sees |-> control.suspended, era |-> 0])

\* lookup by phone; overview lists the same rows.
lookup(a, p) ==
    /\ role[a] # "user" /\ view[a] = NoView
    /\ look(a, [of |-> p, version |-> entry[p].version, sees |-> entry[p].decision, era |-> era[p]])

decide == decided < MaxDecisions /\ decided' = decided + 1

close(a) == view' = [view EXCEPT ![a] = NoView]

\* Mutant: the version is not compared.
SameVersion_Any(v, version) == TRUE

\* The version sent with a decision is the one of the row.
SameVersion(v, version) == v = version

\* set_suspended: the role is read under the account lock; a version that
\* moved is a conflict, and the administrator has to read again.
set_suspended(a) ==
    /\ view[a] # NoView /\ view[a].of = "sms" /\ close(a)
    /\ \/ /\ role[a] = "superadmin" /\ SameVersion(view[a].version, control.version)
          /\ decide
          /\ control' = [suspended |-> ~view[a].sees, version |-> control.version + 1]
       \/ UNCHANGED <<control, decided>>
    /\ UNCHANGED <<permits, forced, policy, role, changes>>

\* An administrator may only allow a number; a superadministrator decides all.
authorized(a, decision) ==
    role[a] = "superadmin" \/ (role[a] = "admin" /\ decision = "allow")

\* resolve_target creates the entry of an unknown phone, at version 0.
resolve_target(p) == IF entry[p].row THEN entry[p] ELSE [NoEntry EXCEPT !.row = TRUE]

\* change_on: role and version under the policy lock, then the decision.
change_on(a, decision) ==
    LET p == view[a].of IN
    /\ authorized(a, decision) /\ SameVersion(view[a].version, resolve_target(p).version)
    /\ decide
    /\ entry' = [entry EXCEPT ![p] = [decision |-> decision, version |-> resolve_target(p).version + 1,
                                      live |-> decision # "automatic", row |-> TRUE]]

change(a) ==
    /\ view[a] # NoView /\ view[a].of \in Phones /\ close(a)
    /\ \/ \E decision \in {"automatic", "block", "allow"} : change_on(a, decision)
       \/ UNCHANGED <<entry, decided>>
    /\ UNCHANGED <<permits, forced, control, seen, fresh, era, role, changes>>
-----------------------------------------------------------------------------
(* Imports, expiry and retention. *)

Change == changes < MaxChanges /\ changes' = changes + 1 /\ UNCHANGED decided

\* parse: what a list that is well formed and large enough may contain, its
\* French numbers with a report of the last 90 days.
parse == SUBSET Phones

\* fetch: one download, refused as a whole when it is too large.
fetch == parse

\* import: the numbers of one list get an entry, never a decision, and their
\* observation is as recent as the newest report of it.
import(s, P) ==
    /\ entry' = [p \in Phones |-> IF p \in P THEN [entry[p] EXCEPT !.row = TRUE] ELSE entry[p]]
    /\ seen' = seen \cup ({s} \X P)
    /\ fresh' = fresh \cup {s}
    /\ UNCHANGED <<permits, forced, control, era, admin>>

\* synchronize tries every source; a list that cannot be fetched or parsed
\* records its failure and changes nothing else.
synchronize == Change /\ \E s \in Sources : \E P \in fetch : import(s, P)

\* decision_until, the 90 days of an observation and the 7 days of an import pass.
decision_expires(p) ==
    /\ Change /\ entry[p].live /\ entry' = [entry EXCEPT ![p].live = FALSE]
    /\ UNCHANGED <<permits, forced, control, seen, fresh, era, admin>>

observation_expires(o) ==
    /\ Change /\ o \in seen /\ seen' = seen \ {o}
    /\ UNCHANGED <<permits, forced, control, entry, fresh, era, admin>>

import_expires(s) ==
    /\ Change /\ s \in fresh /\ fresh' = fresh \ {s}
    /\ UNCHANGED <<permits, forced, control, entry, seen, era, admin>>

\* Retention (after 180 days): observations, then entries without decision
\* in force and without observation.
purge_policy(p) ==
    /\ Change /\ entry[p].row /\ ~entry[p].live /\ \A s \in Sources : <<s, p>> \notin seen
    /\ entry' = [entry EXCEPT ![p] = NoEntry] /\ era' = [era EXCEPT ![p] = @ + 1]
    /\ UNCHANGED <<permits, forced, control, seen, fresh, admin>>

\* set_role by another superadministrator.
demote(a) ==
    /\ Change /\ role[a] # "user" /\ \E r \in {"admin", "user"} : role[a] # r /\ role' = [role EXCEPT ![a] = r]
    /\ UNCHANGED <<permits, forced, control, policy, view>>

SmsNext ==
    \/ \E d \in Deliveries : reserve(d)
    \/ purge_attempts \/ permits_age
    \/ \E a \in Admins : snapshot(a) \/ set_suspended(a) \/ change(a) \/ demote(a)
    \/ \E a \in Admins, p \in Phones : lookup(a, p)
    \/ synchronize
    \/ \E p \in Phones : decision_expires(p) \/ purge_policy(p)
    \/ \E o \in Sources \X Phones : observation_expires(o)
    \/ \E s \in Sources : import_expires(s)

SmsSpec == SmsInit /\ [][SmsNext]_smsVars
-----------------------------------------------------------------------------
(* Properties. *)

\* In any hour and any day the permits given, including those whose rows were
\* deleted since, stay within the four budgets: the cleanup of reserve and the
\* retention never free a place early (sms_safety/pg.rs, reserve).
BudgetsHold ==
    /\ Cardinality(Within(Deliveries, HOUR)) <= hourly_global
    /\ Cardinality(Within(Deliveries, DAY)) <= daily_global
    /\ \A p \in Phones : LET D == {d \in Deliveries : phone[d] = p} IN
         /\ Cardinality(Within(D, HOUR)) <= hourly_per_phone
         /\ Cardinality(Within(D, DAY)) <= daily_per_phone

\* A step of an administrator's decision finds what they had read, unless the
\* entry of the number was purged meanwhile: one created anew begins with the
\* first version again, and a decision on its forerunner may fit it.
DecisionIsCurrent(a) ==
    view[a] # NoView /\ view'[a] = NoView =>
      /\ control' # control => view[a].sees = control.suspended /\ role[a] = "superadmin"
      /\ \A p \in Phones : entry'[p] # entry[p] /\ view[a].era = era[p] =>
           view[a].sees = entry[p].decision /\ role[a] # "user"

\* The permits given, including those whose rows were deleted since, stay
\* within the four budgets (sms_safety/pg.rs, reserve); decisions on numbers
\* and on the suspension apply to what their author had read, as long as its
\* entry was not purged in between, by an author still entitled to them
\* (phone_blocklist/pg.rs, change_on; sms_safety/pg.rs, set_suspended).
SmsPermitsHold ==
    [][BudgetsHold' /\ \A a \in Admins : DecisionIsCurrent(a)]_smsVars
=============================================================================
