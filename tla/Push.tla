-------------------------------- MODULE Push --------------------------------
(***************************************************************************)
(* One notification of one user, from the business transaction that stores *)
(* it to the provider's answer for each device.  Between the two, devices  *)
(* change hands, sessions are revoked, the user turns pushes off and the   *)
(* fact the notification tells of ceases to hold.  Jobs are repeated by    *)
(* the outbox until they succeed.                                          *)
(***************************************************************************)
EXTENDS Naturals, FiniteSets

CONSTANTS
    Devices,        \* device tokens
    Mine, Others,   \* sessions of the user, and of other accounts
    Kinds,          \* {"match", "billing", "new_session"}: how relevance is decided
    None,           \* no session
    MaxFaults,      \* bound: provider failures and OAuth revocations
    MaxChanges      \* bound: events of devices, sessions, preferences and facts

Sessions == Mine \cup Others

VARIABLES
    kind,           \* type of the notification
    note,           \* "none", "stored", or "expired" past expires_at
    device,         \* session of each device_token row, or None
    live,           \* sessions neither revoked nor expired
    usable,         \* the account is neither deleted nor banned
    wanted,         \* the preferences let this type through
    muted,          \* the user muted the conversation it is about
    fact,           \* what the notification tells of still holds
    opened,         \* the session a "new_session" notification is about
    job,            \* notification_push_delivery of each device, and its worker
    oauth,          \* the cached access token: absent, good, or refused by the provider
    faults, changes

vars == <<kind, note, device, live, usable, wanted, muted, fact, opened, job, oauth, faults,
          changes>>

Change == changes < MaxChanges /\ changes' = changes + 1

NoJob == [step |-> "none", session |-> None, bearer |-> "absent", seen |-> TRUE]

Init ==
    /\ kind \in Kinds
    /\ note = "none"
    /\ device \in [Devices -> Sessions \cup {None}]
    /\ live = Sessions
    /\ usable = TRUE /\ wanted = TRUE /\ muted = FALSE /\ fact = TRUE
    /\ opened \in (IF kind = "new_session" THEN Mine ELSE {None})
    /\ job = [d \in Devices |-> NoJob]
    /\ oauth = "absent"
    /\ faults = 0 /\ changes = 0

-----------------------------------------------------------------------------
(* Devices. *)

\* A token that is already stored moves to the session that registers it, if the
\* account and the session are still good once the account is locked.
register(d, s) ==
    /\ s \in live /\ (s \in Mine => usable) /\ device[d] # s
    /\ device' = [device EXCEPT ![d] = s]

register_device(d, s) ==
    /\ Change
    /\ register(d, s)
    /\ UNCHANGED <<kind, note, live, usable, wanted, muted, fact, opened, job, oauth, faults>>

remove(d) ==
    /\ device[d] # None
    /\ device' = [device EXCEPT ![d] = None]

remove_device(d) ==
    /\ Change
    /\ remove(d)
    /\ UNCHANGED <<kind, note, live, usable, wanted, muted, fact, opened, job, oauth, faults>>

-----------------------------------------------------------------------------
(* Whether the notification concerns anyone. *)

\* The invoice is still open, the request still answered.
BILLING_NOTIFICATION_ELIGIBLE == kind = "billing" /\ fact

\* The session is still open, and an older device can be told of it.
ACCOUNT_NOTIFICATION_ELIGIBLE ==
    /\ kind = "new_session" /\ opened \in live
    /\ \E d \in Devices : device[d] \in (Mine \cap live) \ {opened}

\* The match is open, nobody blocks, and the message is unread or the like.
MatchEligible == kind = "match" /\ fact

PUSH_PREFERENCES_ELIGIBLE == wanted /\ ~(kind = "match" /\ muted)

-----------------------------------------------------------------------------
(* Storing it. *)

\* Devices the statement makes a job for.
Targets ==
    {d \in Devices : device[d] \in (Mine \cap live) \ {opened} /\ PUSH_PREFERENCES_ELIGIBLE}

enqueue_notification ==
    /\ note = "none" /\ usable
    /\ \/ kind = "match" /\ fact
       \/ BILLING_NOTIFICATION_ELIGIBLE
       \/ ACCOUNT_NOTIFICATION_ELIGIBLE
    /\ note' = "stored"
    /\ job' = [d \in Devices |->
                IF d \in Targets
                THEN [NoJob EXCEPT !.step = "queued", !.session = device[d]] ELSE NoJob]
    /\ UNCHANGED <<kind, device, live, usable, wanted, muted, fact, opened, oauth, faults, changes>>

-----------------------------------------------------------------------------
(* Delivering it: a worker of the outbox handles the job of a device. *)

Step(d, step) == job' = [job EXCEPT ![d].step = step]

(* What the user would agree to at this moment, for the device as it is. *)
Agreeable(d) ==
    /\ note = "stored" /\ usable /\ wanted /\ ~muted
    /\ device[d] = job[d].session /\ device[d] \in (Mine \cap live) \ {opened}
    /\ kind = "new_session" => opened \in live
    /\ kind # "new_session" => fact

\* Mutant: the device is found by its id alone.
find_deliverable_AnySession(d) ==
    /\ device[d] # None
    /\ usable /\ note = "stored" /\ PUSH_PREFERENCES_ELIGIBLE
    /\ device[d] \in live /\ device[d] # opened
    /\ BILLING_NOTIFICATION_ELIGIBLE \/ ACCOUNT_NOTIFICATION_ELIGIBLE \/ MatchEligible

find_deliverable(d) ==
    /\ device[d] # None /\ device[d] \in Mine /\ device[d] = job[d].session
    /\ usable /\ note = "stored" /\ PUSH_PREFERENCES_ELIGIBLE
    /\ device[d] \in live /\ device[d] # opened
    /\ BILLING_NOTIFICATION_ELIGIBLE \/ ACCOUNT_NOTIFICATION_ELIGIBLE \/ MatchEligible

\* What is not deliverable any more is acknowledged without a call.
deliver(d) ==
    /\ job[d].step = "queued"
    /\ job' = [job EXCEPT ![d].step = IF find_deliverable(d) THEN "found" ELSE "done",
                          ![d].seen = find_deliverable(d) => Agreeable(d)]
    /\ UNCHANGED <<kind, note, device, live, usable, wanted, muted, fact, opened, oauth, faults,
                   changes>>

\* An alert that expired meanwhile is acknowledged too.
expired_alert(d) ==
    /\ job[d].step \in {"found", "authorised"} /\ note = "expired"
    /\ Step(d, "done")
    /\ UNCHANGED <<kind, note, device, live, usable, wanted, muted, fact, opened, oauth, faults,
                   changes>>

\* The cached token is used without a look at the provider; the lock of the cache
\* is held while a new one is fetched.
google_access_token(d) ==
    /\ job[d].step = "found" /\ note # "expired"
    /\ oauth' = IF oauth = "absent" THEN "good" ELSE oauth
    /\ job' = [job EXCEPT ![d].step = "authorised", ![d].bearer = oauth']
    /\ UNCHANGED <<kind, note, device, live, usable, wanted, muted, fact, opened, faults, changes>>

google_access_token_fails(d) ==
    /\ job[d].step = "found" /\ oauth = "absent" /\ faults < MaxFaults
    /\ faults' = faults + 1
    /\ Step(d, "queued")
    /\ UNCHANGED <<kind, note, device, live, usable, wanted, muted, fact, opened, oauth, changes>>

send_accepted(d) ==
    /\ job[d].step = "authorised" /\ job[d].bearer # "refused"
    /\ Step(d, "done")
    /\ UNCHANGED <<kind, note, device, live, usable, wanted, muted, fact, opened, oauth, faults,
                   changes>>

\* The provider no longer knows the token: whoever holds it loses the row.
remove_token(d) ==
    /\ job[d].step = "authorised" /\ job[d].bearer # "refused"
    /\ device' = [device EXCEPT ![d] = None]
    /\ Step(d, "done")
    /\ UNCHANGED <<kind, note, live, usable, wanted, muted, fact, opened, oauth, faults, changes>>

\* Mutant: the refused token stays in the cache.
Unauthorized_Kept == oauth

Unauthorized == "absent"

send_unauthorized(d) ==
    /\ job[d].step = "authorised" /\ job[d].bearer = "refused"
    /\ oauth' = Unauthorized
    /\ Step(d, "queued")
    /\ UNCHANGED <<kind, note, device, live, usable, wanted, muted, fact, opened, faults, changes>>

\* A timeout, an oversized answer or another error: the job is repeated.
send_fails(d) ==
    /\ job[d].step = "authorised" /\ faults < MaxFaults
    /\ faults' = faults + 1
    /\ Step(d, "queued")
    /\ UNCHANGED <<kind, note, device, live, usable, wanted, muted, fact, opened, oauth, changes>>

-----------------------------------------------------------------------------
(* What changes meanwhile. *)

revoke_token ==
    /\ oauth = "good" /\ faults < MaxFaults
    /\ oauth' = "refused" /\ faults' = faults + 1
    /\ job' = [d \in Devices |-> IF job[d].step = "authorised"
                                THEN [job[d] EXCEPT !.bearer = "refused"] ELSE job[d]]
    /\ UNCHANGED <<kind, note, device, live, usable, wanted, muted, fact, opened, changes>>

revoke_session(s) ==
    /\ Change
    /\ s \in live
    /\ live' = live \ {s}
    /\ UNCHANGED <<kind, note, device, usable, wanted, muted, fact, opened, job, oauth, faults>>

leave ==
    /\ Change
    /\ usable
    /\ usable' = FALSE /\ live' = live \ Mine
    /\ UNCHANGED <<kind, note, device, wanted, muted, fact, opened, job, oauth, faults>>

update_preferences ==
    /\ Change
    /\ usable
    /\ wanted' = ~wanted
    /\ UNCHANGED <<kind, note, device, live, usable, muted, fact, opened, job, oauth, faults>>

\* Only a participant of an open match that nobody blocks may mute it.
MATCH_ACCESS == kind = "match" /\ usable /\ fact

\* Mutes it, or ends the mute; an expiry of the mute has the same effect.
set_mute ==
    /\ Change
    /\ MATCH_ACCESS
    /\ muted' = ~muted
    /\ UNCHANGED <<kind, note, device, live, usable, wanted, fact, opened, job, oauth, faults>>

\* The message is read, the match ends, the invoice is paid.
fact_ends ==
    /\ Change
    /\ fact
    /\ fact' = FALSE
    /\ UNCHANGED <<kind, note, device, live, usable, wanted, muted, opened, job, oauth, faults>>

expire ==
    /\ Change
    /\ note = "stored"
    /\ note' = "expired"
    /\ UNCHANGED <<kind, device, live, usable, wanted, muted, fact, opened, job, oauth, faults>>

send_inner(d) ==
    \/ expired_alert(d) \/ google_access_token(d) \/ google_access_token_fails(d)
    \/ send_accepted(d) \/ remove_token(d) \/ send_unauthorized(d) \/ send_fails(d)

handle(d) == deliver(d) \/ send_inner(d)

Next ==
    \/ enqueue_notification \/ revoke_token \/ leave \/ update_preferences
    \/ set_mute \/ fact_ends \/ expire
    \/ \E s \in Sessions : revoke_session(s)
    \/ \E d \in Devices :
        \/ remove_device(d) \/ handle(d)
        \/ \E s \in Sessions : register_device(d, s)

\* The outbox repeats a job until it succeeds: see Outbox.
Fairness == \A d \in Devices : WF_vars(handle(d))

Spec == Init /\ [][Next]_vars /\ Fairness

-----------------------------------------------------------------------------
(* A push is made only for a device that is, when it is looked up, still   *)
(* of the session it was meant for, in the user's hands, and for a         *)
(* notification the user still wants and that still holds: whatever        *)
(* changed since it was queued, a phone signed in to another account is    *)
(* not told of it.                                                         *)
StillWanted == \A d \in Devices : job[d].seen

(* Every push is settled: sent, or acknowledged because it is no longer    *)
(* deliverable.  A cached OAuth token the provider refuses is dropped, so  *)
(* it does not stall the jobs behind it.                                   *)
PushesSettle ==
    \A d \in Devices : job[d].step = "queued" ~> job[d].step = "done"
=============================================================================
