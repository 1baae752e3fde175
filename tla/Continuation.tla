---------------------------- MODULE Continuation ----------------------------
(***************************************************************************)
(* Whether a conversation goes on, and who pays for it.  A match is open   *)
(* for a first period, then waits for both participants to continue it;    *)
(* each decision of a Free participant reserves one credit (a free one of  *)
(* the week or one earned with an advertisement), and the second decision  *)
(* debits both participants and confirms the match in one transaction.     *)
(*                                                                         *)
(* Every action is one transaction of src/src/matches/pg (or of the code   *)
(* that ends a match, changes a subscription or grants a credit).  They    *)
(* are atomic because record locks the match, the subscriptions and both   *)
(* wallets before it reads what it decides on; what moves under the locks  *)
(* is the clock, read three times.                                         *)
(***************************************************************************)
EXTENDS Integers, FiniteSets

CONSTANTS
    Matches,            \* ids of match_init rows
    Users,              \* user ids, a set of numbers: record works in their order
    Participants,       \* the two users of each match
    WINDOW,             \* MATCH_WINDOW_HOURS, in ticks
    INACTIVITY,         \* days of silence that close a confirmed match, in ticks
    WEEK,               \* a UTC week, in ticks
    FREE_WEEKLY_CREDITS,
    FREE_WEEKLY_CONTINUATION_LIMIT,
    ADVERTISING_STOCK_LIMIT,
    Subscribers,        \* bound: the users whose plan changes within the horizon
    Viewers,            \* bound: the users who watch advertisements within it
    MaxClock            \* bound: the last tick of the horizon

ASSUME ContinuationAssumption ==
    /\ IsFiniteSet(Matches)
    /\ Users \subseteq Nat
    /\ Participants \in [Matches -> SUBSET Users]
    /\ \A m \in Matches : \E u, v \in Users : u < v /\ Participants[m] = {u, v}
    /\ WINDOW \in Nat \ {0} /\ INACTIVITY \in Nat \ {0} /\ WEEK \in Nat \ {0}
    /\ FREE_WEEKLY_CREDITS \in Nat
    /\ FREE_WEEKLY_CONTINUATION_LIMIT \in Nat \ {0}
    /\ ADVERTISING_STOCK_LIMIT \in Nat \ {0}
    /\ Subscribers \subseteq Users /\ Viewers \subseteq Users
    /\ MaxClock \in Nat

VARIABLES
    status,     \* match_init.status, or "none" before the mutual like
    expires,    \* match_init.expires_at
    continued,  \* match_state.continued: the pairs <<match, user>> where it is true
    source,     \* continuation_reservation.source of <<match, user>>, or "none"
    week,       \* continuation_reservation.week_start of <<match, user>>
    used,       \* continuation_usage.used_count of <<user, week>>
    freeUsed,   \* continuation_usage.free_used_count of <<user, week>>
    credits,    \* continuation_wallet.advertising_credits
    walletWeek, \* continuation_wallet.week_start
    premium,    \* users whose effective plan has no weekly limit
    notices,    \* unexpired continuation_requested notices, by <<match, actor>>
    charges,    \* how often debit ran for <<match, user>> in a committed transaction
    clock       \* clock_timestamp()

matchVars   == <<status, expires>>
choiceVars  == <<continued, source, week, notices>>
walletVars  == <<used, freeUsed, credits, walletWeek>>
vars == <<matchVars, choiceVars, walletVars, premium, charges, clock>>

Seats       == Matches \X Users
start_of_utc_week(t) == t \div WEEK
Weeks       == 0..start_of_utc_week(MaxClock)

\* Some users have already continued a match this week with an advertising credit.
Init ==
    /\ status = [m \in Matches |-> "none"]
    /\ expires = [m \in Matches |-> 0]
    /\ continued = {}
    /\ source = [x \in Seats |-> "none"]
    /\ week = [x \in Seats |-> 0]
    /\ \E spent \in SUBSET Viewers :
          used = [x \in Users \X Weeks |-> IF x[1] \in spent /\ x[2] = 0 THEN 1 ELSE 0]
    /\ freeUsed = [x \in Users \X Weeks |-> 0]
    /\ credits = [u \in Users |-> 0]
    /\ walletWeek = [u \in Users |-> 0]
    /\ premium \in SUBSET Subscribers
    /\ notices = {}
    /\ charges = [x \in Seats |-> 0]
    /\ clock = 0

-----------------------------------------------------------------------------
(* What a user may still spend at time t. *)

\* The reservations that count: those of matches that still wait.
Waiting(m, t) == status[m] = "awaiting_continuation" /\ expires[m] > t

FreeReserved(u, w, t) ==
    {m \in Matches : Waiting(m, t) /\ source[<<m, u>>] = "free" /\ week[<<m, u>>] = w}
AdReserved(u, w, t) ==
    {m \in Matches : Waiting(m, t) /\ source[<<m, u>>] = "advertising" /\ week[<<m, u>>] = w}
\* A free reservation of last week will still count as a continuation of this one.
Reserved(u, w, t) ==
    {m \in Matches : Waiting(m, t) /\ source[<<m, u>>] = "free"} \cup AdReserved(u, w, t)

\* Mutant: the credits of a past week still count.
Balance_AnyWeek(u, w) == credits[u]

Balance(u, w) == IF walletWeek[u] = w THEN credits[u] ELSE 0

FreeRemaining(u, w, t) ==
    FREE_WEEKLY_CREDITS - freeUsed[<<u, w>>] - Cardinality(FreeReserved(u, w, t))
AdRemaining(u, w, t) == Balance(u, w) - Cardinality(AdReserved(u, w, t))

\* Mutant: continuations that are only reserved do not count.
LimitRemaining_IgnoresReserved(u, w, t) == FREE_WEEKLY_CONTINUATION_LIMIT - used[<<u, w>>]

LimitRemaining(u, w, t) ==
    FREE_WEEKLY_CONTINUATION_LIMIT - used[<<u, w>>] - Cardinality(Reserved(u, w, t))

\* The source a decision of u at time t reserves, or "none" when the quota is reached.
reserve(u, t) ==
    LET w == start_of_utc_week(t) IN
    IF u \in premium THEN "premium"
    ELSE IF LimitRemaining(u, w, t) <= 0 THEN "none"
    ELSE IF FreeRemaining(u, w, t) > 0 THEN "free"
    ELSE IF AdRemaining(u, w, t) > 0 THEN "advertising"
    ELSE "none"

-----------------------------------------------------------------------------
(* Opening, reading and ending matches. *)

create(m) ==
    /\ status[m] = "none"
    /\ status' = [status EXCEPT ![m] = "active"]
    /\ expires' = [expires EXCEPT ![m] = clock + WINDOW]
    /\ UNCHANGED <<choiceVars, walletVars, premium, charges, clock>>

\* The deadline and the status a command finds when it locks the match at time t:
\* late transitions are made up for, both of them if need be.
DeadlineAt(m, t) ==
    IF status[m] = "active" /\ expires[m] <= t THEN expires[m] + WINDOW ELSE expires[m]
StatusAt(m, t) ==
    CASE status[m] = "confirmed" /\ expires[m] <= t -> "ended"
      [] status[m] = "active" /\ expires[m] <= t /\ expires[m] + WINDOW > t -> "awaiting_continuation"
      [] status[m] = "active" /\ expires[m] <= t /\ expires[m] + WINDOW <= t -> "expired"
      [] status[m] = "awaiting_continuation" /\ expires[m] <= t -> "expired"
      [] OTHER -> status[m]

\* DELETE FROM continuation_reservation WHERE match_id = m.
delete_reservations(m) ==
    /\ source' = [x \in Seats |-> IF x[1] = m THEN "none" ELSE source[x]]
    /\ week' = [x \in Seats |-> IF x[1] = m THEN 0 ELSE week[x]]

\* A command that finds the match unavailable, too early or already decided (a
\* message, a reveal, a continuation without acknowledged cost, a repeated one).
lock_available_match(m) ==
    /\ status[m] # "none"
    /\ status' = [status EXCEPT ![m] = StatusAt(m, clock)]
    /\ expires' = [expires EXCEPT ![m] = DeadlineAt(m, clock)]
    /\ IF StatusAt(m, clock) = "expired" /\ status[m] # "expired"
       THEN delete_reservations(m) ELSE UNCHANGED <<source, week>>
    /\ UNCHANGED <<continued, notices, walletVars, premium, charges, clock>>

record_end(m) ==
    /\ status[m] \notin {"none", "ended"}
    /\ status' = [status EXCEPT ![m] = "ended"]
    /\ delete_reservations(m)
    /\ UNCHANGED <<expires, continued, notices, walletVars, premium, charges, clock>>

\* Blocking ends the match and leaves its reservations to the purge.
block(m) ==
    /\ status[m] \in {"active", "awaiting_continuation", "confirmed"}
    /\ status' = [status EXCEPT ![m] = "ended"]
    /\ UNCHANGED <<expires, choiceVars, walletVars, premium, charges, clock>>

\* One maintenance batch, started at time now: windows open, then close (one
\* opened just before included), then silent matches end.  SKIP LOCKED and the
\* batch limit leave out any candidate.
run_batch(now) ==
    /\ now <= clock
    /\ \E O \in SUBSET {m \in Matches : status[m] = "active" /\ expires[m] <= now} :
       \E E \in SUBSET ( {m \in Matches : status[m] = "awaiting_continuation" /\ expires[m] <= now}
                          \cup {m \in O : expires[m] + WINDOW <= now}) :
       \E C \in SUBSET {m \in Matches : status[m] = "confirmed" /\ expires[m] <= now} :
         /\ status' = [m \in Matches |-> IF m \in E THEN "expired"
                                         ELSE IF m \in O THEN "awaiting_continuation"
                                         ELSE IF m \in C THEN "ended" ELSE status[m]]
         /\ expires' = [m \in Matches |-> IF m \in O THEN expires[m] + WINDOW ELSE expires[m]]
    /\ UNCHANGED <<choiceVars, walletVars, premium, charges, clock>>

-----------------------------------------------------------------------------
(* The decision of u on match m.  The match is locked now, at clock; the other *)
(* locks are held at time t, and the confirmation is written at time s.        *)

Partner(m, u) == CHOOSE v \in Participants[m] : v # u
Deciding(m, u) ==
    /\ u \in Participants[m]
    /\ StatusAt(m, clock) = "awaiting_continuation"
Opened(m) ==
    /\ status' = [status EXCEPT ![m] = "awaiting_continuation"]
    /\ expires' = [expires EXCEPT ![m] = DeadlineAt(m, clock)]

\* The deadline passed while the transaction waited for its locks.
record_expired(m, u, t) ==
    /\ Deciding(m, u)
    /\ DeadlineAt(m, clock) <= t
    /\ status' = [status EXCEPT ![m] = "expired"]
    /\ expires' = [expires EXCEPT ![m] = DeadlineAt(m, clock)]
    /\ delete_reservations(m)
    /\ clock' = t
    /\ UNCHANGED <<continued, notices, walletVars, premium, charges>>

clear_choice(m, u) ==
    /\ source' = [source EXCEPT ![<<m, u>>] = "none"]
    /\ week' = [week EXCEPT ![<<m, u>>] = 0]
    /\ continued' = continued \ {<<m, u>>}
    /\ notices' = notices \ {<<m, u>>}

Stale(m, u, t) ==
    source[<<m, u>>] = "advertising" /\ week[<<m, u>>] # start_of_utc_week(t)

\* A decision made as Premium by a user who no longer is.
record_plan_changed(m, u, t) ==
    /\ Deciding(m, u)
    /\ DeadlineAt(m, clock) > t
    /\ source[<<m, u>>] = "premium" /\ u \notin premium
    /\ Opened(m)
    /\ clear_choice(m, u)
    /\ clock' = t
    /\ UNCHANGED <<walletVars, premium, charges>>

\* A new decision, or one that replaces an advertising reservation of last week.
Reserving(m, u, t) ==
    /\ Deciding(m, u)
    /\ DeadlineAt(m, clock) > t
    /\ source[<<m, u>>] = "none" \/ Stale(m, u, t)

record_quota_reached(m, u, t) ==
    /\ Reserving(m, u, t)
    /\ reserve(u, t) = "none"
    /\ Opened(m)
    /\ IF Stale(m, u, t) THEN clear_choice(m, u)
                         ELSE UNCHANGED choiceVars
    /\ clock' = t
    /\ UNCHANGED <<walletVars, premium, charges>>

\* The reservation of participant p once u's new one is inserted.
SourceOf(m, u, t, p) == IF p = u THEN reserve(u, t) ELSE source[<<m, p>>]
WeekOf(m, u, t, p)   == IF p = u THEN start_of_utc_week(t) ELSE week[<<m, p>>]
Inserted(m, u, t) ==
    /\ Reserving(m, u, t)
    /\ reserve(u, t) # "none"

\* notify_waiting: the partner learns that u waits, unless they continued too.
Notices(m, u, kept) ==
    IF <<m, Partner(m, u)>> \in continued' THEN kept ELSE kept \cup {<<m, u>>}

record_pending(m, u, t) ==
    /\ Inserted(m, u, t)
    /\ source[<<m, Partner(m, u)>>] = "none"
    /\ Opened(m)
    /\ source' = [source EXCEPT ![<<m, u>>] = reserve(u, t)]
    /\ week' = [week EXCEPT ![<<m, u>>] = start_of_utc_week(t)]
    /\ continued' = continued \cup {<<m, u>>}
    /\ notices' = Notices(m, u, notices)
    /\ clock' = t
    /\ UNCHANGED <<walletVars, premium, charges>>

\* A reservation that cannot be charged any more when the second decision comes.
Lapsed(m, u, t, p) ==
    \/ SourceOf(m, u, t, p) = "advertising" /\ WeekOf(m, u, t, p) # start_of_utc_week(t)
    \/ /\ p \notin premium
       /\ \/ SourceOf(m, u, t, p) = "premium"
          \/ used[<<p, start_of_utc_week(t)>>] >= FREE_WEEKLY_CONTINUATION_LIMIT

\* The first participant, in user order, whose reservation lapsed has to choose again.
record_lapsed(m, u, t) ==
    /\ Inserted(m, u, t)
    /\ source[<<m, Partner(m, u)>>] # "none"
    /\ \E p \in Participants[m] :
         /\ Lapsed(m, u, t, p)
         /\ \A q \in Participants[m] : q < p => ~Lapsed(m, u, t, q)
         /\ source' = [source EXCEPT ![<<m, u>>] = reserve(u, t), ![<<m, p>>] = "none"]
         /\ week' = [week EXCEPT ![<<m, u>>] = start_of_utc_week(t), ![<<m, p>>] = 0]
         /\ continued' = (continued \cup {<<m, u>>}) \ {<<m, p>>}
         /\ notices' = IF p = u THEN notices \ {<<m, u>>}
                                ELSE Notices(m, u, notices \ {<<m, p>>})
    /\ Opened(m)
    /\ clock' = t
    /\ UNCHANGED <<walletVars, premium, charges>>

\* Both entitlements are valid: two debits and the confirmation, or nothing.
\* A debit of a wallet that is empty or of another week fails the transaction,
\* and so does a deadline that passed before the confirmation is written.
Charge(m, u, t, p) == IF p \in premium THEN "premium" ELSE SourceOf(m, u, t, p)
Debits(m, u, t, source_, p) == p \in Participants[m] /\ Charge(m, u, t, p) = source_

\* A continuation counts in the week it is confirmed, a free credit in the week it
\* was reserved.
debit_usage(m, u, t) ==
    used' = [x \in Users \X Weeks |->
        IF x[2] = start_of_utc_week(t) /\ x[1] \in Participants[m] \ premium
        THEN used[x] + 1 ELSE used[x]]

\* Mutant: the free credit is taken from the week of the debit.
debit_free_CurrentWeek(m, u, t) ==
    freeUsed' = [x \in Users \X Weeks |->
        IF Debits(m, u, t, "free", x[1]) /\ x[2] = start_of_utc_week(t)
        THEN freeUsed[x] + 1 ELSE freeUsed[x]]

debit_free(m, u, t) ==
    freeUsed' = [x \in Users \X Weeks |->
        IF Debits(m, u, t, "free", x[1]) /\ x[2] = WeekOf(m, u, t, x[1])
        THEN freeUsed[x] + 1 ELSE freeUsed[x]]

debit_wallet(m, u, t) ==
    credits' = [p \in Users |->
        IF Debits(m, u, t, "advertising", p) THEN credits[p] - 1 ELSE credits[p]]

Chargeable(m, u, t) ==
    /\ Inserted(m, u, t)
    /\ source[<<m, Partner(m, u)>>] # "none"
    /\ \A p \in Participants[m] : ~Lapsed(m, u, t, p)

WalletCovers(m, u, t, p) ==
    Debits(m, u, t, "advertising", p) =>
        credits[p] > 0 /\ walletWeek[p] = WeekOf(m, u, t, p)

\* Mutant: the debits stay although the deadline passed before the confirmation.
record_confirmed_KeepsLateDebits(m, u, t, s) ==
    /\ Chargeable(m, u, t)
    /\ \A p \in Participants[m] : WalletCovers(m, u, t, p)
    /\ debit_usage(m, u, t) /\ debit_free(m, u, t) /\ debit_wallet(m, u, t)
    /\ charges' = [x \in Seats |->
         IF x[1] = m /\ x[2] \in Participants[m] THEN charges[x] + 1 ELSE charges[x]]
    /\ status' = [status EXCEPT ![m] = IF DeadlineAt(m, clock) > s THEN "confirmed" ELSE @]
    /\ expires' = [expires EXCEPT ![m] = s + INACTIVITY]
    /\ delete_reservations(m)
    /\ continued' = continued \cup {<<m, u>>}
    /\ clock' = s
    /\ UNCHANGED <<notices, walletWeek, premium>>

record_confirmed(m, u, t, s) ==
    /\ Chargeable(m, u, t)
    /\ \A p \in Participants[m] : WalletCovers(m, u, t, p)
    /\ DeadlineAt(m, clock) > s
    /\ debit_usage(m, u, t) /\ debit_free(m, u, t) /\ debit_wallet(m, u, t)
    /\ charges' = [x \in Seats |->
         IF x[1] = m /\ x[2] \in Participants[m] THEN charges[x] + 1 ELSE charges[x]]
    /\ status' = [status EXCEPT ![m] = "confirmed"]
    /\ expires' = [expires EXCEPT ![m] = s + INACTIVITY]
    /\ delete_reservations(m)
    /\ continued' = continued \cup {<<m, u>>}
    /\ clock' = s
    /\ UNCHANGED <<notices, walletWeek, premium>>

continue_match(m, u) ==
    \E t \in clock..MaxClock :
      \/ record_expired(m, u, t)
      \/ record_plan_changed(m, u, t)
      \/ record_quota_reached(m, u, t)
      \/ record_pending(m, u, t)
      \/ record_lapsed(m, u, t)
      \/ \E s \in t..MaxClock : record_confirmed(m, u, t, s)

-----------------------------------------------------------------------------
(* What happens around the decisions. *)

\* A message in a confirmed match postpones its inactivity deadline.
message(m) ==
    /\ StatusAt(m, clock) = "confirmed"
    /\ expires' = [expires EXCEPT ![m] = clock + INACTIVITY]
    /\ UNCHANGED <<status, choiceVars, walletVars, premium, charges, clock>>

\* A subscription starts or ends: the row triggers take the wallet lock.
change_subscription(u) ==
    /\ premium' = IF u \in premium THEN premium \ {u} ELSE premium \cup {u}
    /\ UNCHANGED <<matchVars, choiceVars, walletVars, charges, clock>>

grant_advertising_credit(u) ==
    LET w == start_of_utc_week(clock) IN
    /\ \/ walletWeek[u] < w
       \/ walletWeek[u] = w /\ credits[u] < ADVERTISING_STOCK_LIMIT
    /\ credits' = [credits EXCEPT ![u] = IF walletWeek[u] = w THEN @ + 1 ELSE 1]
    /\ walletWeek' = [walletWeek EXCEPT ![u] = w]
    /\ UNCHANGED <<matchVars, choiceVars, used, freeUsed, premium, charges, clock>>

tick ==
    /\ clock < MaxClock
    /\ clock' = clock + 1
    /\ UNCHANGED <<matchVars, choiceVars, walletVars, premium, charges>>

Next ==
    \/ \E m \in Matches :
         create(m) \/ lock_available_match(m) \/ record_end(m) \/ block(m) \/ message(m)
    \/ \E now \in 0..MaxClock : run_batch(now)
    \/ \E m \in Matches, u \in Users : continue_match(m, u)
    \/ \E u \in Subscribers : change_subscription(u)
    \/ \E u \in Viewers : grant_advertising_credit(u)
    \/ tick

Spec == Init /\ [][Next]_vars

-----------------------------------------------------------------------------
(* Properties. *)

\* A user never uses, or holds reservations for, more than the weekly number of
\* continuations, nor more than the free credits of any week, whatever week
\* change, plan change or expiry comes between decision and confirmation.
QuotasHold ==
    \A u \in Users :
      LET w == start_of_utc_week(clock) IN
      /\ used[<<u, w>>] + Cardinality(Reserved(u, w, clock)) <= FREE_WEEKLY_CONTINUATION_LIMIT
      /\ \A v \in Weeks :
           freeUsed[<<u, v>>] + Cardinality(FreeReserved(u, v, clock)) <= FREE_WEEKLY_CREDITS

\* Every live advertising reservation of the week is backed by a credit in the
\* wallet: the debit that would fail the confirmation (QueryFailed) cannot occur.
WalletBacksReservations ==
    \A u \in Users :
      LET w == start_of_utc_week(clock) IN
      AdReserved(u, w, clock) # {} =>
        walletWeek[u] = w /\ Cardinality(AdReserved(u, w, clock)) <= credits[u]

\* The continuations and credits of a user stay within their limits,
\* reservations counted, and the wallet backs every advertising reservation
\* (matches/pg/credits.rs, quota_on; continuation.rs).
CreditsHold == QuotasHold /\ WalletBacksReservations

\* Both participants of a match are debited once and together, and only for a
\* match that was confirmed: no failed or late transaction leaves one debit.
ChargedTogether ==
    \A m \in Matches : \A u \in Participants[m] :
      /\ charges[<<m, u>>] \in {0, 1}
      /\ charges[<<m, u>>] = charges[<<m, Partner(m, u)>>]
      /\ status[m] = "confirmed" => charges[<<m, u>>] = 1
      /\ status[m] \in {"none", "active", "awaiting_continuation", "expired"}
            => charges[<<m, u>>] = 0

\* A reservation that is still good (free, advertising of this week, or Premium
\* of a Premium user) is never withdrawn by the other participant's decision:
\* when both decided, the limit check of record finds room for it.
GoodReservation(m, u, t) ==
    /\ DeadlineAt(m, clock) > t
    /\ \/ source[<<m, u>>] = "free"
       \/ source[<<m, u>>] = "advertising" /\ ~Stale(m, u, t)
       \/ source[<<m, u>>] = "premium" /\ u \in premium
ReservationHonoured ==
    [][\A m \in Matches : \A u \in Participants[m] :
         /\ Waiting(m, clock)
         /\ GoodReservation(m, u, clock')
         /\ source'[<<m, u>>] = "none"
         => status'[m] \in {"confirmed", "ended"}]_vars
=============================================================================
