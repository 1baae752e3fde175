---------------------------- MODULE Registration ----------------------------
(***************************************************************************)
(* From a verified code to a session, for ONE phone: the request of a code *)
(* with its intent (registration or login), the eligibility read by the    *)
(* worker that sends it, and the verification, which looks the account up, *)
(* creates it when there is none and opens a session; meanwhile accounts   *)
(* are banned, deleted and anonymised                                      *)
(* (src/src/identity/mobile/account.rs, play_review.rs, pg/review.rs).     *)
(*                                                                         *)
(* The statements of a transaction see the state committed when each of    *)
(* them starts, and an INSERT on the unique phone hash waits for the       *)
(* transaction that holds the key, so every statement whose answer a later *)
(* one relies on is a step of its own.  Codes, their expiry, cooldowns and *)
(* the delivery are the module Otp; here a code is sent or not.  Rate      *)
(* limits, malformed input and a failing database only refuse.             *)
(***************************************************************************)
EXTENDS Integers, FiniteSets

CONSTANTS Logins,     \* calls of verify_otp
          Users,      \* account ids
          None,
          MaxCodes,   \* bound on the codes requested
          MaxChanges  \* bound on the changes made by others

ASSUME RegistrationAssumption == None \notin Users

VARIABLES reviewed,  \* the phone is the configured review phone
          user_account, \* "none", "live", "deleting" (deleted_at set) or "gone" (anonymised)
          banned, reviewer,   \* the accounts with is_banned, with is_review_account
          tombstone, \* an unexpired row of account_tombstone
          intent,    \* the newest request of the phone: "none", "registration", "login", "expired"
          queued,    \* intent of the request whose event waits in the outbox
          code,      \* a usable code was sent
          stage, mine,  \* of a login: where it is, and the account it found or makes
          session,   \* the accounts with an active session
          codes, changes

env  == <<reviewed, changes>>
rows == <<user_account, banned, reviewer, tombstone>>
otp  == <<intent, queued, code, codes>>
registrationVars == <<env, rows, otp, stage, mine, session>>

\* The phone is new, or belongs to an ordinary account, perhaps one being
\* deleted.  Whether it is the review phone is configured.
RegistrationInit ==
    /\ reviewed \in BOOLEAN
    /\ \E s \in {"none", "live", "deleting"} :
         user_account = [u \in Users |-> IF u = (CHOOSE x \in Users : TRUE) THEN s ELSE "none"]
    /\ banned \in SUBSET {u \in Users : user_account[u] # "none"}
    /\ reviewer \in SUBSET {u \in Users : user_account[u] # "none" /\ reviewed}
    /\ tombstone = FALSE
    /\ intent = "none" /\ queued = "none" /\ code = FALSE
    /\ stage = [l \in Logins |-> "idle"] /\ mine = [l \in Logins |-> None]
    /\ session = {u \in Users : user_account[u] = "live" /\ u \notin banned}
    /\ codes = 0 /\ changes = 0
-----------------------------------------------------------------------------
(* Rows of user_account.  The hash is replaced when an account is          *)
(* anonymised, so an account being deleted still holds the phone.          *)

Holders == {u \in Users : user_account[u] \in {"live", "deleting"}}

\* Ids taken by a row or by a login that has not inserted yet.
FreshId(u) == user_account[u] = "none" /\ \A l \in Logins : mine[l] # u

\* find_by_phone_hash: deleted accounts are not seen.
find_impl == {u \in Users : user_account[u] = "live"}

\* Mutant: the ban read before the lock is trusted.
account_open_Trusting(u) == user_account[u] = "live"

\* Under the account lock a session is only opened for an account that is
\* still live and not banned.
account_open(u) == user_account[u] = "live" /\ u \notin banned

goto(l, s) == stage' = [stage EXCEPT ![l] = s]

\* A call ends, with a token pair or with an error.
done(l) == goto(l, "idle") /\ mine' = [mine EXCEPT ![l] = None]
-----------------------------------------------------------------------------
(* The code. *)

is_review_phone == reviewed

\* record_review: the intent is stored without a payload and without an event.
record_review(kind) == intent' = kind /\ UNCHANGED <<queued, code>>

\* enqueue: the intent and its event, whatever accounts exist.
enqueue(kind) == intent' = kind /\ queued' = kind /\ UNCHANGED code

send_otp(kind) ==
    /\ codes < MaxCodes /\ codes' = codes + 1
    /\ IF is_review_phone THEN record_review(kind) ELSE enqueue(kind)
    /\ UNCHANGED <<env, rows, stage, mine, session>>

\* A registration needs a phone without account, a login an account that is
\* not banned.
eligible(registration) ==
    IF registration THEN find_impl = {} ELSE \E u \in find_impl : u \notin banned

\* OtpRequestHandler: the worker reads the account and sends the code, or not.
dispatch ==
    /\ queued # "none" /\ queued' = "none"
    /\ code' = (code \/ eligible(queued = "registration"))
    /\ UNCHANGED <<env, rows, intent, codes, stage, mine, session>>

\* expires_at of the newest request passes.
intent_expires ==
    /\ intent \in {"registration", "login"} /\ intent' = "expired"
    /\ UNCHANGED <<env, rows, queued, code, codes, stage, mine, session>>
-----------------------------------------------------------------------------
(* verify, one step for each statement or call it waits for. *)

\* The fixed code is compared; a wrong one creates nothing.
authorize(l) == reviewed /\ goto(l, "review") /\ UNCHANGED code

\* consume marks the code used before anything is known about the account.
consume(l) == ~reviewed /\ code /\ code' = FALSE /\ goto(l, "find")

verify_otp(l) ==
    /\ stage[l] = "idle"
    /\ authorize(l) \/ consume(l)
    /\ UNCHANGED <<env, rows, intent, queued, codes, mine, session>>

find_by_phone_hash(l) ==
    /\ stage[l] = "find"
    /\ \/ \E u \in find_impl : IF u \in banned THEN done(l)
                                ELSE goto(l, "issue") /\ mine' = [mine EXCEPT ![l] = u]
       \/ /\ find_impl = {} /\ goto(l, "create")
          /\ \E u \in Users : FreshId(u) /\ mine' = [mine EXCEPT ![l] = u]
    /\ UNCHANGED <<env, rows, otp, session>>

\* create_impl, first statement: the tombstone of the phone.
create_checks(l) ==
    /\ stage[l] = "create"
    /\ IF tombstone THEN done(l) ELSE goto(l, "insert") /\ UNCHANGED mine
    /\ UNCHANGED <<env, rows, otp, session>>

\* create_impl, second statement: the unique phone hash answers a conflict
\* (account_creation_conflict) while another account holds the phone.
create_inserts(l) ==
    /\ stage[l] = "insert"
    /\ \/ Holders # {} /\ done(l) /\ UNCHANGED user_account
       \/ /\ Holders = {} /\ user_account' = [user_account EXCEPT ![mine[l]] = "live"]
          /\ goto(l, "issue") /\ UNCHANGED mine
    /\ UNCHANGED <<env, banned, reviewer, tombstone, otp, session>>

create_impl(l) == create_checks(l) \/ create_inserts(l)

first_token_pair(l) ==
    /\ stage[l] = "issue" /\ done(l)
    /\ session' = IF account_open(mine[l]) THEN session \cup {mine[l]} ELSE session
    /\ UNCHANGED <<env, rows, otp>>
-----------------------------------------------------------------------------
(* create_review_session: one transaction under the advisory lock of the   *)
(* phone, so one login at a time is between its stages.                    *)

InReview == {l \in Logins : stage[l] \in {"review_insert", "review_finish"}}

\* A first creation needs the newest request to be an unexpired registration.
registering == intent = "registration"

review_checks(l) ==
    /\ stage[l] = "review" /\ InReview = {}
    /\ \/ tombstone /\ done(l)
       \/ ~tombstone /\ registering /\ goto(l, "review_insert") /\ UNCHANGED mine
       \/ ~tombstone /\ ~registering /\ goto(l, "review_finish") /\ UNCHANGED mine
    /\ UNCHANGED <<env, rows, otp, session>>

\* INSERT ... ON CONFLICT DO NOTHING: the new row is not committed yet.
review_inserts(l) ==
    /\ stage[l] = "review_insert" /\ goto(l, "review_finish")
    /\ \E u \in Users :
         /\ FreshId(u)
         /\ mine' = [mine EXCEPT ![l] = IF Holders = {} THEN u ELSE None]
    /\ UNCHANGED <<env, rows, otp, session>>

\* Mutant: the tombstone is not read again after the INSERT.
blocked_Never == FALSE

\* The tombstone read again, on a fresh snapshot.
blocked == tombstone

\* The review account of the phone, committed or just inserted, that is
\* neither banned nor deleted.
review_account(l) ==
    IF mine[l] # None THEN {mine[l]}
    ELSE {u \in reviewer : account_open(u)}

\* The transaction commits the account with its session, or neither.
review_commits(l) ==
    /\ stage[l] = "review_finish" /\ done(l)
    /\ IF ~blocked /\ review_account(l) # {}
       THEN /\ user_account' = [u \in Users |-> IF u = mine[l] THEN "live" ELSE user_account[u]]
            /\ reviewer' = reviewer \cup review_account(l)
            /\ session' = session \cup review_account(l)
       ELSE UNCHANGED <<user_account, reviewer, session>>
    /\ UNCHANGED <<env, banned, tombstone, otp>>

create_review_session(l) == review_checks(l) \/ review_inserts(l) \/ review_commits(l)

verify(l) ==
    \/ verify_otp(l) \/ find_by_phone_hash(l) \/ create_impl(l) \/ first_token_pair(l)
    \/ create_review_session(l)
-----------------------------------------------------------------------------
(* Other components. *)

Change == changes < MaxChanges /\ changes' = changes + 1 /\ UNCHANGED reviewed

\* A ban closes the sessions in its transaction; it can be lifted.
ban_changes(u) ==
    /\ Change /\ user_account[u] = "live"
    /\ \/ u \notin banned /\ banned' = banned \cup {u} /\ session' = session \ {u}
       \/ u \in banned /\ banned' = banned \ {u} /\ UNCHANGED session
    /\ UNCHANGED <<user_account, reviewer, tombstone, otp, stage, mine>>

\* A deletion, asked for by the user or granted by an administrator, sets
\* deleted_at, and a trigger erases the sessions.
enqueue_account_erasure(u) ==
    /\ Change /\ user_account[u] = "live"
    /\ user_account' = [user_account EXCEPT ![u] = "deleting"] /\ session' = session \ {u}
    /\ UNCHANGED <<banned, reviewer, tombstone, otp, stage, mine>>

\* fct_anonymize_user: the phone of a banned account is remembered, the hash
\* and the ban are erased.
anonymize_user(u) ==
    /\ user_account[u] = "deleting"
    /\ user_account' = [user_account EXCEPT ![u] = "gone"]
    /\ tombstone' = (tombstone \/ u \in banned)
    /\ banned' = banned \ {u}
    /\ UNCHANGED <<env, reviewer, otp, stage, mine, session>>

\* Three years later.
tombstone_expires ==
    /\ Change /\ tombstone /\ tombstone' = FALSE
    /\ UNCHANGED <<user_account, banned, reviewer, otp, stage, mine, session>>

RegistrationNext ==
    \/ \E kind \in {"registration", "login"} : send_otp(kind)
    \/ dispatch \/ intent_expires
    \/ \E l \in Logins : verify(l)
    \/ \E u \in Users : ban_changes(u) \/ enqueue_account_erasure(u) \/ anonymize_user(u)
    \/ tombstone_expires

RegistrationSpec == RegistrationInit /\ [][RegistrationNext]_registrationVars
-----------------------------------------------------------------------------
(* Properties. *)

\* Every account with a session is live and not banned, although the ban or
\* the deletion may commit between the lookup of verify and the session:
\* create locks the account and reads it again, and bans and deletions close
\* what was opened before them (identity/mobile/pg.rs, create).
SessionsOfActive == \A u \in session : user_account[u] = "live" /\ u \notin banned

\* A step that creates an account finds no tombstone.
CreationNeedsNoTombstone ==
    \A u \in Users : user_account[u] = "none" /\ user_account'[u] = "live" => ~tombstone

\* Sessions are opened for live, unbanned accounts only, although a ban or a
\* deletion may commit between the lookup and the session (pg.rs, create); no
\* review account appears while the phone is remembered, even when the
\* deletion commits during the INSERT (pg/review.rs, create_review_session).
RegistrationHolds ==
    [][ SessionsOfActive' /\ (reviewed => CreationNeedsNoTombstone) ]_registrationVars

\* "a_tombstone_rejects_account_creation_after_irreversible_otp_consumption":
\* no account of any kind is created while the phone is remembered
\* (identity/mobile/account.rs, create_impl).
TombstoneRejectsCreation == [][CreationNeedsNoTombstone]_registrationVars
=============================================================================
