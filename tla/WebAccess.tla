----------------------------- MODULE WebAccess -----------------------------
(***************************************************************************)
(* The way into an account from the website: a challenge for an account    *)
(* and its telephone number, the attempts to answer it with the one-time   *)
(* code, the session that the right answer opens, and the payments page    *)
(* behind it.  One account; attempts to verify run side by side.           *)
(***************************************************************************)
EXTENDS Naturals, FiniteSets

CONSTANTS
    Keys,        \* idempotency keys of challenges
    Visits,      \* requests to verify; each may open one session
    MaxTries     \* attempts<5 of BEGIN_VERIFY_SQL

ASSUME WebAssumption == Keys # {} /\ IsFiniteSet(Visits) /\ MaxTries \in Nat

VARIABLES
    account,     \* live, banned or deleted
    onboarded,   \* both legal documents are accepted in their versions
    challenge,   \* none, open, consumed or expired, for each key
    matched,     \* challenges whose account and number belong together
    tries,       \* attempts of a challenge
    code,        \* none, sent or used: the one-time code of a challenge
    examined,    \* codes that were looked at for a challenge
    visit,       \* where a request to verify is, and for which challenge
    web          \* sessions that are open

portal == <<challenge, matched, tries, code, examined, visit, web>>

NoVisit == [at |-> "idle", key |-> CHOOSE k \in Keys : TRUE]

WebInit ==
    /\ account = "live"
    /\ onboarded \in BOOLEAN
    /\ challenge = [k \in Keys |-> "none"]
    /\ matched = {}
    /\ tries = [k \in Keys |-> 0]
    /\ code = [k \in Keys |-> "none"]
    /\ examined = [k \in Keys |-> 0]
    /\ visit = [v \in Visits |-> NoVisit]
    /\ web = {}

\* deleted_at IS NULL AND NOT is_banned
Active == account = "live"

Visiting(v, at) == visit' = [visit EXCEPT ![v].at = at]

\* CREATE_CHALLENGE_SQL: the challenge is stored whether or not the details
\* belong together.
create_challenge(k, right) ==
    /\ challenge[k] = "none"
    /\ challenge' = [challenge EXCEPT ![k] = "open"]
    /\ matched' = IF right /\ Active THEN matched \cup {k} ELSE matched

\* start: a code is sent once, for a new challenge that matches, and a
\* failure to send it is not shown.  A key that is known sends nothing.
start(k, right) ==
    /\ create_challenge(k, right)
    /\ \/ k \in matched' /\ code' = [code EXCEPT ![k] = "sent"]
       \/ UNCHANGED code
    /\ UNCHANGED <<account, onboarded, tries, examined, visit, web>>

\* send: limited by address and by number, then start; the answer is the
\* same whatever happened.
send(k, right) == start(k, right)

\* The attempt of the request is over.
error(v) ==
    /\ visit' = [visit EXCEPT ![v] = NoVisit]
    /\ UNCHANGED <<challenge, matched, code, web>>

\* Mutant: the attempts are compared before, and counted after, the code.
begin_verify_Late(v, k) ==
    /\ visit[v].at = "idle"
    /\ challenge[k] = "open"
    /\ examined[k] < MaxTries
    /\ tries' = [tries EXCEPT ![k] = examined[k]]
    /\ visit' = IF k \in matched
                THEN [visit EXCEPT ![v] = [at |-> "examining", key |-> k]]
                ELSE visit
    /\ UNCHANGED <<account, onboarded, challenge, matched, code, examined, web>>

\* BEGIN_VERIFY_SQL: an attempt is used up before the code is examined, and
\* no code is examined for a challenge that has none left.
begin_verify(v, k) ==
    /\ visit[v].at = "idle"
    /\ challenge[k] = "open"
    /\ tries[k] < MaxTries
    /\ tries' = [tries EXCEPT ![k] = @ + 1]
    /\ visit' = IF k \in matched
                THEN [visit EXCEPT ![v] = [at |-> "examining", key |-> k]]
                ELSE visit
    /\ UNCHANGED <<account, onboarded, challenge, matched, code, examined, web>>

\* consume of the one-time codes: right and unused, or refused.
consume(v) ==
    LET k == visit[v].key IN
    /\ visit[v].at = "examining"
    /\ examined' = [examined EXCEPT ![k] = @ + 1]
    /\ \/ /\ code[k] = "sent"
          /\ code' = [code EXCEPT ![k] = "used"]
          /\ Visiting(v, "opening")
          /\ UNCHANGED <<challenge, matched, web>>
       \/ error(v)
    /\ UNCHANGED <<account, onboarded, tries>>

\* open_session: the challenge is consumed and the session inserted in one
\* transaction, if the account is still active.
open_session(v) ==
    /\ visit[v].at = "opening"
    /\ IF challenge[visit[v].key] = "open" /\ Active
       THEN /\ challenge' = [challenge EXCEPT ![visit[v].key] = "consumed"]
            /\ web' = web \cup {v}
            /\ Visiting(v, "over")
            /\ UNCHANGED <<matched, code>>
       ELSE error(v)
    /\ UNCHANGED <<account, onboarded, tries, examined>>

verify(v) == (\E k \in Keys : begin_verify(v, k)) \/ consume(v) \/ open_session(v)

\* IDENTITY_SQL: the session is open and the account still active.
identity(v) == v \in web /\ Active

logout(v) ==
    /\ web' = web \ {v}
    /\ v \in web
    /\ UNCHANGED <<account, onboarded, challenge, matched, tries, code, examined, visit>>

\* payer: only an account that has completed onboarding may pay.
payer(v) == identity(v) /\ onboarded

\* checkout and portal hand over to the billing service.
checkout(v) == payer(v) /\ UNCHANGED <<account, onboarded, portal>>

\* expires_at passes, of a challenge or of a session.
expire ==
    /\ \/ \E k \in Keys : /\ challenge[k] = "open"
                          /\ challenge' = [challenge EXCEPT ![k] = "expired"]
                          /\ UNCHANGED web
       \/ \E v \in web : web' = web \ {v} /\ UNCHANGED challenge
    /\ UNCHANGED <<account, onboarded, matched, tries, code, examined, visit>>

\* An administrator bans the account or lifts the ban.
ban ==
    /\ account' = CASE account = "live" -> "banned" [] account = "banned" -> "live"
                    [] OTHER -> account
    /\ UNCHANGED <<onboarded, portal>>

WebNext ==
    \/ \E k \in Keys, right \in BOOLEAN : send(k, right)
    \/ \E v \in Visits : verify(v) \/ logout(v) \/ checkout(v)
    \/ expire
    \/ ban

\* However many requests answer a challenge at once, the codes examined for
\* it stay within its attempts, and it opens one session at most.
GuessesBounded ==
    /\ \A k \in Keys : examined[k] <= MaxTries
    /\ \A k \in Keys : Cardinality({v \in Visits : visit[v] = [at |-> "over", key |-> k]}) <= 1
=============================================================================
