--------------------------- MODULE AdminIdentity ---------------------------
(***************************************************************************)
(* The passkeys and sessions of one administrator.  A request is checked   *)
(* when it arrives, and acts in a transaction of its own afterwards: two   *)
(* requests may be between the two at the same time, logins and            *)
(* revocations included.                                                   *)
(***************************************************************************)
EXTENDS Naturals, FiniteSets

CONSTANTS
    Keys,           \* authenticators the administrator owns
    Sessions, Bootstraps, Challenges,   \* identifiers of rows
    Requests,       \* requests that may be in progress together
    Unset,          \* NULL
    MaxCounter,     \* bound: signatures of an authenticator
    MaxCeremonies,  \* bound: requests that change something
    MaxExpiries     \* bound: expiries and changes of the account

ASSUME IdentityAssumption == Challenges \cap Bootstraps = {} /\ Unset \notin Keys

VARIABLES
    adminAccount,   \* administrator, neither deleted nor banned
    bootstrap,      \* admin_webauthn_bootstrap: "none", "open" or "spent"
    challenge,      \* admin_webauthn_challenge: purpose, bootstrap, exclusions, state
    credential,     \* admin_webauthn_credential of each key: state and stored counter
    signed,         \* signatures each authenticator has made
    session,        \* admin_session: state, credential, age
    ceremony,       \* what each request in progress has read
    yield,          \* ghost: what each challenge and bootstrap was exchanged for
    ceremonies, expiries

identityVars == <<adminAccount, bootstrap, challenge, credential, signed, session, ceremony,
                  yield, ceremonies, expiries>>

NoChallenge == [state |-> "none", purpose |-> Unset, bootstrap |-> Unset, excluded |-> {}]
NoCeremony == [op |-> "idle", by |-> Unset, key |-> Unset, of |-> Unset, challenge |-> Unset,
              stored |-> 0, next |-> 0]

ActiveCredentials == {k \in Keys : credential[k].state = "active"}

\* Either nobody was registered yet, or one or two keys were, each with a session.
IdentityInit ==
    /\ adminAccount = TRUE
    /\ bootstrap = [b \in Bootstraps |-> "none"]
    /\ challenge = [c \in Challenges |-> NoChallenge]
    /\ \E registered \in SUBSET Keys, opened \in [Sessions -> Keys \cup {Unset}] :
        /\ \A s \in Sessions : opened[s] \in registered \cup {Unset}
        /\ credential = [k \in Keys |->
            [state |-> IF k \in registered THEN "active" ELSE "none", counter |-> 0]]
        /\ session = [s \in Sessions |->
            [state |-> IF opened[s] = Unset THEN "none" ELSE "open",
             credential |-> opened[s], age |-> "recent"]]
    /\ signed = [k \in Keys |-> 0]
    /\ ceremony = [r \in Requests |-> NoCeremony]
    /\ yield = [x \in Challenges \cup Bootstraps |-> 0]
    /\ ceremonies = 0 /\ expiries = 0

-----------------------------------------------------------------------------
(* The checks of a request. *)

\* The session a cookie names, if it, its credential and its account are still good.
active_session(s) ==
    /\ adminAccount /\ session[s].state = "open" /\ session[s].age # "lapsed"
    /\ credential[session[s].credential].state = "active"

authenticate_session(s) == active_session(s)

AdminIdentity(s) == authenticate_session(s)

RecentAdminIdentity(s) == AdminIdentity(s) /\ session[s].age = "recent"

bootstrap_row(b) == adminAccount /\ bootstrap[b] = "open"

Free(r) == ceremony[r].op = "idle" /\ ceremonies < MaxCeremonies

Accept(r, request) ==
    /\ ceremonies' = ceremonies + 1
    /\ ceremony' = [ceremony EXCEPT ![r] = request]

Over(r) == ceremony' = [ceremony EXCEPT ![r] = NoCeremony]

\* The request ends with an error.
Refused(r) == Over(r) /\ UNCHANGED <<adminAccount, bootstrap, challenge, credential, signed,
                                     session, yield, ceremonies, expiries>>

-----------------------------------------------------------------------------
(* Challenges. *)

create_challenge(c, purpose, b, excluded) ==
    /\ challenge[c].state = "none"
    /\ challenge' = [challenge EXCEPT ![c] =
        [state |-> "open", purpose |-> purpose, bootstrap |-> b, excluded |-> excluded]]
    /\ UNCHANGED <<adminAccount, bootstrap, credential, signed, session, ceremony, yield,
                   ceremonies, expiries>>

persist_challenge(c, purpose, b, excluded) == create_challenge(c, purpose, b, excluded)

\* An authenticator that holds one of the keys already registered refuses.
registration_options(c, purpose, b) == persist_challenge(c, purpose, b, ActiveCredentials)

authentication_options(c) == persist_challenge(c, "authentication", Unset, {})

bootstrap_registration_options(c, b) ==
    /\ bootstrap_row(b)
    /\ registration_options(c, "bootstrap_registration", b)

additional_registration_options(c, s) ==
    /\ RecentAdminIdentity(s)
    /\ registration_options(c, "additional_registration", Unset)

\* Mutant: a challenge stays valid until it expires.
Consumed_Not(c) == challenge[c]

Consumed(c) == [challenge[c] EXCEPT !.state = "spent"]

\* One statement: whoever comes second finds it consumed.
consume_challenge(c, purpose, b) ==
    /\ challenge[c].state = "open" /\ challenge[c].purpose = purpose
    /\ challenge[c].bootstrap = b
    /\ challenge' = [challenge EXCEPT ![c] = Consumed(c)]

-----------------------------------------------------------------------------
(* Login. *)

\* The authenticator has signed the challenge; the request brings its counter.
\* A key that several devices share has none: it stays at 0.
login_verify(r, c, k) ==
    /\ challenge[c].state # "none"
    /\ \E n \in {0, signed[k] + 1} :
          /\ n = 0 => signed[k] = 0
          /\ n <= MaxCounter
          /\ signed' = [signed EXCEPT ![k] = n]
          /\ Accept(r, [NoCeremony EXCEPT !.op = "login", !.key = k, !.challenge = c,
                                        !.next = n])
    /\ UNCHANGED <<adminAccount, bootstrap, challenge, credential, session, yield,
                   expiries>>

\* A counter that has not grown is the sign of a copied authenticator.
finish_authentication(stored, next) == next > stored \/ (next = 0 /\ stored = 0)

\* The challenge is consumed, then the credential read, then the signature checked.
authenticate_challenge(r) ==
    /\ ceremony[r].op = "login"
    /\ \/ /\ consume_challenge(ceremony[r].challenge, "authentication", Unset)
          /\ ceremony' = [ceremony EXCEPT ![r].op = "login_find"]
          /\ UNCHANGED <<adminAccount, bootstrap, credential, signed, session, yield,
                         ceremonies, expiries>>
       \/ /\ challenge[ceremony[r].challenge].state # "open"
             \/ challenge[ceremony[r].challenge].purpose # "authentication"
          /\ Refused(r)

active_credential(k) == adminAccount /\ credential[k].state = "active"

authenticate_credential(r) ==
    /\ ceremony[r].op = "login_find"
    /\ LET k == ceremony[r].key IN
       IF /\ active_credential(k)
          /\ finish_authentication(credential[k].counter, ceremony[r].next)
       THEN /\ ceremony' = [ceremony EXCEPT ![r].op = "login_complete",
                                  ![r].stored = credential[k].counter]
            /\ UNCHANGED <<adminAccount, bootstrap, challenge, credential, signed, session,
                           yield, ceremonies, expiries>>
       ELSE Refused(r)

SameCounter(r) == credential[ceremony[r].key].counter = ceremony[r].stored

insert_session(s, k) ==
    /\ session[s].state = "none"
    /\ session' = [session EXCEPT ![s] =
        [state |-> "open", credential |-> k, age |-> "recent"]]

complete_authentication(r) ==
    /\ ceremony[r].op = "login_complete"
    /\ LET k == ceremony[r].key IN
       IF adminAccount /\ credential[k].state = "active" /\ SameCounter(r)
       THEN /\ credential' = [credential EXCEPT ![k].counter = ceremony[r].next]
            /\ \E s \in Sessions : insert_session(s, k)
            /\ yield' = [yield EXCEPT ![ceremony[r].challenge] = @ + 1]
            /\ Over(r)
            /\ UNCHANGED <<adminAccount, bootstrap, challenge, signed, ceremonies,
                           expiries>>
       ELSE Refused(r)

-----------------------------------------------------------------------------
(* Registration of a key, with a bootstrap token or from a session. *)

\* The token of a new administrator, given by the operator; an earlier one is void.
issue_bootstrap(b) ==
    /\ adminAccount /\ bootstrap[b] = "none"
    /\ bootstrap' = [x \in Bootstraps |->
        IF x = b THEN "open" ELSE IF bootstrap[x] = "open" THEN "spent" ELSE bootstrap[x]]
    /\ UNCHANGED <<adminAccount, challenge, credential, signed, session, ceremony, yield,
                   ceremonies, expiries>>

bootstrap_verify(r, b, c, k) ==
    /\ bootstrap_row(b) /\ k \notin challenge[c].excluded
    /\ Accept(r, [NoCeremony EXCEPT !.op = "bootstrap", !.key = k, !.challenge = c, !.of = b])
    /\ UNCHANGED <<adminAccount, bootstrap, challenge, credential, signed, session, yield,
                   expiries>>

complete_bootstrap_registration(r) ==
    /\ ceremony[r].op = "bootstrap"
    /\ \/ /\ consume_challenge(ceremony[r].challenge, "bootstrap_registration", ceremony[r].of)
          /\ ceremony' = [ceremony EXCEPT ![r].op = "bootstrap_complete"]
          /\ UNCHANGED <<adminAccount, bootstrap, credential, signed, session, yield,
                         ceremonies, expiries>>
       \/ /\ challenge[ceremony[r].challenge].state # "open"
             \/ challenge[ceremony[r].challenge].bootstrap # ceremony[r].of
          /\ Refused(r)

insert_credential(k) ==
    /\ credential[k].state = "none"
    /\ credential' = [credential EXCEPT ![k] = [state |-> "active", counter |-> signed[k]]]

complete_bootstrap(r) ==
    /\ ceremony[r].op = "bootstrap_complete"
    /\ \/ /\ bootstrap_row(ceremony[r].of)
          /\ insert_credential(ceremony[r].key)
          /\ \E s \in Sessions : insert_session(s, ceremony[r].key)
          /\ bootstrap' = [bootstrap EXCEPT ![ceremony[r].of] = "spent"]
          /\ yield' = [yield EXCEPT ![ceremony[r].of] = @ + 1, ![ceremony[r].challenge] = @ + 1]
          /\ Over(r)
          /\ UNCHANGED <<adminAccount, challenge, signed, ceremonies, expiries>>
       \/ /\ ~bootstrap_row(ceremony[r].of) \/ credential[ceremony[r].key].state # "none"
          /\ Refused(r)

credential_verify(r, s, c, k) ==
    /\ RecentAdminIdentity(s) /\ k \notin challenge[c].excluded
    /\ Accept(r, [NoCeremony EXCEPT !.op = "add", !.by = s, !.key = k, !.challenge = c])
    /\ UNCHANGED <<adminAccount, bootstrap, challenge, credential, signed, session, yield,
                   expiries>>

add_credential_challenge(r) ==
    /\ ceremony[r].op = "add"
    /\ \/ /\ consume_challenge(ceremony[r].challenge, "additional_registration", Unset)
          /\ ceremony' = [ceremony EXCEPT ![r].op = "add_complete"]
          /\ UNCHANGED <<adminAccount, bootstrap, credential, signed, session, yield,
                         ceremonies, expiries>>
       \/ /\ challenge[ceremony[r].challenge].state # "open"
             \/ challenge[ceremony[r].challenge].purpose # "additional_registration"
          /\ Refused(r)

add_credential(r) ==
    /\ ceremony[r].op = "add_complete"
    /\ \/ /\ adminAccount
          /\ insert_credential(ceremony[r].key)
          /\ yield' = [yield EXCEPT ![ceremony[r].challenge] = @ + 1]
          /\ Over(r)
          /\ UNCHANGED <<adminAccount, bootstrap, challenge, signed, session, ceremonies,
                         expiries>>
       \/ /\ ~adminAccount \/ credential[ceremony[r].key].state # "none"
          /\ Refused(r)

-----------------------------------------------------------------------------
(* Revocation. *)

Revoked(kept) ==
    [s \in Sessions |-> IF session[s].state = "open" /\ s # kept
                        THEN [session[s] EXCEPT !.state = "revoked"] ELSE session[s]]

request_revocation(r, s, k) ==
    /\ RecentAdminIdentity(s) /\ k # session[s].credential
    /\ Accept(r, [NoCeremony EXCEPT !.op = "revoke", !.by = s, !.key = k])
    /\ UNCHANGED <<adminAccount, bootstrap, challenge, credential, signed, session, yield,
                   expiries>>

\* Mutant: what was counted before the rows were locked decides.
Last_Any(k) == FALSE

\* The rows are locked, so what another revocation committed is seen.
Last(k) == Cardinality(ActiveCredentials) <= 1

revoke_credential(r) ==
    /\ ceremony[r].op = "revoke"
    /\ IF ceremony[r].key \in ActiveCredentials /\ ~Last(ceremony[r].key)
       THEN /\ credential' = [credential EXCEPT ![ceremony[r].key].state = "revoked"]
            /\ session' = Revoked(ceremony[r].by)
            /\ Over(r)
            /\ UNCHANGED <<adminAccount, bootstrap, challenge, signed, yield, ceremonies,
                           expiries>>
       ELSE Refused(r)

request_end(r, s, target) ==
    /\ RecentAdminIdentity(s) /\ target # s
    /\ Accept(r, [NoCeremony EXCEPT !.op = "end", !.by = s, !.of = target])
    /\ UNCHANGED <<adminAccount, bootstrap, challenge, credential, signed, session, yield,
                   expiries>>

revoke_selected_session(r) ==
    /\ ceremony[r].op = "end"
    /\ IF session[ceremony[r].of].state = "open" /\ session[ceremony[r].of].age # "lapsed"
       THEN /\ session' = [session EXCEPT ![ceremony[r].of].state = "revoked"]
            /\ Over(r)
            /\ UNCHANGED <<adminAccount, bootstrap, challenge, credential, signed, yield,
                           ceremonies, expiries>>
       ELSE Refused(r)

request_end_others(r, s) ==
    /\ RecentAdminIdentity(s)
    /\ Accept(r, [NoCeremony EXCEPT !.op = "end_others", !.by = s])
    /\ UNCHANGED <<adminAccount, bootstrap, challenge, credential, signed, session, yield,
                   expiries>>

revoke_other_sessions(r) ==
    /\ ceremony[r].op = "end_others"
    /\ session' = Revoked(ceremony[r].by)
    /\ Over(r)
    /\ UNCHANGED <<adminAccount, bootstrap, challenge, credential, signed, yield,
                   ceremonies, expiries>>

logout(r, s) ==
    /\ AdminIdentity(s)
    /\ Accept(r, [NoCeremony EXCEPT !.op = "logout", !.by = s])
    /\ UNCHANGED <<adminAccount, bootstrap, challenge, credential, signed, session, yield,
                   expiries>>

revoke_session(r) ==
    /\ ceremony[r].op = "logout"
    /\ session' = [session EXCEPT ![ceremony[r].by].state = "revoked"]
    /\ Over(r)
    /\ UNCHANGED <<adminAccount, bootstrap, challenge, credential, signed, yield,
                   ceremonies, expiries>>

-----------------------------------------------------------------------------
(* Time, and the administration of the account. *)

Expiry == expiries < MaxExpiries /\ expiries' = expiries + 1

\* A session is no longer recent, then idle for too long or past its end.
session_ages(s) ==
    /\ Expiry
    /\ session[s].state = "open" /\ session[s].age # "lapsed"
    /\ session' = [session EXCEPT ![s].age = IF @ = "recent" THEN "old" ELSE "lapsed"]
    /\ UNCHANGED <<adminAccount, bootstrap, challenge, credential, signed, ceremony, yield,
                   ceremonies>>

challenge_expires(c) ==
    /\ Expiry
    /\ challenge[c].state = "open"
    /\ challenge' = [challenge EXCEPT ![c].state = "spent"]
    /\ UNCHANGED <<adminAccount, bootstrap, credential, signed, session, ceremony, yield,
                   ceremonies>>

bootstrap_expires(b) ==
    /\ Expiry
    /\ bootstrap[b] = "open"
    /\ bootstrap' = [bootstrap EXCEPT ![b] = "spent"]
    /\ UNCHANGED <<adminAccount, challenge, credential, signed, session, ceremony, yield,
                   ceremonies>>

account_closes ==
    /\ Expiry
    /\ adminAccount
    /\ adminAccount' = FALSE
    /\ UNCHANGED <<bootstrap, challenge, credential, signed, session, ceremony, yield,
                   ceremonies>>

authenticate(r) ==
    authenticate_challenge(r) \/ authenticate_credential(r) \/ complete_authentication(r)

Proceed(r) ==
    \/ authenticate(r) \/ complete_bootstrap_registration(r) \/ complete_bootstrap(r)
    \/ add_credential_challenge(r) \/ add_credential(r) \/ revoke_credential(r)
    \/ revoke_selected_session(r) \/ revoke_other_sessions(r) \/ revoke_session(r)

Arrive(r) ==
    \/ \E c \in Challenges, k \in Keys :
        \/ login_verify(r, c, k)
        \/ \E b \in Bootstraps : bootstrap_verify(r, b, c, k)
        \/ \E s \in Sessions : credential_verify(r, s, c, k)
    \/ \E s \in Sessions :
        \/ logout(r, s) \/ request_end_others(r, s)
        \/ \E k \in Keys : request_revocation(r, s, k)
        \/ \E t \in Sessions : request_end(r, s, t)

IdentityNext ==
    \/ \E r \in Requests : (Free(r) /\ Arrive(r)) \/ Proceed(r)
    \/ \E c \in Challenges :
        \/ authentication_options(c) \/ challenge_expires(c)
        \/ \E b \in Bootstraps : bootstrap_registration_options(c, b)
        \/ \E s \in Sessions : additional_registration_options(c, s)
    \/ \E b \in Bootstraps : issue_bootstrap(b) \/ bootstrap_expires(b)
    \/ \E s \in Sessions : session_ages(s)
    \/ account_closes

IdentitySpec == IdentityInit /\ [][IdentityNext]_identityVars

-----------------------------------------------------------------------------
(* A challenge is answered once, a bootstrap token registers one key: two  *)
(* requests that present the same one are not both served.                 *)
OneCeremony == \A x \in Challenges \cup Bootstraps : yield[x] <= 1

(* A revoked key has no open session left, whichever login completed while *)
(* it was being revoked; and concurrent revocations leave one key.         *)
RevocationReaches ==
    /\ \A s \in Sessions :
        session[s].state = "open" => credential[session[s].credential].state = "active"
    /\ (\E k \in Keys : credential[k].state = "revoked") => ActiveCredentials # {}

\* No challenge or bootstrap token is exchanged twice, a revoked key leaves no
\* open session, and one key always remains (identity/admin/pg.rs,
\* consume_challenge, complete_bootstrap, revoke_credential).
AdminAccessHolds == OneCeremony /\ RevocationReaches
============================================================================
