------------------------------ MODULE Sessions ------------------------------
(***************************************************************************)
(* The mobile sessions of one account: refresh token families, rotation    *)
(* with or without a recovery receipt, revocation, the devices attached to *)
(* a session, and retention (src/src/identity/mobile, notifications/pg.rs, *)
(* privacy/maintenance.rs).                                                *)
(*                                                                         *)
(* A refresh request names a token and carries a key: "key" is the attempt *)
(* the application stored beside the token before sending, "other" another *)
(* attempt, "strict" none at all (clients without recovery).  A request    *)
(* may be delivered late or again (requests only grows) and its answer may *)
(* be lost.  Every transaction on sessions locks the account first, so     *)
(* each is one step.                                                       *)
(***************************************************************************)
EXTENDS Integers, FiniteSets

CONSTANTS Families,   \* refresh_token_family rows
          Tokens,     \* refresh_tokens rows
          Devices,    \* push tokens of the provider
          Keys,       \* the keys the applications of Varied send, among AllKeys
          Varied,     \* families whose application may send other keys, or be restored
          NoToken, NoFamily,
          TTL,        \* lifetime of a refresh token (JWT_REFRESH_TTL)
          WINDOW      \* lifetime of a receipt (7 days)

AllKeys == {"key", "other", "strict"}

ASSUME SessionAssumption ==
    /\ NoToken \notin Tokens /\ NoFamily \notin Families
    /\ Varied \subseteq Families /\ Keys \subseteq AllKeys
    /\ TTL \in Nat /\ WINDOW \in Nat

VARIABLES account,    \* "active", "banned" or "deleted"
          family,     \* "none", "active", a revocation reason, or "erased"
          deadline,   \* time left before the family's expires_at
          tok,        \* "none", "live", "rotated", "revoked" (never rotated) or "gone"
          familyOf, parent,
          left,       \* time left before the token's expires_at
          since,      \* time since rotated_at, capped at WINDOW
          key,        \* rotation_request_hash: the key of the rotation
          result,     \* rotation_result: the token in the receipt
          device,     \* the session of each registered device
          holds,      \* the token the application of a family holds
          requests,   \* <<token, key>> sent so far
          given       \* the replacements answered so far for each token

row  == <<familyOf, parent, left, since, key>>
app  == <<holds, requests, given>>
vars == <<account, family, deadline, tok, row, result, device, app>>

Reasons == {"replay", "logout", "logout_all", "user_revoked", "banned"}
Revoked(f) == family[f] \in Reasons \cup {"erased"}

Init ==
    /\ account = "active"
    /\ family = [f \in Families |-> "none"]
    /\ deadline = [f \in Families |-> 0]
    /\ tok = [t \in Tokens |-> "none"]
    /\ familyOf = [t \in Tokens |-> NoFamily]
    /\ parent = [t \in Tokens |-> NoToken]
    /\ left = [t \in Tokens |-> 0]
    /\ since = [t \in Tokens |-> 0]
    /\ key = [t \in Tokens |-> "strict"]
    /\ result = [t \in Tokens |-> NoToken]
    /\ device = [d \in Devices |-> NoFamily]
    /\ holds = [f \in Families |-> NoToken]
    /\ requests = {}
    /\ given = [t \in Tokens |-> {}]

-----------------------------------------------------------------------------
(* The rows a transaction reads and locks. *)

Stored(t) == tok[t] \in {"live", "rotated", "revoked"}
Spent(t)  == tok[t] \in {"rotated", "revoked"}

\* Mutant: an expired token is refused although its receipt is in time.
lock_token_NoReceipt(t, k) == Stored(t) /\ account = "active" /\ left[t] > 0

\* The token is unexpired, or spent by this very attempt within the window.
\* A strict request has no hash to compare.
lock_token(t, k) ==
    /\ Stored(t)
    /\ account = "active"
    /\ \/ left[t] > 0
       \/ k # "strict" /\ tok[t] = "rotated" /\ key[t] = k /\ since[t] < WINDOW

active_family(f) == family[f] = "active" /\ deadline[f] > 0

lock_active_account == account = "active"

\* The row an access token is checked against on every request; a ban is
\* reported to the caller.
active_account(f) == account # "deleted" /\ active_family(f)

authenticate(f) == active_account(f) /\ account # "banned"

\* The extractor of the routes of a signed-in user.
AuthenticatedMobile(f) == authenticate(f)

\* Mutant: the devices of the closed sessions stay registered.
revoke_families_KeepsDevices(F, reason) ==
    /\ family' = [f \in Families |->
                    IF f \in F /\ family[f] = "active" THEN reason ELSE family[f]]
    /\ tok' = [t \in Tokens |->
                IF familyOf[t] \in F /\ tok[t] = "live" THEN "revoked" ELSE tok[t]]
    /\ result' = [t \in Tokens |-> IF familyOf[t] \in F THEN NoToken ELSE result[t]]
    /\ UNCHANGED <<deadline, row, device>>

\* A revocation reaches the families still active, and whatever tokens,
\* receipts and devices the chosen families (or all of them) have.
revoke_families(F, reason) ==
    /\ family' = [f \in Families |->
                    IF f \in F /\ family[f] = "active" THEN reason ELSE family[f]]
    /\ tok' = [t \in Tokens |->
                IF familyOf[t] \in F /\ tok[t] = "live" THEN "revoked" ELSE tok[t]]
    /\ result' = [t \in Tokens |-> IF familyOf[t] \in F THEN NoToken ELSE result[t]]
    /\ device' = [d \in Devices |-> IF device[d] \in F THEN NoFamily ELSE device[d]]
    /\ UNCHANGED <<deadline, row>>

\* A new row, live until TTL; its family expires with it.
insert_token(n, f, p) ==
    /\ tok[n] = "none"
    /\ familyOf' = [familyOf EXCEPT ![n] = f]
    /\ parent' = [parent EXCEPT ![n] = p]
    /\ left' = [left EXCEPT ![n] = TTL]
    /\ deadline' = [deadline EXCEPT ![f] = TTL]

-----------------------------------------------------------------------------
(* Sign-in and rotation. *)

insert_session(f, n) ==
    /\ family[f] = "none"
    /\ insert_token(n, f, NoToken)
    /\ tok' = [tok EXCEPT ![n] = "live"]
    /\ family' = [family EXCEPT ![f] = "active"]
    /\ UNCHANGED <<account, since, key, result, device>>

create(f, n) == lock_active_account /\ insert_session(f, n)

\* A session is created for an active account (after an OTP or a review code).
issue_token_pair(f, n) ==
    /\ create(f, n)
    /\ holds' = [holds EXCEPT ![f] = n]
    /\ UNCHANGED <<requests, given>>

\* The application asks for a new token.
send(f, k) ==
    /\ holds[f] # NoToken
    /\ <<holds[f], k>> \notin requests
    /\ requests' = requests \cup {<<holds[f], k>>}
    /\ UNCHANGED <<account, family, deadline, tok, row, result, device, holds, given>>

\* An answer is lost, or reaches the application, which minds it only while it
\* holds the token it asked about.
answer(t, n) ==
    \/ UNCHANGED holds
    \/ holds' = [f \in Families |-> IF holds[f] = t THEN n ELSE holds[f]]

\* 401: the application returns to sign-in.
refuse(t) == answer(t, NoToken) /\ UNCHANGED given

give(t, n) == answer(t, n) /\ given' = [given EXCEPT ![t] = @ \cup {n}]

\* The children a receipt may still be exchanged for: the row the receipt
\* names, in the same family, neither revoked nor expired.
Child(t, c) ==
    /\ parent[c] = t /\ familyOf[c] = familyOf[t]
    /\ tok[c] = "live" /\ left[c] > 0

\* Mutant: the candidate made for this request is given instead of the receipt's.
recover_rotation_Candidate(t) ==
    /\ \E n \in Tokens : tok[n] = "none" /\ give(t, n)
    /\ UNCHANGED <<family, deadline, tok, row, result, device>>

\* Mutant: a receipt that can no longer be used counts as a replay.
recover_rotation_Replay(t) ==
    IF result[t] # NoToken /\ since[t] < WINDOW /\ Child(t, result[t])
    THEN give(t, result[t]) /\ UNCHANGED <<family, deadline, tok, row, result, device>>
    ELSE refuse(t) /\ revoke_families({familyOf[t]}, "replay")

\* The attempt that spent the token comes back: it gets the child the receipt
\* names, as long as that child can be used.
recover_rotation(t) ==
    /\ IF result[t] # NoToken /\ since[t] < WINDOW /\ Child(t, result[t])
       THEN give(t, result[t])
       ELSE refuse(t)
    /\ UNCHANGED <<family, deadline, tok, row, result, device>>

\* The stored attempt is the one that comes back.
SameAttempt(t, k) == k # "strict" /\ tok[t] = "rotated" /\ key[t] = k

\* The receipt of an attempt seals the candidate; a strict request has none.
RefreshRecovery(k, n) == IF k = "strict" THEN NoToken ELSE n

\* A live token is spent for the candidate n; the receipt keeps n for the
\* attempt, and a strict request leaves none.
rotate_live(t, k, n) ==
    /\ insert_token(n, familyOf[t], t)
    /\ tok' = [tok EXCEPT ![t] = "rotated", ![n] = "live"]
    /\ since' = [since EXCEPT ![t] = 0]
    /\ key' = [key EXCEPT ![t] = k]
    /\ result' = [result EXCEPT ![t] = RefreshRecovery(k, n)]
    /\ give(t, n)
    /\ UNCHANGED <<family, device>>

\* One transaction, with the row and the family locked.
rotate_inner(t, k) ==
    /\ \/ /\ ~(lock_token(t, k) /\ active_family(familyOf[t]))
          /\ refuse(t)
          /\ UNCHANGED <<family, deadline, tok, row, result, device>>
       \/ /\ lock_token(t, k) /\ active_family(familyOf[t])
          /\ \/ tok[t] = "live" /\ \E n \in Tokens : rotate_live(t, k, n)
             \/ Spent(t) /\ SameAttempt(t, k) /\ recover_rotation(t)
             \/ /\ tok[t] = "rotated" /\ ~SameAttempt(t, k)
                /\ revoke_families({familyOf[t]}, "replay")
                /\ refuse(t)
             \/ /\ tok[t] = "revoked"
                /\ refuse(t)
                /\ UNCHANGED <<family, deadline, tok, row, result, device>>
    /\ UNCHANGED <<account, requests>>

\* The service makes the candidate and turns the outcome into an answer.
refresh_with_attempt(t, k) == rotate_inner(t, k)

\* One delivery of a request; it needs no access token.
refresh(t, k) == <<t, k>> \in requests /\ refresh_with_attempt(t, k)

\* The phone is restored from a backup that holds an earlier token.
restore(f, t) ==
    /\ f \in Varied
    /\ Stored(t) /\ familyOf[t] = f
    /\ given[t] # {}
    /\ holds[f] # t
    /\ holds' = [holds EXCEPT ![f] = t]
    /\ UNCHANGED <<account, family, deadline, tok, row, result, device, requests, given>>

-----------------------------------------------------------------------------
(* Revocation. *)

\* Logout shows a token of the session; one that was rotated will do.
logout_tx(f, t) ==
    /\ lock_token(t, "strict") /\ familyOf[t] = f /\ active_family(f)
    /\ revoke_families({f}, "logout")

logout(f, t) == logout_tx(f, t) /\ UNCHANGED <<account, app>>

\* From an active session the account closes one of its sessions, or all.
revoke(f, targets, reason) ==
    /\ lock_active_account /\ active_family(f)
    /\ revoke_families(targets, reason)

revoke_session(f, target) ==
    /\ family[target] \notin {"none", "erased"}
    /\ revoke(f, {target}, "user_revoked")
    /\ UNCHANGED <<account, app>>

logout_all(f) == revoke(f, Families, "logout_all") /\ UNCHANGED <<account, app>>

\* The routes of a signed-in user.
post_logout(f, t) == AuthenticatedMobile(f) /\ holds[f] = t /\ logout(f, t)
delete_session(f, target) == AuthenticatedMobile(f) /\ revoke_session(f, target)
post_logout_all(f) == AuthenticatedMobile(f) /\ logout_all(f)

\* A moderator bans the account, which closes every session, or lifts the ban.
set_ban ==
    /\ account # "deleted"
    /\ \/ account' = "banned" /\ revoke_families(Families, "banned")
       \/ account' = "active" /\ UNCHANGED <<family, deadline, tok, row, result, device>>
    /\ UNCHANGED app

\* Marking the account deleted fires trg_erase_mobile_sessions: the families go
\* and, by cascade, their tokens and devices.
delete_account ==
    /\ account # "deleted"
    /\ account' = "deleted"
    /\ family' = [f \in Families |-> IF family[f] = "none" THEN "none" ELSE "erased"]
    /\ tok' = [t \in Tokens |-> IF Stored(t) THEN "gone" ELSE tok[t]]
    /\ result' = [t \in Tokens |-> NoToken]
    /\ device' = [d \in Devices |-> NoFamily]
    /\ UNCHANGED <<deadline, row, app>>

-----------------------------------------------------------------------------
(* Devices. *)

\* The device moves to the session that registers it, if that one is active.
register_device(d, f) ==
    /\ lock_active_account /\ active_family(f)
    /\ device' = [device EXCEPT ![d] = f]
    /\ UNCHANGED <<account, family, deadline, tok, row, result, app>>

remove_device(d) ==
    /\ device[d] # NoFamily
    /\ device' = [device EXCEPT ![d] = NoFamily]
    /\ UNCHANGED <<account, family, deadline, tok, row, result, app>>

-----------------------------------------------------------------------------
(* Retention and time. *)

\* Expired tokens, except those whose receipt may still be asked for.
Purgeable(t) ==
    Stored(t) /\ left[t] = 0 /\ ~(result[t] # NoToken /\ since[t] < WINDOW)

\* Receipts whose window is over.
Stale(t) == Stored(t) /\ result[t] # NoToken /\ since[t] >= WINDOW

\* Retention: purgeable tokens, expired families left without a token, stale
\* receipts.  A batch is a run of these steps.  A child of a purged token keeps
\* no parent, and a purged family takes its devices.
purge_token(t) ==
    /\ Purgeable(t)
    /\ tok' = [tok EXCEPT ![t] = "gone"]
    /\ parent' = [c \in Tokens |-> IF parent[c] = t THEN NoToken ELSE parent[c]]
    /\ result' = [result EXCEPT ![t] = NoToken]
    /\ UNCHANGED <<account, family, deadline, familyOf, left, since, key, device, app>>

purge_family(f) ==
    /\ family[f] \notin {"none", "erased"} /\ deadline[f] = 0
    /\ \A t \in Tokens : ~(Stored(t) /\ familyOf[t] = f)
    /\ family' = [family EXCEPT ![f] = "erased"]
    /\ device' = [d \in Devices |-> IF device[d] = f THEN NoFamily ELSE device[d]]
    /\ UNCHANGED <<account, deadline, tok, row, result, app>>

purge_receipt(t) ==
    /\ Stale(t)
    /\ result' = [result EXCEPT ![t] = NoToken]
    /\ UNCHANGED <<account, family, deadline, tok, row, device, app>>

run_as_leader ==
    \/ \E t \in Tokens : purge_token(t) \/ purge_receipt(t)
    \/ \E f \in Families : purge_family(f)

tick ==
    /\ \E t \in Tokens : Stored(t) /\ (left[t] > 0 \/ since[t] < WINDOW)
    /\ deadline' = [f \in Families |-> IF deadline[f] > 0 THEN deadline[f] - 1 ELSE 0]
    /\ left' = [t \in Tokens |-> IF left[t] > 0 THEN left[t] - 1 ELSE 0]
    /\ since' = [t \in Tokens |-> IF tok[t] = "rotated" /\ since[t] < WINDOW
                                   THEN since[t] + 1 ELSE since[t]]
    /\ UNCHANGED <<account, family, tok, familyOf, parent, key, result, device, app>>

KeysOf(f) == IF f \in Varied THEN Keys ELSE {"key"}

Next ==
    \/ \E f \in Families, n \in Tokens : issue_token_pair(f, n)
    \/ \E f \in Families : \E k \in KeysOf(f) : send(f, k)
    \/ \E t \in Tokens, k \in AllKeys : refresh(t, k)
    \/ \E f \in Families, t \in Tokens : restore(f, t)
    \/ \E f \in Families, t \in Tokens : post_logout(f, t)
    \/ \E f, g \in Families : delete_session(f, g)
    \/ \E f \in Families : post_logout_all(f)
    \/ set_ban
    \/ delete_account
    \/ \E d \in Devices, f \in Families : register_device(d, f)
    \/ \E d \in Devices : remove_device(d)
    \/ run_as_leader
    \/ tick

Spec == Init /\ [][Next]_vars

-----------------------------------------------------------------------------
(* Properties. *)

\* A session never forks: a family has at most one live token and a token at
\* most one child (the unique indexes uq_refresh_family_active and
\* uq_refresh_token_child never turn a rotation into an error), and all answers
\* about one token name the same replacement, whatever the order of rotations,
\* recoveries, repeated deliveries, replays and purges.
NoFork ==
    /\ \A s, t \in Tokens : tok[s] = "live" /\ tok[t] = "live"
                              /\ familyOf[s] = familyOf[t] => s = t
    /\ \A s, t \in Tokens : Stored(s) /\ Stored(t)
                              /\ parent[s] = parent[t] /\ parent[s] # NoToken => s = t
    /\ \A t \in Tokens : \A m, n \in given[t] : m = n

\* Once a family is revoked or erased nothing of it can be used again: no live
\* token, no receipt to open, no device to push to (revoke_families and the
\* erasure trigger reach all of them, and no later step brings one back).
RevokedIsDead ==
    /\ \A t \in Tokens : familyOf[t] \in Families /\ Revoked(familyOf[t]) =>
            tok[t] # "live" /\ result[t] = NoToken
    /\ \A d \in Devices : device[d] # NoFamily => ~Revoked(device[d])

\* A family is revoked as replayed only when some token of it was presented
\* without a key, or with two keys: an application that repeats its stored
\* attempt, however often and however late, never loses its session to the
\* replay detection of rotate_inner.
ReplayNeedsReuse ==
    \A f \in Families : family[f] = "replay" =>
        \E t \in Tokens : /\ familyOf[t] = f
                          /\ \/ <<t, "strict">> \in requests
                             \/ {<<t, "key">>, <<t, "other">>} \subseteq requests

\* A session never forks, is revoked as replayed only when a token of it was
\* really presented again, and once revoked or erased nothing of it can be used
\* (identity/mobile/pg/rotation.rs, rotate_inner; pg.rs, revoke_families).
SessionsHold == NoFork /\ ReplayNeedsReuse /\ RevokedIsDead

\* An application that only repeats its stored attempts is sent back to sign-in
\* only when its account is unavailable, its session closed or expired, its
\* unspent token expired or its receipt out of time; never because an answer was lost or a
\* request was delivered late or twice.
NotStranded ==
    [][\A f \in Families \ Varied : LET t == holds[f] IN
            t # NoToken /\ holds'[f] = NoToken =>
                \/ account # "active"
                \/ family[f] # "active" \/ deadline[f] = 0
                \/ ~(tok[t] = "live" /\ left[t] > 0) /\ ~(tok[t] = "rotated" /\ since[t] < WINDOW)]_vars
=============================================================================
