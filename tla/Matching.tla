------------------------------ MODULE Matching ------------------------------
(***************************************************************************)
(* How two people who like each other come to share a match, and how a     *)
(* block, a pause or a ban of one of them races that.  The module follows  *)
(* one pair of users: each has at most one swipe request and one block     *)
(* request under way, and the steps of a request are the statements and    *)
(* transactions it awaits, so every interleaving of the two is explored.   *)
(*                                                                         *)
(* Transactions run at READ COMMITTED: a statement reads what is committed *)
(* when it starts.  What keeps creation and block apart is the advisory    *)
(* lock of the pair; what keeps creation and a pause apart is the share    *)
(* lock on both accounts.                                                  *)
(***************************************************************************)
EXTENDS Naturals, FiniteSets

CONSTANTS
    Pair,           \* the two users
    None            \* nobody: the pair's lock is free

VARIABLES
    decided,        \* swipe_decision of each user about the other; "old" once it has expired
    account,        \* user_account of each user: discovery paused or not, live, banned or deleted
    blocks,         \* the users who have blocked the other
    meeting,        \* the pair's match_init row: none, open, or ended and not yet purged
    lock,           \* holder of the pair's advisory transaction lock
    pc,             \* where each user's swipe request stands
    req,            \* its decision, and what it read of the other's decision
    reply,          \* the answer to each user's last finished swipe request
    blocking        \* where each user's block request stands

matchVars == <<decided, account, blocks, meeting, lock, pc, req, reply, blocking>>

Decisions == {"like", "pass"}

NoRequest == [decision |-> "like", mutual |-> FALSE]

Other(u) == CHOOSE v \in Pair : v # u

MatchInit ==
    /\ decided = [u \in Pair |-> "none"]
    /\ account = [u \in Pair |-> [paused |-> FALSE, standing |-> "live"]]
    /\ blocks = {}
    /\ meeting = "none"
    /\ lock = None
    /\ pc = [u \in Pair |-> "idle"]
    /\ req = [u \in Pair |-> NoRequest]
    /\ reply = [u \in Pair |-> "none"]
    /\ blocking = [u \in Pair |-> "idle"]

-----------------------------------------------------------------------------
(* The service awaits its stores one after the other. *)

Finish(u, answer) ==
    /\ pc' = [pc EXCEPT ![u] = "idle"]
    /\ reply' = [reply EXCEPT ![u] = answer]
    /\ req' = [req EXCEPT ![u] = NoRequest]

Goto(u, step) ==
    /\ pc' = [pc EXCEPT ![u] = step]
    /\ UNCHANGED <<req, reply>>

\* Mutant: the other's decision is looked up before the own one is recorded.
Then_FindFirst(step) ==
    CASE step = "candidate" -> "find"
      [] step = "find" -> "record"
      [] step = "record" -> "decide"

\* The order in which DiscoveryService::swipe awaits its stores.
Then(step) ==
    CASE step = "candidate" -> "record"
      [] step = "record" -> "find"
      [] step = "find" -> "decide"

(* The viewer is ready: account usable and not paused.  Profile,           *)
(* preferences, photo, consents and fresh presence are not followed here;  *)
(* their absence is the refusal every step below may also give.            *)
Ready(u) == account[u] = [paused |-> FALSE, standing |-> "live"]

\* The same conditions again, in the statement that reads the candidate.
Viewer(u) == ~account[u].paused /\ account[u].standing = "live"

(* Neither has blocked the other, and there is no match of the pair unless *)
(* it is still open and the actor's own like made it.                      *)
Excluded(u) ==
    \/ blocks # {}
    \/ meeting # "none" /\ ~(meeting = "open" /\ decided[u] = "like")

Candidate(u) == Ready(Other(u)) /\ ~Excluded(u)

(* POST /api/swipes: past the limiter and the readiness query. *)
swipe(u) ==
    /\ pc[u] = "idle"
    /\ \E d \in Decisions :
        \/ /\ Ready(u)
           /\ pc' = [pc EXCEPT ![u] = "candidate"]
           /\ req' = [req EXCEPT ![u] = [decision |-> d, mutual |-> FALSE]]
           /\ reply' = [reply EXCEPT ![u] = "none"]
        \/ Finish(u, "refused")
    /\ UNCHANGED <<decided, account, blocks, meeting, lock, blocking>>

candidate_batch(u) ==
    /\ pc[u] = "candidate"
    /\ \/ Viewer(u) /\ Candidate(u) /\ Goto(u, Then("candidate"))
       \/ Finish(u, "refused")
    /\ UNCHANGED <<decided, account, blocks, meeting, lock, blocking>>

(* A decision is stored unless a live one is there; a live one that says   *)
(* otherwise refuses the request, and one that says the same lets a        *)
(* repeated request go on.  A pass needs no more.                          *)
record(u) ==
    /\ pc[u] = "record"
    /\ \/ /\ \A v \in Pair : Ready(v)
          /\ decided' = [decided EXCEPT
                ![u] = IF @ \in Decisions THEN @ ELSE req[u].decision]
          /\ IF decided'[u] # req[u].decision THEN Finish(u, "refused")
             ELSE IF req[u].decision = "pass" THEN Finish(u, "passed")
             ELSE Goto(u, Then("record"))
       \/ Finish(u, "refused") /\ UNCHANGED decided
    /\ UNCHANGED <<account, blocks, meeting, lock, blocking>>

(* The other's decision counts while it is live. *)
find(u) ==
    /\ pc[u] = "find"
    /\ pc' = [pc EXCEPT ![u] = Then("find")]
    /\ req' = [req EXCEPT ![u] = [decision |-> req[u].decision,
                                   mutual |-> decided[Other(u)] = "like"]]
    /\ UNCHANGED <<decided, account, blocks, meeting, lock, reply, blocking>>

decide(u) ==
    /\ pc[u] = "decide"
    /\ IF req[u].mutual THEN Goto(u, "lock") ELSE Finish(u, "unmatched")
    /\ UNCHANGED <<decided, account, blocks, meeting, lock, blocking>>

-----------------------------------------------------------------------------
(* MatchService::create_from_mutual_like and its transaction. *)

\* Mutant: the pair is not locked.
lock_user_pair_Open(tx) == lock' = lock

\* Waits for the other holder; released when the transaction ends.
lock_user_pair(tx) == lock = None /\ lock' = tx

Unlocked(tx) == IF lock = tx THEN None ELSE lock

create_lock(u) ==
    /\ pc[u] = "lock"
    /\ lock_user_pair(<<"create", u>>)
    /\ Goto(u, "check")
    /\ UNCHANGED <<decided, account, blocks, meeting, blocking>>

(* Both accounts, locked FOR SHARE, are usable, and the INSERT's own query *)
(* finds no block. *)
create_check(u) ==
    /\ pc[u] = "check"
    /\ IF (\A v \in Pair : Ready(v)) /\ blocks = {}
       THEN Goto(u, "commit") /\ UNCHANGED lock
       ELSE Finish(u, "refused") /\ lock' = Unlocked(<<"create", u>>)
    /\ UNCHANGED <<decided, account, blocks, meeting, blocking>>

(* The row and its two match_state rows appear when the transaction        *)
(* commits.  A pair that already has a row violates the unique key: the    *)
(* service answers with that row.                                          *)
create_commit(u) ==
    /\ pc[u] = "commit"
    /\ meeting' = IF meeting = "none" THEN "open" ELSE meeting
    /\ lock' = Unlocked(<<"create", u>>)
    /\ Finish(u, "matched")
    /\ UNCHANGED <<decided, account, blocks, blocking>>

(* A request dies with its connection or its process: an open transaction  *)
(* rolls back. *)
abandon(u) ==
    /\ pc[u] # "idle"
    /\ Finish(u, "refused")
    /\ lock' = Unlocked(<<"create", u>>)
    /\ UNCHANGED <<decided, account, blocks, meeting, blocking>>

-----------------------------------------------------------------------------
(* Blocks.  The lock is taken by the user's block request. *)

block(u) ==
    /\ blocking[u] = "idle" /\ u \notin blocks
    /\ lock_user_pair(<<"block", u>>)
    /\ blocking' = [blocking EXCEPT ![u] = "locked"]
    /\ UNCHANGED <<decided, account, blocks, meeting, pc, req, reply>>

\* The UPDATE ends the pair's open match.
EndedByBlock == IF meeting = "open" THEN "closed" ELSE meeting

block_commit(u) ==
    /\ blocking[u] = "locked"
    /\ IF account[Other(u)].standing = "deleted"
       THEN UNCHANGED <<blocks, meeting>>
       ELSE blocks' = blocks \cup {u} /\ meeting' = EndedByBlock
    /\ lock' = Unlocked(<<"block", u>>)
    /\ blocking' = [blocking EXCEPT ![u] = "idle"]
    /\ UNCHANGED <<decided, account, pc, req, reply>>

unblock(u) ==
    /\ u \in blocks
    /\ blocks' = blocks \ {u}
    /\ UNCHANGED <<decided, account, meeting, lock, pc, req, reply, blocking>>

-----------------------------------------------------------------------------
(* What else happens to the pair. *)

\* An account row under a share lock cannot be updated.
Shared == \E v \in Pair : pc[v] = "commit"

set_paused(u) ==
    /\ ~Shared /\ account[u].standing # "deleted"
    /\ account' = [account EXCEPT ![u].paused = ~@]
    /\ UNCHANGED <<decided, blocks, meeting, lock, pc, req, reply, blocking>>

set_ban(u) ==
    /\ ~Shared /\ account[u].standing # "deleted"
    /\ account' = [account EXCEPT ![u].standing = IF @ = "live" THEN "banned" ELSE "live"]
    /\ UNCHANGED <<decided, blocks, meeting, lock, pc, req, reply, blocking>>

\* The account is anonymised; its decisions and blocks are Erasure's.
delete_account(u) ==
    /\ ~Shared /\ account[u].standing # "deleted"
    /\ account' = [account EXCEPT ![u].standing = "deleted"]
    /\ UNCHANGED <<decided, blocks, meeting, lock, pc, req, reply, blocking>>

\* SWIPE_RETENTION_DAYS pass.
lapse(u) ==
    /\ decided[u] \in Decisions
    /\ decided' = [decided EXCEPT ![u] = "old"]
    /\ UNCHANGED <<account, blocks, meeting, lock, pc, req, reply, blocking>>

\* Retention deletes expired decisions.
delete_expired_swipes(u) ==
    /\ decided[u] = "old"
    /\ decided' = [decided EXCEPT ![u] = "none"]
    /\ UNCHANGED <<account, blocks, meeting, lock, pc, req, reply, blocking>>

\* A participant, its lapse or the inactivity rule ends the match; later it is purged.
end ==
    /\ meeting = "open"
    /\ meeting' = "closed"
    /\ UNCHANGED <<decided, account, blocks, lock, pc, req, reply, blocking>>

purge_matches ==
    /\ meeting = "closed"
    /\ meeting' = "none"
    /\ UNCHANGED <<decided, account, blocks, lock, pc, req, reply, blocking>>

MatchNext ==
    \/ \E u \in Pair :
        \/ swipe(u) \/ candidate_batch(u) \/ record(u) \/ find(u) \/ decide(u)
        \/ create_lock(u) \/ create_check(u) \/ create_commit(u) \/ abandon(u)
        \/ block(u) \/ block_commit(u) \/ unblock(u)
        \/ set_paused(u) \/ set_ban(u) \/ delete_account(u) \/ lapse(u) \/ delete_expired_swipes(u)
    \/ end \/ purge_matches

MatchSpec == MatchInit /\ [][MatchNext]_matchVars

-----------------------------------------------------------------------------
(* While one of the two has blocked the other, they share no open match:   *)
(* creation and block are serialised by the pair's lock, the INSERT looks  *)
(* for a block and the block ends the match it finds.                      *)
BlockedStaysClosed == blocks # {} => meeting # "open"

(* Two users whose live likes meet are never both answered "no match":     *)
(* each records its own like before it looks for the other's, so the later *)
(* of the two sees both.                                                   *)
MutualLikeMatched ==
    ~ \A u \in Pair : decided[u] = "like" /\ reply[u] = "unmatched"
=============================================================================
