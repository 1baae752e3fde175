------------------------------- MODULE Leases -------------------------------
(***************************************************************************)
(* The account activity leases (infra/postgres_locks.rs): work on an       *)
(* account runs under a shared advisory lock held by a dedicated           *)
(* PostgreSQL session, the erasure of the account under an exclusive one,  *)
(* and an operation that must not run twice adds a lock of its own.        *)
(* PostgreSQL frees a session's locks when the session ends; the owner of  *)
(* the session only learns of it when its next probe fails.  A connection  *)
(* goes back to the pool only once its locks are known to be released.     *)
(***************************************************************************)
EXTENDS Naturals, FiniteSets

CONSTANTS
  Tasks,        \* the tasks that ask for a lease
  Accounts,     \* numbers: the canonical order of the ids
  Conns,        \* the connections of the dedicated pool
  MaxBreaks,    \* bound on the sessions PostgreSQL loses
  MaxRequests   \* bound on the requests

VARIABLES
  conn,         \* the client's end: "idle" in the pool, "out" or "closed"
  session,      \* the server's end: is it alive, and the locks it holds
  worker,       \* what each task is doing
  account,      \* "active", "banned" or "deleted"
  breaks, requests,
  late          \* an erasure was carried out on a session already lost

leaseVars == <<conn, session, worker, account, breaks, requests, late>>

None == "none"
Operation(a) == 100 + a     \* the key of the account's serialized operation
NoSession == [alive |-> FALSE, locks |-> {}]
Modes == {"shared", "existing", "serialized", "exclusive"}

Resting == [at |-> "rest", mode |-> "shared", ids |-> {}, todo |-> {},
            conn |-> None, lease |-> None]

Lock(mode, key) == [exclusive |-> mode = "exclusive", key |-> key]

(* pg_try_advisory_lock(_shared): refused when another session holds the   *)
(* key in a conflicting mode.                                              *)
Free(c, lock) ==
  \A d \in Conns \ {c} : \A held \in session[d].locks :
    held.key = lock.key => ~held.exclusive /\ ~lock.exclusive

\* The session of c is alive and holds these locks.
Holding(c, locks) == [session EXCEPT ![c] = [alive |-> TRUE, locks |-> locks]]

Min(S) == CHOOSE x \in S : \A y \in S : x <= y

----------------------------------------------------------------------------
(* run, run_existing, try_serialized and try_exclusive differ in the mode  *)
(* of the lock, in the check of the accounts and in the operation's lock.  *)

run(w, ids) == worker' = [worker EXCEPT ![w] =
  [Resting EXCEPT !.at = "pool", !.mode = "shared", !.ids = ids, !.todo = ids]]

run_existing(w, ids) == worker' = [worker EXCEPT ![w] =
  [Resting EXCEPT !.at = "pool", !.mode = "existing", !.ids = ids, !.todo = ids]]

try_serialized(w, a) == worker' = [worker EXCEPT ![w] =
  [Resting EXCEPT !.at = "pool", !.mode = "serialized", !.ids = {a}, !.todo = {a}]]

try_exclusive(w, a) == worker' = [worker EXCEPT ![w] =
  [Resting EXCEPT !.at = "pool", !.mode = "exclusive", !.ids = {a}, !.todo = {a}]]

request(w) ==
  /\ requests < MaxRequests
  /\ worker[w].at = "rest"
  /\ requests' = requests + 1
  /\ \/ \E ids \in SUBSET Accounts \ {{}} : run(w, ids) \/ run_existing(w, ids)
     \/ \E a \in Accounts : try_serialized(w, a) \/ try_exclusive(w, a)
  /\ UNCHANGED <<conn, session, account, breaks, late>>

(* A connection of the pool, or a new one in the place of a closed one.    *)
checkout(w, c) ==
  /\ worker[w].at = "pool"
  /\ \/ conn[c] = "idle" /\ UNCHANGED session
     \/ /\ conn[c] = "closed" /\ ~session[c].alive
        /\ session' = Holding(c, {})
  /\ conn' = [conn EXCEPT ![c] = "out"]
  /\ worker' = [worker EXCEPT ![w].at = "locks", ![w].conn = c]
  /\ UNCHANGED <<account, breaks, requests, late>>

(* Mutant: the session is marked safe for the pool when it is checked out, *)
(* so dropping it hands it back with its locks.                            *)
drop_session_Safe(c) ==
  /\ conn' = [conn EXCEPT ![c] = IF session[c].alive THEN "idle" ELSE "closed"]
  /\ UNCHANGED session

(* CheckedOutSession dropped before it was marked safe: the connection is  *)
(* closed.  PostgreSQL ends the session when it sees the connection gone.  *)
drop_session(c) ==
  /\ conn' = [conn EXCEPT ![c] = "closed"]
  /\ UNCHANGED session

(* unlock_all succeeds on a live session, which goes back to the pool; on  *)
(* a dead one it fails and the connection is closed.                       *)
unlock_all(c) ==
  IF session[c].alive
  THEN /\ session' = Holding(c, {})
       /\ conn' = [conn EXCEPT ![c] = "idle"]
  ELSE drop_session(c)

refused(w) ==
  /\ unlock_all(worker[w].conn)
  /\ worker' = [worker EXCEPT ![w] = Resting]

(* A statement of acquire on a session that died: an error, no unlock.     *)
statement_fails(w) ==
  /\ worker[w].at \in {"locks", "check", "operation", "start"}
  /\ ~session[worker[w].conn].alive
  /\ drop_session(worker[w].conn)
  /\ worker' = [worker EXCEPT ![w] = Resting]
  /\ UNCHANGED <<account, breaks, requests, late>>

(* The accounts are locked one statement at a time, in canonical order.    *)
lock_account(w) ==
  LET c    == worker[w].conn
      a    == Min(worker[w].todo)
      lock == Lock(worker[w].mode, a)
      left == worker[w].todo \ {a}
  IN  /\ worker[w].at = "locks" /\ session[c].alive
      /\ \/ /\ Free(c, lock)
            /\ session' = Holding(c, session[c].locks \cup {lock})
            /\ worker' = [worker EXCEPT ![w].todo = left,
                 ![w].at = IF left # {} THEN "locks"
                           ELSE IF worker[w].mode = "exclusive" THEN "start" ELSE "check"]
            /\ UNCHANGED conn
         \/ ~Free(c, lock) /\ refused(w)
      /\ UNCHANGED <<account, breaks, requests, late>>

(* Mutant: the accounts are not checked once they are locked.              *)
account_count_Unchecked(w) == TRUE

(* Every account exists and, but for the maintenance, is not banned.       *)
account_count(w) ==
  \A a \in worker[w].ids :
    /\ account[a] # "deleted"
    /\ account[a] = "banned" => worker[w].mode = "existing"

check_accounts(w) ==
  /\ worker[w].at = "check" /\ session[worker[w].conn].alive
  /\ \/ /\ account_count(w)
        /\ worker' = [worker EXCEPT ![w].at =
             IF worker[w].mode = "serialized" THEN "operation" ELSE "start"]
        /\ UNCHANGED <<conn, session>>
     \/ ~account_count(w) /\ refused(w)
  /\ UNCHANGED <<account, breaks, requests, late>>

lock_operation(w) ==
  LET c    == worker[w].conn
      lock == Lock("exclusive", Operation(Min(worker[w].ids)))
  IN  /\ worker[w].at = "operation" /\ session[c].alive
      /\ \/ /\ Free(c, lock)
            /\ session' = Holding(c, session[c].locks \cup {lock})
            /\ worker' = [worker EXCEPT ![w].at = "start"]
            /\ UNCHANGED conn
         \/ ~Free(c, lock) /\ refused(w)
      /\ UNCHANGED <<account, breaks, requests, late>>

start(w) ==
  /\ worker[w].at = "start" /\ session[worker[w].conn].alive
  /\ worker' = [worker EXCEPT ![w].at = "work", ![w].lease = "held"]
  /\ UNCHANGED <<conn, session, account, breaks, requests, late>>

----------------------------------------------------------------------------
(* The work and the owner of its session.                                  *)

assert_held(w) == worker[w].lease = "held"

(* Work under the exclusive lease deletes the account.                     *)
erase(w) ==
  /\ worker[w].at = "work" /\ worker[w].mode = "exclusive"
  /\ assert_held(w)
  /\ account' = [a \in Accounts |-> IF a \in worker[w].ids THEN "deleted"
                                    ELSE account[a]]
  /\ late' = (late \/ ~session[worker[w].conn].alive)
  /\ UNCHANGED <<conn, session, worker, breaks, requests>>

(* The owner's probe, every 100 ms: on a dead session the lease is lost    *)
(* for good and the owner ends, closing the connection.                    *)
probe(w) ==
  /\ worker[w].at = "work" /\ worker[w].lease = "held"
  /\ ~session[worker[w].conn].alive
  /\ worker' = [worker EXCEPT ![w].lease = "lost"]
  /\ drop_session(worker[w].conn)
  /\ UNCHANGED <<account, breaks, requests, late>>

(* The work ends, or its future is dropped: the owner is told, or sees     *)
(* its last sender gone, and unlocks.  An owner that has ended has nothing *)
(* left to do.                                                             *)
release(w) ==
  /\ worker[w].at = "work"
  /\ IF worker[w].lease = "held" THEN unlock_all(worker[w].conn)
     ELSE UNCHANGED <<conn, session>>
  /\ worker' = [worker EXCEPT ![w] = Resting]
  /\ UNCHANGED <<account, breaks, requests, late>>

(* The request is abandoned while acquire runs.                            *)
abandon(w) ==
  /\ worker[w].at \in {"locks", "check", "operation", "start"}
  /\ drop_session(worker[w].conn)
  /\ worker' = [worker EXCEPT ![w] = Resting]
  /\ UNCHANGED <<account, breaks, requests, late>>

----------------------------------------------------------------------------
(* PostgreSQL and the rest of the service.                                 *)

breaks_session(c) ==
  /\ breaks < MaxBreaks
  /\ session[c].alive /\ conn[c] # "closed"
  /\ session' = [session EXCEPT ![c] = NoSession]
  /\ conn' = [conn EXCEPT ![c] = IF @ = "idle" THEN "closed" ELSE @]
  /\ breaks' = breaks + 1
  /\ UNCHANGED <<worker, account, requests, late>>

ends_closed(c) ==
  /\ conn[c] = "closed" /\ session[c].alive
  /\ session' = [session EXCEPT ![c] = NoSession]
  /\ UNCHANGED <<conn, worker, account, breaks, requests, late>>

ban(a) ==
  /\ account[a] = "active"
  /\ account' = [account EXCEPT ![a] = "banned"]
  /\ UNCHANGED <<conn, session, worker, breaks, requests, late>>

LeaseInit ==
  /\ conn = [c \in Conns |-> "closed"]
  /\ session = [c \in Conns |-> NoSession]
  /\ worker = [w \in Tasks |-> Resting]
  /\ account = [a \in Accounts |-> "active"]
  /\ breaks = 0
  /\ requests = 0
  /\ late = FALSE

LeaseNext ==
  \/ \E w \in Tasks :
       \/ request(w)
       \/ \E c \in Conns : checkout(w, c)
       \/ lock_account(w) \/ check_accounts(w) \/ lock_operation(w) \/ start(w)
       \/ statement_fails(w) \/ abandon(w)
       \/ erase(w) \/ probe(w) \/ release(w)
  \/ \E c \in Conns : breaks_session(c) \/ ends_closed(c)
  \/ \E a \in Accounts : ban(a)

LeaseSpec == LeaseInit /\ [][LeaseNext]_leaseVars

----------------------------------------------------------------------------
(* A connection in the pool holds no lock, whichever way it came back:     *)
(* after work, a refusal, an abandoned request or a lost session.  A lock  *)
(* left on it would shut the account out of everything until the           *)
(* connection is recycled.                                                 *)
PoolIsClean ==
  \A c \in Conns : conn[c] = "idle" => session[c].locks = {}

(* While a session lives, the work it guards is alone with it: the account *)
(* is not erased under it, nobody holds it exclusively, and nobody else    *)
(* runs the same serialized operation.  Erasing on a session that died     *)
(* before a probe saw it is the one exception.                             *)
Working(w) == /\ worker[w].at = "work" /\ worker[w].lease = "held"
              /\ session[worker[w].conn].alive

LeaseGuards ==
  \A w \in Tasks : Working(w) =>
    /\ worker[w].mode # "exclusive" /\ ~late =>
         \A a \in worker[w].ids : account[a] # "deleted"
    /\ \A v \in Tasks \ {w} : Working(v) /\ worker[v].ids \cap worker[w].ids # {} =>
         /\ "exclusive" \notin {worker[w].mode, worker[v].mode}
         /\ worker[w].mode = "serialized" => worker[v].mode # "serialized"

(* A lease keeps what it promises while its session lives, and leaves no   *)
(* lock on the connection it gives back (postgres_locks.rs, run,           *)
(* try_exclusive, try_serialized and Drop).                                *)
LeasesHold == LeaseGuards /\ PoolIsClean
============================================================================
