------------------------------ MODULE OtpProof ------------------------------
(***************************************************************************)
(* Theorems about Otp, for any numbers of requests and workers and any     *)
(* lifetimes (type correctness, one SMS per request, one usable code and   *)
(* the precedence of the newest code), about the Leases its deliveries     *)
(* take, and about SmsSafety, which permits them.                          *)
(***************************************************************************)
EXTENDS Otp, Leases, SmsSafety, FiniteSetTheorems, TLAPS

Live == {r \in Requests : status[r] # "none"}

(* attempt_number orders the rows of the phone strictly and totally, and   *)
(* a later row never expires before an earlier one.                        *)
Ordered ==
  /\ \A r \in Requests : older[r] \subseteq Live \ {r}
  /\ \A q, r \in Live : q = r \/ q \in older[r] \/ r \in older[q]
  /\ \A p, q, r \in Requests : p \in older[q] /\ q \in older[r] => p \in older[r]
  /\ \A r \in Requests : \A q \in older[r] : left[q] <= left[r]

(* What is left of the older rows of a row that was sent or spent.         *)
Spent ==
  /\ used \subseteq Live /\ sent \subseteq Live
  /\ \A r \in Requests : status[r] \in {"accepted", "sent"} => r \in sent
  /\ \A r \in sent \ used : older[r] \subseteq used
  /\ \A r \in used \cup sent : \A q \in older[r] : q \in used \/ left[q] = 0

RowInv == Ordered /\ Spent

(* A worker past "idle" has a request, an answer when it was answered, and *)
(* the request it has read has not expired.                                *)
AtWork ==
  \A w \in Workers :
    /\ stage[w] # "idle" => job[w] \in Requests /\ payload[job[w]] # "none"
    /\ stage[w] = "answered" => answer[w] # "none"
    /\ stage[w] = "read" => expires[job[w]] > 0

(* The call of a request belongs to the worker that inserted its row, and  *)
(* the row outlives the request.                                           *)
Opened(r) == calls[r] > 0 \/ \E w \in Workers : stage[w] = "begun" /\ job[w] = r

Ledgered ==
  /\ \A r \in Requests :
       /\ calls[r] <= 1
       /\ status[r] # "none" => payload[r] # "none" /\ expires[r] <= left[r]
       /\ Opened(r) => payload[r] # "none" /\ (status[r] # "none" \/ expires[r] = 0)
  /\ \A v, w \in Workers :
       stage[w] = "begun" => /\ calls[job[w]] = 0
                             /\ stage[v] = "begun" /\ job[v] = job[w] => v = w

IInv == TypeOK /\ RowInv /\ AtWork /\ Ledgered
-----------------------------------------------------------------------------
(* The initial state has no row, no worker and no call.                    *)
LEMMA InitIInv == Init => IInv
  BY OtpAssumption, SpanAssumption
     DEF Init, IInv, TypeOK, RowInv, Ordered, Spent, Live, AtWork, Ledgered, Opened, Statuses

(* Steps that leave the rows alone keep what is known of them.             *)
LEMMA RowStutter == RowInv /\ UNCHANGED rowVars => RowInv'
  BY Zenon DEF rowVars, RowInv, Ordered, Spent, Live

(* activate, with the new state of its row, keeps the order of the codes:  *)
(* this is the argument behind mark_accepted and the sms_sent callback.    *)
LEMMA Activation ==
  ASSUME TypeOK, RowInv, NEW r \in Requests, status[r] # "none",
         NEW s \in {"accepted", "sent"},
         used' = activate(r), sent' = sent \cup {r},
         status' = [status EXCEPT ![r] = s], left' = left, older' = older
  PROVE  RowInv' /\ used' \in SUBSET Requests
<1>1. Live' = Live
  BY Zenon DEF Live, TypeOK
<1>2. Ordered'
  BY <1>1, Zenon DEF RowInv, Ordered
<1>3. CASE r \in used
  <2>1. used' = used
    BY <1>3, Zenon DEF activate
  <2> QED
    BY <1>1, <1>2, <1>3, <2>1 DEF RowInv, Spent, TypeOK, Ordered, Live
<1>4. CASE r \notin used /\ (left[r] = 0 \/ Newer(r) \cap sent # {})
  <2>1. used' = used \cup {r}
    BY <1>4, Zenon DEF activate
  <2>2. \A q \in older[r] : q \in used \/ left[q] = 0
    <3>1. CASE left[r] = 0
      BY <3>1 DEF RowInv, Ordered, TypeOK, Live
    <3>2. CASE Newer(r) \cap sent # {}
      <4>1. PICK n \in sent : r \in older[n] /\ n \in Requests
        BY <3>2, Zenon DEF Newer
      <4> QED
        BY <4>1, Zenon DEF RowInv, Ordered, Spent, Live
    <3> QED
      BY <1>4, <3>1, <3>2, Zenon
  <2> QED
    BY <1>1, <1>2, <2>1, <2>2 DEF RowInv, Spent, TypeOK, Ordered, Live
<1>5. CASE r \notin used /\ ~(left[r] = 0 \/ Newer(r) \cap sent # {})
  <2>1. used' = used \cup older[r]
    BY <1>5, Zenon DEF activate, RowInv, Ordered, Live
  <2>2. \A q \in older[r] : \A p \in older[q] : p \in older[r]
    BY Zenon DEF RowInv, Ordered, Live
  <2> QED
    BY <1>1, <1>2, <2>1, <2>2 DEF RowInv, Spent, TypeOK, Ordered, Live
<1> QED
  BY <1>3, <1>4, <1>5, Zenon

(* A new row is the newest one: its worker found no row under its key.     *)
LEMMA Insertion ==
  ASSUME TypeOK, RowInv, NEW r \in Requests, status[r] = "none",
         status' = [status EXCEPT ![r] = "pending"],
         left' = [left EXCEPT ![r] = TTL], older' = [older EXCEPT ![r] = Live],
         used' = used, sent' = sent
  PROVE  RowInv'
<1>1. Live' = Live \cup {r} /\ r \notin Live
  BY Zenon DEF Live, TypeOK
<1>2. Ordered'
  <2>1. \A q \in Requests : older'[q] \subseteq Live' \ {q}
    BY <1>1, ZenonT(90) DEF RowInv, Ordered, TypeOK, Live
  <2>2. \A p, q \in Live' : p = q \/ p \in older'[q] \/ q \in older'[p]
    BY <1>1 DEF RowInv, Ordered, TypeOK, Live
  <2>3. \A o, p, q \in Requests : o \in older'[p] /\ p \in older'[q] => o \in older'[q]
    BY <1>1 DEF RowInv, Ordered, TypeOK, Live
  <2>4. \A p \in Requests : \A q \in older'[p] : left'[q] <= left'[p]
    BY <1>1, SpanAssumption DEF RowInv, Ordered, TypeOK, Live
  <2> QED
    BY <2>1, <2>2, <2>3, <2>4, Zenon DEF Ordered
<1> QED
  BY <1>1, <1>2 DEF RowInv, Ordered, Spent, TypeOK, Live

(* Retention deletes a row that has no older one.                          *)
LEMMA Deletion ==
  ASSUME TypeOK, RowInv, NEW r \in Requests, purge_row(r)
  PROVE  RowInv'
<1>1. Live' = Live \ {r} /\ older[r] = {}
  BY Zenon DEF Live, TypeOK, purge_row, RowInv, Ordered
<1>2. \A q \in Requests : older'[q] = older[q] \ {r}
  BY <1>1, Zenon DEF purge_row, TypeOK
<1>3. used' = used \ {r} /\ sent' = sent \ {r} /\ left' = left
  BY Zenon DEF purge_row
<1>4. Ordered'
  BY <1>1, <1>2, <1>3 DEF RowInv, Ordered, Live
<1>5. \A q \in Requests : status'[q] \in {"accepted", "sent"} => q # r /\ status'[q] = status[q]
  BY Zenon DEF purge_row, TypeOK
<1> QED
  BY <1>1, <1>2, <1>3, <1>4, <1>5 DEF RowInv, Spent, Ordered, Live

(* Changing the state of a row other than to accepted or sent.             *)
LEMMA Settling ==
  ASSUME TypeOK, RowInv, NEW r \in Requests, status[r] # "none",
         NEW s \in {"unknown", "failed"}, status' = [status EXCEPT ![r] = s],
         UNCHANGED <<used, sent, left, older>>
  PROVE  RowInv'
<1>1. Live' = Live
  BY Zenon DEF Live, TypeOK
<1> QED
  BY <1>1, ZenonT(90) DEF RowInv, Ordered, Spent, TypeOK, Live

(* The clock: every row ages, and saturates at 0.                          *)
LEMMA Ageing ==
  ASSUME TypeOK, RowInv, tick
  PROVE  RowInv'
<1>1. Live' = Live
  BY Zenon DEF Live, tick
<1>2. \A q \in Requests : left'[q] = IF left[q] > 0 THEN left[q] - 1 ELSE 0
  BY Zenon DEF tick
<1>3. \A p, q \in Requests : left[p] <= left[q] => left'[p] <= left'[q]
  BY <1>2 DEF TypeOK
<1>4. \A q \in Requests : left[q] = 0 => left'[q] = 0
  BY <1>2
<1>5. UNCHANGED <<status, used, sent, older>>
  BY Zenon DEF tick
<1> QED
  BY <1>1, <1>3, <1>4, <1>5, Zenon DEF RowInv, Ordered, Spent, TypeOK, Live
-----------------------------------------------------------------------------
(* Every step of the handler, the ledger, the callbacks and maintenance    *)
(* keeps the inductive invariant.                                          *)
LEMMA NextIInv == IInv /\ [Next]_vars => IInv'
<1> SUFFICES ASSUME IInv, [Next]_vars PROVE IInv'
  BY Zenon
<1> USE OtpAssumption, SpanAssumption DEF AtWork, Ledgered, Opened, Statuses, move
<1>1. ASSUME NEW r \in Requests, enqueue(r) PROVE IInv'
  <2>1. RowInv'
    BY <1>1, RowStutter, Zenon DEF IInv, enqueue
  <2>2. TypeOK'
    BY <1>1 DEF IInv, TypeOK, enqueue, workerVars, rowVars, providerVars
  <2>3. AtWork'
    BY <1>1, Zenon DEF IInv, TypeOK, enqueue, workerVars, rowVars, providerVars
  <2>4. Ledgered'
    BY <1>1, Zenon DEF IInv, TypeOK, enqueue, workerVars, rowVars, providerVars
  <2> QED
    BY <2>1, <2>2, <2>3, <2>4, Zenon DEF IInv
<1>2. ASSUME NEW r \in Requests, purge_request(r) PROVE IInv'
  <2>1. RowInv'
    BY <1>2, RowStutter, Zenon DEF IInv, purge_request
  <2>2. TypeOK' /\ AtWork' /\ Ledgered'
    BY SMTT(90), <1>2 DEF IInv, TypeOK, purge_request, workerVars, rowVars, providerVars
  <2> QED
    BY <2>1, <2>2, Zenon DEF IInv
<1>3. ASSUME NEW r \in Requests, NEW kind \in {"sent", "undelivered"}, apply_sms_event(r, kind)
      PROVE  IInv'
  <2>1. RowInv' /\ used' \in SUBSET Requests
    <3>1. CASE kind = "sent"
      BY Zenon, <1>3, <3>1, Activation DEF IInv, apply_sms_event
    <3>2. CASE kind = "undelivered"
      BY Zenon, <1>3, <3>2, Settling DEF IInv, apply_sms_event, TypeOK
    <3> QED
      BY <3>1, <3>2, Zenon
  <2>2. TypeOK' /\ AtWork' /\ Ledgered'
    BY <1>3, <2>1, Zenon DEF IInv, TypeOK, apply_sms_event, requestVars, workerVars, providerVars
  <2> QED
    BY <2>1, <2>2, Zenon DEF IInv
<1>4. ASSUME NEW r \in Requests, consume(r) PROVE IInv'
  <2>1. RowInv'
    <3>1. Live' = Live
      BY <1>4, Zenon DEF consume, Live
    <3>2. r \in Live /\ r \in sent
      BY <1>4, Zenon DEF consume, Usable, Live, IInv, RowInv, Spent
    <3> QED
      BY SMTT(90), <1>4, <3>1, <3>2 DEF IInv, RowInv, Ordered, Spent, TypeOK, consume, Live
  <2>2. TypeOK' /\ AtWork' /\ Ledgered'
    BY <1>4, Zenon DEF IInv, TypeOK, consume, requestVars, workerVars, providerVars
  <2> QED
    BY <2>1, <2>2, Zenon DEF IInv
<1>5. ASSUME NEW r \in Requests, purge_row(r) PROVE IInv'
  <2>1. RowInv'
    BY <1>5, Deletion, Zenon DEF IInv
  <2>2. TypeOK' /\ AtWork' /\ Ledgered'
    BY SMTT(90), <1>5 DEF IInv, TypeOK, purge_row, requestVars, workerVars, providerVars
  <2> QED
    BY <2>1, <2>2, Zenon DEF IInv
<1>6. ASSUME NEW w \in Workers, NEW r \in Requests, process(w, r) PROVE IInv'
  <2>1. RowInv'
    BY <1>6, RowStutter, Zenon DEF IInv, process
  <2>2. TypeOK' /\ AtWork' /\ Ledgered'
    BY SMTT(90), <1>6 DEF IInv, TypeOK, process, Pending, requestVars, rowVars, providerVars
  <2> QED
    BY SMTT(90), <2>1, <2>2 DEF IInv
<1>7. ASSUME NEW w \in Workers, ineligible(w) PROVE IInv'
  <2>1. RowInv'
    BY <1>7, RowStutter, Zenon DEF IInv, ineligible
  <2>2. TypeOK' /\ AtWork' /\ Ledgered'
    BY <1>7, ZenonT(90) DEF IInv, TypeOK, ineligible, requestVars, rowVars, providerVars
  <2> QED
    BY <2>1, <2>2, Zenon DEF IInv
<1>8. ASSUME NEW w \in Workers, begin(w) PROVE IInv'
  <2> DEFINE r == job[w]
  <2>0. stage[w] = "read" /\ r \in Requests /\ expires[r] > 0 /\ payload[r] # "none"
    BY <1>8, Zenon DEF begin, IInv
  <2>1. CASE status[r] = "none"
    <3>1. /\ status' = [status EXCEPT ![r] = "pending"]
          /\ left' = [left EXCEPT ![r] = TTL] /\ older' = [older EXCEPT ![r] = Live]
          /\ stage' = [stage EXCEPT ![w] = "begun"]
          /\ UNCHANGED <<job, answer, used, sent, requestVars, providerVars>>
      BY <1>8, <2>1, Zenon DEF begin, Live
    <3>2. RowInv'
      BY Zenon, <2>0, <2>1, <3>1, Insertion DEF IInv
    <3>3. TypeOK' /\ AtWork'
      BY <2>0, <2>1, <3>1 DEF IInv, TypeOK, requestVars, providerVars, Live
    <3>4. ~Opened(r)
      BY <2>0, <2>1 DEF IInv, TypeOK
    <3>5. Ledgered'
      BY <2>0, <2>1, <3>1, <3>4 DEF IInv, TypeOK, requestVars, providerVars
    <3> QED
      BY <3>2, <3>3, <3>5, Zenon DEF IInv
  <2>2. CASE status[r] # "none"
    <3>1. /\ stage' = [stage EXCEPT ![w] = "finish"]
          /\ \/ status' = status \/ status' = [status EXCEPT ![r] = "unknown"]
          /\ UNCHANGED <<left, older, job, answer, used, sent, requestVars, providerVars>>
      BY <1>8, <2>2 DEF begin, IInv, TypeOK
    <3>2. RowInv'
      BY <2>0, <2>2, <3>1, Settling, RowStutter, Zenon DEF IInv, rowVars
    <3>3. TypeOK' /\ AtWork' /\ Ledgered'
      BY <2>0, <2>2, <3>1 DEF IInv, TypeOK, requestVars, providerVars
    <3> QED
      BY <3>2, <3>3, Zenon DEF IInv
  <2> QED
    BY <2>1, <2>2, Zenon
<1>9. ASSUME NEW w \in Workers, deliver(w) PROVE IInv'
  <2>1. RowInv'
    BY <1>9, RowStutter, Zenon DEF IInv, deliver
  <2>2. TypeOK' /\ AtWork'
    BY SMTT(90), <1>9 DEF IInv, TypeOK, deliver, deliver_inner, requestVars, rowVars, providerVars
  <2>3. Ledgered'
    BY <1>9 DEF IInv, TypeOK, deliver, deliver_inner, requestVars, rowVars, providerVars
  <2> QED
    BY <2>1, <2>2, <2>3, Zenon DEF IInv
<1>10. ASSUME NEW w \in Workers, settle(w) PROVE IInv'
  <2> DEFINE r == job[w]
  <2>0. r \in Requests /\ stage[w] = "answered" /\ answer[w] \in {"accepted", "failed", "unknown"}
    BY <1>10, Zenon DEF settle, IInv, TypeOK
  <2>1. RowInv' /\ used' \in SUBSET Requests /\ sent' \in SUBSET Requests
        /\ status' \in [Requests -> Statuses \cup {"none"}]
        /\ (\A q \in Requests : status'[q] = "none" <=> status[q] = "none")
        /\ UNCHANGED <<left, older>>
    <3>1. CASE answer[w] = "accepted" /\ mark_accepted(r)
      <4>1. CASE status[r] \in {"none", "failed"}
        BY <3>1, <4>1, RowStutter, Zenon DEF mark_accepted, IInv, TypeOK, rowVars
      <4>2. CASE status[r] \notin {"none", "failed"}
        BY SMTT(90), <2>0, <3>1, <4>2, Activation DEF mark_accepted, IInv, TypeOK
      <4> QED
        BY <4>1, <4>2, Zenon
    <3>2. CASE answer[w] # "accepted" /\ mark_outcome(r, answer[w])
      <4>1. CASE status[r] \in {"pending", "unknown"}
        BY Zenon, <2>0, <3>2, <4>1, Settling DEF mark_outcome, IInv, TypeOK
      <4>2. CASE status[r] \notin {"pending", "unknown"}
        <5>1. status' = status
          BY <2>0, <3>2, <4>2, Zenon DEF mark_outcome, IInv, TypeOK
        <5> QED
          BY ZenonT(90), <3>2, <5>1, RowStutter DEF mark_outcome, IInv, TypeOK, rowVars
      <4> QED
        BY <4>1, <4>2, Zenon
    <3>3. CASE UNCHANGED rowVars
      BY <3>3, RowStutter, Zenon DEF IInv, TypeOK, rowVars
    <3> QED
      BY <1>10, <3>1, <3>2, <3>3, Zenon DEF settle
  <2>2. TypeOK' /\ AtWork' /\ Ledgered'
    BY <1>10, <2>0, <2>1 DEF IInv, TypeOK, settle, requestVars, providerVars
  <2> QED
    BY <2>1, <2>2, Zenon DEF IInv
<1>11. ASSUME NEW w \in Workers, finish(w) PROVE IInv'
  <2>1. RowInv'
    BY <1>11, RowStutter, Zenon DEF IInv, finish
  <2>2. TypeOK' /\ AtWork' /\ Ledgered'
    BY <1>11, ZenonT(90) DEF IInv, TypeOK, finish, rowVars, providerVars
  <2> QED
    BY <2>1, <2>2, Zenon DEF IInv
<1>12. ASSUME NEW w \in Workers, crash(w) PROVE IInv'
  <2>1. RowInv'
    BY <1>12, RowStutter, Zenon DEF IInv, crash
  <2>2. TypeOK' /\ AtWork' /\ Ledgered'
    BY <1>12, ZenonT(90) DEF IInv, TypeOK, crash, requestVars, rowVars, providerVars
  <2> QED
    BY <2>1, <2>2, Zenon DEF IInv
<1>13. ASSUME tick PROVE IInv'
  <2>1. RowInv'
    BY <1>13, Ageing, Zenon DEF IInv
  <2>2. TypeOK' /\ AtWork'
    BY <1>13 DEF IInv, TypeOK, tick, Prompt, workerVars, providerVars
  <2>3. Ledgered'
    BY <1>13 DEF IInv, TypeOK, tick, workerVars, providerVars
  <2> QED
    BY <2>1, <2>2, <2>3, Zenon DEF IInv
<1>14. ASSUME UNCHANGED vars PROVE IInv'
  <2>1. RowInv'
    BY <1>14, RowStutter, Zenon DEF IInv, vars
  <2>2. TypeOK' /\ AtWork' /\ Ledgered'
    BY <1>14, Zenon DEF IInv, TypeOK, vars, requestVars, workerVars, rowVars, providerVars
  <2> QED
    BY <2>1, <2>2, Zenon DEF IInv
<1> QED
  BY <1>1, <1>2, <1>3, <1>4, <1>5, <1>6, <1>7, <1>8, <1>9, <1>10, <1>11, <1>12, <1>13, <1>14, Zenon
     DEF Next, handle, parse_event, dispatch, send_in

LEMMA Invariance == Spec => []IInv
  BY InitIInv, NextIInv, PTL DEF Spec

(* The tables, the workers and the clocks keep their types.                *)
THEOREM OtpTypes == Spec => []TypeOK
  BY Invariance, PTL DEF IInv

(* The provider is called at most once for a request, for any number of    *)
(* repeated, concurrent and crashing handlers (begin, dispatch).           *)
THEOREM AtMostOneSms == Spec => []OneSms
<1>1. IInv => OneSms
  BY Zenon DEF IInv, Ledgered, OneSms
<1> QED
  BY <1>1, Invariance, PTL

(* At most one accepted or sent code of the phone is unused (activate).    *)
THEOREM AtMostOneUsable == Spec => []OneUsable
<1>1. IInv => OneUsable
  BY Zenon DEF IInv, RowInv, Ordered, Spent, Live, OneUsable, Usable
<1> QED
  BY <1>1, Invariance, PTL

(* No older code can be redeemed once a newer one was sent (activate).     *)
THEOREM NewestCodeWins == Spec => []NewestWins
<1>1. IInv => NewestWins
  BY DEF IInv, TypeOK, RowInv, Ordered, Spent, Live, NewestWins, Usable
<1> QED
  BY <1>1, Invariance, PTL

-----------------------------------------------------------------------------
(***************************************************************************)
(* What the leases guarantee for any number of tasks, accounts and         *)
(* connections.  The inductive invariant says what a task that has a       *)
(* connection in hand may rely on: nobody else has that connection, its    *)
(* session, while alive, holds a lock for each account locked so far, and  *)
(* no two sessions hold conflicting locks.                                 *)
(***************************************************************************)

Task == [at : {"rest", "pool", "locks", "check", "operation", "start", "work"},
         mode : Modes, ids : SUBSET Accounts, todo : SUBSET Accounts,
         conn : Conns \cup {None}, lease : {None, "held", "lost"}]

\* The task owns a connection of the pool.
InHand(x) ==
    \/ x.at \in {"locks", "check", "operation", "start"}
    \/ x.at = "work" /\ x.lease = "held"

\* What holds of a task.
Fit(x) ==
    /\ x.mode = "serialized" => \E a \in Accounts : x.ids = {a}
    /\ x.at = "pool" => x.todo = x.ids
    /\ x.at \in {"check", "operation", "start", "work"} => x.todo = {}
    /\ InHand(x) => x.conn \in Conns /\ conn[x.conn] = "out"
    /\ InHand(x) /\ session[x.conn].alive =>
        /\ \A a \in x.ids \ x.todo : Lock(x.mode, a) \in session[x.conn].locks
        /\ x.mode = "serialized" /\ x.at \in {"start", "work"} =>
             Lock("exclusive", Operation(Min(x.ids))) \in session[x.conn].locks
        /\ x.at \in {"operation", "start", "work"} /\ x.mode # "exclusive" /\ ~late =>
             \A a \in x.ids : account[a] # "deleted"

Compatible(held, lock) == held.key = lock.key => ~held.exclusive /\ ~lock.exclusive

NoConflict ==
    \A c, d \in Conns : c # d =>
        \A x \in session[c].locks, y \in session[d].locks : Compatible(x, y)

OwnConnection ==
    \A v, w \in Tasks : v # w /\ InHand(worker[v]) /\ InHand(worker[w]) =>
        worker[v].conn # worker[w].conn

Shape ==
    /\ worker \in [Tasks -> Task]
    /\ conn = [c \in Conns |-> conn[c]]
    /\ session = [c \in Conns |-> [alive |-> session[c].alive, locks |-> session[c].locks]]
    /\ account = [a \in Accounts |-> account[a]]

Guarded ==
    /\ Shape
    /\ \A w \in Tasks : Fit(worker[w])
    /\ OwnConnection /\ NoConflict /\ PoolIsClean

LEMMA RestingTask == Resting \in Task /\ ~InHand(Resting) /\ Fit(Resting)
BY Zenon DEF Resting, Task, InHand, Fit, Modes, None

LEMMA GuardedInit == LeaseInit => Guarded
<1> SUFFICES ASSUME LeaseInit PROVE Guarded
  BY Zenon
<1>1. \A w \in Tasks : worker[w] = Resting
  BY Zenon DEF LeaseInit
<1>2. Shape
  BY RestingTask, Zenon DEF LeaseInit, Shape, NoSession
<1>3. OwnConnection /\ NoConflict /\ PoolIsClean
  BY <1>1, RestingTask, Zenon DEF LeaseInit, OwnConnection, NoConflict, PoolIsClean, NoSession
<1> QED
  BY <1>1, <1>2, <1>3, RestingTask, Zenon DEF Guarded

\* Guarded work: the theorem about LeaseGuards, in one state.
LEMMA GuardedIsSafe == Guarded => LeaseGuards
<1> SUFFICES ASSUME Guarded, NEW w \in Tasks, Working(w)
             PROVE  /\ worker[w].mode # "exclusive" /\ ~late =>
                         \A a \in worker[w].ids : account[a] # "deleted"
                    /\ \A v \in Tasks \ {w} : Working(v) /\ worker[v].ids \cap worker[w].ids # {} =>
                         /\ "exclusive" \notin {worker[w].mode, worker[v].mode}
                         /\ worker[w].mode = "serialized" => worker[v].mode # "serialized"
  BY Zenon DEF LeaseGuards
<1>1. ASSUME NEW v \in Tasks, Working(v)
      PROVE  /\ InHand(worker[v]) /\ worker[v].at = "work" /\ session[worker[v].conn].alive
             /\ worker[v].conn \in Conns /\ Fit(worker[v]) /\ worker[v].todo = {}
  BY <1>1, Zenon DEF Working, InHand, Guarded, Fit
<1>2. worker[w].mode # "exclusive" /\ ~late => \A a \in worker[w].ids : account[a] # "deleted"
  BY <1>1, Zenon DEF Fit
<1>3. ASSUME NEW v \in Tasks \ {w}, Working(v), NEW a \in worker[v].ids, a \in worker[w].ids
      PROVE  /\ worker[w].mode # "exclusive" /\ worker[v].mode # "exclusive"
             /\ ~ (worker[w].mode = "serialized" /\ worker[v].mode = "serialized")
  <2>1. worker[v].conn # worker[w].conn
    BY <1>1, <1>3, Zenon DEF Guarded, OwnConnection
  <2>2. /\ Lock(worker[v].mode, a) \in session[worker[v].conn].locks
        /\ Lock(worker[w].mode, a) \in session[worker[w].conn].locks
    BY <1>1, <1>3, Zenon DEF Fit
  <2>3. Compatible(Lock(worker[v].mode, a), Lock(worker[w].mode, a))
    BY <1>1, <1>3, <2>1, <2>2, Zenon DEF Guarded, NoConflict
  <2>4. worker[w].mode # "exclusive" /\ worker[v].mode # "exclusive"
    BY <2>3, Zenon DEF Compatible, Lock
  <2>5. ASSUME worker[w].mode = "serialized", worker[v].mode = "serialized" PROVE FALSE
    <3>1. worker[v].ids = worker[w].ids
      <4>1. PICK b \in Accounts : worker[v].ids = {b}
        BY <1>1, <1>3, <2>5, Zenon DEF Fit
      <4>2. PICK b2 \in Accounts : worker[w].ids = {b2}
        BY <1>1, <2>5, Zenon DEF Fit
      <4> QED
        BY <1>3, <4>1, <4>2, Zenon
    <3> DEFINE op == Lock("exclusive", Operation(Min(worker[w].ids)))
    <3>2. op \in session[worker[v].conn].locks /\ op \in session[worker[w].conn].locks
      BY <1>1, <1>3, <2>5, <3>1, Zenon DEF Fit
    <3>3. Compatible(op, op)
      BY <1>1, <1>3, <2>1, <3>2, Zenon DEF Guarded, NoConflict
    <3>4. op.exclusive
      BY Zenon DEF Lock
    <3> QED
      BY <3>3, <3>4, Zenon DEF Compatible
  <2> QED
    BY <2>4, <2>5, Zenon
<1> QED
  BY <1>2, <1>3, Zenon

-----------------------------------------------------------------------------
(* One task's step, with its own connection at most. *)

\* Other locks on the session of c.
LEMMA Relocked ==
    ASSUME Shape, NEW c \in Conns, NEW L, session' = Holding(c, L)
    PROVE  /\ session' = [d \in Conns |-> [alive |-> session'[d].alive, locks |-> session'[d].locks]]
           /\ \A d \in Conns : d # c => session'[d] = session[d]
           /\ session'[c].alive /\ session'[c].locks = L
<1>1. \A d \in Conns : session[d] = [alive |-> session[d].alive, locks |-> session[d].locks]
  BY Zenon DEF Shape
<1>3. session' = [session EXCEPT ![c] = [alive |-> TRUE, locks |-> L]]
  BY Zenon DEF Holding
<1>4. session = [d \in Conns |-> session[d]]
  BY Zenon DEF Shape
<1>5. session'[c] = [alive |-> TRUE, locks |-> L]
  BY <1>3, <1>4, Zenon
<1>6. \A d \in Conns : d # c => session'[d] = session[d]
  BY <1>3, <1>4, Zenon
<1>7. \A d \in Conns : session'[d] = [alive |-> session'[d].alive, locks |-> session'[d].locks]
  BY <1>1, <1>5, <1>6, Zenon
<1>8. session' = [d \in Conns |-> session'[d]]
  BY <1>3, <1>4, Zenon
<1> QED
  BY <1>5, <1>6, <1>7, <1>8

\* A task that keeps or takes no connection: the others do not notice.
LEMMA TaskMoves ==
    ASSUME Guarded, NEW w \in Tasks, NEW x \in Task, worker' = [worker EXCEPT ![w] = x],
           Fit(x), InHand(x) => InHand(worker[w]) /\ x.conn = worker[w].conn,
           UNCHANGED <<conn, session, account, late>>
    PROVE  Guarded'
<1>1. /\ worker' \in [Tasks -> Task] /\ worker'[w] = x
      /\ \A v \in Tasks : v # w => worker'[v] = worker[v]
  BY Zenon DEF Guarded, Shape
<1>2. Shape'
  BY <1>1, Zenon DEF Guarded, Shape
<1>3. ASSUME NEW v \in Tasks PROVE Fit(worker[v])'
  <2>1. CASE v = w
    BY <1>1, <2>1, Zenon DEF Fit, InHand
  <2>2. CASE v # w
    BY <1>1, <2>2, ZenonT(90) DEF Guarded, Fit, InHand
  <2> QED
    BY <2>1, <2>2, Zenon
<1>4. OwnConnection'
  BY <1>1 DEF Guarded, OwnConnection, InHand
<1>5. NoConflict' /\ PoolIsClean'
  BY Zenon DEF Guarded, NoConflict, PoolIsClean
<1> QED
  BY <1>2, <1>3, <1>4, <1>5, Zenon DEF Guarded

\* A task gives its connection up: closed with its locks, or unlocked and back.
LEMMA TaskLeaves ==
    ASSUME Guarded, NEW w \in Tasks, NEW x \in Task, worker' = [worker EXCEPT ![w] = x],
           Fit(x), ~InHand(x), InHand(worker[w]), unlock_all(worker[w].conn) \/ drop_session(worker[w].conn),
           UNCHANGED <<account, late>>
    PROVE  Guarded'
<1> DEFINE c == worker[w].conn
<1>1. /\ worker' \in [Tasks -> Task] /\ worker'[w] = x
      /\ \A v \in Tasks : v # w => worker'[v] = worker[v]
  BY Zenon DEF Guarded, Shape
<1>2. c \in Conns
  BY Zenon DEF Guarded, Fit
<1>3. /\ conn' = [d \in Conns |-> conn'[d]]
      /\ session' = [d \in Conns |-> [alive |-> session'[d].alive, locks |-> session'[d].locks]]
      /\ \A d \in Conns : d # c => conn'[d] = conn[d] /\ session'[d] = session[d]
      /\ \/ conn'[c] = "closed" /\ session'[c] = session[c]
         \/ conn'[c] = "idle" /\ session'[c].locks = {}
  <2>1. conn = [d \in Conns |-> conn[d]] /\ Shape
        /\ session = [d \in Conns |-> [alive |-> session[d].alive, locks |-> session[d].locks]]
    BY Zenon DEF Guarded, Shape
  <2>2. CASE drop_session(c)
    <3>1. /\ conn' = [d \in Conns |-> conn'[d]] /\ conn'[c] = "closed"
          /\ \A d \in Conns : d # c => conn'[d] = conn[d]
      BY <1>2, <2>1, <2>2, Zenon DEF drop_session
    <3>2. session' = session
      BY <2>2, Zenon DEF drop_session
    <3>3. session' = [d \in Conns |-> [alive |-> session'[d].alive, locks |-> session'[d].locks]]
      BY Zenon, <2>1, <3>2
    <3>4. \A d \in Conns : d # c => conn'[d] = conn[d] /\ session'[d] = session[d]
      BY Zenon, <3>1, <3>2
    <3>5. conn'[c] = "closed" /\ session'[c] = session[c]
      BY Zenon, <3>1, <3>2
    <3> QED
      BY <3>1, <3>3, <3>4, <3>5, Zenon
  <2>3. CASE session' = Holding(c, {}) /\ conn' = [conn EXCEPT ![c] = "idle"]
    <3>1. /\ conn' = [d \in Conns |-> conn'[d]] /\ conn'[c] = "idle"
          /\ \A d \in Conns : d # c => conn'[d] = conn[d]
      BY <1>2, <2>1, <2>3, Zenon
    <3> QED
      BY <1>2, <2>1, <2>3, <3>1, Relocked
  <2> QED
    BY <2>2, <2>3, Zenon DEF unlock_all
<1> HIDE DEF c
<1>4. Shape'
  BY <1>1, <1>3, Zenon DEF Guarded, Shape
<1>5. ASSUME NEW v \in Tasks, v # w, InHand(worker[v]) PROVE worker[v].conn # c /\ worker[v].conn \in Conns
  BY <1>5, Zenon DEF Guarded, OwnConnection, Fit, c
<1>6. ASSUME NEW v \in Tasks PROVE Fit(worker[v])'
  <2>1. CASE v = w
    BY <1>1, <2>1, Zenon DEF Fit, InHand
  <2>2. CASE v # w
    BY <1>1, <1>3, <1>5, <2>2 DEF Guarded, Fit, InHand
  <2> QED
    BY <2>1, <2>2, Zenon
<1>7. OwnConnection'
  BY <1>1 DEF Guarded, OwnConnection, InHand
<1>8. \A d \in Conns : session'[d].locks \subseteq session[d].locks
  BY <1>3, Zenon
<1>9. NoConflict' /\ PoolIsClean'
  BY <1>3, <1>8, Zenon DEF Guarded, NoConflict, PoolIsClean
<1> QED
  BY <1>4, <1>6, <1>7, <1>9, Zenon DEF Guarded

\* A task adds a lock that is free to its session.
LEMMA TaskLocks ==
    ASSUME Guarded, NEW w \in Tasks, NEW x \in Task, worker' = [worker EXCEPT ![w] = x],
           NEW lock, Free(worker[w].conn, lock),
           session[worker[w].conn].alive,
           session' = Holding(worker[w].conn, session[worker[w].conn].locks \cup {lock}),
           InHand(worker[w]), Fit(x)', x.conn = worker[w].conn,
           UNCHANGED <<conn, account, late>>
    PROVE  Guarded'
<1> DEFINE c == worker[w].conn
<1>1. /\ worker' \in [Tasks -> Task] /\ worker'[w] = x
      /\ \A v \in Tasks : v # w => worker'[v] = worker[v]
  BY Zenon DEF Guarded, Shape
<1>2. c \in Conns /\ conn[c] = "out"
  BY Zenon DEF Guarded, Fit
<1>3. /\ session' = [d \in Conns |-> [alive |-> session'[d].alive, locks |-> session'[d].locks]]
      /\ \A d \in Conns : d # c => session'[d] = session[d]
      /\ session'[c].alive /\ session'[c].locks = session[c].locks \cup {lock}
  BY <1>2, Relocked, Zenon DEF Guarded
<1>4. \A d \in Conns : d # c => \A held \in session[d].locks :
        held.key = lock.key => ~held.exclusive /\ ~lock.exclusive
  BY Zenon DEF Free
<1> HIDE DEF c
<1>5. Shape'
  BY <1>1, <1>3, Zenon DEF Guarded, Shape
<1>6. ASSUME NEW v \in Tasks, v # w, InHand(worker[v]) PROVE worker[v].conn # c /\ worker[v].conn \in Conns
  BY <1>6, Zenon DEF Guarded, OwnConnection, Fit, c
<1>7. ASSUME NEW v \in Tasks PROVE Fit(worker[v])'
  <2>1. CASE v = w
    BY <1>1, <2>1, Zenon DEF Fit, InHand
  <2>2. CASE v # w
    <3>1. worker'[v] = worker[v] /\ Fit(worker[v])
      BY <1>1, <2>2, Zenon DEF Guarded
    <3>2. CASE InHand(worker[v])
      <4>1. worker[v].conn \in Conns /\ session'[worker[v].conn] = session[worker[v].conn]
        BY <1>3, <1>6, <2>2, <3>2, Zenon
      <4> QED
        BY <3>1, <3>2, <4>1, ZenonT(90) DEF Fit, InHand
    <3>3. CASE ~InHand(worker[v])
      BY <3>1, <3>3, Zenon DEF Fit, InHand
    <3> QED
      BY <3>2, <3>3, Zenon
  <2> QED
    BY <2>1, <2>2, Zenon
<1>8. OwnConnection'
  <2>1. ASSUME NEW u \in Tasks, NEW v \in Tasks, u # v, InHand(worker'[u]), InHand(worker'[v])
        PROVE  worker'[u].conn # worker'[v].conn
    <3>1. worker'[w].conn = c
      BY <1>1, Zenon DEF c
    <3>2. CASE u = w
      BY <1>1, <1>6, <2>1, <3>1, <3>2, Zenon
    <3>3. CASE v = w
      BY <1>1, <1>6, <2>1, <3>1, <3>3, Zenon
    <3>4. CASE u # w /\ v # w
      BY <1>1, <2>1, <3>4, Zenon DEF Guarded, OwnConnection
    <3> QED
      BY <3>2, <3>3, <3>4, Zenon
  <2> QED
    BY <2>1, Zenon DEF OwnConnection, InHand
<1>9. NoConflict'
  <2> SUFFICES ASSUME NEW d \in Conns, NEW e \in Conns, d # e,
                      NEW p \in session'[d].locks, NEW q \in session'[e].locks
               PROVE  Compatible(p, q)
    BY Zenon DEF NoConflict
  <2>1. CASE p \in session[d].locks /\ q \in session[e].locks
    BY <2>1, Zenon DEF Guarded, NoConflict
  <2>2. CASE d = c /\ p = lock
    BY <1>3, <1>4, <2>2, Zenon DEF Compatible
  <2>3. CASE e = c /\ q = lock
    BY <1>3, <1>4, <2>3, Zenon DEF Compatible
  <2> QED
    BY <1>3, <2>1, <2>2, <2>3, ZenonT(90)
<1>10. PoolIsClean'
  BY <1>2, <1>3, Zenon DEF Guarded, PoolIsClean
<1> QED
  BY <1>5, <1>7, <1>8, <1>9, <1>10, Zenon DEF Guarded

LEMMA NewTask ==
    ASSUME NEW m \in Modes, NEW ids \in SUBSET Accounts,
           m = "serialized" => \E a \in Accounts : ids = {a},
           NEW x, x = [Resting EXCEPT !.at = "pool", !.mode = m, !.ids = ids, !.todo = ids]
    PROVE  x \in Task /\ ~InHand(x) /\ Fit(x)
<1>1. x = [at |-> "pool", mode |-> m, ids |-> ids, todo |-> ids, conn |-> None, lease |-> None]
  BY Zenon DEF Resting
<1> QED
  BY <1>1 DEF Task, InHand, Fit, None

LEMMA RequestNext == ASSUME Guarded, NEW w \in Tasks, request(w) PROVE Guarded'
<1>1. ASSUME NEW m \in Modes, NEW ids \in SUBSET Accounts,
             m = "serialized" => \E a \in Accounts : ids = {a},
             worker' = [worker EXCEPT ![w] =
                [Resting EXCEPT !.at = "pool", !.mode = m, !.ids = ids, !.todo = ids]]
      PROVE  Guarded'
  <2>1. PICK x : x = [Resting EXCEPT !.at = "pool", !.mode = m, !.ids = ids, !.todo = ids]
    BY Zenon
  <2>2. x \in Task /\ ~InHand(x) /\ Fit(x)
    BY <1>1, <2>1, NewTask, Zenon
  <2>3. worker' = [worker EXCEPT ![w] = x]
    BY <1>1, <2>1, Zenon
  <2>4. UNCHANGED <<conn, session, account, late>>
    BY Zenon DEF request
  <2> QED
    BY <2>2, <2>3, <2>4, TaskMoves, Zenon
<1>2. ASSUME NEW ids \in SUBSET Accounts, run(w, ids) \/ run_existing(w, ids) PROVE Guarded'
  BY <1>1, <1>2, Zenon DEF run, run_existing, Modes
<1>3. ASSUME NEW a \in Accounts, try_serialized(w, a) \/ try_exclusive(w, a) PROVE Guarded'
  <2>1. PICK ids \in SUBSET Accounts : ids = {a}
    BY Zenon
  <2>2. CASE try_serialized(w, a)
    BY <1>1, <2>1, <2>2, Zenon DEF try_serialized, Modes
  <2>3. CASE try_exclusive(w, a)
    BY <1>1, <2>1, <2>3, Zenon DEF try_exclusive, Modes
  <2> QED
    BY <1>3, <2>2, <2>3, Zenon
<1> QED
  BY <1>2, <1>3, Zenon DEF request

LEMMA CheckoutNext ==
    ASSUME Guarded, NEW w \in Tasks, NEW c \in Conns, checkout(w, c) PROVE Guarded'
<1>1. worker[w] \in Task /\ Fit(worker[w]) /\ worker[w].at = "pool"
  BY Zenon DEF Guarded, Shape, checkout
<1>2. PICK x : x = [worker[w] EXCEPT !.at = "locks", !.conn = c]
  BY Zenon
<1>3. /\ x \in Task /\ x.at = "locks" /\ x.conn = c /\ x.ids = worker[w].ids
      /\ x.todo = worker[w].todo /\ x.mode = worker[w].mode
  BY <1>1, <1>2, Zenon DEF Task
<1>4. worker' = [worker EXCEPT ![w] = x]
  BY <1>2, Zenon DEF checkout
<1>5. /\ worker' \in [Tasks -> Task] /\ worker'[w] = x
      /\ \A v \in Tasks : v # w => worker'[v] = worker[v]
  BY <1>3, <1>4, Zenon DEF Guarded, Shape
<1>6. conn[c] \in {"idle", "closed"} /\ conn' = [conn EXCEPT ![c] = "out"]
  BY Zenon DEF checkout
<1>7. /\ conn' = [d \in Conns |-> conn'[d]] /\ conn'[c] = "out"
      /\ \A d \in Conns : d # c => conn'[d] = conn[d]
  BY <1>6, Zenon DEF Guarded, Shape
<1>8. /\ session' = [d \in Conns |-> [alive |-> session'[d].alive, locks |-> session'[d].locks]]
      /\ \A d \in Conns : d # c => session'[d] = session[d]
      /\ session'[c].locks = {}
  <2>1. CASE conn[c] = "idle" /\ UNCHANGED session
    BY <2>1, Zenon DEF Guarded, Shape, PoolIsClean
  <2>2. CASE session' = Holding(c, {})
    BY <2>2, Relocked, Zenon DEF Guarded
  <2> QED
    BY <2>1, <2>2, Zenon DEF checkout
<1>9. Shape'
  BY <1>5, <1>7, <1>8, Zenon DEF Guarded, Shape, checkout
<1>10. ASSUME NEW v \in Tasks, v # w, InHand(worker[v])
       PROVE  worker[v].conn # c /\ worker[v].conn \in Conns
  BY <1>6, <1>10, Zenon DEF Guarded, Fit
<1>11. ASSUME NEW v \in Tasks PROVE Fit(worker[v])'
  <2>1. CASE v = w
    <3>1. worker'[v] = x
      BY <1>5, <2>1, Zenon
    <3>2. x.todo = x.ids
      BY <1>1, <1>3, Zenon DEF Fit
    <3>3. x.mode = "serialized" => \E a \in Accounts : x.ids = {a}
      BY <1>1, <1>3, Zenon DEF Fit
    <3> QED
      BY <1>3, <1>7, <3>1, <3>2, <3>3, Zenon DEF Fit, InHand
  <2>2. CASE v # w
    <3>1. worker'[v] = worker[v] /\ Fit(worker[v])
      BY <1>5, <2>2, Zenon DEF Guarded
    <3>2. CASE InHand(worker[v])
      <4>1. /\ worker[v].conn \in Conns /\ session'[worker[v].conn] = session[worker[v].conn]
            /\ conn'[worker[v].conn] = conn[worker[v].conn]
        BY <1>7, <1>8, <1>10, <2>2, <3>2, Zenon
      <4> QED
        BY <3>1, <3>2, <4>1, Zenon DEF Fit, InHand, checkout
    <3>3. CASE ~InHand(worker[v])
      BY <3>1, <3>3, Zenon DEF Fit, InHand
    <3> QED
      BY <3>2, <3>3, Zenon
  <2> QED
    BY <2>1, <2>2, Zenon
<1>12. OwnConnection'
  BY <1>3, <1>5, <1>10 DEF Guarded, OwnConnection, InHand
<1>13. NoConflict' /\ PoolIsClean'
  BY <1>7, <1>8, Zenon DEF Guarded, NoConflict, PoolIsClean
<1> QED
  BY <1>9, <1>11, <1>12, <1>13, Zenon DEF Guarded

LEMMA LockNext == ASSUME Guarded, NEW w \in Tasks, lock_account(w) PROVE Guarded'
<1> DEFINE c == worker[w].conn
           a == Min(worker[w].todo)
           lock == Lock(worker[w].mode, a)
           remaining == worker[w].todo \ {a}
           next == IF remaining # {} THEN "locks"
                   ELSE IF worker[w].mode = "exclusive" THEN "start" ELSE "check"
<1>1. worker[w] \in Task /\ Fit(worker[w]) /\ worker[w].at = "locks" /\ InHand(worker[w])
  BY Zenon DEF Guarded, Shape, lock_account, InHand
<1>2. c \in Conns /\ conn[c] = "out" /\ session[c].alive
  BY <1>1, Zenon DEF Fit, lock_account
<1>3. CASE refused(w)
  BY <1>1, <1>3, RestingTask, TaskLeaves, Zenon DEF refused, lock_account
<1>4. CASE /\ Free(c, lock) /\ session' = Holding(c, session[c].locks \cup {lock})
           /\ worker' = [worker EXCEPT ![w].todo = remaining, ![w].at = next]
           /\ UNCHANGED conn
  <2>1. UNCHANGED <<conn, account, late>>
    BY <1>4, Zenon DEF lock_account
  <2>2. PICK y \in {"locks", "start", "check"} : y = next
    BY Zenon
  <2>3. PICK t \in SUBSET Accounts : t = remaining
    BY <1>1, Zenon DEF Task
  <2>4. PICK x : x = [worker[w] EXCEPT !.todo = t, !.at = y]
    BY Zenon
  <2>5. worker' = [worker EXCEPT ![w] = x]
    BY <1>4, <2>2, <2>3, <2>4, Zenon
  <2>6. /\ x \in Task /\ x.at = y /\ x.conn = c /\ x.ids = worker[w].ids
        /\ x.todo = t /\ x.mode = worker[w].mode
    BY <1>1, <2>4, Zenon DEF Task
  <2>7. \A b \in x.ids \ x.todo : Lock(x.mode, b) \in session[c].locks \cup {lock}
    BY <1>1, <1>2, <2>3, <2>6, Zenon DEF Fit
  <2>8. /\ y # "locks" => t = {}
        /\ y = "start" => x.mode = "exclusive"
    BY <2>2, <2>3, <2>6, Zenon
  <2>9. x.mode = "serialized" => \E b \in Accounts : x.ids = {b}
    BY <1>1, <2>6, Zenon DEF Fit
  <2>10. session'[c].locks = session[c].locks \cup {lock}
    BY <1>2, <1>4, Relocked, Zenon DEF Guarded
  <2> HIDE DEF c, a, lock, remaining, next
  <2>11. Fit(x)'
    BY <1>2, <2>1, <2>6, <2>7, <2>8, <2>9, <2>10, Zenon DEF Fit
  <2>12. Free(worker[w].conn, lock) /\ session[worker[w].conn].alive
         /\ session' = Holding(worker[w].conn, session[worker[w].conn].locks \cup {lock})
         /\ x.conn = worker[w].conn
    BY <1>2, <1>4, <2>6, Zenon DEF c
  <2> QED
    BY <1>1, <2>1, <2>5, <2>6, <2>11, <2>12, TaskLocks, Zenon
<1> QED
  BY <1>3, <1>4, Zenon DEF lock_account

LEMMA CheckNext == ASSUME Guarded, NEW w \in Tasks, check_accounts(w) PROVE Guarded'
<1>1. /\ worker[w] \in Task /\ Fit(worker[w]) /\ worker[w].at = "check" /\ InHand(worker[w])
      /\ session[worker[w].conn].alive
  BY Zenon DEF Guarded, Shape, check_accounts, InHand
<1>2. CASE refused(w)
  BY <1>1, <1>2, RestingTask, TaskLeaves, Zenon DEF refused, check_accounts
<1>3. CASE /\ account_count(w) /\ UNCHANGED <<conn, session>>
           /\ worker' = [worker EXCEPT ![w].at =
                IF worker[w].mode = "serialized" THEN "operation" ELSE "start"]
  <2>1. UNCHANGED <<conn, session, account, late>>
    BY <1>3, Zenon DEF check_accounts
  <2>2. PICK y \in {"operation", "start"} : y = IF worker[w].mode = "serialized" THEN "operation" ELSE "start"
    BY Zenon
  <2>3. PICK x : x = [worker[w] EXCEPT !.at = y]
    BY Zenon
  <2>4. worker' = [worker EXCEPT ![w] = x]
    BY <1>3, <2>2, <2>3, Zenon
  <2>5. /\ x \in Task /\ x.at = y /\ x.conn = worker[w].conn /\ x.ids = worker[w].ids
        /\ x.todo = worker[w].todo /\ x.mode = worker[w].mode
    BY <1>1, <2>3, Zenon DEF Task
  <2>6. \A a \in x.ids : account[a] # "deleted"
    BY <1>3, <2>5, Zenon DEF account_count
  <2>7. Fit(x)
    BY <1>1, <2>2, <2>5, <2>6, Zenon DEF Fit, InHand
  <2> QED
    BY <1>1, <2>1, <2>4, <2>5, <2>7, TaskMoves, Zenon
<1> QED
  BY <1>2, <1>3, Zenon DEF check_accounts

LEMMA OperationNext == ASSUME Guarded, NEW w \in Tasks, lock_operation(w) PROVE Guarded'
<1> DEFINE c == worker[w].conn
           lock == Lock("exclusive", Operation(Min(worker[w].ids)))
<1>1. /\ worker[w] \in Task /\ Fit(worker[w]) /\ worker[w].at = "operation" /\ InHand(worker[w])
      /\ session[c].alive /\ c \in Conns /\ conn[c] = "out"
  BY Zenon DEF Guarded, Shape, lock_operation, InHand, Fit
<1>2. CASE refused(w)
  BY <1>1, <1>2, RestingTask, TaskLeaves, Zenon DEF refused, lock_operation
<1>3. CASE /\ Free(c, lock) /\ session' = Holding(c, session[c].locks \cup {lock})
           /\ worker' = [worker EXCEPT ![w].at = "start"] /\ UNCHANGED conn
  <2>1. UNCHANGED <<conn, account, late>>
    BY <1>3, Zenon DEF lock_operation
  <2>2. PICK x : x = [worker[w] EXCEPT !.at = "start"]
    BY Zenon
  <2>3. worker' = [worker EXCEPT ![w] = x]
    BY <1>3, <2>2, Zenon
  <2>4. /\ x \in Task /\ x.at = "start" /\ x.conn = c /\ x.ids = worker[w].ids
        /\ x.todo = worker[w].todo /\ x.mode = worker[w].mode
    BY <1>1, <2>2, Zenon DEF Task
  <2>5. session'[c].locks = session[c].locks \cup {lock}
    BY <1>1, <1>3, Relocked, Zenon DEF Guarded
  <2>6. lock = Lock("exclusive", Operation(Min(x.ids)))
    BY <2>4, Zenon
  <2> HIDE DEF c, lock
  <2>7. Fit(x)'
    BY <1>1, <2>1, <2>4, <2>5, <2>6, Zenon DEF Fit, InHand, c
  <2>8. /\ Free(worker[w].conn, lock) /\ session[worker[w].conn].alive
        /\ session' = Holding(worker[w].conn, session[worker[w].conn].locks \cup {lock})
        /\ x.conn = worker[w].conn
    BY <1>1, <1>3, <2>4, Zenon DEF c
  <2> QED
    BY <1>1, <2>1, <2>3, <2>4, <2>7, <2>8, TaskLocks, Zenon
<1> QED
  BY <1>2, <1>3, Zenon DEF lock_operation

LEMMA StartNext == ASSUME Guarded, NEW w \in Tasks, start(w) PROVE Guarded'
<1>1. worker[w] \in Task /\ Fit(worker[w]) /\ worker[w].at = "start" /\ InHand(worker[w])
  BY Zenon DEF Guarded, Shape, start, InHand
<1>2. PICK x : x = [worker[w] EXCEPT !.at = "work", !.lease = "held"]
  BY Zenon
<1>3. worker' = [worker EXCEPT ![w] = x] /\ UNCHANGED <<conn, session, account, late>>
  BY <1>2, Zenon DEF start
<1>4. /\ x \in Task /\ x.at = "work" /\ x.conn = worker[w].conn /\ x.ids = worker[w].ids
      /\ x.todo = worker[w].todo /\ x.mode = worker[w].mode
  BY <1>1, <1>2, Zenon DEF Task
<1>5. Fit(x)
  BY <1>1, <1>4, Zenon DEF Fit, InHand
<1> QED
  BY <1>1, <1>3, <1>4, <1>5, TaskMoves, Zenon

\* The ways a task loses its connection.
LEMMA LeaveNext ==
    ASSUME Guarded, NEW w \in Tasks, statement_fails(w) \/ abandon(w) \/ probe(w) \/ release(w)
    PROVE  Guarded'
<1>1. worker[w] \in Task /\ Fit(worker[w])
  BY Zenon DEF Guarded, Shape
<1>2. CASE statement_fails(w) \/ abandon(w)
  BY <1>2, RestingTask, TaskLeaves, Zenon DEF statement_fails, abandon, InHand
<1>3. CASE probe(w)
  <2>1. PICK x : x = [worker[w] EXCEPT !.lease = "lost"]
    BY Zenon
  <2>2. worker' = [worker EXCEPT ![w] = x]
    BY <1>3, <2>1, Zenon DEF probe
  <2>3. /\ x \in Task /\ x.at = "work" /\ x.lease = "lost" /\ x.ids = worker[w].ids
        /\ x.todo = worker[w].todo /\ x.mode = worker[w].mode
    BY <1>1, <1>3, <2>1, Zenon DEF Task, probe
  <2>4. Fit(x) /\ ~InHand(x)
    BY <1>1, <1>3, <2>3, Zenon DEF Fit, InHand, probe
  <2> QED
    BY <1>3, <2>2, <2>3, <2>4, TaskLeaves, Zenon DEF probe, InHand
<1>4. CASE release(w)
  <2>1. CASE worker[w].lease = "held"
    BY <1>4, <2>1, RestingTask, TaskLeaves, Zenon DEF release, InHand
  <2>2. CASE worker[w].lease # "held"
    BY <1>4, <2>2, RestingTask, TaskMoves, Zenon DEF release
  <2> QED
    BY <2>1, <2>2, Zenon
<1> QED
  BY <1>2, <1>3, <1>4, Zenon

-----------------------------------------------------------------------------
(* Steps that leave every task where it is. *)

\* An account is erased under an exclusive lock, which nobody shares.
LEMMA EraseNext == ASSUME Guarded, NEW w \in Tasks, erase(w) PROVE Guarded'
<1>1. /\ worker[w].mode = "exclusive" /\ InHand(worker[w]) /\ Fit(worker[w])
      /\ worker[w].at = "work" /\ UNCHANGED <<conn, session, worker>>
  BY Zenon DEF erase, assert_held, InHand, Guarded
<1>2. \A a \in Accounts : account'[a] = IF a \in worker[w].ids THEN "deleted" ELSE account[a]
  BY Zenon DEF erase
<1>3. ~late' => ~late /\ session[worker[w].conn].alive
  BY Zenon DEF erase
<1>4. Shape'
  BY <1>1, Zenon DEF Guarded, Shape, erase
<1>5. ASSUME NEW v \in Tasks, InHand(worker[v]), session[worker[v].conn].alive,
             worker[v].at \in {"operation", "start", "work"}, worker[v].mode # "exclusive",
             ~late', NEW a \in worker[v].ids
      PROVE  account'[a] # "deleted"
  <2>1. worker[v] \in Task /\ Fit(worker[v])
    BY Zenon DEF Guarded, Shape
  <2>2. a \in Accounts /\ account[a] # "deleted"
    BY <1>3, <1>5, <2>1, Zenon DEF Fit, Task
  <2>3. ASSUME a \in worker[w].ids PROVE FALSE
    <3>1. /\ worker[v].conn # worker[w].conn
          /\ worker[v].conn \in Conns /\ worker[w].conn \in Conns
      BY <1>1, <1>5, <2>1, Zenon DEF Guarded, OwnConnection, Fit
    <3>2. Lock(worker[v].mode, a) \in session[worker[v].conn].locks
      BY <1>5, <2>1, Zenon DEF Fit
    <3>3. Lock("exclusive", a) \in session[worker[w].conn].locks
      BY <1>1, <1>3, <1>5, <2>3, Zenon DEF Fit
    <3>4. Compatible(Lock(worker[v].mode, a), Lock("exclusive", a))
      BY <3>1, <3>2, <3>3, Zenon DEF Guarded, NoConflict
    <3> QED
      BY <3>4, Zenon DEF Compatible, Lock
  <2> QED
    BY <1>2, <2>2, <2>3, Zenon
<1>6. ASSUME NEW v \in Tasks PROVE Fit(worker[v])'
  <2>1. Fit(worker[v])
    BY Zenon DEF Guarded
  <2> QED
    BY <1>1, <1>5, <2>1, Zenon DEF Fit, InHand
<1>7. OwnConnection' /\ NoConflict' /\ PoolIsClean'
  BY <1>1, Zenon DEF Guarded, OwnConnection, InHand, NoConflict, PoolIsClean
<1> QED
  BY <1>4, <1>6, <1>7, Zenon DEF Guarded

\* PostgreSQL ends a session: its locks are gone and its task learns later.
LEMMA SessionEnds ==
    ASSUME Guarded, NEW c \in Conns, breaks_session(c) \/ ends_closed(c) PROVE Guarded'
<1>1. session' = [session EXCEPT ![c] = NoSession] /\ UNCHANGED <<worker, account, late>>
  BY Zenon DEF breaks_session, ends_closed
<1>2. /\ conn' = [d \in Conns |-> conn'[d]]
      /\ \A d \in Conns : conn'[d] = conn[d] \/ (conn'[d] = "closed" /\ conn[d] = "idle")
  BY Zenon DEF breaks_session, ends_closed, Guarded, Shape
<1>3. /\ session' = [d \in Conns |-> [alive |-> session'[d].alive, locks |-> session'[d].locks]]
      /\ \A d \in Conns : d # c => session'[d] = session[d]
      /\ ~session'[c].alive /\ session'[c].locks = {}
  <2>1. /\ session'[c] = [alive |-> FALSE, locks |-> {}]
        /\ session' = [d \in Conns |-> session'[d]]
        /\ \A d \in Conns : d # c => session'[d] = session[d]
    BY <1>1, Zenon DEF Guarded, Shape, NoSession
  <2>2. \A d \in Conns : session[d] = [alive |-> session[d].alive, locks |-> session[d].locks]
    BY Zenon DEF Guarded, Shape
  <2>3. \A d \in Conns : session'[d] = [alive |-> session'[d].alive, locks |-> session'[d].locks]
    BY <2>1, <2>2, Zenon
  <2> QED
    BY <2>1, <2>3
<1>4. Shape'
  BY <1>1, <1>2, <1>3, Zenon DEF Guarded, Shape
<1>5. ASSUME NEW v \in Tasks PROVE Fit(worker[v])'
  <2>1. Fit(worker[v])
    BY Zenon DEF Guarded
  <2>2. CASE ~InHand(worker[v])
    BY <1>1, <2>1, <2>2, Zenon DEF Fit, InHand
  <2>3. CASE InHand(worker[v])
    <3>1. worker[v].conn \in Conns /\ conn'[worker[v].conn] = "out"
      BY <1>2, <2>1, <2>3, Zenon DEF Fit
    <3> QED
      BY <1>1, <1>3, <2>1, <2>3, <3>1, Zenon DEF Fit, InHand
  <2> QED
    BY <2>2, <2>3, Zenon
<1>6. OwnConnection'
  BY <1>1, Zenon DEF Guarded, OwnConnection, InHand
<1>7. NoConflict' /\ PoolIsClean'
  BY <1>2, <1>3, Zenon DEF Guarded, NoConflict, PoolIsClean
<1> QED
  BY <1>4, <1>5, <1>6, <1>7, Zenon DEF Guarded

LEMMA BanNext == ASSUME Guarded, NEW a \in Accounts, ban(a) PROVE Guarded'
<1>1. UNCHANGED <<conn, session, worker, late>>
  BY Zenon DEF ban
<1>2. /\ account' = [b \in Accounts |-> account'[b]]
      /\ \A b \in Accounts : account'[b] = "deleted" => account[b] = "deleted"
  BY Zenon DEF ban, Guarded, Shape
<1>3. Shape'
  BY <1>1, <1>2, Zenon DEF Guarded, Shape
<1>4. ASSUME NEW v \in Tasks PROVE Fit(worker[v])'
  <2>1. Fit(worker[v]) /\ worker[v] \in Task
    BY Zenon DEF Guarded, Shape
  <2>2. \A b \in worker[v].ids : b \in Accounts
    BY <2>1, Zenon DEF Task
  <2> QED
    BY <1>1, <1>2, <2>1, <2>2, Zenon DEF Fit, InHand
<1>5. OwnConnection' /\ NoConflict' /\ PoolIsClean'
  BY <1>1, Zenon DEF Guarded, OwnConnection, InHand, NoConflict, PoolIsClean
<1> QED
  BY <1>3, <1>4, <1>5, Zenon DEF Guarded

LEMMA GuardedNext == Guarded /\ [LeaseNext]_leaseVars => Guarded'
<1> SUFFICES ASSUME Guarded, [LeaseNext]_leaseVars PROVE Guarded'
  BY Zenon
<1>1. CASE UNCHANGED leaseVars
  BY <1>1, ZenonT(90) DEF leaseVars, Guarded, Shape, Fit, InHand, OwnConnection, NoConflict, PoolIsClean
<1> QED
  BY Zenon, <1>1, RequestNext, CheckoutNext, LockNext, CheckNext, OperationNext, StartNext,
     LeaveNext, EraseNext, SessionEnds, BanNext DEF LeaseNext

(* While its session lives, guarded work is not erased under, excludes     *)
(* whoever holds one of its accounts exclusively, and a serialized         *)
(* operation runs once; and no connection goes back to the pool with a     *)
(* lock on it, whichever way its task ended (run, try_serialized,          *)
(* try_exclusive, unlock_all, CheckedOutSession::drop).                    *)
THEOREM LeasesGuard == LeaseSpec => []LeasesHold
<1>1. Guarded => LeasesHold
  BY GuardedIsSafe, Zenon DEF Guarded, LeasesHold
<1> QED BY GuardedInit, GuardedNext, <1>1, PTL DEF LeaseSpec
-----------------------------------------------------------------------------
(***************************************************************************)
(* What permits an SMS.  The budgets are counted over the stored rows and  *)
(* hold of all permits ever given: a permit young enough to count still    *)
(* has its row (PermitsStored).  A version names one state of what an      *)
(* administrator read (ViewsCurrent), within one life of an entry.         *)
(***************************************************************************)
SmsTypes ==
    /\ age \in [Deliveries -> -1..RETAIN] /\ stored \subseteq Deliveries
    /\ control.version \in Nat
    /\ entry = [p \in Phones |-> entry[p]] /\ \A p \in Phones : entry[p].version \in Nat
    /\ era \in [Phones -> Nat]
    /\ view = [a \in Admins |-> view[a]]

PermitsStored == \A d \in Deliveries : 0 <= age[d] /\ age[d] < RETAIN => d \in stored

Unlisted == \A p \in Phones : ~entry[p].row => entry[p].version = 0

SwitchSeen(v) ==
    v.of = "sms" => /\ v.version \in Nat /\ v.version <= control.version
                    /\ v.version = control.version => v.sees = control.suspended

EntrySeen(v, p) ==
    v.of = p => /\ v.version \in Nat /\ v.era \in Nat /\ v.era <= era[p]
                /\ v.era = era[p] =>
                     /\ v.version <= entry[p].version
                     /\ v.version = entry[p].version => v.sees = entry[p].decision

ViewsCurrent ==
    \A a \in Admins : view[a] # NoView =>
        SwitchSeen(view[a]) /\ \A p \in Phones : EntrySeen(view[a], p)

SmsInv == SmsTypes /\ PermitsStored /\ BudgetsHold /\ Unlisted /\ ViewsCurrent

\* No more permits count, in any window and for any phone.
LEMMA FewerPermits ==
    ASSUME BudgetsHold, UNCHANGED phone,
           \A D \in SUBSET Deliveries : \A span \in {HOUR, DAY} : Within(D, span)' \subseteq Within(D, span)
    PROVE  BudgetsHold'
<1>1. ASSUME NEW D \in SUBSET Deliveries, NEW span \in {HOUR, DAY}, NEW n \in Nat,
             Cardinality(Within(D, span)) <= n
      PROVE  Cardinality(Within(D, span)') <= n
  <2>1. IsFiniteSet(Within(D, span))
    <3>1. Within(D, span) \subseteq Deliveries
      BY Zenon DEF Within
    <3> QED BY <3>1, BudgetAssumption, FS_Subset, Zenon
  <2>2. IsFiniteSet(Within(D, span)') /\ Cardinality(Within(D, span)') <= Cardinality(Within(D, span))
    BY <1>1, <2>1, FS_Subset, Zenon
  <2>3. Cardinality(Within(D, span)) \in Nat /\ Cardinality(Within(D, span)') \in Nat
    BY <2>1, <2>2, FS_CardinalityType, Zenon
  <2> QED BY <1>1, <2>2, <2>3
<1>2. ASSUME NEW p \in Phones
      PROVE  /\ Cardinality(Within({d \in Deliveries : phone[d] = p}, HOUR)') <= hourly_per_phone
             /\ Cardinality(Within({d \in Deliveries : phone[d] = p}, DAY)') <= daily_per_phone
  <2>1. PICK D \in SUBSET Deliveries : D = {d \in Deliveries : phone[d] = p}
    BY Zenon
  <2>2. /\ Cardinality(Within(D, HOUR)) <= hourly_per_phone
        /\ Cardinality(Within(D, DAY)) <= daily_per_phone
    BY <2>1, Zenon DEF BudgetsHold
  <2>3. /\ Cardinality(Within(D, HOUR)') <= hourly_per_phone
        /\ Cardinality(Within(D, DAY)') <= daily_per_phone
    BY <1>1, <2>2, BudgetAssumption, Zenon
  <2>4. {d \in Deliveries : phone[d] = p}' = D
    BY <2>1, Zenon
  <2> QED BY <2>3, <2>4, Zenon DEF Within
<1>3. /\ Cardinality(Within(Deliveries, HOUR)') <= hourly_global
      /\ Cardinality(Within(Deliveries, DAY)') <= daily_global
  <2>1. Deliveries \in SUBSET Deliveries
    BY Zenon
  <2> QED BY <1>1, <2>1, BudgetAssumption, Zenon DEF BudgetsHold
<1> QED BY <1>2, <1>3, Zenon DEF BudgetsHold, Within

\* A permit is given where the stored rows leave room for it.
LEMMA OneMorePermit ==
    ASSUME SmsTypes, PermitsStored, NEW d \in Deliveries, age' = [age EXCEPT ![d] = 0],
           NEW D \in SUBSET Deliveries, NEW span \in {HOUR, DAY}, NEW n \in Nat,
           Cardinality(Within({e \in stored : e \in D}, span)) < n
    PROVE  Cardinality(Within(D, span)') <= n
<1>1. span \in Nat /\ span <= RETAIN
  BY BudgetAssumption
<1>2. Within(D, span) \subseteq Within({e \in stored : e \in D}, span)
  <2>1. ASSUME NEW e \in Within(D, span) PROVE e \in stored
    <3>1. e \in Deliveries /\ 0 <= age[e] /\ age[e] < span /\ age[e] \in -1..RETAIN
      BY <2>1 DEF Within, SmsTypes
    <3>2. age[e] < RETAIN
      BY <1>1, <3>1, BudgetAssumption
    <3> QED BY <3>1, <3>2, Zenon DEF PermitsStored
  <2> QED BY <2>1, Zenon DEF Within
<1>3. IsFiniteSet(Within({e \in stored : e \in D}, span))
  <2>1. Within({e \in stored : e \in D}, span) \subseteq Deliveries
    BY Zenon DEF Within, SmsTypes
  <2> QED BY <2>1, BudgetAssumption, FS_Subset, Zenon
<1>4. /\ IsFiniteSet(Within(D, span))
      /\ Cardinality(Within(D, span)) <= Cardinality(Within({e \in stored : e \in D}, span))
  BY <1>2, <1>3, FS_Subset, Zenon
<1>5. Cardinality(Within(D, span)) \in Nat /\ Cardinality(Within({e \in stored : e \in D}, span)) \in Nat
  BY <1>3, <1>4, FS_CardinalityType, Zenon
<1>6. Within(D, span)' \subseteq Within(D, span) \cup {d}
  <2>1. ASSUME NEW e \in D, e # d PROVE age'[e] = age[e]
    BY <2>1, Zenon DEF SmsTypes
  <2> QED BY <2>1, Zenon DEF Within
<1>7. /\ IsFiniteSet(Within(D, span) \cup {d})
      /\ Cardinality(Within(D, span) \cup {d}) \in {Cardinality(Within(D, span)), Cardinality(Within(D, span)) + 1}
  BY <1>4, FS_AddElement, Zenon
<1>8. /\ Cardinality(Within(D, span)') <= Cardinality(Within(D, span) \cup {d})
      /\ Cardinality(Within(D, span)') \in Nat
  BY <1>6, <1>7, FS_Subset, FS_CardinalityType, Zenon
<1> QED BY <1>4, <1>5, <1>7, <1>8

LEMMA PermitStep == ASSUME SmsInv, NEW d \in Deliveries, reserve(d) PROVE SmsInv'
<1> USE DEF SmsInv
<1>1. /\ InBudget(d) /\ age[d] = -1 /\ age' = [age EXCEPT ![d] = 0] /\ stored' = (stored \cup {d}) \ Forgotten
      /\ UNCHANGED <<phone, control, entry, seen, fresh, era, role, view>>
  BY Zenon DEF reserve, reserve_tx, policy, admin
<1>2. 0 \in -1..RETAIN
  BY BudgetAssumption
<1>3. age' \in [Deliveries -> -1..RETAIN] /\ age'[d] = 0 /\ \A e \in Deliveries : e # d => age'[e] = age[e]
  BY <1>1, <1>2, Zenon DEF SmsTypes
<1>4. SmsTypes'
  BY <1>1, <1>3, Zenon DEF SmsTypes
<1>5. PermitsStored'
  <2> SUFFICES ASSUME NEW e \in Deliveries, 0 <= age'[e], age'[e] < RETAIN PROVE e \in stored'
    BY Zenon DEF PermitsStored
  <2>1. CASE e = d
    <3>1. ~(age[d] >= RETAIN)
      BY <1>1, BudgetAssumption
    <3> QED BY <1>1, <2>1, <3>1, Zenon DEF Forgotten
  <2>2. CASE e # d
    <3>1. e \in stored /\ age[e] \in -1..RETAIN /\ age[e] < RETAIN
      BY <1>3, <2>2 DEF PermitsStored, SmsTypes
    <3>2. ~(age[e] >= RETAIN)
      BY <3>1, BudgetAssumption
    <3> QED BY <1>1, <3>1, <3>2, Zenon DEF Forgotten
  <2> QED BY <2>1, <2>2, Zenon
<1>6. /\ Cardinality(Within(Deliveries, HOUR)') <= hourly_global
      /\ Cardinality(Within(Deliveries, DAY)') <= daily_global
  <2>1. {e \in stored : e \in Deliveries} = stored /\ Deliveries \in SUBSET Deliveries
    BY Zenon DEF SmsTypes
  <2> QED BY <1>1, <2>1, OneMorePermit, BudgetAssumption, Zenon DEF InBudget
<1>7. ASSUME NEW p \in Phones
      PROVE  /\ Cardinality(Within({e \in Deliveries : phone[e] = p}, HOUR)') <= hourly_per_phone
             /\ Cardinality(Within({e \in Deliveries : phone[e] = p}, DAY)') <= daily_per_phone
  <2>1. PICK D \in SUBSET Deliveries : D = {e \in Deliveries : phone[e] = p}
    BY Zenon
  <2>2. {e \in Deliveries : phone[e] = p}' = D
    BY <1>1, <2>1, Zenon
  <2>3. CASE phone[d] = p
    <3>1. {e \in stored : e \in D} = OfPhone(d)
      BY <2>1, <2>3, Zenon DEF OfPhone, SmsTypes
    <3>2. /\ Cardinality(Within({e \in stored : e \in D}, HOUR)) < hourly_per_phone
          /\ Cardinality(Within({e \in stored : e \in D}, DAY)) < daily_per_phone
      BY <1>1, <3>1, Zenon DEF InBudget
    <3>3. /\ Cardinality(Within(D, HOUR)') <= hourly_per_phone
          /\ Cardinality(Within(D, DAY)') <= daily_per_phone
      BY <1>1, <3>2, OneMorePermit, BudgetAssumption, Zenon
    <3> QED BY <2>2, <3>3, Zenon DEF Within
  <2>4. CASE phone[d] # p
    <3>1. Within(D, HOUR)' = Within(D, HOUR) /\ Within(D, DAY)' = Within(D, DAY)
      BY <1>3, <2>1, <2>4, Zenon DEF Within
    <3>2. /\ Cardinality(Within(D, HOUR)) <= hourly_per_phone
          /\ Cardinality(Within(D, DAY)) <= daily_per_phone
      BY <2>1, Zenon DEF BudgetsHold
    <3> QED BY <2>2, <3>1, <3>2, Zenon DEF Within
  <2> QED BY <2>3, <2>4, Zenon
<1>8. BudgetsHold'
  BY <1>6, <1>7, Zenon DEF BudgetsHold, Within
<1>9. Unlisted' /\ ViewsCurrent'
  BY <1>1, Zenon DEF Unlisted, ViewsCurrent, SwitchSeen, EntrySeen
<1> QED BY <1>4, <1>5, <1>8, <1>9, Zenon

\* Permits grow older, or their rows are deleted once they are of no use.
LEMMA PermitsAge == ASSUME SmsInv, permits_age \/ purge_attempts PROVE SmsInv'
<1> USE DEF SmsInv
<1>1. UNCHANGED <<phone, control, entry, seen, fresh, era, role, view>>
  BY Zenon DEF permits_age, purge_attempts, policy, admin
<1>2. ASSUME NEW d \in Deliveries
      PROVE  /\ age[d] \in -1..RETAIN /\ age'[d] \in -1..RETAIN
             /\ 0 <= age'[d] => 0 <= age[d] /\ age[d] <= age'[d]
             /\ 0 <= age'[d] /\ age'[d] < RETAIN /\ d \in stored => d \in stored'
  <2>1. age[d] \in -1..RETAIN
    BY Zenon DEF SmsTypes
  <2>2. CASE permits_age
    <3>1. age'[d] = IF age[d] >= 0 /\ age[d] < RETAIN THEN age[d] + 1 ELSE age[d]
      BY <2>2, Zenon DEF permits_age
    <3>2. stored' = stored
      BY <2>2, Zenon DEF permits_age
    <3> QED BY <2>1, <3>1, <3>2, BudgetAssumption
  <2>3. CASE purge_attempts
    <3>1. age' = age /\ stored' = stored \ Forgotten
      BY <2>3, Zenon DEF purge_attempts
    <3>2. age[d] < RETAIN => d \notin Forgotten
      BY <2>1, BudgetAssumption DEF Forgotten
    <3> QED BY <2>1, <3>1, <3>2
  <2> QED BY <2>2, <2>3, Zenon
<1>3. age' \in [Deliveries -> -1..RETAIN] /\ stored' \subseteq Deliveries
  <2>1. age' = [d \in Deliveries |-> age'[d]]
    BY Zenon DEF permits_age, purge_attempts, SmsTypes
  <2>2. stored' \subseteq stored
    BY Zenon DEF permits_age, purge_attempts
  <2> QED BY <1>2, <2>1, <2>2, Zenon DEF SmsTypes
<1>4. SmsTypes'
  BY <1>1, <1>3, Zenon DEF SmsTypes
<1>5. PermitsStored'
  <2> SUFFICES ASSUME NEW d \in Deliveries, 0 <= age'[d], age'[d] < RETAIN PROVE d \in stored'
    BY Zenon DEF PermitsStored
  <2>1. 0 <= age[d] /\ age[d] < RETAIN
    BY <1>2, BudgetAssumption
  <2> QED BY <1>2, <2>1, Zenon DEF PermitsStored
<1>6. ASSUME NEW D \in SUBSET Deliveries, NEW span \in {HOUR, DAY}
      PROVE  Within(D, span)' \subseteq Within(D, span)
  <2>1. span \in Nat
    BY BudgetAssumption
  <2>2. ASSUME NEW d \in Deliveries, age'[d] >= 0, age'[d] < span PROVE age[d] >= 0 /\ age[d] < span
    BY <1>2, <2>1, <2>2
  <2> QED BY <2>2, Zenon DEF Within
<1>7. BudgetsHold'
  BY <1>1, <1>6, FewerPermits, Zenon
<1>8. Unlisted' /\ ViewsCurrent'
  BY <1>1, Zenon DEF Unlisted, ViewsCurrent, SwitchSeen, EntrySeen
<1> QED BY <1>4, <1>5, <1>7, <1>8, Zenon

\* What a decision, an import, an expiry or a deletion does to an entry and to
\* the switch: a version never names a second state.
EntryMoves(p) ==
    /\ era'[p] \in Nat /\ entry'[p].version \in Nat
    /\ \/ /\ era'[p] = era[p] /\ entry'[p].version = entry[p].version
          /\ entry'[p].decision = entry[p].decision
       \/ era'[p] = era[p] /\ entry'[p].version > entry[p].version
       \/ era'[p] > era[p]

SwitchMoves ==
    control'.version \in Nat /\ (control' = control \/ control'.version > control.version)

LEMMA ViewsMove ==
    ASSUME SmsTypes, ViewsCurrent, SwitchMoves, \A p \in Phones : EntryMoves(p),
           \A a \in Admins : view'[a] = view[a] \/ view'[a] = NoView
    PROVE  ViewsCurrent'
<1> SUFFICES ASSUME NEW a \in Admins, view'[a] # NoView
             PROVE  SwitchSeen(view[a])' /\ \A p \in Phones : EntrySeen(view[a], p)'
  BY Zenon DEF ViewsCurrent
<1>1. PICK v : v = view[a]
  BY Zenon
<1>2. v = view'[a] /\ SwitchSeen(v) /\ \A p \in Phones : EntrySeen(v, p)
  BY <1>1, Zenon DEF ViewsCurrent
<1>3. SwitchSeen(v)'
  BY <1>2 DEF SwitchSeen, SwitchMoves, SmsTypes
<1>4. ASSUME NEW p \in Phones PROVE EntrySeen(v, p)'
  <2>1. EntrySeen(v, p) /\ EntryMoves(p) /\ era[p] \in Nat /\ entry[p].version \in Nat
    BY <1>2, Zenon DEF SmsTypes
  <2> QED BY <2>1 DEF EntrySeen, EntryMoves
<1> QED BY <1>2, <1>3, <1>4, Zenon DEF SwitchSeen, EntrySeen

\* A step that gives and forgets no permit.
LEMMA PolicyStep ==
    ASSUME SmsInv, UNCHANGED permits, ViewsCurrent', Unlisted',
           control'.version \in Nat, entry' = [p \in Phones |-> entry'[p]],
           \A p \in Phones : entry'[p].version \in Nat, era' \in [Phones -> Nat],
           view' = [a \in Admins |-> view'[a]]
    PROVE  SmsInv'
<1>1. SmsTypes'
  BY Zenon DEF SmsInv, SmsTypes, permits
<1>2. PermitsStored' /\ BudgetsHold'
  BY Zenon DEF SmsInv, PermitsStored, BudgetsHold, Within, permits
<1> QED BY <1>1, <1>2, Zenon DEF SmsInv

\* A step that changes nothing a view may have read.
LEMMA SameViews ==
    ASSUME SmsInv, UNCHANGED permits, UNCHANGED control, era' = era,
           view' = [a \in Admins |-> view'[a]],
           \A a \in Admins : view'[a] = view[a] \/ view'[a] = NoView,
           entry' = [p \in Phones |-> entry'[p]],
           \A p \in Phones : /\ entry'[p].version = entry[p].version
                             /\ entry'[p].decision = entry[p].decision
                             /\ entry[p].row => entry'[p].row
    PROVE  SmsInv'
<1> USE DEF SmsInv
<1>1. SwitchMoves
  BY Zenon DEF SwitchMoves, SmsTypes
<1>2. \A p \in Phones : EntryMoves(p)
  BY Zenon DEF EntryMoves, SmsTypes
<1>3. ViewsCurrent'
  BY <1>1, <1>2, ViewsMove, Zenon
<1>4. Unlisted'
  BY Zenon DEF Unlisted
<1> QED BY <1>3, <1>4, PolicyStep, Zenon DEF SmsTypes

LEMMA LookStep ==
    ASSUME SmsInv, NEW a \in Admins, NEW v, look(a, v),
           SwitchSeen(v), \A p \in Phones : EntrySeen(v, p)
    PROVE  SmsInv'
<1> USE DEF SmsInv
<1>1. view' = [view EXCEPT ![a] = v] /\ UNCHANGED <<age, stored, phone, control, entry, era>>
  BY Zenon DEF look, permits, policy
<1>2. /\ view'[a] = v /\ view' = [b \in Admins |-> view'[b]]
      /\ \A b \in Admins : b # a => view'[b] = view[b]
  BY <1>1, Zenon DEF SmsTypes
<1>3. ViewsCurrent'
  <2> SUFFICES ASSUME NEW b \in Admins, view'[b] # NoView
               PROVE  SwitchSeen(view[b])' /\ \A p \in Phones : EntrySeen(view[b], p)'
    BY Zenon DEF ViewsCurrent
  <2>1. PICK w : w = view'[b]
    BY Zenon
  <2>2. SwitchSeen(w) /\ \A p \in Phones : EntrySeen(w, p)
    BY <1>2, <2>1, Zenon DEF ViewsCurrent
  <2> QED BY <1>1, <2>1, <2>2, Zenon DEF SwitchSeen, EntrySeen
<1>4. Unlisted'
  BY <1>1, Zenon DEF Unlisted
<1> QED BY <1>1, <1>2, <1>3, <1>4, PolicyStep, Zenon DEF SmsTypes, permits

LEMMA Closed ==
    ASSUME SmsTypes, NEW a \in Admins, close(a)
    PROVE  /\ view'[a] = NoView /\ view' = [b \in Admins |-> view'[b]]
           /\ \A b \in Admins : b # a => view'[b] = view[b]
BY Zenon DEF close, SmsTypes

LEMMA SuspendStep ==
    ASSUME SmsInv, NEW a \in Admins, set_suspended(a)
    PROVE  SmsInv' /\ \A b \in Admins : DecisionIsCurrent(b)
<1> USE DEF SmsInv
<1>1. /\ view[a] # NoView /\ view[a].of = "sms" /\ close(a)
      /\ UNCHANGED <<age, stored, phone, entry, era, role>>
  BY Zenon DEF set_suspended, permits, policy
<1>2. /\ view'[a] = NoView /\ view' = [b \in Admins |-> view'[b]]
      /\ \A b \in Admins : b # a => view'[b] = view[b]
  BY <1>1, Closed, Zenon
<1>3. \/ UNCHANGED control
      \/ /\ role[a] = "superadmin" /\ view[a].version = control.version
         /\ control' = [suspended |-> ~view[a].sees, version |-> control.version + 1]
  BY Zenon DEF set_suspended, SameVersion
<1>4. SwitchMoves
  BY <1>3 DEF SwitchMoves, SmsTypes
<1>5. \A p \in Phones : EntryMoves(p)
  BY <1>1, Zenon DEF EntryMoves, SmsTypes
<1>6. ViewsCurrent'
  BY <1>2, <1>4, <1>5, ViewsMove, Zenon
<1>7. Unlisted'
  BY <1>1, Zenon DEF Unlisted
<1>8. SmsInv'
  BY <1>1, <1>2, <1>4, <1>6, <1>7, PolicyStep, Zenon DEF SmsTypes, permits, SwitchMoves
<1>9. control' # control => view[a].sees = control.suspended /\ role[a] = "superadmin"
  <2>1. SwitchSeen(view[a])
    BY <1>1, Zenon DEF ViewsCurrent
  <2> QED BY <1>1, <1>3, <2>1, Zenon DEF SwitchSeen
<1>10. ASSUME NEW b \in Admins PROVE DecisionIsCurrent(b)
  BY <1>1, <1>2, <1>9, Zenon DEF DecisionIsCurrent
<1> QED BY <1>8, <1>10, Zenon

LEMMA ChangeStep ==
    ASSUME SmsInv, NEW a \in Admins, change(a)
    PROVE  SmsInv' /\ \A b \in Admins : DecisionIsCurrent(b)
<1> USE DEF SmsInv
<1>1. PICK p \in Phones : p = view[a].of
  BY Zenon DEF change
<1>2. /\ view[a] # NoView /\ close(a) /\ UNCHANGED <<age, stored, phone, control, era, role>>
  BY Zenon DEF change, permits
<1>3. /\ view'[a] = NoView /\ view' = [b \in Admins |-> view'[b]]
      /\ \A b \in Admins : b # a => view'[b] = view[b]
  BY <1>2, Closed, Zenon
<1>4. CASE UNCHANGED entry
  <2>1. SmsInv'
    BY <1>2, <1>3, <1>4, SameViews, Zenon DEF SmsTypes, permits
  <2> QED BY <1>2, <1>3, <1>4, <2>1, Zenon DEF DecisionIsCurrent
<1>5. ASSUME NEW decision \in {"automatic", "block", "allow"}, change_on(a, decision)
      PROVE  SmsInv' /\ \A b \in Admins : DecisionIsCurrent(b)
  <2>1. resolve_target(p).version = entry[p].version
    BY DEF resolve_target, NoEntry, Unlisted
  <2>2. /\ authorized(a, decision) /\ view[a].version = entry[p].version
        /\ entry' = [entry EXCEPT ![p] =
              [decision |-> decision, version |-> entry[p].version + 1,
               live |-> decision # "automatic", row |-> TRUE]]
    BY <1>1, <1>5, <2>1, Zenon DEF change_on, SameVersion
  <2>3. /\ entry' = [q \in Phones |-> entry'[q]] /\ \A q \in Phones : q # p => entry'[q] = entry[q]
        /\ entry'[p] = [decision |-> decision, version |-> entry[p].version + 1,
                        live |-> decision # "automatic", row |-> TRUE]
    BY <2>2, Zenon DEF SmsTypes
  <2>4. entry'[p].version = entry[p].version + 1 /\ entry'[p].row
    BY <2>3
  <2>5. entry[p].version \in Nat /\ entry'[p].version \in Nat /\ entry'[p].version > entry[p].version
    BY <2>4 DEF SmsTypes
  <2>6. ASSUME NEW q \in Phones PROVE EntryMoves(q)
    <3>1. CASE q = p
      BY <1>2, <2>5, <3>1, Zenon DEF EntryMoves, SmsTypes
    <3>2. CASE q # p
      BY <1>2, <2>3, <3>2, Zenon DEF EntryMoves, SmsTypes
    <3> QED BY <3>1, <3>2, Zenon
  <2>7. SwitchMoves
    BY <1>2, Zenon DEF SwitchMoves, SmsTypes
  <2>8. ViewsCurrent'
    BY <1>3, <2>6, <2>7, ViewsMove, Zenon
  <2>9. Unlisted'
    BY <2>3, <2>4, Zenon DEF Unlisted
  <2>10. SmsInv'
    BY <1>2, <1>3, <2>3, <2>6, <2>7, <2>8, <2>9, PolicyStep, Zenon
       DEF SmsTypes, permits, EntryMoves, SwitchMoves
  <2>11. view[a].era = era[p] => view[a].sees = entry[p].decision
    <3>1. EntrySeen(view[a], p)
      BY <1>2, Zenon DEF ViewsCurrent
    <3> QED BY <1>1, <2>2, <3>1, Zenon DEF EntrySeen
  <2>12. role[a] # "user"
    BY <2>2 DEF authorized
  <2>13. ASSUME NEW b \in Admins PROVE DecisionIsCurrent(b)
    BY <1>2, <1>3, <2>3, <2>11, <2>12, Zenon DEF DecisionIsCurrent
  <2> QED BY <2>10, <2>13, Zenon
<1> QED BY <1>4, <1>5, Zenon DEF change

LEMMA PolicyMoves ==
    ASSUME SmsInv, synchronize \/ (\E p \in Phones : decision_expires(p) \/ purge_policy(p))
    PROVE  SmsInv' /\ UNCHANGED <<view, control>>
<1> USE DEF SmsInv
<1>1. UNCHANGED <<age, stored, phone, control, view>>
  BY Zenon DEF synchronize, import, decision_expires, purge_policy, permits, admin
<1>2. CASE synchronize
  <2>1. PICK P \in SUBSET Phones :
           entry' = [p \in Phones |-> IF p \in P THEN [entry[p] EXCEPT !.row = TRUE] ELSE entry[p]]
    BY <1>2, Zenon DEF synchronize, import, fetch, parse
  <2>2. era' = era
    BY <1>2, Zenon DEF synchronize, import
  <2>3. ASSUME NEW p \in Phones
        PROVE  /\ entry'[p].version = entry[p].version /\ entry'[p].decision = entry[p].decision
               /\ entry[p].row => entry'[p].row
    BY <2>1, <2>3
  <2>4. entry' = [p \in Phones |-> entry'[p]]
    BY <2>1, Zenon
  <2> QED BY <1>1, <2>2, <2>3, <2>4, SameViews, Zenon DEF SmsTypes, permits
<1>3. ASSUME NEW p \in Phones, decision_expires(p) PROVE SmsInv'
  <2>1. entry' = [entry EXCEPT ![p].live = FALSE] /\ era' = era
    BY <1>3, Zenon DEF decision_expires
  <2>2. entry' = [entry EXCEPT ![p] = [entry[p] EXCEPT !.live = FALSE]]
    BY <2>1
  <2>3. /\ entry' = [q \in Phones |-> entry'[q]] /\ \A q \in Phones : q # p => entry'[q] = entry[q]
        /\ entry'[p] = [entry[p] EXCEPT !.live = FALSE]
    BY <2>2, Zenon DEF SmsTypes
  <2>4. ASSUME NEW q \in Phones
        PROVE  /\ entry'[q].version = entry[q].version /\ entry'[q].decision = entry[q].decision
               /\ entry[q].row => entry'[q].row
    <3>1. CASE q = p
      <4>1. PICK x : x = entry[p]
        BY Zenon
      <4>2. entry'[p] = [x EXCEPT !.live = FALSE]
        BY <2>3, <4>1, Zenon
      <4>3. entry'[p].version = x.version /\ entry'[p].decision = x.decision /\ entry'[p].row = x.row
        BY <4>2
      <4> QED BY <3>1, <4>1, <4>3, Zenon
    <3>2. CASE q # p
      BY <2>3, <3>2, Zenon
    <3> QED BY <3>1, <3>2, Zenon
  <2> QED BY <1>1, <2>1, <2>3, <2>4, SameViews, Zenon DEF SmsTypes, permits
<1>4. ASSUME NEW p \in Phones, purge_policy(p) PROVE SmsInv'
  <2>1. entry' = [entry EXCEPT ![p] = NoEntry] /\ era' = [era EXCEPT ![p] = era[p] + 1]
    BY <1>4, Zenon DEF purge_policy
  <2>2. PICK n \in Nat : n = era[p] + 1 /\ n > era[p]
    BY DEF SmsTypes
  <2>3. /\ entry' = [q \in Phones |-> entry'[q]] /\ entry'[p] = NoEntry
        /\ era' \in [Phones -> Nat] /\ era'[p] = n
        /\ \A q \in Phones : q # p => entry'[q] = entry[q] /\ era'[q] = era[q]
    BY <2>1, <2>2, Zenon DEF SmsTypes
  <2>4. NoEntry.version = 0 /\ 0 \in Nat
    BY DEF NoEntry
  <2>5. ASSUME NEW q \in Phones PROVE EntryMoves(q)
    <3>1. CASE q = p
      BY <2>2, <2>3, <2>4, <3>1, Zenon DEF EntryMoves
    <3>2. CASE q # p
      BY <2>3, <3>2, Zenon DEF EntryMoves, SmsTypes
    <3> QED BY <3>1, <3>2, Zenon
  <2>6. SwitchMoves
    BY <1>1, Zenon DEF SwitchMoves, SmsTypes
  <2>7. ViewsCurrent'
    BY <1>1, <2>5, <2>6, ViewsMove, Zenon
  <2>8. Unlisted'
    BY <2>3, <2>4, Zenon DEF Unlisted
  <2> QED BY <1>1, <2>3, <2>5, <2>6, <2>7, <2>8, PolicyStep, Zenon
             DEF SmsTypes, permits, EntryMoves, SwitchMoves
<1> QED BY <1>1, <1>2, <1>3, <1>4, Zenon

LEMMA SmsStep ==
    ASSUME SmsInv, [SmsNext]_smsVars
    PROVE  SmsInv' /\ \A a \in Admins : DecisionIsCurrent(a)
<1>1. ASSUME UNCHANGED view PROVE \A a \in Admins : DecisionIsCurrent(a)
  BY <1>1, Zenon DEF DecisionIsCurrent
<1>2. ASSUME NEW d \in Deliveries, reserve(d) PROVE SmsInv' /\ UNCHANGED view
  BY <1>2, PermitStep, Zenon DEF reserve, reserve_tx, admin
<1>3. CASE purge_attempts \/ permits_age
  <2>1. UNCHANGED view
    BY <1>3, Zenon DEF purge_attempts, permits_age, admin
  <2> QED BY <1>1, <1>3, <2>1, PermitsAge, Zenon
<1>4. ASSUME NEW a \in Admins, snapshot(a)
      PROVE  SmsInv' /\ \A b \in Admins : DecisionIsCurrent(b)
  <2>1. PICK v : v = [of |-> "sms", version |-> control.version, sees |-> control.suspended, era |-> 0]
    BY Zenon
  <2>2. v.of = "sms" /\ v.version = control.version /\ v.sees = control.suspended
    BY <2>1
  <2>3. look(a, v) /\ view[a] = NoView
    BY <1>4, <2>1, Zenon DEF snapshot
  <2>4. SwitchSeen(v)
    BY <2>2 DEF SwitchSeen, SmsInv, SmsTypes
  <2>5. \A p \in Phones : EntrySeen(v, p)
    BY <2>2, BudgetAssumption, Zenon DEF EntrySeen
  <2>6. SmsInv'
    BY <2>3, <2>4, <2>5, LookStep, Zenon
  <2>7. UNCHANGED <<control, entry>>
    BY <2>3, Zenon DEF look, policy
  <2> QED BY <2>6, <2>7, Zenon DEF DecisionIsCurrent
<1>5. ASSUME NEW a \in Admins, NEW p \in Phones, lookup(a, p)
      PROVE  SmsInv' /\ \A b \in Admins : DecisionIsCurrent(b)
  <2>1. PICK v : v = [of |-> p, version |-> entry[p].version, sees |-> entry[p].decision, era |-> era[p]]
    BY Zenon
  <2>2. v.of = p /\ v.version = entry[p].version /\ v.sees = entry[p].decision /\ v.era = era[p]
    BY <2>1
  <2>3. look(a, v)
    BY <1>5, <2>1, Zenon DEF lookup
  <2>4. SwitchSeen(v)
    BY <2>2, BudgetAssumption, Zenon DEF SwitchSeen
  <2>5. ASSUME NEW q \in Phones PROVE EntrySeen(v, q)
    BY <2>2 DEF EntrySeen, SmsInv, SmsTypes
  <2>6. SmsInv'
    BY <2>3, <2>4, <2>5, LookStep, Zenon
  <2>7. UNCHANGED <<control, entry>>
    BY <2>3, Zenon DEF look, policy
  <2> QED BY <2>6, <2>7, Zenon DEF DecisionIsCurrent
<1>6. CASE synchronize \/ (\E p \in Phones : decision_expires(p) \/ purge_policy(p))
  BY <1>1, <1>6, PolicyMoves, Zenon
<1>7. ASSUME UNCHANGED <<age, stored, phone, control, entry, era, view>> PROVE SmsInv'
  BY <1>7, SameViews, Zenon DEF SmsInv, SmsTypes, permits
<1>8. ASSUME NEW o \in Sources \X Phones, observation_expires(o) PROVE SmsInv' /\ UNCHANGED view
  BY <1>7, <1>8, Zenon DEF observation_expires, permits, admin
<1>9. ASSUME NEW s \in Sources, import_expires(s) PROVE SmsInv' /\ UNCHANGED view
  BY <1>7, <1>9, Zenon DEF import_expires, permits, admin
<1>10. ASSUME NEW a \in Admins, demote(a) PROVE SmsInv' /\ UNCHANGED view
  BY <1>7, <1>10, Zenon DEF demote, permits, policy
<1>11. CASE UNCHANGED smsVars
  BY <1>1, <1>7, <1>11, Zenon DEF smsVars, permits, policy, admin
<1> QED BY <1>1, <1>2, <1>3, <1>4, <1>5, <1>6, <1>8, <1>9, <1>10, <1>11, SuspendStep, ChangeStep, Zenon
        DEF SmsNext

\* In any hour and day the permits given stay within the four budgets whatever
\* was deleted meanwhile, and a decision on a number or on the suspension
\* applies to what its author had read (sms_safety/pg.rs, reserve and
\* set_suspended; phone_blocklist/pg.rs, change_on): for any phones,
\* deliveries, administrators, budgets and windows.
THEOREM PermitsAreSound == SmsSpec => SmsPermitsHold
<1>1. SmsInit => SmsInv
  <2> SUFFICES ASSUME SmsInit PROVE SmsInv
    BY Zenon
  <2>1. SmsTypes /\ PermitsStored /\ Unlisted
    BY BudgetAssumption DEF SmsInit, SmsTypes, PermitsStored, Unlisted, NoEntry
  <2>2. ViewsCurrent
    BY Zenon DEF SmsInit, ViewsCurrent
  <2>3. ASSUME NEW D \in SUBSET Deliveries, NEW span \in {HOUR, DAY} PROVE Cardinality(Within(D, span)) = 0
    <3>1. \A d \in D : ~(age[d] >= 0)
      BY DEF SmsInit
    <3>2. Within(D, span) = {}
      BY <3>1, Zenon DEF Within
    <3> QED BY <3>2, FS_EmptySet, Zenon
  <2>4. BudgetsHold
    <3>1. \A D \in SUBSET Deliveries : \A span \in {HOUR, DAY} : \A n \in Nat :
             Cardinality(Within(D, span)) <= n
      BY <2>3
    <3> QED BY <3>1, BudgetAssumption, Zenon DEF BudgetsHold
  <2> QED BY <2>1, <2>2, <2>4, Zenon DEF SmsInv
<1>2. SmsInv /\ [SmsNext]_smsVars => SmsInv'
  BY SmsStep, Zenon
<1>3. SmsInv /\ [SmsNext]_smsVars => [BudgetsHold' /\ \A a \in Admins : DecisionIsCurrent(a)]_smsVars
  BY SmsStep, Zenon DEF SmsInv
<1> QED BY <1>1, <1>2, <1>3, PTL DEF SmsSpec, SmsPermitsHold
=============================================================================
