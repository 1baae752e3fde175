-------------------------------- MODULE Otp --------------------------------
(***************************************************************************)
(* One-time codes sent by SMS to ONE phone: the request a client posts,    *)
(* the outbox handler that turns it into at most one provider call, the    *)
(* delivery ledger otp_verification, the provider's callbacks and the      *)
(* redemption of a code.  Every ledger query filters on the phone hash and *)
(* every ledger transaction first takes the phone's advisory lock, so each *)
(* of them is one step and phones do not interact here.                    *)
(*                                                                         *)
(* A request id is also the idempotency key of its ledger row, so requests *)
(* and rows share the set Requests; clients do not reuse an id whose       *)
(* request was purged.  Time is counted in ticks down to 0.  Codes,        *)
(* receipts and languages are abstracted: a row stands for its code, and   *)
(* with one provider call per row its receipt never differs.  Account      *)
(* eligibility, the SMS budget and the phone blocklist only ever refuse,   *)
(* so they are refusals that may or may not happen.                        *)
(***************************************************************************)
EXTENDS Integers, FiniteSets

CONSTANTS Requests,    \* request ids
          Workers,     \* concurrent runs of the outbox handler
          NoRequest,   \* a worker that handles nothing
          TTL,         \* OTP_TTL: lifetime of a request and of a code
          COOLDOWN,    \* OTP_RESEND_COOLDOWN
          SETTLEMENT   \* provider timeout plus grace of a pending delivery

ASSUME OtpAssumption == NoRequest \notin Requests
ASSUME SpanAssumption ==
    /\ TTL \in Nat /\ COOLDOWN \in Nat /\ SETTLEMENT \in Nat
    /\ 0 < COOLDOWN /\ COOLDOWN <= TTL      \* enforced by the configuration
    /\ SETTLEMENT <= TTL

VARIABLES
  payload,   \* the request: "none", "held" (encrypted phone), "erased", "purged"
  earlier,   \* the requests stored before this one
  expires,   \* ticks until the request expires
  resend,    \* ticks until another request of the phone is accepted
  stage,     \* of a worker: "idle", "read", "begun", "answered", "finish"
  job,       \* the request a worker handles
  answer,    \* what the provider call returned to the worker
  status,    \* delivery_status of the row, "none" when there is no row
  used,      \* the rows with used = true
  sent,      \* the rows with sent_at set
  left,      \* ticks until the row's code expires
  older,     \* the rows with a smaller attempt_number
  calls,     \* how often the provider was called for the request
  handed     \* the requests whose SMS the provider really took

requestVars == <<payload, earlier, expires, resend>>
workerVars  == <<stage, job, answer>>
rowVars     == <<status, used, sent, left, older>>
providerVars == <<calls, handed>>
vars == <<requestVars, workerVars, rowVars, providerVars>>

Statuses == {"pending", "unknown", "accepted", "sent", "failed"}

TypeOK ==
  /\ payload \in [Requests -> {"none", "held", "erased", "purged"}]
  /\ earlier \in [Requests -> SUBSET Requests] /\ older \in [Requests -> SUBSET Requests]
  /\ expires \in [Requests -> 0 .. TTL] /\ left \in [Requests -> 0 .. TTL]
  /\ resend \in [Requests -> 0 .. COOLDOWN]
  /\ stage \in [Workers -> {"idle", "read", "begun", "answered", "finish"}]
  /\ job \in [Workers -> Requests \cup {NoRequest}]
  /\ answer \in [Workers -> {"none", "accepted", "failed", "unknown"}]
  /\ status \in [Requests -> Statuses \cup {"none"}]
  /\ used \in SUBSET Requests /\ sent \in SUBSET Requests
  /\ calls \in [Requests -> Nat] /\ handed \in SUBSET Requests

Init ==
  /\ payload = [r \in Requests |-> "none"] /\ earlier = [r \in Requests |-> {}]
  /\ expires = [r \in Requests |-> 0] /\ resend = [r \in Requests |-> 0]
  /\ stage = [w \in Workers |-> "idle"] /\ job = [w \in Workers |-> NoRequest]
  /\ answer = [w \in Workers |-> "none"]
  /\ status = [r \in Requests |-> "none"] /\ used = {} /\ sent = {}
  /\ left = [r \in Requests |-> 0] /\ older = [r \in Requests |-> {}]
  /\ calls = [r \in Requests |-> 0] /\ handed = {}
-----------------------------------------------------------------------------
(***************************************************************************)
(* The request.                                                            *)
(***************************************************************************)
Stored(r) == payload[r] \in {"held", "erased"}

(* What purge_expired and the retention query may delete.                  *)
RequestExpired(r) == Stored(r) /\ expires[r] = 0 /\ resend[r] = 0

(* max(resend_at) over the stored requests of the phone.                   *)
CoolingDown == \E q \in Requests : Stored(q) /\ resend[q] > 0

(* enqueue_locked: a new id outside the cooldown is stored with its outbox *)
(* event, and expired requests are purged in the same transaction.  A      *)
(* known id only reads its remaining cooldown.                             *)
enqueue(r) ==
  /\ payload[r] = "none" /\ ~CoolingDown
  /\ payload' = [q \in Requests |-> IF q = r THEN "held"
                                    ELSE IF RequestExpired(q) THEN "purged" ELSE payload[q]]
  /\ earlier' = [earlier EXCEPT ![r] = {q \in Requests : Stored(q)}]
  /\ expires' = [expires EXCEPT ![r] = TTL]
  /\ resend' = [resend EXCEPT ![r] = COOLDOWN]
  /\ UNCHANGED <<workerVars, rowVars, providerVars>>

(* The retention query on mobile_otp_request; a batch is a run of steps.   *)
purge_request(r) ==
  /\ RequestExpired(r)
  /\ payload' = [payload EXCEPT ![r] = "purged"]
  /\ UNCHANGED <<earlier, expires, resend, workerVars, rowVars, providerVars>>
-----------------------------------------------------------------------------
(***************************************************************************)
(* The delivery ledger, one operator per effect on it.                     *)
(***************************************************************************)
Newer(r) == {q \in Requests : status[q] # "none" /\ r \in older[q]}

(* The codes the unique index idx_otp_one_usable_per_phone ranges over.    *)
Usable == {r \in Requests \ used : status[r] \in {"accepted", "sent"}}

(* Mutant: a code is never late.                                           *)
activate_OnlyDelivered(r) ==
  IF r \in used THEN used ELSE used \cup {q \in older[r] : status[q] \in {"accepted", "sent"}}

(* activate: a code that arrives expired, or after a newer one was sent,   *)
(* is spent; otherwise every older unused code is.                         *)
activate(r) ==
  IF r \in used THEN used
  ELSE IF left[r] = 0 \/ Newer(r) \cap sent # {} THEN used \cup {r}
  ELSE used \cup {q \in older[r] : status[q] # "none"}

(* mark_accepted: a row that failed in the meantime, or is gone, is left   *)
(* alone; a callback may have made it 'sent' already.                      *)
mark_accepted(r) ==
  IF status[r] \in {"none", "failed"} THEN UNCHANGED rowVars
  ELSE /\ used' = activate(r)
       /\ status' = [status EXCEPT ![r] = IF @ = "sent" THEN "sent" ELSE "accepted"]
       /\ sent' = sent \cup {r}
       /\ UNCHANGED <<left, older>>

(* mark_outcome: 'failed' or 'unknown' only replaces an unsettled state.   *)
mark_outcome(r, state) ==
  /\ status' = [status EXCEPT ![r] = IF @ \in {"pending", "unknown"} THEN state ELSE @]
  /\ UNCHANGED <<used, sent, left, older>>

(* parse_event: of the provider's events only these two are not ignored.   *)
parse_event == {"sent", "undelivered"}

(* apply_sms_event: the provider's sms_sent or sms_undelivered callback.   *)
apply_sms_event(r, kind) ==
  /\ r \in handed /\ status[r] \notin {"none", "failed"}
  /\ ~(status[r] = "sent" /\ kind = "sent")
  /\ used' = IF kind = "sent" THEN activate(r) ELSE used
  /\ status' = [status EXCEPT ![r] = IF kind = "sent" THEN "sent" ELSE "failed"]
  /\ sent' = IF kind = "sent" THEN sent \cup {r} ELSE sent
  /\ UNCHANGED <<left, older, requestVars, workerVars, providerVars>>

(* handle: a callback with a valid signature, delivered any number of      *)
(* times and in any order.                                                 *)
handle(r) == \E kind \in parse_event : apply_sms_event(r, kind)

(* consume: the phone's owner, who received the SMS of r, redeems its code *)
(* (a blocked phone, or a wrong code, changes nothing).                    *)
consume(r) ==
  /\ r \in handed /\ r \in Usable /\ left[r] > 0
  /\ used' = used \cup {r}
  /\ UNCHANGED <<status, sent, left, older, requestVars, workerVars, providerVars>>

(* The retention query on otp_verification, which deletes the rows that    *)
(* expired first; a batch is a run of steps.                               *)
purge_row(r) ==
  /\ status[r] # "none" /\ left[r] = 0
  /\ \A q \in older[r] : status[q] = "none"
  /\ status' = [status EXCEPT ![r] = "none"]
  /\ used' = used \ {r} /\ sent' = sent \ {r}
  /\ older' = [q \in Requests |-> IF q = r THEN {} ELSE older[q] \ {r}]
  /\ UNCHANGED <<left, requestVars, workerVars, providerVars>>
-----------------------------------------------------------------------------
(***************************************************************************)
(* The outbox handler of a request.  Of the outbox only its promise is     *)
(* used, and only half of it: the event enqueued with a request is handled *)
(* any number of times, by several workers at once after a stale claim, at *)
(* any later moment, and perhaps never (a dead letter).                    *)
(***************************************************************************)
move(w, s) == stage' = [stage EXCEPT ![w] = s]

(* pending: unprocessed, unexpired and the newest request of the phone.    *)
Pending(r) ==
  /\ payload[r] = "held" /\ expires[r] > 0
  /\ \A q \in Requests : Stored(q) => r \notin earlier[q]

(* process: reads the request of the event.                                *)
process(w, r) ==
  /\ stage[w] = "idle" /\ payload[r] # "none"
  /\ job' = [job EXCEPT ![w] = r]
  /\ move(w, IF Pending(r) THEN "read" ELSE "finish")
  /\ UNCHANGED <<answer, requestVars, rowVars, providerVars>>

(* dispatch: the account is not eligible for this request.                 *)
ineligible(w) ==
  /\ stage[w] = "read" /\ move(w, "finish")
  /\ UNCHANGED <<job, answer, requestVars, rowVars, providerVars>>

(* Mutant: a row whose outcome is not known is sent again.                 *)
begin_RetriesUnsettled(w) ==
  LET r == job[w] IN
  /\ stage[w] = "read"
  /\ \/ /\ status[r] \in {"none", "pending"} /\ move(w, "begun")
        /\ status' = [status EXCEPT ![r] = "pending"]
        /\ left' = [left EXCEPT ![r] = TTL]
        /\ older' = [older EXCEPT ![r] = {q \in Requests : status[q] # "none"}]
     \/ /\ status[r] \notin {"none", "pending"} /\ move(w, "finish")
        /\ UNCHANGED <<status, left, older>>
  /\ UNCHANGED <<job, answer, used, sent, requestVars, providerVars>>

(* begin: the unique idempotency key decides which worker sends.  A row    *)
(* left pending past its settlement deadline becomes 'unknown'.            *)
begin(w) ==
  LET r == job[w] IN
  /\ stage[w] = "read"
  /\ \/ /\ status[r] = "none" /\ move(w, "begun")
        /\ status' = [status EXCEPT ![r] = "pending"]
        /\ left' = [left EXCEPT ![r] = TTL]
        /\ older' = [older EXCEPT ![r] = {q \in Requests : status[q] # "none"}]
     \/ /\ status[r] # "none" /\ move(w, "finish")
        /\ status' = [status EXCEPT ![r] =
                        IF @ = "pending" /\ left[r] + SETTLEMENT <= TTL THEN "unknown" ELSE @]
        /\ UNCHANGED <<left, older>>
  /\ UNCHANGED <<job, answer, used, sent, requestVars, providerVars>>

(* deliver_inner: the provider takes the message, rejects it, or gives no  *)
(* answer that can be read whether it took it or not.                      *)
deliver_inner(w) ==
  /\ calls' = [calls EXCEPT ![job[w]] = @ + 1]
  /\ \/ /\ \E a \in {"failed", "unknown"} : answer' = [answer EXCEPT ![w] = a]
        /\ UNCHANGED handed
     \/ /\ \E a \in {"accepted", "unknown"} : answer' = [answer EXCEPT ![w] = a]
        /\ handed' = handed \cup {job[w]}

(* deliver: the permit is refused, or the provider is called.              *)
deliver(w) ==
  /\ stage[w] = "begun" /\ move(w, "answered")
  /\ \/ answer' = [answer EXCEPT ![w] = "failed"] /\ UNCHANGED providerVars
     \/ deliver_inner(w)
  /\ UNCHANGED <<job, requestVars, rowVars>>

(* send_in settles the row by the answer; when that write fails the error  *)
(* is reported as an unknown delivery and the handler still finishes.      *)
settle(w) ==
  /\ stage[w] = "answered" /\ move(w, "finish")
  /\ answer' = [answer EXCEPT ![w] = "none"]
  /\ \/ answer[w] = "accepted" /\ mark_accepted(job[w])
     \/ answer[w] # "accepted" /\ mark_outcome(job[w], answer[w])
     \/ UNCHANGED rowVars
  /\ UNCHANGED <<job, requestVars, providerVars>>

(* send_in: the row first, then the call, then its outcome.                *)
send_in(w) == begin(w) \/ deliver(w) \/ settle(w)

dispatch(w) == ineligible(w) \/ send_in(w)

(* finish erases the encrypted phone.                                      *)
finish(w) ==
  /\ stage[w] = "finish" /\ move(w, "idle")
  /\ job' = [job EXCEPT ![w] = NoRequest]
  /\ payload' = [payload EXCEPT ![job[w]] = IF @ = "held" THEN "erased" ELSE @]
  /\ UNCHANGED <<answer, earlier, expires, resend, rowVars, providerVars>>

(* The worker dies, or the database fails before the row exists: the event *)
(* is handled again later.                                                 *)
crash(w) ==
  /\ stage[w] # "idle" /\ move(w, "idle")
  /\ job' = [job EXCEPT ![w] = NoRequest]
  /\ answer' = [answer EXCEPT ![w] = "none"]
  /\ UNCHANGED <<requestVars, rowVars, providerVars>>

(* A tick of the database clock.  A handler that has read its request      *)
(* begins the delivery within the request's lifetime (its two queries are  *)
(* bounded by the statement timeout).                                      *)
Prompt == \A w \in Workers : stage[w] = "read" => expires[job[w]] > 1

tick ==
  /\ Prompt
  /\ \E r \in Requests : expires[r] + resend[r] + left[r] > 0
  /\ expires' = [r \in Requests |-> IF expires[r] > 0 THEN expires[r] - 1 ELSE 0]
  /\ resend' = [r \in Requests |-> IF resend[r] > 0 THEN resend[r] - 1 ELSE 0]
  /\ left' = [r \in Requests |-> IF left[r] > 0 THEN left[r] - 1 ELSE 0]
  /\ UNCHANGED <<payload, earlier, workerVars, status, used, sent, older, providerVars>>

Next ==
  \/ \E r \in Requests :
       \/ enqueue(r) \/ purge_request(r)
       \/ handle(r) \/ consume(r) \/ purge_row(r)
       \/ \E w \in Workers : process(w, r)
  \/ \E w \in Workers :
       dispatch(w) \/ finish(w) \/ crash(w)
  \/ tick

Spec == Init /\ [][Next]_vars
-----------------------------------------------------------------------------
(* The provider is called at most once for a request, although the outbox  *)
(* handles its event again after crashes, lost completions and stale       *)
(* claims (otp/requests/worker.rs, dispatch; otp/pg.rs, begin).            *)
OneSms == \A r \in Requests : calls[r] <= 1

(* At most one code of a phone is accepted or sent and unused, whatever    *)
(* the order of answers and callbacks: idx_otp_one_usable_per_phone never  *)
(* makes mark_accepted or a callback fail (otp/pg.rs, activate).           *)
OneUsable == \A q, r \in Usable : q = r

(* Once a newer code was handed to the provider's network, no older code   *)
(* can be redeemed, even if its own acceptance, callback or retry arrives  *)
(* afterwards (otp/pg.rs, activate and consume).                           *)
NewestWins ==
  \A r \in Requests : \A q \in older[r] :
    (status[r] # "none" /\ r \in sent) => ~(q \in Usable /\ left[q] > 0)
=============================================================================
