-------------------------------- MODULE MCOtp --------------------------------
(***************************************************************************)
(* The codes of one phone, what permits an SMS at all, and the leases on   *)
(* accounts that deliveries and requests take.  Otp contains the refusal   *)
(* of a permit and of a lease, SmsSafety needs of a delivery only that it  *)
(* asks once, and Leases of its work only that it begins and ends: so a    *)
(* behaviour follows one of them while the others stay in an initial       *)
(* state.  No definition chooses or orders requests, workers, phones,      *)
(* connections or administrators; the run lets one pair of values stand    *)
(* for requests, phones and connections, another for workers and           *)
(* administrators.                                                         *)
(***************************************************************************)
EXTENDS Otp, Leases, SmsSafety, TLC

VARIABLE focus

allVars == <<focus, vars, smsVars, leaseVars>>

OnePhone == \A d, e \in Deliveries : phone[d] = phone[e]
NoAdmin == \A a \in Admins : role[a] = "user"

\* Budgets are explored with no administrator about, and decisions while the
\* environment suspends sending: neither reads what the other writes.
MCInit ==
    /\ Init /\ SmsInit /\ LeaseInit
    /\ \/ focus \in {"otp", "leases"} /\ forced /\ fresh = {} /\ OnePhone /\ NoAdmin
       \/ focus = "sms" /\ forced /\ OnePhone /\ \E a \in Admins : role[a] = "superadmin"
       \/ focus = "sms" /\ ~forced /\ fresh # {} /\ NoAdmin

\* A worker that reads a request already erased or purged only finishes: the
\* run follows the ones that read a request still held.
ReadsHeld ==
    \A w \in Workers : job[w] = NoRequest /\ job'[w] # NoRequest => payload[job'[w]] = "held"

MCNext ==
    /\ UNCHANGED focus
    /\ \/ focus = "otp" /\ Next /\ ReadsHeld /\ UNCHANGED <<smsVars, leaseVars>>
       \/ focus = "sms" /\ SmsNext /\ UNCHANGED <<vars, leaseVars>>
       \/ focus = "leases" /\ LeaseNext /\ UNCHANGED <<vars, smsVars>>

MCSpec == MCInit /\ [][MCNext]_allVars

OtpSymmetry == Permutations(Requests) \cup Permutations(Workers)
=============================================================================
