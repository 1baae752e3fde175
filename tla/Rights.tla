------------------------------- MODULE Rights -------------------------------
(***************************************************************************)
(* What a person may ask about their data: requests of a type that an      *)
(* administrator reviews, the deletion of the account by a confirmation    *)
(* token (in the application or behind a web session), and the deletion of *)
(* a category of data.  An erasure has one workflow, whichever way it was  *)
(* asked for; its steps are those of Erasure and are one action here.      *)
(***************************************************************************)
EXTENDS WebAccess

CONSTANTS
    Types,        \* the types of request in use, out of RequestTypes
    MaxRequests,  \* bound: rows of data_subject_request, in order of creation
    MaxTokens,    \* bound: deletion tokens that are issued
    None

ASSUME RequestAssumption == MaxRequests \in Nat /\ None \notin 1..MaxRequests

VARIABLES
    request,    \* the rows; NoRow where there is none (any more)
    created,    \* how many were inserted
    creating,   \* types of requests that passed authentication
    token,      \* tokens of the account that can be confirmed
    issued,     \* how many were issued
    workflow,   \* request_id of account_erasure
    erased,     \* its step is completed
    data        \* categories of data the account holds

desk == <<request, created, creating, token, issued, workflow, erased, data>>
rightsVars == <<account, onboarded, portal, desk>>

Ids == 1..MaxRequests
Retired == {"restriction", "objection"}
NeedsDetails == {"rectification"}
Transitions == {"in_progress", "completed", "rejected"}
DataCategory == {"photo", "location", "sensitive_profile"}

Row(t, s) == [type |-> t, status |-> s]
NoRow == Row("none", "none")

RightsInit ==
    /\ WebInit
    /\ request = [i \in Ids |-> NoRow]
    /\ created = 0
    /\ creating = {}
    /\ token = {}
    /\ issued = 0
    /\ workflow = None
    /\ erased = FALSE
    /\ data \in SUBSET DataCategory

Rows == {i \in Ids : request[i] # NoRow}
IsOpen(i) == i \in Rows /\ request[i].status \in {"pending", "in_progress"}
OpenOf(t) == {i \in Ids : IsOpen(i) /\ request[i].type = t}

\* A new row; rows are numbered in the order of their creation.
insert_row(i, row) ==
    /\ i = created + 1
    /\ i \in Ids
    /\ created' = i
    /\ request' = [request EXCEPT ![i] = row]
-----------------------------------------------------------------------------
(* Requests. *)

\* AuthenticatedMobile reads the account before the handler runs.
authenticated(t) ==
    /\ Active
    /\ creating' = creating \cup {t}
    /\ UNCHANGED <<account, onboarded, portal, request, created, token, issued, workflow,
                   erased, data>>

\* A retired type, and a rectification without details, are refused.
valid_request_details(t, details) == t \notin Retired /\ (t \in NeedsDetails => details)

\* The insert of create_request: one open request of a type, ON CONFLICT.
insert_request(t) ==
    IF OpenOf(t) # {} THEN UNCHANGED <<request, created>>
    ELSE \E i \in Ids : insert_row(i, Row(t, "pending"))

create_request(t, details) ==
    /\ t \in creating
    /\ creating' = creating \ {t}
    /\ IF valid_request_details(t, details) THEN insert_request(t)
       ELSE UNCHANGED <<request, created>>
    /\ UNCHANGED <<account, onboarded, portal, token, issued, workflow, erased, data>>

\* RequestReview::decide: what a review stores, or why it is refused.
decide(i, s, reply) ==
    CASE request[i].type \in Retired -> "invalid_transition"
      [] /\ request[i].type \notin Retired
         /\ request[i].type \in NeedsDetails /\ s # "in_progress" /\ ~reply ->
            "missing_response"
      [] OTHER ->
         IF CASE request[i].status = "pending" -> s \in {"in_progress", "rejected"}
              [] request[i].status = "in_progress" -> s \in {"completed", "rejected"}
              [] OTHER -> FALSE
         THEN IF request[i].type = "erasure" /\ s = "completed"
              THEN "schedule" ELSE "update"
         ELSE "invalid_transition"

\* ON CONFLICT ... DO UPDATE: the open request is taken into progress, or a
\* new one is inserted in progress.
erasure_request(i) ==
    IF OpenOf("erasure") # {}
    THEN /\ i \in OpenOf("erasure")
         /\ request' = [request EXCEPT ![i].status = "in_progress"]
         /\ UNCHANGED created
    ELSE insert_row(i, Row("erasure", "in_progress"))

\* enqueue_account_erasure: the workflow, its event, the end of the account
\* and of its tokens.  A workflow that exists is left as it is.
enqueue_erasure(i) ==
    IF workflow # None THEN UNCHANGED <<account, workflow, erased, token>>
    ELSE /\ workflow' = i
         /\ erased' = FALSE
         /\ account' = "deleted"
         /\ token' = {}

\* Mutant: a request with a workflow is reviewed like any other.
update_request_tx_Workflow(i, s, reply) ==
    /\ i \in Rows
    /\ decide(i, s, reply) \in {"schedule", "update"}
    /\ LET stored == IF decide(i, s, reply) = "schedule" THEN "in_progress" ELSE s IN
       request' = [request EXCEPT ![i].status = stored]
    /\ IF decide(i, s, reply) = "schedule" THEN enqueue_erasure(i)
       ELSE UNCHANGED <<account, workflow, erased, token>>

\* The transaction of update_request: the account and the request are locked;
\* a request with a workflow is no longer reviewed.  The entry in the log
\* and the announcement of the reply, in the same transaction, are read by
\* none of these operations.  A workflow of another request makes it fail.
update_request_tx(i, s, reply) ==
    /\ i \in Rows
    /\ workflow # i
    /\ decide(i, s, reply) \in {"schedule", "update"}
    /\ decide(i, s, reply) = "schedule" => workflow = None
    /\ LET stored == IF decide(i, s, reply) = "schedule" THEN "in_progress" ELSE s IN
       request' = [request EXCEPT ![i].status = stored]
    /\ IF decide(i, s, reply) = "schedule" THEN enqueue_erasure(i)
       ELSE UNCHANGED <<account, workflow, erased, token>>

\* A reply is trimmed and bounded before it is stored.
review(i, s, reply) ==
    /\ update_request_tx(i, s, reply)
    /\ UNCHANGED <<onboarded, portal, created, creating, issued, data>>

\* The handler: an administrator, a known identifier and a transition.
update_request(i, s, reply) == i \in Ids /\ s \in Transitions /\ review(i, s, reply)
-----------------------------------------------------------------------------
(* Deletion by the person. *)

\* replace_token: a new token replaces the one before it, and needs a live
\* account (a banned one is not deleted).
replace_token ==
    /\ account # "deleted"
    /\ issued < MaxTokens
    /\ issued' = issued + 1
    /\ token' = {issued + 1}

issue ==
    /\ replace_token
    /\ UNCHANGED <<account, onboarded, portal, request, created, creating, workflow,
                   erased, data>>

\* The transaction of accept: the token is consumed and the erasure begins.
accept_tx(n) ==
    /\ account # "deleted"
    /\ n \in token
    /\ \E i \in Ids : erasure_request(i) /\ enqueue_erasure(i)

accept(n) ==
    /\ accept_tx(n)
    /\ UNCHANGED <<onboarded, portal, creating, issued, data>>

issue_deletion_token == Active /\ issue
accept_erasure(n) == Active /\ accept(n)

AuthenticatedWeb(v) == identity(v)
deletion_token(v) == AuthenticatedWeb(v) /\ issue
delete_account(v, n) == AuthenticatedWeb(v) /\ accept(n)

\* WebDataDeletionService::delete: the photo goes, or the consent that the
\* category rests on is withdrawn.
delete_data(v, c) ==
    /\ AuthenticatedWeb(v)
    /\ c \in data
    /\ data' = data \ {c}
    /\ UNCHANGED <<account, onboarded, portal, request, created, creating, token, issued,
                   workflow, erased>>

\* The last step of the workflow completes the request.
complete_erasure ==
    /\ workflow # None
    /\ ~erased
    /\ erased' = TRUE
    /\ data' = {}
    /\ request' = [request EXCEPT ![workflow].status =
                     IF @ = "in_progress" THEN "completed" ELSE @]
    /\ UNCHANGED <<account, onboarded, portal, created, creating, token, issued,
                   workflow>>

\* A token expires; a request that is closed is deleted after its retention
\* time, and the workflow with it.
retention ==
    /\ \/ /\ token # {} /\ token' = {}
          /\ UNCHANGED <<request, workflow>>
       \/ \E i \in Rows \ {j \in Ids : IsOpen(j)} :
             /\ request' = [request EXCEPT ![i] = NoRow]
             /\ workflow' = IF workflow = i THEN None ELSE workflow
             /\ UNCHANGED token
    /\ UNCHANGED <<account, onboarded, portal, created, creating, issued, erased, data>>
-----------------------------------------------------------------------------
RightsNext ==
    \/ \E t \in Types : authenticated(t) \/ \E d \in BOOLEAN : create_request(t, d)
    \/ \E i \in Ids, s \in Transitions, r \in BOOLEAN : update_request(i, s, r)
    \/ issue_deletion_token
    \/ \E n \in 1..MaxTokens : accept_erasure(n)
    \/ \E v \in Visits : \/ deletion_token(v)
                         \/ \E n \in 1..MaxTokens : delete_account(v, n)
                         \/ \E c \in DataCategory : delete_data(v, c)
    \/ complete_erasure
    \/ retention
    \/ WebNext /\ UNCHANGED desk

RightsSpec == RightsInit /\ [][RightsNext]_rightsVars
-----------------------------------------------------------------------------
(* Properties *)

\* An account that was deleted and is not erased yet has its workflow, and
\* the request of the workflow is still in progress: no review closes it, no
\* retention removes it, and no token is left to begin a second erasure.
DeletionBacked ==
    account = "deleted" =>
        /\ token = {}
        /\ ~erased => /\ workflow # None
                      /\ request[workflow] = Row("erasure", "in_progress")

\* An account that was deleted and is not erased yet has its workflow and a
\* request in progress (privacy/pg.rs, accept_erasure), and the codes examined
\* for a challenge of the web page stay within its attempts, whoever answers it
\* at once (billing/web/pg.rs, begin_verify).
RightsHold == DeletionBacked /\ GuessesBounded
=============================================================================
