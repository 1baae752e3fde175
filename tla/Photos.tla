------------------------------- MODULE Photos -------------------------------
(***************************************************************************)
(* The profile photos of one account, across PostgreSQL and the object     *)
(* store: uploads with their idempotency keys, the replacement and the     *)
(* deletion of the current photo, moderation, the operator's               *)
(* reconciliation, the outbox handler and the maintenance that remove      *)
(* objects, and the removal that an account erasure performs.              *)
(*                                                                         *)
(* The two stores share no transaction.  The row comes before the object   *)
(* and outlives it, and a photo that has begun to be deleted never comes   *)
(* back, so that whoever finds it may delete the object.                   *)
(***************************************************************************)
EXTENDS Naturals, FiniteSets

CONSTANTS
    Photos,       \* photo ids; every upload draws a fresh one
    NoPhoto,
    Keys,         \* idempotency keys
    Removers,     \* handlers and maintenance passes at work
    UPLOAD,       \* bound of the codec and storage timeouts, in ticks
    STALE,        \* PHOTO_PROCESSING_STALE_MINUTES
    RETRY         \* PHOTO_DELETION_RETRY_MINUTES

ASSUME PhotoAssumption == NoPhoto \notin Photos
ASSUME TimeAssumption ==
    /\ UPLOAD \in Nat /\ STALE \in Nat /\ RETRY \in Nat
    /\ UPLOAD < STALE

VARIABLES
    account,    \* live, or closed once deleted_at is set
    status,     \* user_photo.status, or absent
    age,        \* time since updated_at, up to STALE
    described,  \* photos whose metadata is recorded
    objects,    \* photos stored in the bucket
    upload,     \* where the upload of a photo is
    request,    \* photo_upload_request.status of a key, or absent
    photoOf,    \* its photo_id
    queued,     \* photos with a photo.delete event to handle
    target,     \* the photo a remover works on
    removal     \* where it is

upl == <<upload, request, photoOf>>
rem == <<target, removal>>
vars == <<account, status, age, described, objects, upl, queued, rem>>

TypeOK ==
    /\ account \in {"live", "closed"}
    /\ status \in [Photos -> {"absent", "processing", "ready", "deleting"}]
    /\ age \in [Photos -> 0..STALE]
    /\ described \in SUBSET Photos
    /\ objects \in SUBSET Photos
    /\ upload \in [Photos -> {"none", "created", "described", "stored", "over"}]
    /\ request \in [Keys -> {"absent", "processing", "completed", "consumed"}]
    /\ photoOf \in [Keys -> Photos \cup {NoPhoto}]
    /\ queued \in SUBSET Photos
    /\ target \in [Removers -> Photos \cup {NoPhoto}]
    /\ removal \in [Removers -> {"idle", "found", "removed"}]

Init ==
    /\ account = "live"
    /\ status = [p \in Photos |-> "absent"]
    /\ age = [p \in Photos |-> 0]
    /\ described = {}
    /\ objects = {}
    /\ upload = [p \in Photos |-> "none"]
    /\ request = [k \in Keys |-> "absent"]
    /\ photoOf = [k \in Keys |-> NoPhoto]
    /\ queued = {}
    /\ target = [r \in Removers |-> NoPhoto]
    /\ removal = [r \in Removers |-> "idle"]

InStatus(s) == {p \in Photos : status[p] = s}

\* UPDATE user_photo SET status, updated_at = now for every photo of S.
Mark(S, s) ==
    /\ status' = [p \in Photos |-> IF p \in S THEN s ELSE status[p]]
    /\ age' = [p \in Photos |-> IF p \in S THEN 0 ELSE age[p]]

Uploaded(p, u) == upload' = [upload EXCEPT ![p] = u]
-----------------------------------------------------------------------------
(* The upload, under the shared activity lock of the account. *)

\* existing_result: a key that is known replays its photo or is refused.
Unanswered(k) == request[k] = "absent"

\* create_processing: at most one upload is in progress, and a key starts
\* one.  The locked profile serializes the uploads of the account.
create_processing(p, k) ==
    /\ account = "live"
    /\ upload[p] = "none"
    /\ Unanswered(k)
    /\ InStatus("processing") = {}
    /\ Mark({p}, "processing")
    /\ request' = [request EXCEPT ![k] = "processing"]
    /\ photoOf' = [photoOf EXCEPT ![k] = p]
    /\ Uploaded(p, "created")
    /\ UNCHANGED <<account, described, objects, queued, rem>>

\* discard_processing: the request may be made again with the same key.
discard_processing(p) ==
    /\ request' = [k \in Keys |->
                     IF photoOf[k] = p /\ request[k] = "processing"
                     THEN "absent" ELSE request[k]]
    /\ photoOf' = [k \in Keys |->
                     IF photoOf[k] = p /\ (request[k] = "processing" \/ status[p] = "processing")
                     THEN NoPhoto ELSE photoOf[k]]
    /\ IF status[p] = "processing" THEN Mark({p}, "absent") ELSE UNCHANGED <<status, age>>
    /\ Uploaded(p, "over")
    /\ UNCHANGED <<account, described, objects, queued, rem>>

\* The codec refuses, is busy or too slow.
process_fails(p) == upload[p] = "created" /\ discard_processing(p)

\* record_processed describes a photo that is still processing; otherwise
\* the upload is discarded.  The trigger of user_photo refuses a closed
\* account with an error, which leaves the row.
record_processed(p) ==
    /\ upload[p] = "created"
    /\ IF status[p] # "processing" THEN discard_processing(p)
       ELSE /\ IF account = "live"
               THEN /\ described' = described \cup {p}
                    /\ Mark({p}, "processing")
                    /\ Uploaded(p, "described")
               ELSE Uploaded(p, "over") /\ UNCHANGED <<status, age, described>>
            /\ UNCHANGED <<account, objects, request, photoOf, queued, rem>>

\* storage.put: it may fail after the object was stored, and then the row is
\* left for maintenance.
put(p) ==
    /\ upload[p] = "described"
    /\ \/ objects' = objects \cup {p} /\ (Uploaded(p, "stored") \/ Uploaded(p, "over"))
       \/ Uploaded(p, "over") /\ UNCHANGED objects
    /\ UNCHANGED <<account, status, age, described, request, photoOf, queued, rem>>

\* Mutant: the status is not looked at again before the photo is shown.
Activable_AnyStatus(p) == p \in described

\* The candidate query of activate.
Activable(p) == status[p] = "processing" /\ p \in described

\* activate: the previous photo goes as the new one comes; a refusal leaves
\* the row and the object to maintenance.
activate(p) ==
    /\ upload[p] = "stored"
    /\ IF /\ account = "live"
          /\ Activable(p)
          /\ \E k \in Keys : photoOf[k] = p /\ request[k] = "processing"
       THEN /\ status' = [q \in Photos |-> IF q = p THEN "ready"
                                           ELSE IF status[q] = "ready" THEN "deleting"
                                           ELSE status[q]]
            /\ age' = [q \in Photos |-> IF q = p \/ status[q] = "ready" THEN 0 ELSE age[q]]
            /\ queued' = queued \cup InStatus("ready")
            /\ request' = [k \in Keys |-> IF photoOf[k] = p THEN "completed" ELSE request[k]]
       ELSE UNCHANGED <<status, age, queued, request>>
    /\ Uploaded(p, "over")
    /\ UNCHANGED <<account, described, objects, photoOf, rem>>

\* The request is dropped, or a statement fails, between two of its steps.
abandon(p) ==
    /\ upload[p] \in {"created", "described", "stored"}
    /\ Uploaded(p, "over")
    /\ UNCHANGED <<account, status, age, described, objects, request, photoOf, queued, rem>>
-----------------------------------------------------------------------------
(* What ends a photo. *)

\* begin_delete, and a moderator's rejection of the photo: the event is
\* queued with the change of status.
begin_delete(p) ==
    /\ account = "live"
    /\ status[p] = "ready"
    /\ Mark({p}, "deleting")
    /\ queued' = queued \cup {p}
    /\ UNCHANGED <<account, described, objects, upl, rem>>

\* The routes: one multipart part named photo with a valid key, and the removal.
post_photo(p, k) == create_processing(p, k)
delete_photo(p) == begin_delete(p)

\* review reads the status with the case and writes it with a condition; the
\* event is queued even if the photo has begun to be deleted in between.
review_rejected(p) ==
    /\ account = "live"
    /\ status[p] \in {"ready", "deleting"}
    /\ IF status[p] = "ready" THEN Mark({p}, "deleting") ELSE UNCHANGED <<status, age>>
    /\ queued' = queued \cup {p}
    /\ UNCHANGED <<account, described, objects, upl, rem>>

\* The operator's reconciliation of a photo that is stuck; a handler that
\* has overrun its lock may still be at work on it.
reconcile(p) ==
    /\ \/ status[p] = "deleting"
       \/ status[p] = "processing" /\ age[p] = STALE
    /\ Mark({p}, "deleting")
    /\ queued' = queued \cup {p}
    /\ UNCHANGED <<account, described, objects, upl, rem>>

\* Mutant: maintenance takes what is processing at any age.
Abandoned_AnyAge == InStatus("processing")

\* Uploads that cannot be running any more.
Abandoned == {p \in InStatus("processing") : age[p] >= STALE}

\* Mutant: a deletion that failed is not tried again.
Retried_Never == {}

\* Deletions whose handler has failed or never ran.
Retried == {p \in InStatus("deleting") : age[p] >= RETRY}

\* claim_cleanup_batch: what it takes is being deleted from here on.
claim_cleanup_batch(r) ==
    /\ removal[r] = "idle"
    /\ \E p \in Abandoned \cup Retried :
          /\ Mark({p}, "deleting")
          /\ target' = [target EXCEPT ![r] = p]
    /\ removal' = [removal EXCEPT ![r] = "found"]
    /\ UNCHANGED <<account, described, objects, upl, queued>>

\* The outbox handler: an event whose photo is not being deleted is done.
find_deleting(r) ==
    /\ removal[r] = "idle"
    /\ \E p \in queued :
          /\ queued' = queued \ {p}
          /\ IF status[p] = "deleting"
             THEN /\ target' = [target EXCEPT ![r] = p]
                  /\ removal' = [removal EXCEPT ![r] = "found"]
             ELSE UNCHANGED rem
    /\ UNCHANGED <<account, status, age, described, objects, upl>>

\* begin_account_deletion, under the exclusive lock of a closed account: no
\* upload is running, and every photo goes whatever its status.
begin_account_deletion(r) ==
    /\ account = "closed"
    /\ removal[r] = "idle"
    /\ \A p \in Photos : upload[p] \in {"none", "over"}
    /\ \E p \in Photos :
          /\ status[p] # "absent"
          /\ Mark({p}, "deleting")
          /\ target' = [target EXCEPT ![r] = p]
    /\ removal' = [removal EXCEPT ![r] = "found"]
    /\ UNCHANGED <<account, described, objects, upl, queued>>

\* storage.delete; it succeeds on an object that does not exist.
storage_delete(r) ==
    /\ removal[r] = "found"
    /\ objects' = objects \ {target[r]}
    /\ removal' = [removal EXCEPT ![r] = "removed"]
    /\ UNCHANGED <<account, status, age, described, upl, queued, target>>

\* complete_deletion: the key is spent and the row goes.
complete_deletion(r) ==
    /\ removal[r] = "removed"
    /\ IF status[target[r]] = "deleting"
       THEN Mark({target[r]}, "absent") /\ described' = described \ {target[r]}
       ELSE UNCHANGED <<status, age, described>>
    /\ request' = [k \in Keys |-> IF photoOf[k] = target[r] THEN "consumed" ELSE request[k]]
    /\ photoOf' = [k \in Keys |-> IF photoOf[k] = target[r] THEN NoPhoto ELSE photoOf[k]]
    /\ target' = [target EXCEPT ![r] = NoPhoto]
    /\ removal' = [removal EXCEPT ![r] = "idle"]
    /\ UNCHANGED <<account, objects, upload, queued>>

\* A call fails or the process dies: maintenance finds the photo again.
removal_fails(r) ==
    /\ removal[r] # "idle"
    /\ target' = [target EXCEPT ![r] = NoPhoto]
    /\ removal' = [removal EXCEPT ![r] = "idle"]
    /\ UNCHANGED <<account, status, age, described, objects, upl, queued>>

\* purge_expired_upload_requests, a day after the upload.
purge_expired(k) ==
    /\ request[k] # "absent"
    /\ photoOf[k] # NoPhoto => upload[photoOf[k]] = "over"
    /\ request' = [request EXCEPT ![k] = "absent"]
    /\ photoOf' = [photoOf EXCEPT ![k] = NoPhoto]
    /\ UNCHANGED <<account, status, age, described, objects, upload, queued, rem>>

\* The account's erasure is accepted.
close_account ==
    /\ account = "live"
    /\ account' = "closed"
    /\ UNCHANGED <<status, age, described, objects, upl, queued, rem>>

\* Time passes, but an upload does not outlast its timeouts.
tick ==
    /\ \A p \in Photos : upload[p] \in {"created", "described"} => age[p] < UPLOAD
    /\ \E p \in Photos : status[p] # "absent" /\ age[p] < STALE
    /\ age' = [p \in Photos |-> IF status[p] # "absent" /\ age[p] < STALE
                                THEN age[p] + 1 ELSE age[p]]
    /\ UNCHANGED <<account, status, described, objects, upl, queued, rem>>
-----------------------------------------------------------------------------
Remove(r) == storage_delete(r) \/ complete_deletion(r)

Next ==
    \/ \E p \in Photos, k \in Keys : post_photo(p, k)
    \/ \E p \in Photos :
          \/ process_fails(p) \/ record_processed(p) \/ put(p) \/ activate(p)
          \/ abandon(p) \/ delete_photo(p) \/ review_rejected(p) \/ reconcile(p)
    \/ \E r \in Removers :
          \/ claim_cleanup_batch(r) \/ find_deleting(r) \/ begin_account_deletion(r)
          \/ Remove(r) \/ removal_fails(r)
    \/ \E k \in Keys : purge_expired(k)
    \/ close_account
    \/ tick

Spec == Init /\ [][Next]_vars

\* Maintenance runs on a timer and its calls succeed in the long run.
Fairness ==
    /\ WF_vars(tick)
    /\ \A r \in Removers : /\ SF_vars(claim_cleanup_batch(r)) /\ SF_vars(find_deleting(r))
                         /\ SF_vars(storage_delete(r)) /\ SF_vars(complete_deletion(r))
    /\ \A p \in Photos : WF_vars(put(p) \/ activate(p) \/ record_processed(p))

LiveSpec == Spec /\ Fairness
-----------------------------------------------------------------------------
(* Properties *)

\* A photo that is shown has its object: no handler, maintenance pass or
\* late request deletes the object of a photo that is, or becomes, ready.
ReadyHasObject == \A p \in Photos : status[p] = "ready" => p \in objects

\* Every object in the bucket has a row by which it will be found and
\* deleted, whatever failed or stopped between the two stores.
ObjectsTracked == \A p \in objects : status[p] # "absent"

\* A photo that has begun to be deleted is never shown again.
DeletionIsFinal ==
    [][\A p \in Photos : status[p] = "deleting" => status'[p] \in {"deleting", "absent"}]_vars

\* An upload never blocks the next one for ever, and what is being deleted
\* disappears from the bucket and from the table: what a dropped request left
\* in processing is taken by maintenance (claim_cleanup_batch), and so is a
\* deletion whose event is spent.
PhotosSettle ==
    \A p \in Photos : status[p] \in {"processing", "deleting"} ~>
        \/ status[p] = "ready"
        \/ status[p] = "absent" /\ p \notin objects
=============================================================================
