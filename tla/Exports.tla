------------------------------ MODULE Exports ------------------------------
(***************************************************************************)
(* The online export of a person's data: a slot out of a few, a private    *)
(* directory with one file, the sections that a repeatable-read            *)
(* transaction reads page by page while others write, the properties after *)
(* them, the entry in the access log, the stream to the person and the     *)
(* removal of the directory.  The rows are those of the person and of the  *)
(* people they met; a row has the order (at, id) its pages follow.         *)
(***************************************************************************)
EXTENDS Integers, Sequences, FiniteSets

CONSTANTS
    Downloads,       \* requests for an export
    Person,          \* whose data it is
    Possible,        \* rows that may exist: [table, at, id, by, to]
    Expired,         \* those of them that are swipes past expires_at
    PageSize,        \* page_size
    MaxBytes,        \* max_bytes, one for each row or property
    MaxConcurrency,  \* max_concurrency
    MaxChanges       \* bound: writes of others during an export

VARIABLES
    db,         \* rows that are committed
    slots,      \* permits left
    download,   \* where a request is: its section, cursor, file and snapshot
    disk,       \* directories that exist
    removing,   \* directories whose removal was handed to a blocking task
    logged,     \* requests with their entry in data_access_log
    changes

vars == <<db, slots, download, disk, removing, logged, changes>>

\* The sections in the order of write_snapshot_inner.
Sections == <<"continuation", "notification_preferences",
              "conversation_notification_preferences", "traits", "profile_answers",
              "legal_choices", "matches", "authored_messages", "submitted_reports",
              "blocked_users", "billing_invoices", "devices", "store_subscriptions",
              "data_requests", "mobile_sessions", "discovery_actions">>

Nowhere == <<-1, -1>>

NoDownload == [at |-> "none", section |-> 1, cursor |-> Nowhere, file |-> <<>>,
               snapshot |-> {}]

Init ==
    /\ db \in SUBSET Possible
    /\ slots = MaxConcurrency
    /\ download = [d \in Downloads |-> NoDownload]
    /\ disk = {}
    /\ removing = {}
    /\ logged = {}
    /\ changes = 0

Building == {"opened", "writing", "written"}
Goto(d, at) == download' = [download EXCEPT ![d].at = at]

\* cleanup, or the drop of a preparation: the file is closed, its
\* directory handed to a task that removes it, and the permit goes back.
cleanup(d, at) ==
    /\ download' = [download EXCEPT ![d] = [NoDownload EXCEPT !.at = at]]
    /\ removing' = removing \cup ({d} \cap disk)
    /\ slots' = slots + 1
-----------------------------------------------------------------------------
(* The transaction. *)

\* Mutant: READ COMMITTED, where each page sees what is committed by then.
Snapshot_ReadCommitted(d) == db

\* What the transaction sees: its snapshot, taken by the first statement.
Snapshot(d) == download[d].snapshot

Key(r) == <<r.at, r.id>>

\* The order of (created_at, id).
After(r, c) == r.at > c[1] \/ (r.at = c[1] /\ r.id > c[2])

\* The first PageSize rows after the cursor, in order.
Page(S, c) ==
    LET T == {r \in S : After(r, c)}
        Rank(r) == Cardinality({q \in T : After(r, Key(q))}) + 1
        N == IF Cardinality(T) < PageSize THEN Cardinality(T) ELSE PageSize
    IN [i \in 1..N |-> CHOOSE r \in T : Rank(r) = i]

\* JsonExportWriter: what is written stays within max_bytes.
Fits(d, n) == Len(download[d].file) + n <= MaxBytes

write(d, rows, next) ==
    IF Fits(d, Len(rows))
    THEN download' = [download EXCEPT ![d] = next] /\ UNCHANGED <<removing, slots>>
    ELSE cleanup(d, "too_large")

CursorOf(r) == Key(r)

\* One turn of the loop: a page is written; a page that is not full is the
\* last one, and the next section begins.
write_uuid_timestamp_pages(d, S) ==
    LET e == download[d]
        rows == Page(S, e.cursor)
    IN write(d, rows, [e EXCEPT
         !.file = @ \o rows,
         !.section = IF Len(rows) < PageSize THEN @ + 1 ELSE @,
         !.cursor = IF Len(rows) < PageSize THEN Nowhere ELSE CursorOf(rows[Len(rows)])])

Table(d, t) == {r \in Snapshot(d) : r.table = t}
Own(d, t) == {r \in Table(d, t) : r.by = Person}

write_traits(d) == write_uuid_timestamp_pages(d, Own(d, "traits"))
write_consents(d) == write_uuid_timestamp_pages(d, Own(d, "legal_choices"))
write_messages(d) == write_uuid_timestamp_pages(d, Own(d, "authored_messages"))
write_reports(d) == write_uuid_timestamp_pages(d, Own(d, "submitted_reports"))
write_blocks(d) == write_uuid_timestamp_pages(d, Own(d, "blocked_users"))
write_invoices(d) == write_uuid_timestamp_pages(d, Own(d, "billing_invoices"))
write_mobile_sessions(d) == write_uuid_timestamp_pages(d, Own(d, "mobile_sessions"))

\* A match belongs to both of its parties.
Matches(d) == {r \in Table(d, "matches") : Person \in {r.by, r.to}}
write_matches(d) == write_uuid_timestamp_pages(d, Matches(d))

\* The answers are few and are read in one query.
write_profile_answers(d) ==
    LET e == download[d]
        rows == [i \in 1..Cardinality(Own(d, "profile_answers")) |->
                   CHOOSE r \in Own(d, "profile_answers") :
                     Cardinality({q \in Own(d, "profile_answers") : After(r, Key(q))}) = i - 1]
    IN write(d, rows, [e EXCEPT !.file = @ \o rows, !.section = @ + 1])

\* Wallet, usage, reservations and rewards.
write_continuation_data(d) == write_uuid_timestamp_pages(d, Own(d, "continuation"))

\* The swipes of the person that have not expired.
write_discovery_actions(d) ==
    write_uuid_timestamp_pages(d, Own(d, "discovery_actions") \ Expired)

write_section(d, t) ==
    CASE t = "continuation" -> write_continuation_data(d)
      [] t = "traits" -> write_traits(d)
      [] t = "profile_answers" -> write_profile_answers(d)
      [] t = "legal_choices" -> write_consents(d)
      [] t = "matches" -> write_matches(d)
      [] t = "authored_messages" -> write_messages(d)
      [] t = "submitted_reports" -> write_reports(d)
      [] t = "blocked_users" -> write_blocks(d)
      [] t = "billing_invoices" -> write_invoices(d)
      [] t = "mobile_sessions" -> write_mobile_sessions(d)
      [] t = "discovery_actions" -> write_discovery_actions(d)
      [] OTHER -> write_uuid_timestamp_pages(d, Own(d, t))

\* write_snapshot_inner: the snapshot, the sections in order, the commit.
write_snapshot_inner(d) ==
    /\ \/ /\ download[d].at = "opened"
          /\ download' = [download EXCEPT ![d].at = "writing", ![d].snapshot = db]
          /\ UNCHANGED <<slots, removing>>
       \/ /\ download[d].at = "writing"
          /\ download[d].section <= Len(Sections)
          /\ write_section(d, Sections[download[d].section])
    /\ UNCHANGED <<db, disk, logged, changes>>
-----------------------------------------------------------------------------
(* The service. *)

\* prepare: a slot or a refusal, then the directory and its file.
prepare(d) ==
    /\ download[d].at = "none"
    /\ IF slots = 0 THEN Goto(d, "busy") /\ UNCHANGED <<slots, disk>>
       ELSE /\ slots' = slots - 1
            /\ disk' = disk \cup {d}
            /\ Goto(d, "opened")
    /\ UNCHANGED <<db, removing, logged, changes>>

\* The properties that end the document: account, profile with the address
\* of the photo, preferences, subscription, time and consistency.
finish(d) ==
    /\ download[d].at = "writing"
    /\ download[d].section > Len(Sections)
    /\ IF Fits(d, 1) THEN Goto(d, "written") /\ UNCHANGED <<slots, removing>>
       ELSE cleanup(d, "too_large")
    /\ UNCHANGED <<db, disk, logged, changes>>

\* record_self_export comes before the stream is handed out.
record_self_export(d) ==
    /\ download[d].at = "written"
    /\ logged' = logged \cup {d}
    /\ Goto(d, "streaming")
    /\ UNCHANGED <<db, slots, disk, removing, changes>>

prepare_in_directory(d) == write_snapshot_inner(d) \/ finish(d) \/ record_self_export(d)

\* A statement or the file system fails, or the request is cancelled.
unavailable(d) ==
    /\ download[d].at \in Building
    /\ cleanup(d, "unavailable")
    /\ UNCHANGED <<db, disk, logged, changes>>

\* poll_next: the end or an error of the stream cleans up, as does its drop.
poll_next(d) ==
    /\ download[d].at = "streaming"
    /\ cleanup(d, "delivered") \/ cleanup(d, "cut")
    /\ UNCHANGED <<db, disk, logged, changes>>

\* remove_directory tries three times; a directory it cannot remove is left.
remove_directory(d) ==
    /\ d \in removing
    /\ removing' = removing \ {d}
    /\ disk' = disk \ {d} \/ UNCHANGED disk
    /\ UNCHANGED <<db, slots, download, logged, changes>>

\* Others write, or maintenance deletes, while the export runs.
change ==
    /\ changes < MaxChanges
    /\ changes' = changes + 1
    /\ \E r \in Possible : db' = (db \ {r}) \cup ({r} \ db)
    /\ UNCHANGED <<slots, download, disk, removing, logged>>
-----------------------------------------------------------------------------
Next ==
    \/ \E d \in Downloads : \/ prepare(d) \/ prepare_in_directory(d)
                            \/ unavailable(d) \/ poll_next(d) \/ remove_directory(d)
    \/ change

Spec == Init /\ [][Next]_vars
-----------------------------------------------------------------------------
(* Properties *)

\* What the person is given is their data at one moment: every row of theirs
\* that was committed then, once, nothing written later and nothing of
\* others, although it was read in many pages; and the access is logged.
ExportIsSnapshot ==
    \A d \in Downloads : download[d].at = "streaming" =>
        LET e == download[d]
            Mine == {r \in e.snapshot \ Expired :
                       r.by = Person \/ (r.table = "matches" /\ r.to = Person)}
        IN /\ {e.file[i] : i \in DOMAIN e.file} = Mine
           /\ Len(e.file) = Cardinality(Mine)
           /\ d \in logged
=============================================================================
