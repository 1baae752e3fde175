------------------------------- MODULE Catalog -------------------------------
(***************************************************************************)
(* The catalogue of traits and profile questions (catalog/), edited by     *)
(* administrators, and the translated snapshot of it that one server       *)
(* process caches for 15 seconds (localization/).  A page reads its rows,  *)
(* then the snapshot, and shows the snapshot's wording of each row.        *)
(*                                                                         *)
(* The wording of an item (its name or prompt and its translations) is     *)
(* modelled by the number of the write that produced it.  A write commits  *)
(* first and invalidates the cache in a second step, before it is          *)
(* answered.  Another process may write too: it cannot invalidate the      *)
(* cache here.                                                             *)
(***************************************************************************)
EXTENDS Naturals

CONSTANTS Traits, Questions,  \* ids of the items that may ever exist
          Readers,            \* page requests in flight
          MaxEdits,           \* bound on the writes of the catalogue
          Nobody

Items == Traits \cup Questions

VARIABLES
    edits,    \* the number of committed edits
    item,     \* [id -> write that produced its wording, and whether it exists]
    answered, \* [id -> newest write of it whose request was answered here]
    cache,    \* LocalizationService.cache
    refresh,  \* holder of LocalizationService.refresh, or Nobody
    editor,   \* the administrator's request between commit and answer
    reader,   \* [reader -> progress of its page]
    chosen,   \* the member's user_trait rows
    adding    \* the trait the member's request has found to exist

rows == <<edits, item>>
local == <<cache, refresh>>
catalogVars == <<rows, answered, local, editor, reader, chosen, adding>>

NoItem == [write |-> 0, present |-> FALSE]
NoCache == [young |-> FALSE, value |-> [i \in Items |-> NoItem]]
Idle == [pc |-> "idle", fresh |-> FALSE, began |-> [i \in Items |-> 0],
         rows |-> [i \in Items |-> NoItem], got |-> [i \in Items |-> NoItem]]

-----------------------------------------------------------------------------
(* Administrator edits.  Each is one transaction over the row and its      *)
(* translations; a duplicate name or an invalid text changes nothing.      *)
save_translations(i) ==
    /\ item' = [item EXCEPT ![i] = [write |-> edits + 1, present |-> TRUE]]
    /\ edits' = edits + 1

normalize_translations == edits < MaxEdits

create_row(i) == item[i].write = 0 /\ save_translations(i) /\ UNCHANGED chosen
update_row(i) == item[i].present /\ save_translations(i) /\ UNCHANGED chosen

create_trait(i) == i \in Traits /\ create_row(i)
update_trait(i) == i \in Traits /\ update_row(i)
create_question(i) == i \in Questions /\ create_row(i)
update_question(i) == i \in Questions /\ update_row(i)

(* The deletion of a trait cascades to the members who chose it.           *)
delete_row(i) ==
    /\ item[i].present
    /\ item' = [item EXCEPT ![i] = [write |-> edits + 1, present |-> FALSE]]
    /\ edits' = edits + 1
delete_trait(i) == i \in Traits /\ delete_row(i) /\ chosen' = chosen \ {i}
delete_question(i) == i \in Questions /\ delete_row(i) /\ UNCHANGED chosen

create_translated_trait(i) == normalize_translations /\ create_trait(i)
update_translated_trait(i) == normalize_translations /\ update_trait(i)
remove_trait(i) == edits < MaxEdits /\ delete_trait(i)
create_translated_question(i) == normalize_translations /\ create_question(i)
update_translated_question(i) == normalize_translations /\ update_question(i)
remove_question(i) == edits < MaxEdits /\ delete_question(i)

(* A handler whose write was refused answers at once (catalog_error);      *)
(* one whose write committed goes on to invalidate.                        *)
Commit(i) == editor = Nobody /\ editor' = i
    /\ UNCHANGED <<answered, local, reader, adding>>
post_trait(i) == create_translated_trait(i) /\ Commit(i)
patch_trait(i) == update_translated_trait(i) /\ Commit(i)
delete_trait_route(i) == remove_trait(i) /\ Commit(i)
post_question(i) == create_translated_question(i) /\ Commit(i)
patch_question(i) == update_translated_question(i) /\ Commit(i)
delete_question_route(i) == remove_question(i) /\ Commit(i)

\* Mutant: the cache is cleared without waiting for a refresh under way.
invalidate_NoLock == cache' = NoCache /\ UNCHANGED refresh

invalidate == refresh = Nobody /\ cache' = NoCache /\ UNCHANGED refresh

Answer ==
    /\ editor # Nobody
    /\ invalidate
    /\ answered' = [answered EXCEPT ![editor] = item[editor].write]
    /\ editor' = Nobody
    /\ UNCHANGED <<rows, reader, chosen, adding>>

(* The administrator's connection may end before the answer: the handler   *)
(* is dropped with the cache as it was.                                    *)
Disconnect ==
    /\ editor # Nobody /\ editor' = Nobody
    /\ UNCHANGED <<rows, answered, local, reader, chosen, adding>>

(* A write through another process.                                        *)
Elsewhere(i) ==
    /\ edits < MaxEdits /\ update_row(i)
    /\ UNCHANGED <<answered, local, editor, reader, adding>>

-----------------------------------------------------------------------------
(* The member's traits: the existence check and the insert are two         *)
(* statements; the foreign key refuses a trait deleted in between.         *)
trait_exists(i) == i \in Traits /\ item[i].present

check_trait(i) ==
    /\ adding = Nobody /\ trait_exists(i) /\ adding' = i
    /\ UNCHANGED <<rows, answered, local, editor, reader, chosen>>

add_trait_to_user ==
    /\ adding # Nobody /\ adding' = Nobody
    /\ chosen' = IF item[adding].present THEN chosen \cup {adding} ELSE chosen
    /\ UNCHANGED <<rows, answered, local, editor, reader>>

remove_trait_from_user(i) ==
    /\ i \in chosen /\ chosen' = chosen \ {i}
    /\ UNCHANGED <<rows, answered, local, editor, reader, adding>>

add_my_trait(i) == check_trait(i)
remove_my_trait(i) == remove_trait_from_user(i)

-----------------------------------------------------------------------------
(* Pages.  The rows are read first, the snapshot second.                   *)
PageStep == UNCHANGED <<rows, answered, editor, chosen, adding>>

Begin(r, ids, fresh) ==
    /\ reader[r].pc = "idle"
    /\ reader' = [reader EXCEPT ![r] =
            [Idle EXCEPT !.pc = "ask", !.fresh = fresh, !.began = answered,
                         !.rows = [i \in Items |-> IF i \in ids THEN item[i] ELSE NoItem]]]
    /\ PageStep /\ UNCHANGED local

trait_rows(r, fresh) == Begin(r, Traits, fresh)
user_trait_rows(r) == Begin(r, chosen, FALSE)
question_rows(r, fresh) == Begin(r, Questions, fresh)

list_traits(r) == trait_rows(r, FALSE)
list_my_traits(r) == user_trait_rows(r)
list_questions(r) == question_rows(r, FALSE)
list_admin_traits(r) == trait_rows(r, TRUE)
list_admin_questions(r) == question_rows(r, TRUE)

(* trait_name, question: the snapshot's wording where it knows the id.     *)
name(snapshot, row) ==
    [i \in Items |-> IF row[i].present /\ snapshot[i].present THEN snapshot[i] ELSE row[i]]

Serve(r, snapshot) ==
    reader' = [reader EXCEPT ![r].pc = "done", ![r].got = name(snapshot, reader[r].rows)]

cached(r) == ~ reader[r].fresh /\ cache.young

(* catalog: the fast path, then the same question under the mutex.         *)
catalog(r) ==
    /\ reader[r].pc = "ask"
    /\ IF cached(r) THEN Serve(r, cache.value)
       ELSE reader' = [reader EXCEPT ![r].pc = "wait"]
    /\ PageStep /\ UNCHANGED local

lock_refresh(r) ==
    /\ reader[r].pc = "wait" /\ refresh = Nobody
    /\ IF cached(r) THEN Serve(r, cache.value) /\ UNCHANGED refresh
       ELSE refresh' = r /\ reader' = [reader EXCEPT ![r].pc = "held"]
    /\ PageStep /\ UNCHANGED cache

read_catalog(r) ==
    /\ reader[r].pc = "held"
    /\ reader' = [reader EXCEPT ![r].pc = "loaded", ![r].got = item]
    /\ PageStep /\ UNCHANGED local

(* The query failed: the mutex is released, the cache stays.               *)
unavailable(r) ==
    /\ reader[r].pc = "held" /\ refresh' = Nobody
    /\ reader' = [reader EXCEPT ![r] = Idle]
    /\ PageStep /\ UNCHANGED cache

store(r) ==
    /\ reader[r].pc = "loaded"
    /\ cache' = [young |-> TRUE, value |-> reader[r].got]
    /\ refresh' = Nobody
    /\ Serve(r, reader[r].got)
    /\ PageStep

Close(r) ==
    /\ reader[r].pc = "done" /\ reader' = [reader EXCEPT ![r] = Idle]
    /\ PageStep /\ UNCHANGED local

(* Fifteen seconds pass.                                                   *)
Expire ==
    /\ cache.young /\ cache' = [cache EXCEPT !.young = FALSE]
    /\ UNCHANGED <<rows, answered, refresh, editor, reader, chosen, adding>>

-----------------------------------------------------------------------------
CatalogInit ==
    /\ edits = 0 /\ item = [i \in Items |-> NoItem]
    /\ answered = [i \in Items |-> 0]
    /\ cache = NoCache /\ refresh = Nobody /\ editor = Nobody
    /\ reader = [r \in Readers |-> Idle]
    /\ chosen = {} /\ adding = Nobody

Write(i) == \/ post_trait(i) \/ patch_trait(i) \/ delete_trait_route(i)
            \/ post_question(i) \/ patch_question(i) \/ delete_question_route(i)
            \/ Elsewhere(i)

Member == \/ \E i \in Items : add_my_trait(i) \/ remove_my_trait(i)
          \/ add_trait_to_user

Page(r) == \/ list_traits(r) \/ list_my_traits(r) \/ list_questions(r)
           \/ list_admin_traits(r) \/ list_admin_questions(r)
           \/ catalog(r) \/ lock_refresh(r) \/ read_catalog(r) \/ unavailable(r)
           \/ store(r) \/ Close(r)

CatalogNext == \/ \E i \in Items : Write(i)
        \/ Answer \/ Disconnect \/ Expire \/ Member
        \/ \E r \in Readers : Page(r)

CatalogSpec == CatalogInit /\ [][CatalogNext]_catalogVars

-----------------------------------------------------------------------------
(* A page begun after an edit of the catalogue was answered never shows an *)
(* older wording of the item: the edit clears the cached snapshot under    *)
(* the refresh mutex, so that a snapshot read before the edit committed    *)
(* cannot be stored after it (LocalizationService::invalidate, catalog).   *)
EditsAreSeen ==
    \A r \in Readers : reader[r].pc = "done" =>
        \A i \in Items : reader[r].got[i].present =>
            reader[r].got[i].write >= reader[r].began[i]
=============================================================================
