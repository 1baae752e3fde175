---------------------------- MODULE MembersProof ----------------------------
(***************************************************************************)
(* Proofs about what members show each other: Photos for any number of     *)
(* photos, keys and removers, Conversation for any number of messages and  *)
(* any deadlines.  The two share nothing.                                  *)
(*                                                                         *)
(* ObjectsTracked and ReadyHasObject are not inductive.  What carries them *)
(* is that an upload which may still write to the bucket has a row that    *)
(* nobody may take (it is younger than STALE), and that a remover works    *)
(* only on photos which can no longer be shown.                            *)
(***************************************************************************)
EXTENDS Photos, Conversation, TLAPS

\* An upload that has not written its object yet holds a processing row that
\* is too young for maintenance and for the operator.
Young ==
    \A p \in Photos : upload[p] \in {"created", "described"} =>
        status[p] = "processing" /\ age[p] <= UPLOAD

\* Nothing is in the bucket before the put.
NothingYet ==
    \A p \in Photos : upload[p] \in {"none", "created", "described"} => p \notin objects

\* A photo without an upload has no row.
Unstarted == \A p \in Photos : upload[p] = "none" => status[p] = "absent"

\* A row that may still be activated has its object.
StoredObject ==
    \A p \in Photos : upload[p] = "stored" /\ status[p] = "processing" => p \in objects

\* A remover's photo is past being shown, and once the remover has deleted
\* the object nobody stores it again.
Doomed ==
    \A r \in Removers :
        /\ removal[r] # "idle" => /\ target[r] \in Photos
                                  /\ upload[target[r]] # "none"
                                  /\ status[target[r]] \in {"deleting", "absent"}
        /\ removal[r] = "removed" => target[r] \notin objects

\* The inductive invariant.
IInv == /\ TypeOK /\ Young /\ NothingYet /\ Unstarted /\ StoredObject /\ Doomed
        /\ ObjectsTracked /\ ReadyHasObject

USE PhotoAssumption, TimeAssumption

LEMMA InitInv == Init => IInv
  BY SMTT(90) DEF Init, IInv, TypeOK, Young, NothingYet, Unstarted, StoredObject, Doomed,
     ObjectsTracked, ReadyHasObject

\* Every action preserves the invariant.
LEMMA NextInv == IInv /\ [Next]_vars => IInv'
<1> SUFFICES ASSUME IInv, [Next]_vars PROVE IInv'
  BY Zenon
<1> USE DEF IInv, TypeOK, Young, NothingYet, Unstarted, StoredObject, Doomed,
        ObjectsTracked, ReadyHasObject, upl, rem, Mark, Uploaded, InStatus
<1>1. ASSUME NEW p \in Photos, NEW k \in Keys, create_processing(p, k) PROVE IInv'
  BY <1>1 DEF create_processing
<1>2. ASSUME NEW p \in Photos, process_fails(p) PROVE IInv'
  BY <1>2 DEF process_fails, discard_processing
<1>3. ASSUME NEW p \in Photos, record_processed(p) PROVE IInv'
  BY <1>3 DEF record_processed, discard_processing
<1>4. ASSUME NEW p \in Photos, put(p) PROVE IInv'
  BY <1>4 DEF put
<1>5. ASSUME NEW p \in Photos, activate(p) PROVE IInv'
  BY <1>5 DEF activate, Activable
<1>6. ASSUME NEW p \in Photos, abandon(p) PROVE IInv'
  BY <1>6 DEF abandon
<1>7. ASSUME NEW p \in Photos, begin_delete(p) PROVE IInv'
  BY <1>7 DEF begin_delete
<1>8. ASSUME NEW p \in Photos, review_rejected(p) PROVE IInv'
  BY <1>8 DEF review_rejected
<1>9. ASSUME NEW p \in Photos, reconcile(p) PROVE IInv'
  BY <1>9 DEF reconcile
<1>10. ASSUME NEW r \in Removers, claim_cleanup_batch(r) PROVE IInv'
  BY <1>10 DEF claim_cleanup_batch, Abandoned, Retried
<1>11. ASSUME NEW r \in Removers, find_deleting(r) PROVE IInv'
  BY <1>11 DEF find_deleting
<1>12. ASSUME NEW r \in Removers, begin_account_deletion(r) PROVE IInv'
  BY <1>12 DEF begin_account_deletion
<1>13. ASSUME NEW r \in Removers, storage_delete(r) PROVE IInv'
  BY <1>13, Zenon DEF storage_delete
<1>14. ASSUME NEW r \in Removers, complete_deletion(r) PROVE IInv'
  BY <1>14 DEF complete_deletion
<1>15. ASSUME NEW r \in Removers, removal_fails(r) PROVE IInv'
  BY <1>15 DEF removal_fails
<1>16. ASSUME NEW k \in Keys, purge_expired(k) PROVE IInv'
  BY <1>16, Zenon DEF purge_expired
<1>17. CASE close_account
  BY <1>17, Zenon DEF close_account
<1>18. CASE tick
  BY <1>18 DEF tick
<1>19. CASE UNCHANGED vars
  BY <1>19, Zenon DEF vars
<1> QED
  BY Zenon, <1>1, <1>2, <1>3, <1>4, <1>5, <1>6, <1>7, <1>8, <1>9, <1>10, <1>11, <1>12,
     <1>13, <1>14, <1>15, <1>16, <1>17, <1>18, <1>19 DEF Next, Remove, post_photo, delete_photo

LEMMA Invariance == Spec => []IInv
  BY InitInv, NextInv, PTL DEF Spec

\* The type invariant.
THEOREM PhotoTypes == Spec => []TypeOK
  BY Invariance, PTL DEF IInv

\* Every object in the bucket has a row that leads to its deletion.
THEOREM NoOrphanObject == Spec => []ObjectsTracked
  BY Invariance, PTL DEF IInv

\* A photo that is shown has its object.
THEOREM ShownPhotosExist == Spec => []ReadyHasObject
  BY Invariance, PTL DEF IInv

\* A photo that has begun to be deleted is never shown again.
THEOREM NoResurrection == Spec => DeletionIsFinal
<1>1. IInv /\ [Next]_vars =>
        [\A p \in Photos : status[p] = "deleting" => status'[p] \in {"deleting", "absent"}]_vars
  <2> SUFFICES ASSUME IInv, Next, NEW q \in Photos, status[q] = "deleting"
               PROVE  status'[q] \in {"deleting", "absent"}
    BY Zenon
  <2> USE DEF IInv, TypeOK, upl, rem, Mark, Uploaded, InStatus
  <2>1. ASSUME NEW p \in Photos, NEW k \in Keys, create_processing(p, k)
        PROVE  status'[q] \in {"deleting", "absent"}
    BY <2>1, Zenon DEF create_processing, Unstarted
  <2>2. ASSUME NEW p \in Photos,
               \/ process_fails(p) \/ record_processed(p) \/ put(p) \/ abandon(p)
        PROVE  status'[q] \in {"deleting", "absent"}
    BY <2>2 DEF process_fails, discard_processing, record_processed, put, abandon, Young
  <2>3. ASSUME NEW p \in Photos,
               \/ activate(p) \/ begin_delete(p) \/ review_rejected(p) \/ reconcile(p)
        PROVE  status'[q] \in {"deleting", "absent"}
    BY <2>3 DEF activate, Activable, begin_delete, review_rejected, reconcile
  <2>4. ASSUME NEW r \in Removers,
               \/ claim_cleanup_batch(r) \/ find_deleting(r) \/ begin_account_deletion(r)
        PROVE  status'[q] \in {"deleting", "absent"}
    BY <2>4 DEF claim_cleanup_batch, Abandoned, Retried, find_deleting, begin_account_deletion
  <2>5. ASSUME NEW r \in Removers,
               \/ storage_delete(r) \/ complete_deletion(r) \/ removal_fails(r)
        PROVE  status'[q] \in {"deleting", "absent"}
    BY <2>5 DEF storage_delete, complete_deletion, removal_fails
  <2>6. CASE \/ \E k \in Keys : purge_expired(k)
             \/ close_account \/ tick
    BY <2>6, Zenon DEF purge_expired, close_account, tick
  <2> QED
    BY <2>1, <2>2, <2>3, <2>4, <2>5, <2>6, Zenon DEF Next, Remove, post_photo, delete_photo
<1> QED
  BY <1>1, Invariance, PTL DEF Spec, DeletionIsFinal
-----------------------------------------------------------------------------
(***************************************************************************)
(* Conversation.  The messages of an open match are numbered in the order  *)
(* they were stored, and a reader knows an initial part of them: that is   *)
(* why a boundary never covers a message its reader has not listed.  A     *)
(* block closes the match in its own transaction, so an open match has no  *)
(* blocks, however old a command's own look for blocks is.  Notes are      *)
(* deleted for closed matches only, so an announced reveal stays announced *)
(* while it can be seen.                                                   *)
(***************************************************************************)

Statuses == Open \cup Closed \cup {"purged"}
Kinds ==
    {"new_match", "new_message", "photos_revealed", "first_period_ending", "match_expiring"}
Message ==
    [id : Nat, from : Pair, key : MessageKeys, text : Texts, read : BOOLEAN]
MatchRow ==
    [status : Statuses, left : Int, deadline : Int, purge : Int, messages : Seq(Message),
     revealed : SUBSET Pair, version : Int,
     notes : SUBSET [to : Pair, kind : Kinds, source : Int], report : {"none", "attached", "detached"}]
Command ==
    [op : {"none", "list"}] \cup [op : {"read_one", "read_through"}, id : Nat]
    \cup [op : {"reveal"}, granted : BOOLEAN]
    \cup [op : {"send"}, key : MessageKeys, text : Texts, since : Nat]

\* Messages of an open match are numbered in their order.
Numbered(c) ==
    c.status \in Open => \A i \in 1 .. Len(c.messages) : c.messages[i].id = i

Announced(c) ==
    c.status \in Open /\ c.revealed = Pair =>
        \A u \in Pair : Note(u, "photos_revealed", c.version) \in c.notes

\* What a reader knows is an initial part of the messages of an open match.
KnownFirst(c, k) ==
    /\ k \in [Pair -> SUBSET Nat]
    /\ \A u \in Pair : \A n \in k[u] : \A i \in 1 .. n : i \in k[u]
    /\ c.status \in Open => \A u \in Pair : \A n \in k[u] : n <= Len(c.messages)

ReadKnown(c, k) ==
    \A i \in 1 .. Len(c.messages) :
        c.messages[i].read => c.messages[i].id \in k[Other(c.messages[i].from)]

Sound(c, k, bl) ==
    /\ c \in MatchRow
    /\ Numbered(c)
    /\ Announced(c)
    /\ KnownFirst(c, k)
    /\ ReadKnown(c, k)
    /\ bl # {} => c.status \notin Open

\* A command that waits to mark messages read names one its user has listed.
Waiting(q, k) ==
    /\ q \in [Pair -> Command]
    /\ \A u \in Pair : q[u].op \in {"read_one", "read_through"} => q[u].id \in k[u]

\* The inductive invariant.
ConversationInv == Sound(conv, known, blocks) /\ Waiting(cmd, known)

\* What the clock and maintenance do to a match: they do not open it, they add
\* notes while it is open, and they take messages away only when it is not.
Kept(c, d) ==
    /\ d \in MatchRow
    /\ d.status \in Open =>
        c.status \in Open /\ d.messages = c.messages /\ c.notes \subseteq d.notes
    /\ \A i \in 1 .. Len(d.messages) : \E j \in 1 .. Len(c.messages) :
        d.messages[i] = c.messages[j]
    /\ d.revealed = c.revealed /\ d.version = c.version

\* There are two participants, so the other one is whoever is not the user.
LEMMA TheOther ==
    ASSUME NEW u \in Pair
    PROVE  /\ Other(u) \in Pair /\ Other(u) # u
           /\ \A v \in Pair : v # u => Other(v) = u
<1>1. PICK x, y \in Pair : x # y /\ Pair = {x, y}
  BY ConversationAssumption
<1>2. \A w \in Pair : \E v \in Pair : v # w
  BY <1>1
<1>3. \A w \in Pair : Other(w) \in Pair /\ Other(w) # w
  BY <1>2 DEF Other
<1> QED
  BY <1>1, <1>3

\* Kept is transitive.
LEMMA KeptTwice ==
    ASSUME NEW c, NEW d, NEW e, Kept(c, d), Kept(d, e)
    PROVE  Kept(c, e)
BY Zenon DEF Kept

\* A row whose messages stay is kept.
LEMMA KeptSame ==
    ASSUME NEW c \in MatchRow, NEW d \in MatchRow,
           d.status \in Open => c.status \in Open,
           d.messages = c.messages, d.revealed = c.revealed, d.version = c.version,
           d.status \in Open => c.notes \subseteq d.notes
    PROVE  Kept(c, d)
BY DEF Kept

\* Closing a row changes its status and the date of its purge.
Lapsed(c, s, p) == [c EXCEPT !.status = s, !.purge = p]
LEMMA RowCloses ==
    ASSUME NEW c \in MatchRow, NEW s \in Statuses, NEW p \in Int, NEW e,
           e = Lapsed(c, s, p)
    PROVE  /\ e \in MatchRow /\ e.status = s /\ e.messages = c.messages
           /\ e.revealed = c.revealed /\ e.version = c.version /\ e.notes = c.notes
<1>1. DOMAIN e = DOMAIN c
  BY DEF Lapsed
<1> QED
  BY <1>1, Zenon DEF MatchRow, Lapsed

\* A new deadline changes the status, the time left and the deadline's number.
Dated(c, s, l) == [c EXCEPT !.status = s, !.left = l, !.deadline = c.deadline + 1]
LEMMA RowDates ==
    ASSUME NEW c \in MatchRow, NEW s \in Statuses, NEW l \in Int, NEW e,
           e = Dated(c, s, l)
    PROVE  /\ e \in MatchRow /\ e.status = s /\ e.left = l /\ e.messages = c.messages
           /\ e.revealed = c.revealed /\ e.version = c.version /\ e.notes = c.notes
<1>1. DOMAIN e = DOMAIN c
  BY DEF Dated
<1>2. c.deadline + 1 \in Int
  BY DEF MatchRow
<1> QED
  BY <1>1, <1>2, Zenon DEF MatchRow, Dated

\* What is kept stays sound.
LEMMA KeptSound ==
    ASSUME NEW c, NEW d, NEW k, NEW bl, Sound(c, k, bl), Kept(c, d)
    PROVE  Sound(d, k, bl)
<1>1. d \in MatchRow /\ Numbered(d) /\ (bl # {} => d.status \notin Open)
  BY DEF Sound, Kept, Numbered
<1>2. Announced(d)
  BY DEF Sound, Kept, Announced
<1>3. KnownFirst(d, k)
  BY DEF Sound, Kept, KnownFirst
<1>4. ReadKnown(d, k)
  BY DEF Sound, Kept, ReadKnown
<1> QED
  BY <1>1, <1>2, <1>3, <1>4 DEF Sound

\* Under the lock of the row the deadlines are applied, and a match that is
\* available is open (pg/matches.rs, lock_available_match).
LEMMA LockKeeps ==
    ASSUME NEW c \in MatchRow
    PROVE  /\ Kept(c, lock_conversation(c).conv)
           /\ lock_conversation(c).result = "available" =>
                /\ lock_conversation(c).conv.status \in Open
                /\ lock_conversation(c).conv.status # "awaiting" =>
                    lock_conversation(c).conv.status = c.status
           /\ lock_conversation(c).result \in {"expired", "invalid", "available"}
<1>0. CONVERSATION_WINDOW \in Int /\ PURGE \in Int
  BY ConversationAssumption
<1> DEFINE w == [c EXCEPT !.status = "awaiting", !.left = @ + CONVERSATION_WINDOW,
                          !.deadline = @ + 1]
           opened == IF c.status = "active" /\ c.left <= 0 THEN w ELSE c
<1>1. w \in MatchRow /\ w.status = "awaiting" /\ w.messages = c.messages
      /\ w.revealed = c.revealed /\ w.version = c.version /\ w.notes = c.notes
  <2>1. PICK x : x = w
    OBVIOUS
  <2>2. x = Dated(c, "awaiting", c.left + CONVERSATION_WINDOW)
    BY <2>1 DEF Dated
  <2>3. c.left + CONVERSATION_WINDOW \in Int /\ "awaiting" \in Statuses
    BY <1>0 DEF MatchRow, Statuses, Open
  <2> HIDE DEF w
  <2> QED
    BY <2>1, <2>2, <2>3, RowDates
<1>2. PICK o : o = opened
  OBVIOUS
<1>3. /\ o \in MatchRow /\ o.messages = c.messages
      /\ o.revealed = c.revealed /\ o.version = c.version /\ o.notes = c.notes
      /\ o.status \in Open => c.status \in Open
      /\ o.status # "awaiting" => o.status = c.status
  BY <1>1, <1>2 DEF Open
<1> HIDE DEF w
<1>4. CASE c.status = "confirmed" /\ c.left <= 0
  <2>1. PICK e : e = Ended(c, 0)
    OBVIOUS
  <2>2. e \in MatchRow /\ e.status = "ended" /\ e.messages = c.messages
        /\ e.revealed = c.revealed /\ e.version = c.version
    <3>1. e = Lapsed(c, "ended", 0)
      BY <2>1, Zenon DEF Ended, Lapsed
    <3>2. 0 \in Int /\ "ended" \in Statuses
      BY DEF Statuses, Closed
    <3> QED
      BY <3>1, <3>2, RowCloses
  <2>3. Kept(c, e)
    BY <2>2, KeptSame DEF Open
  <2>4. lock_conversation(c) = [conv |-> e, result |-> "expired"]
    <3>1. o = c /\ o.status = "confirmed"
      BY <1>2, <1>4
    <3> QED
      BY <1>2, <1>4, <2>1, <3>1 DEF lock_conversation, w, Open
  <2> QED
    BY <2>3, <2>4
<1>5. CASE ~(c.status = "confirmed" /\ c.left <= 0) /\ o.status = "awaiting" /\ o.left <= 0
  <2>1. PICK e : e = [o EXCEPT !.status = "expired", !.purge = PURGE]
    OBVIOUS
  <2>2. e \in MatchRow /\ e.status = "expired" /\ e.messages = c.messages
        /\ e.revealed = c.revealed /\ e.version = c.version
    <3>1. "expired" \in Statuses /\ e = Lapsed(o, "expired", PURGE)
      BY <2>1 DEF Statuses, Closed, Lapsed
    <3>2. /\ e \in MatchRow /\ e.status = "expired" /\ e.messages = o.messages
          /\ e.revealed = o.revealed /\ e.version = o.version
      BY <1>0, <1>3, <3>1, RowCloses
    <3> QED
      BY <1>3, <3>2
  <2>3. Kept(c, e)
    BY <2>2, KeptSame DEF Open
  <2>4. lock_conversation(c) = [conv |-> e, result |-> "expired"]
    <3>1. o.status \in Open
      BY <1>5 DEF Open
    <3> QED
      BY <1>2, <1>5, <2>1, <3>1 DEF lock_conversation, w
  <2> QED
    BY <2>3, <2>4
<1>6. CASE ~(c.status = "confirmed" /\ c.left <= 0) /\ ~(o.status = "awaiting" /\ o.left <= 0)
  <2>1. Kept(c, o)
    BY <1>3, KeptSame
  <2>2. lock_conversation(c) =
            [conv |-> o, result |-> IF o.status \notin Open THEN "invalid" ELSE "available"]
    BY <1>2, <1>6 DEF lock_conversation, w
  <2> QED
    BY <1>3, <2>1, <2>2
<1> QED
  BY <1>4, <1>5, <1>6

\* Enqueuing only adds notes.
LEMMA RowNotes ==
    ASSUME NEW c \in MatchRow, NEW to \in SUBSET Pair, NEW kind \in Kinds, NEW source \in Int,
           NEW e, e = enqueue_notification(c, to, kind, source)
    PROVE  /\ Kept(c, e) /\ e.status = c.status /\ e.messages = c.messages
           /\ \A u \in to : Note(u, kind, source) \in e.notes
<1>1. DOMAIN e = DOMAIN c /\ e.notes = c.notes \cup {Note(u, kind, source) : u \in to}
  BY DEF enqueue_notification, MatchRow
<1>2. \A u \in to : Note(u, kind, source) \in [to : Pair, kind : Kinds, source : Int]
  BY DEF Note
<1>3. e.notes \in SUBSET [to : Pair, kind : Kinds, source : Int]
  BY <1>1, <1>2 DEF MatchRow
<1>4. /\ e.status = c.status /\ e.messages = c.messages
      /\ e.revealed = c.revealed /\ e.version = c.version
  BY DEF enqueue_notification, MatchRow
<1>5. e \in MatchRow
  BY <1>1, <1>3, ZenonT(90) DEF enqueue_notification, MatchRow
<1>6. Kept(c, e)
  BY <1>1, <1>4, <1>5, KeptSame
<1> QED
  BY <1>1, <1>4, <1>6

\* Each statement of a batch of maintenance keeps the match (pg/maintenance.rs).
LEMMA ReminderKeeps ==
    ASSUME NEW c \in MatchRow
    PROVE  Kept(c, enqueue_first_period_reminders(c)) /\ Kept(c, enqueue_warnings(c))
<1>1. Kept(c, c)
  BY KeptSame
<1>2. c.deadline \in Int
  BY DEF MatchRow
<1>3. Kept(c, enqueue_notification(c, Pair, "first_period_ending", c.deadline))
  <2>1. Pair \in SUBSET Pair /\ "first_period_ending" \in Kinds
    BY DEF Kinds
  <2> QED
    BY <1>2, <2>1, RowNotes, Zenon
<1>4. Kept(c, enqueue_notification(c, Pair, "match_expiring", c.deadline))
  <2>1. Pair \in SUBSET Pair /\ "match_expiring" \in Kinds
    BY DEF Kinds
  <2> QED
    BY <1>2, <2>1, RowNotes, Zenon
<1> QED
  BY <1>1, <1>3, <1>4, Zenon DEF enqueue_first_period_reminders, enqueue_warnings

LEMMA WindowKeeps ==
    ASSUME NEW c \in MatchRow
    PROVE  Kept(c, open_continuation_windows(c))
<1>0. CONVERSATION_WINDOW \in Int
  BY ConversationAssumption
<1>1. Kept(c, c)
  BY KeptSame
<1>2. PICK e : e = Dated(c, "awaiting", c.left + CONVERSATION_WINDOW)
  OBVIOUS
<1>3. c.left + CONVERSATION_WINDOW \in Int /\ "awaiting" \in Statuses
  BY <1>0 DEF MatchRow, Statuses, Open
<1>4. /\ e \in MatchRow /\ e.messages = c.messages /\ e.notes = c.notes
      /\ e.revealed = c.revealed /\ e.version = c.version
  BY <1>2, <1>3, RowDates
<1>5. c.status = "active" => Kept(c, e)
  BY <1>4, KeptSame DEF Open
<1>6. open_continuation_windows(c) = IF c.status = "active" /\ c.left <= 0 THEN e ELSE c
  BY <1>2 DEF open_continuation_windows, Dated
<1> QED
  BY <1>1, <1>5, <1>6

\* A closed match is not opened by closing it.
LEMMA LapseKeeps ==
    ASSUME NEW c \in MatchRow, NEW s \in Closed, NEW p \in Int
    PROVE  Kept(c, Lapsed(c, s, p)) /\ Lapsed(c, s, p).status \notin Open
<1>1. PICK e : e = Lapsed(c, s, p)
  OBVIOUS
<1>2. s \in Statuses /\ s \notin Open
  BY DEF Statuses, Closed, Open
<1>3. e \in MatchRow /\ e.status = s /\ e.messages = c.messages
      /\ e.revealed = c.revealed /\ e.version = c.version /\ e.notes = c.notes
  BY <1>1, <1>2, RowCloses
<1> QED
  BY <1>1, <1>2, <1>3, KeptSame

LEMMA CloseKeeps ==
    ASSUME NEW c \in MatchRow
    PROVE  Kept(c, expire_continuation_windows(c)) /\ Kept(c, close_inactive_matches(c))
<1>1. Kept(c, c)
  BY KeptSame
<1>2. 0 \in Int /\ PURGE \in Int /\ "ended" \in Closed /\ "expired" \in Closed
  BY ConversationAssumption DEF Closed
<1>3. Kept(c, Lapsed(c, "expired", PURGE)) /\ Kept(c, Lapsed(c, "ended", 0))
  BY <1>2, LapseKeeps
<1>4. /\ Lapsed(c, "expired", PURGE) = [c EXCEPT !.status = "expired", !.purge = PURGE]
      /\ Lapsed(c, "ended", 0) = Ended(c, 0)
  BY Zenon DEF Lapsed, Ended
<1> QED
  BY <1>1, <1>3, <1>4, Zenon DEF expire_continuation_windows, close_inactive_matches

LEMMA PurgeKeeps ==
    ASSUME NEW c \in MatchRow
    PROVE  /\ Kept(c, delete_expired_messages(c))
           /\ Kept(c, detach_expired_reports(c))
           /\ Kept(c, delete_expired_notifications(c))
           /\ Kept(c, purge_expired_matches(c))
<1>1. Kept(c, c)
  BY KeptSame
<1>2. Purgeable(c) => c.status \notin Open
  BY DEF Purgeable, Closed, Open
<1>3. ASSUME Purgeable(c)
      PROVE  Kept(c, [c EXCEPT !.messages = FirstOf(c.messages)])
  <2>1. PICK e : e = [c EXCEPT !.messages = FirstOf(c.messages)]
    BY Zenon
  <2>2. BATCH \in Nat /\ c.messages \in Seq(Message)
    BY ConversationAssumption DEF MatchRow
  <2>3. PICK s : s = c.messages
    OBVIOUS
  <2>4. /\ SubSeq(s, BATCH + 1, Len(s)) \in Seq(Message)
        /\ \A i \in 1 .. Len(SubSeq(s, BATCH + 1, Len(s))) :
             /\ i + BATCH \in 1 .. Len(s)
             /\ SubSeq(s, BATCH + 1, Len(s))[i] = s[i + BATCH]
    <3>1. PICK m, n \in Int : m = BATCH + 1 /\ n = Len(s) /\ s \in Seq(Message) /\ m >= 1
      BY <2>2, <2>3
    <3>2. /\ SubSeq(s, m, n) \in Seq(Message)
          /\ Len(SubSeq(s, m, n)) = IF m <= n THEN n - m + 1 ELSE 0
          /\ \A i \in 1 .. (n - m + 1) : SubSeq(s, m, n)[i] = s[m + i - 1]
      BY <3>1
    <3>3. BATCH \in Nat /\ Len(s) \in Nat /\ n - m + 1 = Len(s) - BATCH
      BY <2>2, <3>1
    <3>4. ASSUME NEW i \in 1 .. Len(SubSeq(s, m, n))
          PROVE  i + BATCH \in 1 .. Len(s) /\ SubSeq(s, m, n)[i] = s[i + BATCH]
      <4>1. i \in 1 .. (n - m + 1) /\ m + i - 1 = i + BATCH /\ i + BATCH \in 1 .. Len(s)
        BY <3>1, <3>2, <3>3, <3>4
      <4> QED
        BY <3>2, <4>1, Zenon
    <3> QED
      BY <3>1, <3>2, <3>4, Zenon
  <2>5. e \in MatchRow /\ e.messages = FirstOf(c.messages) /\ e.status = c.status
        /\ e.revealed = c.revealed /\ e.version = c.version
    <3>1. FirstOf(c.messages) \in Seq(Message)
      BY <2>3, <2>4 DEF FirstOf
    <3> QED
      BY <2>1, <3>1, Zenon DEF MatchRow
  <2>6. \A i \in 1 .. Len(e.messages) : \E j \in 1 .. Len(c.messages) :
            e.messages[i] = c.messages[j]
    BY <2>3, <2>4, <2>5, Zenon DEF FirstOf
  <2> QED
    BY <1>2, <1>3, <2>1, <2>5, <2>6 DEF Kept
<1>4. Kept(c, [c EXCEPT !.report = "detached"])
  <2>1. PICK e : e = [c EXCEPT !.report = "detached"]
    BY Zenon
  <2>2. e \in MatchRow /\ e.messages = c.messages /\ e.status = c.status /\ e.notes = c.notes
        /\ e.revealed = c.revealed /\ e.version = c.version
    <3>1. DOMAIN e = DOMAIN c
      BY <2>1
    <3> QED
      BY <2>1, <3>1 DEF MatchRow
  <2> QED
    BY <2>1, <2>2, KeptSame, Zenon
<1>5. ASSUME Purgeable(c)
      PROVE  Kept(c, [c EXCEPT !.notes = c.notes \ SomeOf(c.notes)])
  <2>1. PICK e : e = [c EXCEPT !.notes = c.notes \ SomeOf(c.notes)]
    BY Zenon
  <2>2. e \in MatchRow /\ e.messages = c.messages /\ e.status = c.status
        /\ e.revealed = c.revealed /\ e.version = c.version
    BY <2>1, Zenon DEF MatchRow
  <2> QED
    BY <1>2, <1>5, <2>1, <2>2, KeptSame, Zenon
<1>6. Kept(c, [c EXCEPT !.status = "purged"])
  <2>1. PICK e : e = [c EXCEPT !.status = "purged"]
    BY Zenon
  <2>2. e \in MatchRow /\ e.messages = c.messages /\ e.status = "purged" /\ e.notes = c.notes
        /\ e.revealed = c.revealed /\ e.version = c.version
    BY <2>1, Zenon DEF MatchRow, Statuses
  <2> QED
    BY <2>1, <2>2, KeptSame, Zenon DEF Open
<1>7. Kept(c, delete_expired_messages(c))
  BY <1>1, <1>3, Zenon DEF delete_expired_messages
<1>8. Kept(c, detach_expired_reports(c))
  BY <1>1, <1>4, Zenon DEF detach_expired_reports
<1>9. Kept(c, delete_expired_notifications(c))
  BY <1>1, <1>5, Zenon DEF delete_expired_notifications
<1>10. Kept(c, purge_expired_matches(c))
  BY <1>1, <1>6, Zenon DEF purge_expired_matches
<1> QED
  BY <1>7, <1>8, <1>9, <1>10

\* So does the whole batch.
LEMMA BatchKeeps == conv \in MatchRow /\ run_match_batch => Kept(conv, conv')
<1> SUFFICES ASSUME conv \in MatchRow, run_match_batch PROVE Kept(conv, conv')
  OBVIOUS
<1>1. PICK c1 : c1 = enqueue_first_period_reminders(conv)
  OBVIOUS
<1>2. PICK c2 : c2 = open_continuation_windows(c1)
  OBVIOUS
<1>3. PICK c3 : c3 = expire_continuation_windows(c2)
  OBVIOUS
<1>4. PICK c4 : c4 = enqueue_warnings(c3)
  OBVIOUS
<1>5. PICK c5 : c5 = close_inactive_matches(c4)
  OBVIOUS
<1>6. PICK c6 : c6 = delete_expired_messages(c5)
  OBVIOUS
<1>7. PICK c7 : c7 = detach_expired_reports(c6)
  OBVIOUS
<1>8. PICK c8 : c8 = delete_expired_notifications(c7)
  OBVIOUS
<1>9. conv' = purge_expired_matches(c8)
  BY <1>1, <1>2, <1>3, <1>4, <1>5, <1>6, <1>7, <1>8, Zenon DEF run_match_batch
<1>10. \A x, y : Kept(x, y) => y \in MatchRow
  BY DEF Kept
<1>11. Kept(conv, c1) /\ c1 \in MatchRow
  BY <1>1, <1>10, ReminderKeeps, Zenon
<1>12. Kept(c1, c2) /\ c2 \in MatchRow
  BY <1>2, <1>10, <1>11, WindowKeeps, Zenon
<1>13. Kept(c2, c3) /\ c3 \in MatchRow
  BY <1>3, <1>10, <1>12, CloseKeeps, Zenon
<1>14. Kept(c3, c4) /\ c4 \in MatchRow
  BY <1>4, <1>10, <1>13, ReminderKeeps, Zenon
<1>15. Kept(c4, c5) /\ c5 \in MatchRow
  BY <1>5, <1>10, <1>14, CloseKeeps, Zenon
<1>16. Kept(c5, c6) /\ c6 \in MatchRow
  BY <1>6, <1>10, <1>15, PurgeKeeps, Zenon
<1>17. Kept(c6, c7) /\ c7 \in MatchRow
  BY <1>7, <1>10, <1>16, PurgeKeeps, Zenon
<1>18. Kept(c7, c8) /\ c8 \in MatchRow
  BY <1>8, <1>10, <1>17, PurgeKeeps, Zenon
<1>19. Kept(c8, conv')
  BY <1>9, <1>18, PurgeKeeps, Zenon
<1>20. Kept(conv, c4)
  BY <1>11, <1>12, <1>13, <1>14, KeptTwice, Zenon
<1>21. Kept(conv, c8)
  BY <1>15, <1>16, <1>17, <1>18, <1>20, KeptTwice, Zenon
<1> QED
  BY <1>19, <1>21, KeptTwice, Zenon

\* A message is numbered after those stored, and nobody has read it
\* (pg/messages.rs, create_message).
LEMMA CreateSound ==
    ASSUME NEW c, NEW k, NEW bl, Sound(c, k, bl), c.status \in Open,
           NEW u \in Pair, NEW q \in [op : {"send"}, key : MessageKeys, text : Texts, since : Nat]
    PROVE  /\ Sound(create_message(c, u, q).conv, k, bl)
           /\ create_message(c, u, q).answer \in {"created", "replayed"} => c.status # "awaiting"
<1>1. c \in MatchRow
  BY DEF Sound
<1>2. PICK m : m = [id |-> Len(c.messages) + 1, from |-> u, key |-> q.key, text |-> q.text,
                    read |-> FALSE]
  BY Zenon
<1>3. PICK s : s = c.messages
  OBVIOUS
<1>4. s \in Seq(Message) /\ Len(s) \in Nat
  BY <1>1, <1>3 DEF MatchRow
<1>5. m \in Message /\ m.id = Len(s) + 1 /\ ~m.read
  BY <1>2, <1>3, <1>4 DEF Message
<1>6. PICK e : e = Placed(c, m, q.since)
  OBVIOUS
<1>7. /\ e \in MatchRow /\ e.messages = Append(s, m) /\ e.status = c.status
      /\ e.revealed = c.revealed /\ e.version = c.version /\ e.notes = c.notes
  <2>1. Append(s, m) \in Seq(Message)
    BY <1>4, <1>5
  <2>2. e = [c EXCEPT !.messages = Append(s, m)]
    BY <1>3, <1>6 DEF Placed
  <2> QED
    BY <1>1, <2>1, <2>2, Zenon DEF MatchRow
<1>8. /\ Len(e.messages) = Len(s) + 1
      /\ \A i \in 1 .. Len(s) : e.messages[i] = s[i]
      /\ e.messages[Len(s) + 1] = m
  BY <1>4, <1>5, <1>7
<1>9. Sound(e, k, bl)
  <2>1. Numbered(e)
    BY <1>3, <1>4, <1>5, <1>7, <1>8 DEF Sound, Numbered
  <2>2. Announced(e)
    BY <1>7 DEF Sound, Announced
  <2>3. KnownFirst(e, k)
    BY <1>3, <1>4, <1>7, <1>8 DEF Sound, KnownFirst
  <2>4. ReadKnown(e, k)
    BY <1>3, <1>4, <1>5, <1>7, <1>8 DEF Sound, ReadKnown
  <2> QED
    BY <1>7, <2>1, <2>2, <2>3, <2>4 DEF Sound
<1>10. PICK d : d = IF c.status = "confirmed" THEN Renewed(e) ELSE e
  OBVIOUS
<1>11. Kept(e, d)
  <2>1. CONVERSATION_INACTIVITY \in Int
    BY ConversationAssumption
  <2>2. PICK r : r = Renewed(e)
    OBVIOUS
  <2>3. DOMAIN r = DOMAIN e
    BY <2>2 DEF Renewed
  <2>4. /\ r \in MatchRow /\ r.messages = e.messages /\ r.status = e.status
        /\ r.revealed = e.revealed /\ r.version = e.version /\ r.notes = e.notes
    <3>1. r = [e EXCEPT !.left = CONVERSATION_INACTIVITY, !.deadline = e.deadline + 1]
      BY <2>2, Zenon DEF Renewed
    <3>2. e.deadline + 1 \in Int
      BY <1>7 DEF MatchRow
    <3> QED
      BY <1>7, <2>1, <2>3, <3>1, <3>2, Zenon DEF MatchRow
  <2>5. Kept(e, r) /\ Kept(e, e)
    BY <1>7, <2>4, KeptSame, Zenon
  <2> QED
    BY <1>10, <2>2, <2>5
<1>12. PICK f : f = enqueue_notification(d, {Other(u)}, "new_message", m.id)
  OBVIOUS
<1>13. Kept(d, f)
  <2>1. {Other(u)} \in SUBSET Pair /\ "new_message" \in Kinds /\ m.id \in Int /\ d \in MatchRow
    BY <1>4, <1>5, <1>11, TheOther DEF Kinds, Kept
  <2> QED
    BY <1>12, <2>1, RowNotes
<1>14. Sound(f, k, bl)
  BY <1>9, <1>11, <1>13, KeptSound, Zenon
<1>15. create_message(c, u, q).conv \in {c, f}
  BY <1>2, <1>6, <1>10, <1>12, Zenon DEF create_message
<1>16. c.status = "awaiting" => create_message(c, u, q).answer = "invalid"
  BY Zenon DEF create_message
<1> QED
  BY <1>14, <1>15, <1>16

\* Marking read messages its reader knows leaves the match sound.
LEMMA MarkSound ==
    ASSUME NEW c, NEW k, NEW bl, Sound(c, k, bl), c.status \in Open, NEW u \in Pair, NEW ms,
           ms = [i \in DOMAIN c.messages |-> ms[i]],
           \A i \in DOMAIN c.messages :
               \/ ms[i] = c.messages[i]
               \/ /\ ms[i] = [c.messages[i] EXCEPT !.read = TRUE]
                  /\ c.messages[i].from # u /\ c.messages[i].id \in k[u],
           NEW e, e = [c EXCEPT !.messages = ms]
    PROVE  Sound(e, k, bl)
<1>1. c \in MatchRow
  BY DEF Sound
<1>2. PICK s : s = c.messages
  OBVIOUS
<1>3. s \in Seq(Message) /\ DOMAIN s = 1 .. Len(s) /\ Len(s) \in Nat
  BY <1>1, <1>2 DEF MatchRow
<1>4. \A i \in 1 .. Len(s) : s[i] \in Message
  BY <1>3
<1>5. \A i \in 1 .. Len(s) :
        /\ ms[i] \in Message /\ ms[i].id = s[i].id /\ ms[i].from = s[i].from
        /\ ms[i].read => s[i].read \/ (s[i].from # u /\ s[i].id \in k[u])
  <2> TAKE i \in 1 .. Len(s)
  <2>1. PICK x : x = s[i]
    OBVIOUS
  <2>2. x \in Message
    BY <1>4, <2>1
  <2>3. CASE ms[i] = s[i]
    BY <2>1, <2>2, <2>3 DEF Message
  <2>4. CASE ms[i] = [s[i] EXCEPT !.read = TRUE] /\ s[i].from # u /\ s[i].id \in k[u]
    <3>1. PICK y : y = [x EXCEPT !.read = TRUE]
      BY Zenon
    <3>2. y \in Message /\ y.id = x.id /\ y.from = x.from
      BY <2>2, <3>1, Zenon DEF Message
    <3> QED
      BY <2>1, <2>4, <3>1, <3>2, Zenon
  <2> QED
    BY <1>2, <1>3, <2>3, <2>4, Zenon
<1>6. ms \in Seq(Message) /\ Len(ms) = Len(s)
  <2>1. ms = [i \in 1 .. Len(s) |-> ms[i]]
    BY <1>2, <1>3
  <2>2. ms \in [1 .. Len(s) -> Message]
    BY <1>5, <2>1
  <2> QED
    <3>1. PICK n \in Nat : n = Len(s)
      BY <1>3
    <3>2. ms \in [1 .. n -> Message] /\ DOMAIN ms = 1 .. n
      BY <2>2, <3>1
    <3>3. ms \in Seq(Message)
      BY <3>2
    <3>4. Len(ms) = n
      BY <3>2, <3>3
    <3> QED
      BY <3>1, <3>3, <3>4
<1>7. /\ e \in MatchRow /\ e.messages = ms /\ e.status = c.status
      /\ e.revealed = c.revealed /\ e.version = c.version /\ e.notes = c.notes
  BY <1>1, <1>6, Zenon DEF MatchRow
<1>8. Numbered(e)
  BY <1>2, <1>5, <1>6, <1>7, ZenonT(90) DEF Sound, Numbered
<1>9. Announced(e)
  BY <1>7 DEF Sound, Announced
<1>10. KnownFirst(e, k)
  BY <1>2, <1>6, <1>7 DEF Sound, KnownFirst
<1>11. ReadKnown(e, k)
  <2> SUFFICES ASSUME NEW i \in 1 .. Len(s), ms[i].read
               PROVE  ms[i].id \in k[Other(ms[i].from)]
    BY <1>6, <1>7, ZenonT(90) DEF ReadKnown
  <2>1. s[i].from \in Pair
    BY <1>4 DEF Message
  <2>2. CASE s[i].read
    BY <1>2, <1>5, <2>2, Zenon DEF Sound, ReadKnown
  <2>3. CASE s[i].from # u /\ s[i].id \in k[u]
    <3>1. Other(s[i].from) = u
      BY <2>1, <2>3, TheOther
    <3> QED
      BY <1>5, <2>3, <3>1
  <2> QED
    BY <1>5, <2>2, <2>3
<1> QED
  BY <1>7, <1>8, <1>9, <1>10, <1>11 DEF Sound

\* The reader of a message has listed it (pg/messages.rs, mark_message_read).
LEMMA ReadOneSound ==
    ASSUME NEW c, NEW k, NEW bl, Sound(c, k, bl), c.status \in Open, NEW u \in Pair,
           NEW q, q.id \in k[u]
    PROVE  Sound(mark_message_read(c, u, q), k, bl)
<1>1. PICK ms : ms = [i \in DOMAIN c.messages |->
            IF c.messages[i].id = q.id /\ c.messages[i].from # u
            THEN [c.messages[i] EXCEPT !.read = TRUE] ELSE c.messages[i]]
  BY Zenon
<1>2. ms = [i \in DOMAIN c.messages |-> ms[i]]
  BY <1>1
<1>3. \A i \in DOMAIN c.messages :
        \/ ms[i] = c.messages[i]
        \/ /\ ms[i] = [c.messages[i] EXCEPT !.read = TRUE]
           /\ c.messages[i].from # u /\ c.messages[i].id \in k[u]
  BY <1>1
<1>4. mark_message_read(c, u, q) = [c EXCEPT !.messages = ms]
  BY <1>1, Zenon DEF mark_message_read
<1> QED
  BY <1>2, <1>3, <1>4, MarkSound, Zenon

\* What lies below a boundary its reader has listed, the reader has listed: the
\* messages are numbered in their order (mark_messages_read_through).
LEMMA ReadThroughSound ==
    ASSUME NEW c, NEW k, NEW bl, Sound(c, k, bl), c.status \in Open, NEW u \in Pair,
           NEW q, q.id \in k[u], q.id \in Ids(c)
    PROVE  Sound(mark_messages_read_through(c, u, q), k, bl)
<1>0. c.messages \in Seq(Message) /\ DOMAIN c.messages = 1 .. Len(c.messages)
  BY DEF Sound, MatchRow
<1>1. PICK place : place = CHOOSE i \in DOMAIN c.messages : c.messages[i].id = q.id
  OBVIOUS
<1>2. place \in DOMAIN c.messages /\ c.messages[place].id = q.id
  <2>1. \E i \in DOMAIN c.messages : c.messages[i].id = q.id
    BY DEF Ids, Stored, Range
  <2> QED
    BY <1>1, <2>1
<1>3. q.id = place
  BY <1>0, <1>2 DEF Sound, Numbered
<1>4. \A i \in DOMAIN c.messages : i <= place => c.messages[i].id \in k[u]
  <2>1. \A i \in 1 .. place : i \in k[u]
    BY <1>3 DEF Sound, KnownFirst
  <2> QED
    BY <1>0, <1>2, <2>1 DEF Sound, Numbered
<1>5. PICK ms : ms = [i \in DOMAIN c.messages |->
            IF i <= place /\ c.messages[i].from # u
            THEN [c.messages[i] EXCEPT !.read = TRUE] ELSE c.messages[i]]
  BY Zenon
<1>6. ms = [i \in DOMAIN c.messages |-> ms[i]]
  BY <1>5
<1>7. \A i \in DOMAIN c.messages :
        \/ ms[i] = c.messages[i]
        \/ /\ ms[i] = [c.messages[i] EXCEPT !.read = TRUE]
           /\ c.messages[i].from # u /\ c.messages[i].id \in k[u]
  BY <1>4, <1>5
<1>8. mark_messages_read_through(c, u, q) = [c EXCEPT !.messages = ms]
  BY <1>1, <1>5, Zenon DEF mark_messages_read_through
<1> QED
  BY <1>6, <1>7, <1>8, MarkSound, Zenon

\* The transaction that makes the agreement complete announces it to both
\* (pg/reveal.rs, record_reveal).
LEMMA RevealSound ==
    ASSUME NEW c, NEW k, NEW bl, Sound(c, k, bl), Sound(conv, k, bl),
           c.status \in Open, NEW u \in Pair, NEW granted \in BOOLEAN
    PROVE  Sound(record_reveal(c, u, granted).conv, k, bl)
<1>1. c \in MatchRow
  BY DEF Sound
<1>2. PICK e : e = Consented(c, u, granted)
  OBVIOUS
<1>3. /\ e \in MatchRow /\ e.messages = c.messages /\ e.status = c.status
      /\ e.version = c.version /\ e.notes = c.notes
      /\ e.revealed = IF granted THEN c.revealed \cup {u} ELSE c.revealed \ {u}
  BY <1>1, <1>2 DEF Consented, MatchRow
<1>4. e.revealed = Pair <=> BothRevealed(c, u, granted)
  BY <1>1, <1>3 DEF BothRevealed, MatchRow
<1>5. \A d : /\ d \in MatchRow /\ d.messages = c.messages /\ d.status = c.status
             /\ Announced(d)
             => Sound(d, k, bl)
  BY DEF Sound, Numbered, KnownFirst, ReadKnown
<1>6. ~(BothRevealed(c, u, granted) /\ c.revealed # Pair) => Sound(e, k, bl)
  <2>1. BothRevealed(c, u, granted) /\ c.revealed = Pair => Announced(e)
    BY <1>3 DEF Sound, Announced
  <2>2. ~BothRevealed(c, u, granted) => Announced(e)
    BY <1>4 DEF Announced
  <2> QED
    BY <1>3, <1>5, <2>1, <2>2
<1>7. PICK a : a = [e EXCEPT !.version = e.version + 1]
  BY Zenon
<1>8. /\ a \in MatchRow /\ a.messages = c.messages /\ a.status = c.status
      /\ a.version = c.version + 1
  <2>1. DOMAIN a = DOMAIN e
    BY <1>7
  <2>2. e.version + 1 \in Int
    BY <1>3 DEF MatchRow
  <2> QED
    BY <1>3, <1>7, <2>1, <2>2, Zenon DEF MatchRow
<1>9. PICK f : f = announce_reveal(e)
  OBVIOUS
<1>10. Kept(a, f) /\ f.status = a.status /\ f.messages = a.messages
       /\ \A v \in Pair : Note(v, "photos_revealed", a.version) \in f.notes
  <2>1. PICK kind \in Kinds : kind = "photos_revealed"
    BY DEF Kinds
  <2>2. PICK n \in Int : n = a.version
    BY <1>8 DEF MatchRow
  <2>3. PICK to \in SUBSET Pair : to = Pair
    OBVIOUS
  <2>4. f = enqueue_notification(a, to, kind, n)
    BY <1>7, <1>9, <2>1, <2>2, <2>3 DEF announce_reveal
  <2>5. Kept(a, f) /\ f.status = a.status /\ f.messages = a.messages
        /\ \A v \in to : Note(v, kind, n) \in f.notes
    <3>1. a \in MatchRow
      BY <1>8
    <3>2. Kept(a, f)
      BY <2>4, <3>1, RowNotes, Zenon
    <3>3. f.status = a.status /\ f.messages = a.messages
      BY <2>4, <3>1 DEF enqueue_notification, MatchRow
    <3>4. \A v \in to : Note(v, kind, n) \in f.notes
      BY <2>4, <3>1, RowNotes, Zenon
    <3> QED
      BY <3>2, <3>3, <3>4
  <2> QED
    BY <2>1, <2>2, <2>3, <2>5
<1>11. Sound(f, k, bl)
  <2>1. Announced(f) /\ f \in MatchRow
    BY <1>10 DEF Announced, Kept
  <2> QED
    BY <1>5, <1>8, <1>10, <2>1
<1>12. record_reveal(c, u, granted).conv =
            IF granted /\ photo # Pair THEN conv
            ELSE IF BothRevealed(c, u, granted) /\ c.revealed # Pair THEN f ELSE e
  BY <1>2, <1>9 DEF record_reveal
<1> QED
  BY <1>6, <1>11, <1>12

\* What the lock finds is what the deadlines of the row say.
LEMMA LockResult ==
    ASSUME NEW c \in MatchRow
    PROVE  /\ lock_conversation(c).result = "available" <=>
                \/ c.status \in {"awaiting", "confirmed"} /\ c.left > 0
                \/ c.status = "active" /\ (c.left > 0 \/ c.left + CONVERSATION_WINDOW > 0)
           /\ lock_conversation(c).result = "available" =>
                lock_conversation(c).conv.status =
                    IF c.status = "active" /\ c.left <= 0 THEN "awaiting" ELSE c.status
<1>0. CONVERSATION_WINDOW \in Nat /\ c.left \in Int /\ c.status \in Statuses
  BY ConversationAssumption DEF MatchRow
<1>1. CASE c.status = "active" /\ c.left <= 0
  <2>1. PICK l \in Int : l = c.left + CONVERSATION_WINDOW
    BY <1>0
  <2>2. PICK w : w = [c EXCEPT !.status = "awaiting", !.left = @ + CONVERSATION_WINDOW,
                               !.deadline = @ + 1]
    OBVIOUS
  <2>3. w.status = "awaiting" /\ w.left = l
    <3>1. w = Dated(c, "awaiting", l)
      BY <2>1, <2>2 DEF Dated
    <3>2. "awaiting" \in Statuses
      BY DEF Statuses, Open
    <3> QED
      BY <3>1, <3>2, RowDates
  <2>4. w.status \in Open /\ c.status # "confirmed"
    BY <1>1, <2>3 DEF Open
  <2>5. CASE l <= 0
    <3>1. lock_conversation(c).result = "expired"
      BY <1>1, <2>2, <2>3, <2>4, <2>5 DEF lock_conversation
    <3> QED
      BY <1>0, <1>1, <2>1, <2>5, <3>1
  <2>6. CASE ~(l <= 0)
    <3>1. lock_conversation(c) = [conv |-> w, result |-> "available"]
      BY <1>1, <2>2, <2>3, <2>4, <2>6 DEF lock_conversation
    <3> QED
      BY <1>0, <1>1, <2>1, <2>3, <2>6, <3>1
  <2> QED
    BY <2>5, <2>6
<1>2. CASE ~(c.status = "active" /\ c.left <= 0)
  <2>1. c.status \notin Open => lock_conversation(c).result = "invalid"
    BY <1>2 DEF lock_conversation, Open
  <2>2. c.status = "confirmed" /\ c.left <= 0 => lock_conversation(c).result = "expired"
    BY <1>2 DEF lock_conversation, Open
  <2>3. c.status = "awaiting" /\ c.left <= 0 => lock_conversation(c).result = "expired"
    BY <1>2 DEF lock_conversation, Open
  <2>4. c.status \in Open /\ ~(c.left <= 0) =>
            lock_conversation(c) = [conv |-> c, result |-> "available"]
    BY <1>2 DEF lock_conversation, Open
  <2>5. c.left > 0 <=> ~(c.left <= 0)
    BY <1>0
  <2>6. CASE c.status \notin Open
    BY <2>1, <2>6 DEF Open
  <2>7. CASE c.status \in Open /\ c.left <= 0
    BY <1>2, <2>2, <2>3, <2>5, <2>7 DEF Open
  <2>8. CASE c.status \in Open /\ ~(c.left <= 0)
    BY <1>2, <2>4, <2>5, <2>8 DEF Open
  <2> QED
    BY <2>6, <2>7, <2>8
<1> QED
  BY <1>1, <1>2

\* The list and the lock apply the same deadlines (matches/service.rs;
\* pg/matches.rs).
LEMMA ListedAsFound == conv \in MatchRow => ListAgrees
<1> SUFFICES ASSUME conv \in MatchRow, blocks = {}, conv.status # "purged"
             PROVE  IF Listed(conv) /\ ShownStatus(conv) \in Open
                    THEN /\ lock_conversation(conv).result = "available"
                         /\ lock_conversation(conv).conv.status = ShownStatus(conv)
                    ELSE lock_conversation(conv).result # "available"
  BY DEF ListAgrees
<1>0. CONVERSATION_WINDOW \in Nat /\ conv.left \in Int /\ conv.status \in Statuses
  BY ConversationAssumption DEF MatchRow
<1>1. PICK r, s : r = lock_conversation(conv).result /\ s = lock_conversation(conv).conv.status
  OBVIOUS
<1>2. /\ r = "available" <=>
            \/ conv.status \in {"awaiting", "confirmed"} /\ conv.left > 0
            \/ conv.status = "active"
               /\ (conv.left > 0 \/ conv.left + CONVERSATION_WINDOW > 0)
      /\ r = "available" =>
            s = IF conv.status = "active" /\ conv.left <= 0 THEN "awaiting" ELSE conv.status
  BY <1>1, LockResult
<1>3. CASE conv.status = "active"
  <2>1. Listed(conv)
    BY <1>3 DEF Listed
  <2>2. ShownStatus(conv) = IF conv.left <= 0
                            THEN IF conv.left + CONVERSATION_WINDOW <= 0 THEN "expired"
                                 ELSE "awaiting"
                            ELSE "active"
    BY <1>3 DEF ShownStatus
  <2> QED
    BY <1>0, <1>1, <1>2, <1>3, <2>1, <2>2 DEF Open
<1>4. CASE conv.status = "awaiting"
  <2>1. Listed(conv)
    BY <1>4 DEF Listed
  <2>2. ShownStatus(conv) = IF conv.left <= 0 THEN "expired" ELSE "awaiting"
    BY <1>4 DEF ShownStatus
  <2> QED
    BY <1>0, <1>1, <1>2, <1>4, <2>1, <2>2 DEF Open
<1>5. CASE conv.status = "confirmed"
  <2>1. Listed(conv) <=> conv.left > 0
    BY <1>5 DEF Listed
  <2>2. ShownStatus(conv) = "confirmed"
    BY <1>5 DEF ShownStatus
  <2> QED
    BY <1>0, <1>1, <1>2, <1>5, <2>1, <2>2 DEF Open
<1>6. CASE conv.status \in Closed
  <2>1. ShownStatus(conv) = conv.status
    BY <1>6 DEF ShownStatus, Closed
  <2> QED
    BY <1>0, <1>1, <1>2, <1>6, <2>1 DEF Open, Closed
<1> QED
  BY <1>0, <1>3, <1>4, <1>5, <1>6 DEF Statuses, Open

\* A conversation begins sound.
LEMMA ConversationStarts == ConversationInit => ConversationInv
<1> SUFFICES ASSUME ConversationInit PROVE ConversationInv
  OBVIOUS
<1>1. CONVERSATION_WINDOW \in Nat
  BY ConversationAssumption
<1>2. /\ conv.status = "active" /\ conv.left = CONVERSATION_WINDOW /\ conv.deadline = 0
      /\ conv.purge = Never /\ conv.messages = <<>> /\ conv.revealed = {}
      /\ conv.version = 0 /\ conv.notes = {Note(u, "new_match", 0) : u \in Pair}
      /\ conv.report = "none"
  BY DEF ConversationInit
<1>3. conv \in MatchRow
  <2>1. {Note(u, "new_match", 0) : u \in Pair} \in SUBSET [to : Pair, kind : Kinds, source : Int]
    BY DEF Note, Kinds
  <2>2. Never \in Int /\ "active" \in Statuses /\ <<>> \in Seq(Message)
    BY <1>1 DEF Never, Statuses, Open
  <2> QED
    BY <1>1, <2>1, <2>2 DEF ConversationInit, MatchRow
<1>4. Len(conv.messages) = 0 /\ conv.revealed # Pair
  BY <1>2, ConversationAssumption
<1>5. known = [u \in Pair |-> {}] /\ blocks = {}
  BY DEF ConversationInit
<1>6. Sound(conv, known, blocks)
  BY <1>3, <1>4, <1>5 DEF Sound, Numbered, Announced, KnownFirst, ReadKnown
<1>7. Waiting(cmd, known)
  BY DEF ConversationInit, Waiting, Command, Idle
<1> QED
  BY <1>6, <1>7 DEF ConversationInv

\* A command that waits is well formed, and one that ended waits no more.
LEMMA CommandWaits ==
    ASSUME NEW q, NEW k, Waiting(q, k), NEW u \in Pair, NEW x \in Command,
           x.op \in {"read_one", "read_through"} => x.id \in k[u]
    PROVE  Waiting([q EXCEPT ![u] = x], k)
BY DEF Waiting

LEMMA IdleWaits ==
    ASSUME NEW q, NEW k, Waiting(q, k), NEW u \in Pair
    PROVE  Waiting([q EXCEPT ![u] = Idle], k)
<1>1. Idle \in Command /\ Idle.op = "none"
  BY DEF Idle, Command
<1> QED
  BY <1>1, CommandWaits

\* Each command that waits starts from the match as it is.
LEMMA BeginStep ==
    ASSUME ConversationInv, NEW u \in Pair, NEW x \in Command, begin(u, x),
           x.op \in {"read_one", "read_through"} => x.id \in known[u]
    PROVE  ConversationInv'
<1>1. Waiting(cmd', known)
  BY CommandWaits, Zenon DEF ConversationInv, begin
<1>2. conv' = conv /\ known' = known /\ blocks' = blocks
  BY DEF begin
<1> QED
  BY <1>1, <1>2 DEF ConversationInv

\* A command that ends leaves the match sound if what it stores is.
LEMMA FinishStep ==
    ASSUME ConversationInv, NEW u \in Pair, NEW d, Sound(d, known, blocks),
           conv' = d, cmd' = [cmd EXCEPT ![u] = Idle], known' = known, blocks' = blocks
    PROVE  ConversationInv'
<1>1. Waiting(cmd', known)
  BY IdleWaits, Zenon DEF ConversationInv
<1> QED
  BY <1>1 DEF ConversationInv

\* A command other than a message stores what it makes of the open match it
\* found, or the match as the lock left it.
LEMMA GuardedStep ==
    ASSUME ConversationInv, NEW u \in Pair, NEW result, guarded(u, result),
           Found.status \in Open => Sound(result.conv, known, blocks),
           known' = known, blocks' = blocks
    PROVE  ConversationInv'
<1>1. Sound(conv, known, blocks) /\ conv \in MatchRow
  BY DEF ConversationInv, Sound
<1>2. Sound(Found, known, blocks)
  BY <1>1, LockKeeps, KeptSound, Zenon DEF Found
<1>3. lock_conversation(conv).result = "available" => Found.status \in Open
  BY <1>1, LockKeeps, Zenon DEF Found
<1>4. PICK d : d = conv'
  OBVIOUS
<1>5. /\ conv' = IF lock_conversation(conv).result = "available" THEN result.conv ELSE Found
      /\ cmd' = [cmd EXCEPT ![u] = Idle]
  BY DEF guarded, finish, Found
<1>6. Sound(d, known, blocks)
  BY <1>2, <1>3, <1>4, <1>5
<1> QED
  BY <1>4, <1>5, <1>6, FinishStep, Zenon

\* The message a user sends.
LEMMA SendStep ==
    ASSUME ConversationInv, NEW u \in Pair, cmd[u].op = "send"
    PROVE  /\ Sound(send(conv, u, cmd[u]).conv, known, blocks)
           /\ send(conv, u, cmd[u]).answer \in {"created", "replayed"} =>
                blocks = {} /\ conv.status \in {"active", "confirmed"}
<1>1. Sound(conv, known, blocks) /\ conv \in MatchRow
  BY DEF ConversationInv, Sound
<1>2. PICK q : q = cmd[u]
  OBVIOUS
<1>3. q \in [op : {"send"}, key : MessageKeys, text : Texts, since : Nat]
  BY <1>2 DEF ConversationInv, Waiting, Command
<1>4. PICK f, r : f = lock_conversation(conv).conv /\ r = lock_conversation(conv).result
  OBVIOUS
<1>5. Sound(f, known, blocks)
  BY <1>1, <1>4, LockKeeps, KeptSound, Zenon
<1>6. /\ r \in {"expired", "invalid", "available"}
      /\ r = "available" => f.status \in Open /\ (f.status # "awaiting" => f.status = conv.status)
  BY <1>1, <1>4, LockKeeps
<1>7. CASE r # "available"
  <2>1. send(conv, u, q) = [conv |-> f, answer |-> r]
    BY <1>4, <1>7 DEF send
  <2> QED
    BY <1>2, <1>5, <1>6, <1>7, <2>1
<1>8. CASE r = "available"
  <2>1. send(conv, u, q) = create_message(f, u, q)
    BY <1>4, <1>8 DEF send
  <2>2. f.status \in Open
    BY <1>6, <1>8
  <2>3. /\ Sound(create_message(f, u, q).conv, known, blocks)
        /\ create_message(f, u, q).answer \in {"created", "replayed"} => f.status # "awaiting"
    BY <1>3, <1>5, <2>2, CreateSound
  <2>4. blocks = {}
    BY <1>5, <2>2 DEF Sound
  <2> QED
    BY <1>2, <1>6, <1>8, <2>1, <2>2, <2>3, <2>4 DEF Open
<1> QED
  BY <1>7, <1>8

\* A list shows the reader every message stored so far.
LEMMA ListStep ==
    ASSUME ConversationInv, NEW u \in Pair, list_messages(u)
    PROVE  ConversationInv'
<1>1. Sound(conv, known, blocks) /\ conv \in MatchRow /\ Waiting(cmd, known)
  BY DEF ConversationInv, Sound
<1>2. CASE lock_conversation(conv).result # "available"
  <2>1. known' = known
    BY <1>1, <1>2 DEF list_messages, Sound, KnownFirst
  <2>2. PICK d : d = Found
    OBVIOUS
  <2>3. conv' = d /\ cmd' = [cmd EXCEPT ![u] = Idle] /\ blocks' = blocks
    BY <1>2, <2>2 DEF list_messages, guarded, finish, Found
  <2>4. Sound(d, known, blocks)
    BY <1>1, <2>2, LockKeeps, KeptSound, Zenon DEF Found
  <2> QED
    BY <2>1, <2>3, <2>4, FinishStep, Zenon
<1>3. CASE lock_conversation(conv).result = "available"
  <2>1. PICK d : d = Found
    OBVIOUS
  <2>2. Kept(conv, d) /\ d.status \in Open
    BY <1>1, <1>3, <2>1, LockKeeps, Zenon DEF Found
  <2>3. Sound(d, known, blocks)
    BY <1>1, <2>2, KeptSound, Zenon
  <2>4. conv' = d /\ cmd' = [cmd EXCEPT ![u] = Idle] /\ blocks' = blocks
    BY <1>3, <2>1 DEF list_messages, guarded, finish, Found
  <2>5. d.messages = conv.messages /\ d.messages \in Seq(Message)
    BY <2>2 DEF Kept, MatchRow
  <2>6. Ids(conv) = 1 .. Len(d.messages)
    <3>1. DOMAIN d.messages = 1 .. Len(d.messages)
      BY <2>5
    <3>2. \A i \in 1 .. Len(d.messages) : d.messages[i].id = i
      BY <2>2, <2>3 DEF Sound, Numbered
    <3> QED
      BY <2>5, <3>1, <3>2 DEF Ids, Stored, Range
  <2>7. PICK k : k = [known EXCEPT ![u] = 1 .. Len(d.messages)]
    BY Zenon
  <2>8. known' = k
    BY <1>3, <2>6, <2>7 DEF list_messages, messages_for_user
  <2>9. known \in [Pair -> SUBSET Nat]
    BY <1>1 DEF Sound, KnownFirst
  <2>10. /\ k[u] = 1 .. Len(d.messages)
         /\ \A v \in Pair : v # u => k[v] = known[v]
         /\ k \in [Pair -> SUBSET Nat]
    <3>1. 1 .. Len(d.messages) \in SUBSET Nat
      BY <2>5
    <3> QED
      BY <2>7, <2>9, <3>1
  <2>11. KnownFirst(d, k)
    BY <2>2, <2>3, <2>5, <2>10 DEF Sound, KnownFirst
  <2>12. ReadKnown(d, k)
    <3> SUFFICES ASSUME NEW i \in 1 .. Len(d.messages), d.messages[i].read
                 PROVE  d.messages[i].id \in k[Other(d.messages[i].from)]
      BY DEF ReadKnown
    <3>1. d.messages[i].id = i
      BY <2>2, <2>3 DEF Sound, Numbered
    <3>2. d.messages[i].id \in known[Other(d.messages[i].from)]
      BY <2>3 DEF Sound, ReadKnown
    <3>3. Other(d.messages[i].from) \in Pair
      <4>1. d.messages[i] \in Message
        BY <2>5
      <4>2. d.messages[i].from \in Pair
        BY <4>1 DEF Message
      <4> QED
        BY <4>2, TheOther
    <3> QED
      BY <2>10, <3>1, <3>2, <3>3
  <2>13. Sound(d, k, blocks)
    BY <2>3, <2>11, <2>12 DEF Sound
  <2>14. Waiting(cmd', k)
    <3>1. Waiting(cmd', known)
      BY <1>1, <2>4, IdleWaits, Zenon
    <3>2. cmd'[u] = Idle
      BY <1>1, <2>4 DEF Waiting
    <3>3. Idle.op = "none"
      BY DEF Idle
    <3> QED
      BY <2>10, <3>1, <3>2, <3>3 DEF Waiting
  <2> QED
    BY <2>4, <2>8, <2>13, <2>14 DEF ConversationInv
<1> QED
  BY <1>2, <1>3

\* The steps that take the match without a command: its end, a continuation,
\* a report, maintenance and the clock.
LEMMA RowStep ==
    ASSUME ConversationInv, end \/ continuation_agreed \/ report \/ run_match_batch \/ time_passes
    PROVE  ConversationInv'
<1>1. Sound(conv, known, blocks) /\ conv \in MatchRow /\ Waiting(cmd, known)
  BY DEF ConversationInv, Sound
<1>2. UNCHANGED <<blocks, cmd, known>>
  BY DEF end, continuation_agreed, report, run_match_batch, time_passes
<1>3. Kept(conv, conv')
  <2>1. CASE end
    <3>1. Kept(conv, conv)
      BY <1>1, KeptSame
    <3>2. 0 \in Int /\ PURGE \in Int /\ conv.purge \in Int /\ "ended" \in Closed
      BY <1>1, ConversationAssumption DEF MatchRow, Closed
    <3>3. \A p \in Int : Kept(conv, Ended(conv, p))
      <4> TAKE p \in Int
      <4>1. Lapsed(conv, "ended", p) = Ended(conv, p)
        BY Zenon DEF Lapsed, Ended
      <4> QED
        BY <1>1, <3>2, <4>1, LapseKeeps
    <3>4. conv' = store_end(conv)
      BY <2>1 DEF end
    <3> QED
      BY <3>1, <3>2, <3>3, <3>4 DEF store_end
  <2>2. CASE continuation_agreed
    <3>1. PICK e : e = [conv EXCEPT !.status = "confirmed"]
      BY Zenon
    <3>2. e \in MatchRow /\ e.messages = conv.messages /\ e.notes = conv.notes
          /\ e.revealed = conv.revealed /\ e.version = conv.version /\ e.status = "confirmed"
      BY <1>1, <3>1, Zenon DEF MatchRow, Statuses, Open
    <3>3. CONVERSATION_INACTIVITY \in Int /\ "confirmed" \in Statuses
      BY ConversationAssumption DEF Statuses, Open
    <3>4. PICK d : d = conv'
      OBVIOUS
    <3>5. d = Dated(e, "confirmed", CONVERSATION_INACTIVITY)
      <4>1. d = [e EXCEPT !.left = CONVERSATION_INACTIVITY, !.deadline = e.deadline + 1]
        BY <2>2, <3>1, <3>4 DEF continuation_agreed, Renewed
      <4> QED
        BY <3>2, <4>1, Zenon DEF Dated, MatchRow
    <3>6. d \in MatchRow /\ d.messages = e.messages /\ d.notes = e.notes
          /\ d.revealed = e.revealed /\ d.version = e.version
      BY <3>2, <3>3, <3>5, RowDates
    <3>7. conv.status \in Open
      BY <2>2 DEF continuation_agreed, Open
    <3> QED
      BY <1>1, <3>2, <3>4, <3>6, <3>7, KeptSame
  <2>3. CASE report
    <3>1. PICK e : e = [conv EXCEPT !.report = "attached"]
      BY Zenon
    <3>2. DOMAIN e = DOMAIN conv
      BY <3>1
    <3>3. e \in MatchRow /\ e.messages = conv.messages /\ e.notes = conv.notes
          /\ e.revealed = conv.revealed /\ e.version = conv.version /\ e.status = conv.status
      BY <1>1, <3>1, <3>2 DEF MatchRow
    <3> QED
      BY <1>1, <2>3, <3>1, <3>3, KeptSame, Zenon DEF report
  <2>4. CASE run_match_batch
    BY <1>1, <2>4, BatchKeeps
  <2>5. CASE time_passes
    <3>1. PICK l, p \in Int : conv' = [conv EXCEPT !.left = l, !.purge = p]
      <4>1. conv.left \in Int /\ conv.purge \in Int
        BY <1>1 DEF MatchRow
      <4>2. conv.left - 1 \in Int /\ conv.purge - 1 \in Int
        BY <4>1
      <4> QED
        BY <2>5, <4>1, <4>2, Zenon DEF time_passes
    <3>2. PICK e : e = [conv EXCEPT !.left = l, !.purge = p]
      OBVIOUS
    <3>3. e \in MatchRow /\ e.messages = conv.messages /\ e.notes = conv.notes
          /\ e.revealed = conv.revealed /\ e.version = conv.version /\ e.status = conv.status
      BY <1>1, <3>2, Zenon DEF MatchRow
    <3> QED
      BY <1>1, <3>1, <3>2, <3>3, KeptSame, Zenon
  <2> QED
    BY <2>1, <2>2, <2>3, <2>4, <2>5
<1>4. PICK d : d = conv'
  OBVIOUS
<1>5. Sound(d, known, blocks)
  BY <1>1, <1>3, <1>4, KeptSound, Zenon
<1> QED
  BY <1>1, <1>2, <1>4, <1>5 DEF ConversationInv

\* Every step keeps the conversation sound.
LEMMA ConversationStep ==
    ConversationInv /\ [ConversationNext]_conversationVars => ConversationInv'
<1> SUFFICES ASSUME ConversationInv, [ConversationNext]_conversationVars
             PROVE  ConversationInv'
  OBVIOUS
<1>1. Sound(conv, known, blocks) /\ conv \in MatchRow /\ Waiting(cmd, known)
  BY DEF ConversationInv, Sound
<1>2. Sound(Found, known, blocks)
  BY <1>1, LockKeeps, KeptSound, Zenon DEF Found
<1>3. ASSUME NEW u \in Pair, request_send(u) PROVE ConversationInv'
  <2>1. PICK key \in MessageKeys, text \in Texts :
            begin(u, [op |-> "send", key |-> key, text |-> text, since |-> Len(conv.messages)])
    BY <1>3, Zenon DEF request_send
  <2>2. PICK x : x = [op |-> "send", key |-> key, text |-> text, since |-> Len(conv.messages)]
    BY Zenon
  <2>3. Len(conv.messages) \in Nat
    BY <1>1 DEF MatchRow
  <2>4. x \in Command /\ x.op = "send"
    BY <2>2, <2>3 DEF Command
  <2> QED
    BY <2>1, <2>2, <2>4, BeginStep
<1>4. ASSUME NEW u \in Pair, send_message(u) PROVE ConversationInv'
  <2>1. cmd[u].op = "send" /\ finish(u, send(conv, u, cmd[u])) /\ UNCHANGED <<blocks, known>>
    BY <1>4 DEF send_message
  <2>2. PICK d : d = send(conv, u, cmd[u]).conv
    OBVIOUS
  <2>3. Sound(d, known, blocks)
    BY <2>1, <2>2, SendStep
  <2>4. conv' = d /\ cmd' = [cmd EXCEPT ![u] = Idle] /\ known' = known /\ blocks' = blocks
    BY <2>1, <2>2 DEF finish
  <2> QED
    BY <2>3, <2>4, FinishStep, Zenon
<1>5. ASSUME NEW u \in Pair, request_list(u) PROVE ConversationInv'
  <2>1. PICK x : x = [op |-> "list"]
    BY Zenon
  <2>2. x \in Command /\ x.op = "list"
    BY <2>1 DEF Command
  <2> QED
    BY <1>5, <2>1, <2>2, BeginStep DEF request_list
<1>6. ASSUME NEW u \in Pair, request_read_one(u) \/ request_read_through(u) PROVE ConversationInv'
  <2>1. PICK op \in {"read_one", "read_through"}, id \in known[u] :
            begin(u, [op |-> op, id |-> id])
    BY <1>6, Zenon DEF request_read_one, request_read_through
  <2>2. PICK x : x = [op |-> op, id |-> id]
    BY Zenon
  <2>3. id \in Nat
    BY <1>1 DEF Sound, KnownFirst
  <2>4. x \in Command /\ x.id = id
    BY <2>2, <2>3 DEF Command
  <2> QED
    BY <2>1, <2>2, <2>4, BeginStep
<1>7. ASSUME NEW u \in Pair, read_one(u) \/ read_through(u) PROVE ConversationInv'
  <2>1. cmd[u].id \in known[u] /\ known' = known /\ blocks' = blocks
    BY <1>1, <1>7, Zenon DEF read_one, read_through, Waiting
  <2>2. PICK q : q = cmd[u]
    OBVIOUS
  <2>3. CASE read_one(u)
    <3>1. PICK r : r = IF cmd[u].id \notin Ids(Found) THEN [conv |-> Found, answer |-> "not_found"]
                       ELSE [conv |-> mark_message_read(Found, u, cmd[u]), answer |-> "read"]
      BY Zenon
    <3>2. guarded(u, r)
      BY <2>3, <3>1 DEF read_one
    <3>3. Found.status \in Open => Sound(mark_message_read(Found, u, q), known, blocks)
      BY <1>2, <2>1, <2>2, ReadOneSound
    <3>4. r.conv = Found \/ r.conv = mark_message_read(Found, u, q)
      BY <2>2, <3>1
    <3>5. Found.status \in Open => Sound(r.conv, known, blocks)
      BY <1>2, <3>3, <3>4
    <3> QED
      BY <2>1, <3>2, <3>5, GuardedStep
  <2>4. CASE read_through(u)
    <3>1. PICK r : r = IF cmd[u].id \notin Ids(Found) THEN [conv |-> Found, answer |-> "not_found"]
                       ELSE [conv |-> mark_messages_read_through(Found, u, cmd[u]),
                             answer |-> "read"]
      BY Zenon
    <3>2. guarded(u, r)
      BY <2>4, <3>1 DEF read_through
    <3>3. Found.status \in Open /\ q.id \in Ids(Found) =>
            Sound(mark_messages_read_through(Found, u, q), known, blocks)
      BY <1>2, <2>1, <2>2, ReadThroughSound
    <3>4. \/ r.conv = Found
          \/ q.id \in Ids(Found) /\ r.conv = mark_messages_read_through(Found, u, q)
      BY <2>2, <3>1
    <3>5. Found.status \in Open => Sound(r.conv, known, blocks)
      BY <1>2, <3>3, <3>4
    <3> QED
      BY <2>1, <3>2, <3>5, GuardedStep
  <2> QED
    BY <1>7, <2>3, <2>4
<1>8. ASSUME NEW u \in Pair, request_reveal(u) \/ request_withdrawal(u) PROVE ConversationInv'
  <2>1. PICK granted \in BOOLEAN : begin(u, [op |-> "reveal", granted |-> granted])
    BY <1>8, Zenon DEF request_reveal, request_withdrawal
  <2>2. PICK x : x = [op |-> "reveal", granted |-> granted]
    BY Zenon
  <2>3. x \in Command /\ x.op = "reveal"
    BY <2>2 DEF Command
  <2> QED
    BY <2>1, <2>2, <2>3, BeginStep
<1>9. ASSUME NEW u \in Pair, set_reveal(u) PROVE ConversationInv'
  <2>1. PICK granted : granted = cmd[u].granted
    OBVIOUS
  <2>2. granted \in BOOLEAN
    BY <1>1, <1>9, <2>1, ZenonT(90) DEF set_reveal, Waiting, Command
  <2>3. PICK r : r = record_reveal(Found, u, granted)
    OBVIOUS
  <2>4. guarded(u, r) /\ known' = known /\ blocks' = blocks
    BY <1>9, <2>1, <2>3 DEF set_reveal
  <2>5. Found.status \in Open => Sound(r.conv, known, blocks)
    BY <1>1, <1>2, <2>2, <2>3, RevealSound
  <2> QED
    BY <2>4, <2>5, GuardedStep
<1>10. ASSUME NEW u \in Pair, block_user(u) PROVE ConversationInv'
  <2>1. PICK d : d = block_match(conv)
    OBVIOUS
  <2>2. Kept(conv, d) /\ d.status \notin Open
    <3>1. PURGE \in Int /\ "ended" \in Closed
      BY ConversationAssumption DEF Closed
    <3>2. Lapsed(conv, "ended", PURGE) = Ended(conv, PURGE)
      BY Zenon DEF Lapsed, Ended
    <3>3. Kept(conv, Ended(conv, PURGE)) /\ Ended(conv, PURGE).status \notin Open
      BY <1>1, <3>1, <3>2, LapseKeeps
    <3>4. Kept(conv, conv)
      BY <1>1, KeptSame
    <3> QED
      BY <2>1, <3>3, <3>4 DEF block_match
  <2>3. Sound(d, known, blocks)
    BY <1>1, <2>2, KeptSound, Zenon
  <2>4. Sound(d, known, blocks \cup {u})
    BY <2>2, <2>3 DEF Sound
  <2>5. conv' = d /\ blocks' = blocks \cup {u} /\ cmd' = cmd /\ known' = known
    BY <1>10, <2>1 DEF block_user
  <2> QED
    BY <1>1, <2>4, <2>5 DEF ConversationInv
<1>11. ASSUME NEW u \in Pair, unblock(u) PROVE ConversationInv'
  <2>1. Sound(conv, known, blocks \ {u})
    BY <1>1 DEF Sound
  <2> QED
    BY <1>1, <1>11, <2>1 DEF unblock, ConversationInv
<1>12. ASSUME NEW u \in Pair, gone(u) PROVE ConversationInv'
  BY <1>1, <1>12, FinishStep, ZenonT(90) DEF gone, finish
<1>13. ASSUME UNCHANGED <<conv, blocks, cmd, known>> PROVE ConversationInv'
  BY <1>13 DEF ConversationInv
<1>14. ASSUME NEW u \in Pair, change_photo(u) PROVE ConversationInv'
  BY <1>13, <1>14 DEF change_photo
<1>15. CASE UNCHANGED conversationVars
  BY <1>13, <1>15 DEF conversationVars
<1> QED
  BY <1>3, <1>4, <1>5, <1>6, <1>7, <1>8, <1>9, <1>10, <1>11, <1>12, <1>14, <1>15,
     ListStep, RowStep, Zenon DEF ConversationNext

LEMMA ConversationInvariance == ConversationSpec => []ConversationInv
BY ConversationStarts, ConversationStep, PTL DEF ConversationSpec

\* What the participants are shown is what is stored, for any deadlines and any
\* number of messages: list and lock agree on what has lapsed, a message marked
\* read was listed by its reader, and a reveal both agreed to is announced
\* (matches/service.rs; pg/messages.rs; pg/reveal.rs).
THEOREM ShownMatchIsStored == ConversationSpec => []ShownAsStored
<1>1. ConversationInv => ShownAsStored
  <2> SUFFICES ASSUME ConversationInv PROVE ShownAsStored
    OBVIOUS
  <2>1. Sound(conv, known, blocks) /\ conv \in MatchRow /\ conv.messages \in Seq(Message)
    BY Zenon DEF ConversationInv, Sound, MatchRow
  <2>2. ListAgrees
    BY <2>1, ListedAsFound
  <2>3. ReadWasVisible
    <3>1. DOMAIN conv.messages = 1 .. Len(conv.messages)
      BY <2>1
    <3>2. \A i \in DOMAIN conv.messages :
            conv.messages[i].read => conv.messages[i].id \in known[Other(conv.messages[i].from)]
      BY <2>1, <3>1, Zenon DEF Sound, ReadKnown
    <3> QED
      BY <3>2, Zenon DEF ReadWasVisible, Stored, Range
  <2>4. RevealAnnounced
    BY <2>1 DEF Sound, Announced, RevealAnnounced
  <2> QED
    BY <2>2, <2>3, <2>4 DEF ShownAsStored
<1> QED
  BY <1>1, ConversationInvariance, PTL

\* A message is accepted, or confirmed again, only in an open match without
\* blocks, although its sender looked for blocks before waiting for the match
\* (pg/messages.rs).
THEOREM SendingNeedsAccess == ConversationSpec => SendNeedsAccess
<1>1. ConversationInv => SendHadAccess
  BY SendStep DEF SendHadAccess
<1>2. ConversationInv /\ [ConversationNext]_conversationVars => [SendHadAccess]_conversationVars
  BY <1>1
<1> QED
  BY <1>2, ConversationInvariance, PTL DEF ConversationSpec, SendNeedsAccess
=============================================================================
