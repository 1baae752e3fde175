---------------------------- MODULE Conversation ----------------------------
(***************************************************************************)
(* The life of one match after its creation: messages repeated with their  *)
(* idempotency key, read markers, the reveal of photos, the end, a block,  *)
(* reports, the deadlines and the maintenance that closes and purges it.   *)
(*                                                                         *)
(* A user's command is one transaction in two steps.  Its first statement  *)
(* looks for blocks in a snapshot and then waits for the lock of the       *)
(* match; what it does under the lock, it does to the row as it is by      *)
(* then.  The rest of the transaction, and a batch of maintenance, is      *)
(* atomic.  Deadlines are kept as the time left until they pass.           *)
(***************************************************************************)
EXTENDS Integers, Sequences, FiniteSets, Functions

CONSTANTS
    Pair,                     \* the two participants
    MessageKeys,              \* idempotency keys of messages
    Texts,                    \* message contents
    Scenarios,                \* bound: the sets of events that are explored together
    CONVERSATION_WINDOW,      \* MATCH_WINDOW_HOURS and the continuation window
    CONVERSATION_INACTIVITY,  \* MATCH_INACTIVITY_DAYS
    WARNING,                  \* MATCH_WARNING_DAYS and the reminder before a first period's end
    PURGE,                    \* MATCH_PURGE_DAYS
    BATCH,                    \* match_maintenance_batch_size
    MaxMessages,              \* bound: messages stored
    MaxReveals                \* bound: how often both have revealed

ASSUME ConversationAssumption ==
    /\ \E u, v \in Pair : u # v /\ Pair = {u, v}
    /\ {CONVERSATION_WINDOW, CONVERSATION_INACTIVITY, PURGE, BATCH} \subseteq Nat

VARIABLES
    conv,           \* the match row and the rows that name it
    blocks,         \* users who block the other
    photo,          \* users with a ready and approved photo
    cmd,            \* each user's command that waits for the match, if any
    known,          \* messages that existed when the user last listed them
    scenario        \* the events of this behaviour

conversationVars == <<conv, blocks, photo, cmd, known, scenario>>

Other(u) == CHOOSE v \in Pair : v # u
Idle == [op |-> "none"]
Never == -1 - CONVERSATION_WINDOW        \* purge_after IS NULL
Open == {"active", "awaiting", "confirmed"}
Closed == {"ended", "expired"}
Note(to, kind, source) == [to |-> to, kind |-> kind, source |-> source]

\* deadline counts the values expires_at has had.
ConversationInit ==
    /\ conv = [status |-> "active", left |-> CONVERSATION_WINDOW, deadline |-> 0,
               purge |-> Never, messages |-> <<>>, revealed |-> {}, version |-> 0,
               notes |-> {Note(u, "new_match", 0) : u \in Pair}, report |-> "none"]
    /\ blocks = {}
    /\ photo = Pair
    /\ cmd = [u \in Pair |-> Idle]
    /\ known = [u \in Pair |-> {}]
    /\ scenario \in Scenarios

-----------------------------------------------------------------------------
(* Rows. *)

Stored(c) == Range(c.messages)
Ids(c) == {m.id : m \in Stored(c)}

\* ON CONFLICT (deduplication_key) DO NOTHING.
enqueue_notification(c, to, kind, source) ==
    [c EXCEPT !.notes = @ \cup {Note(u, kind, source) : u \in to}]

Ended(c, purge) == [c EXCEPT !.status = "ended", !.purge = purge]

\* The inactivity deadline runs from the confirmation or the last message.
Renewed(c) == [c EXCEPT !.left = CONVERSATION_INACTIVITY, !.deadline = @ + 1]

\* Under the lock of the row: what the clock has closed is closed, and what is
\* left says whether the command may go on.
lock_conversation(c) ==
    LET opened == IF c.status = "active" /\ c.left <= 0
                  THEN [c EXCEPT !.status = "awaiting", !.left = @ + CONVERSATION_WINDOW,
                                 !.deadline = @ + 1]
                  ELSE c
    IN  CASE c.status = "confirmed" /\ c.left <= 0 ->
                [conv |-> Ended(c, 0), result |-> "expired"]
          [] opened.status = "awaiting" /\ opened.left <= 0 ->
                [conv |-> [opened EXCEPT !.status = "expired", !.purge = PURGE],
                 result |-> "expired"]
          [] opened.status \notin Open -> [conv |-> opened, result |-> "invalid"]
          [] OTHER -> [conv |-> opened, result |-> "available"]

\* GET /api/matches/me hides what is over, and a match behind a block.
Listed(c) ==
    /\ blocks = {} /\ c.status \notin {"ended", "purged"}
    /\ c.status = "confirmed" => c.left > 0

\* Mutant: a lapsed first period is shown as over.
ShownStatus_NoWindow(c) ==
    IF c.status \in {"active", "awaiting"} /\ c.left <= 0 THEN "expired" ELSE c.status

\* The status it shows: the deadlines are applied to the copy of the row.
ShownStatus(c) ==
    LET waiting == c.status = "awaiting" \/ (c.status = "active" /\ c.left <= 0)
        left == IF c.status = "active" THEN c.left + CONVERSATION_WINDOW ELSE c.left
    IN  IF ~waiting THEN c.status ELSE IF left <= 0 THEN "expired" ELSE "awaiting"

-----------------------------------------------------------------------------
(* Messages. *)

\* Mutant: created_at is the start of the transaction, taken before the wait for
\* the lock.
Placed_AtStart(c, m, since) == [c EXCEPT !.messages =
    SubSeq(@, 1, since) \o <<m>> \o SubSeq(@, since + 1, Len(@))]

\* created_at is read under the lock, so the list is ordered by it.
Placed(c, m, since) == [c EXCEPT !.messages = Append(@, m)]

find_idempotent_message(c, u, k) == {n \in Stored(c) : n.from = u /\ n.key = k.key}

create_message(c, u, k) ==
    LET m == [id |-> Len(c.messages) + 1, from |-> u, key |-> k.key, text |-> k.text,
              read |-> FALSE]
        sent == Placed(c, m, k.since)
        dated == IF c.status = "confirmed" THEN Renewed(sent) ELSE sent
        same == find_idempotent_message(c, u, k)
    IN  IF c.status = "awaiting" THEN [conv |-> c, answer |-> "invalid"]
        ELSE IF same # {}
        THEN [conv |-> c,
              answer |-> IF \A n \in same : n.text = k.text THEN "replayed" ELSE "conflict"]
        ELSE [conv |-> enqueue_notification(dated, {Other(u)}, "new_message", m.id),
              answer |-> "created"]

send(c, u, k) ==
    LET found == lock_conversation(c)
    IN  IF found.result # "available"
        THEN [conv |-> found.conv, answer |-> found.result]
        ELSE create_message(found.conv, u, k)

messages_for_user(c) == Ids(c)

\* The boundary and everything of the other user before it.
mark_messages_read_through(c, u, k) ==
    LET place == CHOOSE i \in DOMAIN c.messages : c.messages[i].id = k.id
    IN  [c EXCEPT !.messages = [i \in DOMAIN @ |->
            IF i <= place /\ @[i].from # u THEN [@[i] EXCEPT !.read = TRUE] ELSE @[i]]]

mark_message_read(c, u, k) ==
    [c EXCEPT !.messages = [i \in DOMAIN @ |->
        IF @[i].id = k.id /\ @[i].from # u THEN [@[i] EXCEPT !.read = TRUE] ELSE @[i]]]

-----------------------------------------------------------------------------
(* The reveal of photos. *)

\* Mutant: both consents are counted before the caller's own is stored.
BothRevealed_Stale(c, u, granted) == c.revealed = Pair

\* The caller's new consent is laid over the snapshot of match_state.
BothRevealed(c, u, granted) ==
    \A v \in Pair : IF v = u THEN granted ELSE v \in c.revealed

Consented(c, u, granted) == [c EXCEPT !.revealed = IF granted THEN @ \cup {u} ELSE @ \ {u}]

\* One announcement to both for each time the agreement comes about.
announce_reveal(c) ==
    LET next == [c EXCEPT !.version = @ + 1]
    IN  enqueue_notification(next, Pair, "photos_revealed", next.version)

\* A photo that is missing is an error: it takes back what the lock wrote too.
record_reveal(c, u, granted) ==
    LET was == c.revealed = Pair
        both == BothRevealed(c, u, granted)
        stored == Consented(c, u, granted)
    IN  IF granted /\ photo # Pair THEN [conv |-> conv, answer |-> "photo_required"]
        ELSE [conv |-> IF both /\ ~was THEN announce_reveal(stored) ELSE stored,
              answer |-> IF both THEN "revealed" ELSE "recorded"]

-----------------------------------------------------------------------------
(* The end of the match. *)

store_end(c) ==
    IF c.status = "ended" THEN c
    ELSE Ended(c, IF c.purge # Never THEN c.purge
                  ELSE IF c.status = "confirmed" /\ c.left <= 0 THEN 0 ELSE PURGE)

\* Mutant: the match is left to its deadline.
block_match_Kept(c) == c

block_match(c) == IF c.status \in Open THEN Ended(c, PURGE) ELSE c

-----------------------------------------------------------------------------
(* Commands of the participants. *)

\* The first statement of a command finds the match unless a block hides it, and
\* waits for the row; otherwise the answer is "not found" and nothing changes.
begin(u, k) ==
    /\ cmd[u] = Idle /\ k.op \in scenario /\ conv.status # "purged"
    /\ blocks = {}
    /\ cmd' = [cmd EXCEPT ![u] = k]
    /\ UNCHANGED <<conv, blocks, photo, known, scenario>>

\* The transaction has the row, and ends.
finish(u, result) ==
    /\ conv' = result.conv
    /\ cmd' = [cmd EXCEPT ![u] = Idle]

\* A command other than a message, under the lock: what it does with the match
\* as found there, if the match is available.
Found == lock_conversation(conv).conv
guarded(u, result) ==
    LET locked == lock_conversation(conv)
    IN  finish(u, IF locked.result = "available" THEN result
                  ELSE [conv |-> locked.conv, answer |-> locked.result])

\* A row that is gone is not found.
gone(u) ==
    /\ cmd[u] # Idle /\ conv.status = "purged"
    /\ finish(u, [conv |-> conv, answer |-> "not_found"])
    /\ UNCHANGED <<blocks, photo, known, scenario>>

request_send(u) ==
    /\ Len(conv.messages) < MaxMessages
    /\ \E key \in MessageKeys, text \in Texts :
        begin(u, [op |-> "send", key |-> key, text |-> text, since |-> Len(conv.messages)])

send_message(u) ==
    /\ cmd[u].op = "send" /\ conv.status # "purged"
    /\ Len(conv.messages) < MaxMessages
    /\ finish(u, send(conv, u, cmd[u]))
    /\ UNCHANGED <<blocks, photo, known, scenario>>

request_list(u) == begin(u, [op |-> "list"])

list_messages(u) ==
    /\ cmd[u].op = "list" /\ conv.status # "purged"
    /\ guarded(u, [conv |-> Found, answer |-> "listed"])
    /\ known' = [known EXCEPT ![u] =
                    IF lock_conversation(conv).result = "available"
                    THEN messages_for_user(conv) ELSE @]
    /\ UNCHANGED <<blocks, photo, scenario>>

request_read_one(u) == \E id \in known[u] : begin(u, [op |-> "read_one", id |-> id])

request_read_through(u) == \E id \in known[u] : begin(u, [op |-> "read_through", id |-> id])

read_one(u) ==
    /\ cmd[u].op = "read_one" /\ conv.status # "purged"
    /\ guarded(u,
        IF cmd[u].id \notin Ids(Found) THEN [conv |-> Found, answer |-> "not_found"]
        ELSE [conv |-> mark_message_read(Found, u, cmd[u]), answer |-> "read"])
    /\ UNCHANGED <<blocks, photo, known, scenario>>

read_through(u) ==
    /\ cmd[u].op = "read_through" /\ conv.status # "purged"
    /\ guarded(u,
        IF cmd[u].id \notin Ids(Found) THEN [conv |-> Found, answer |-> "not_found"]
        ELSE [conv |-> mark_messages_read_through(Found, u, cmd[u]), answer |-> "read"])
    /\ UNCHANGED <<blocks, photo, known, scenario>>

request_reveal(u) ==
    /\ conv.version < MaxReveals
    /\ begin(u, [op |-> "reveal", granted |-> TRUE])

request_withdrawal(u) ==
    /\ conv.version < MaxReveals
    /\ begin(u, [op |-> "reveal", granted |-> FALSE])

set_reveal(u) ==
    /\ cmd[u].op = "reveal" /\ conv.status # "purged"
    /\ guarded(u, record_reveal(Found, u, cmd[u].granted))
    /\ UNCHANGED <<blocks, photo, known, scenario>>

\* Either participant; ending a match does not look for blocks.
end ==
    /\ "end" \in scenario /\ conv.status # "purged"
    /\ conv' = store_end(conv)
    /\ UNCHANGED <<blocks, photo, cmd, known, scenario>>

\* Both have agreed to continue: Continuation models how they come to.
continuation_agreed ==
    /\ conv.status = "awaiting" /\ conv.left > 0 /\ blocks = {}
    /\ conv' = Renewed([conv EXCEPT !.status = "confirmed"])
    /\ UNCHANGED <<blocks, photo, cmd, known, scenario>>

block_user(u) ==
    /\ "block" \in scenario /\ u \notin blocks
    /\ blocks' = blocks \cup {u}
    /\ conv' = block_match(conv)
    /\ UNCHANGED <<photo, cmd, known, scenario>>

unblock(u) ==
    /\ u \in blocks
    /\ blocks' = blocks \ {u}
    /\ UNCHANGED <<conv, photo, cmd, known, scenario>>

report ==
    /\ conv.status # "purged" /\ conv.report = "none" /\ "report" \in scenario
    /\ conv' = [conv EXCEPT !.report = "attached"]
    /\ UNCHANGED <<blocks, photo, cmd, known, scenario>>

\* A photo is deleted, rejected, replaced or approved.
change_photo(u) ==
    /\ "reveal" \in scenario
    /\ photo' = IF u \in photo THEN photo \ {u} ELSE photo \cup {u}
    /\ UNCHANGED <<conv, blocks, cmd, known, scenario>>

-----------------------------------------------------------------------------
(* Maintenance, one transaction per batch. *)

Purgeable(c) == c.status \in Closed /\ c.purge = 0
FirstOf(s) == SubSeq(s, BATCH + 1, Len(s))
SomeOf(s) == CHOOSE t \in SUBSET s :
    Cardinality(t) = IF Cardinality(s) < BATCH THEN Cardinality(s) ELSE BATCH

enqueue_first_period_reminders(c) ==
    IF c.status = "active" /\ c.left \in 1 .. WARNING /\ blocks = {}
    THEN enqueue_notification(c, Pair, "first_period_ending", c.deadline)
    ELSE c

open_continuation_windows(c) ==
    IF c.status = "active" /\ c.left <= 0
    THEN [c EXCEPT !.status = "awaiting", !.left = @ + CONVERSATION_WINDOW, !.deadline = @ + 1]
    ELSE c

expire_continuation_windows(c) ==
    IF c.status = "awaiting" /\ c.left <= 0
    THEN [c EXCEPT !.status = "expired", !.purge = PURGE]
    ELSE c

enqueue_warnings(c) ==
    IF c.status = "confirmed" /\ c.left \in 1 .. WARNING /\ blocks = {}
    THEN enqueue_notification(c, Pair, "match_expiring", c.deadline)
    ELSE c

close_inactive_matches(c) ==
    IF c.status = "confirmed" /\ c.left <= 0 THEN Ended(c, 0) ELSE c

delete_expired_messages(c) ==
    IF Purgeable(c) THEN [c EXCEPT !.messages = FirstOf(@)] ELSE c

detach_expired_reports(c) ==
    IF Purgeable(c) /\ c.report = "attached" THEN [c EXCEPT !.report = "detached"] ELSE c

\* Mutant: the notifications of a purged match are kept.
delete_expired_notifications_Kept(c) == c

delete_expired_notifications(c) ==
    IF Purgeable(c)
    THEN [c EXCEPT !.notes = @ \ SomeOf(@)]
    ELSE c

purge_expired_matches(c) ==
    IF Purgeable(c) /\ c.messages = <<>> /\ c.report # "attached" /\ c.notes = {}
    THEN [c EXCEPT !.status = "purged"]
    ELSE c

run_match_batch ==
    /\ "time" \in scenario /\ conv.status # "purged"
    /\ \E reminded \in {enqueue_first_period_reminders(conv)} :
       \E opened \in {open_continuation_windows(reminded)} :
       \E expired \in {expire_continuation_windows(opened)} :
       \E warned \in {enqueue_warnings(expired)} :
       \E closed \in {close_inactive_matches(warned)} :
       \E silent \in {delete_expired_messages(closed)} :
       \E detached \in {detach_expired_reports(silent)} :
       \E cleared \in {delete_expired_notifications(detached)} :
          conv' = purge_expired_matches(cleared)
    /\ UNCHANGED <<blocks, photo, cmd, known, scenario>>

time_passes ==
    /\ "time" \in scenario /\ conv.status # "purged"
    /\ LET left == IF conv.status \in Open /\ conv.left > -CONVERSATION_WINDOW
                   THEN conv.left - 1 ELSE conv.left
           purge == IF conv.purge > 0 THEN conv.purge - 1 ELSE conv.purge
       IN  conv' = [conv EXCEPT !.left = left, !.purge = purge]
    /\ conv' # conv
    /\ UNCHANGED <<blocks, photo, cmd, known, scenario>>

ConversationNext ==
    \/ \E u \in Pair :
        \/ request_send(u) \/ send_message(u)
        \/ request_list(u) \/ list_messages(u)
        \/ request_read_one(u) \/ read_one(u)
        \/ request_read_through(u) \/ read_through(u)
        \/ request_reveal(u) \/ request_withdrawal(u) \/ set_reveal(u)
        \/ block_user(u) \/ unblock(u) \/ change_photo(u) \/ gone(u)
    \/ end \/ report \/ continuation_agreed \/ run_match_batch \/ time_passes

\* The maintenance job runs at its interval for as long as a process runs.
ConversationFairness == WF_conversationVars(run_match_batch) /\ WF_conversationVars(time_passes)

ConversationSpec ==
    ConversationInit /\ [][ConversationNext]_conversationVars /\ ConversationFairness

-----------------------------------------------------------------------------
(* The list shows a match as the next command will find it: what is shown  *)
(* open is available in that state, what is shown expired or is not shown  *)
(* is not available.  Lapse is decided twice, in the list and under lock.  *)
ListAgrees ==
    LET found == lock_conversation(conv)
    IN  blocks = {} /\ conv.status # "purged" =>
            IF Listed(conv) /\ ShownStatus(conv) \in Open
            THEN found.result = "available" /\ found.conv.status = ShownStatus(conv)
            ELSE found.result # "available"

(* A message is accepted, or a repeated one confirmed, only while the      *)
(* match is open to messages and nobody blocks: a command that waited for  *)
(* the match behind a block or an end finds the row closed, although its   *)
(* own look for blocks is older.                                           *)
SendHadAccess ==
    \A u \in Pair :
        cmd[u].op = "send" /\ cmd'[u] = Idle
        /\ send(conv, u, cmd[u]).answer \in {"created", "replayed"} =>
            blocks = {} /\ conv.status \in {"active", "confirmed"}

(* A message is marked read only if it existed when its reader listed the  *)
(* conversation: creation dates grow in the order the messages become      *)
(* visible, so nothing slips in below a boundary already read.             *)
ReadWasVisible == \A m \in Stored(conv) : m.read => m.id \in known[Other(m.from)]

(* While the match is open, photos both have agreed to reveal have been    *)
(* announced to both, once for each time the agreement came about.         *)
RevealAnnounced ==
    conv.status \in Open /\ conv.revealed = Pair =>
        \A u \in Pair : Note(u, "photos_revealed", conv.version) \in conv.notes

\* What the participants are shown is what is stored: the list shows a match as
\* the next command will find it, a message marked read was listed by its
\* reader, and photos both agreed to reveal have been announced to both
\* (matches/service.rs; pg/messages.rs; pg/reveal.rs).
ShownAsStored == ListAgrees /\ ReadWasVisible /\ RevealAnnounced

\* A message is accepted, or confirmed again, only in an open match without
\* blocks, whatever the sender's command waited for (pg/messages.rs).
SendNeedsAccess == [][SendHadAccess]_conversationVars

(* A match that ends is purged in the end, and then nothing names it: no   *)
(* message, no notification, no report.                                    *)
ClosedIsPurged ==
    conv.status \in Closed /\ "time" \in scenario ~>
        (conv.status = "purged" /\ conv.messages = <<>> /\ conv.notes = {}
         /\ conv.report # "attached")
=============================================================================
