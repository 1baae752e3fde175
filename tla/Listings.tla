------------------------------ MODULE Listings ------------------------------
(***************************************************************************)
(* The keyset-paginated lists of the service.  A client walks a list page  *)
(* by page, giving each page's next_cursor back, while rows are inserted,  *)
(* change status, move to the front or leave.  Every list has its own SQL  *)
(* selection, its own service function and its own cursor codec; they are  *)
(* one protocol, so the walk is written once and `kind' says which list a  *)
(* behaviour walks.  A filter on a column that never changes (content      *)
(* type, role, event kind, owner) selects a table of its own and is left   *)
(* out; the filter kept is the one on a status that changes.               *)
(*                                                                         *)
(* Time is counted in microseconds, the precision PostgreSQL stores;       *)
(* Milli of them make a millisecond.                                       *)
(***************************************************************************)
EXTENDS Naturals, FiniteSets, Sequences, SequencesExt

CONSTANTS
  Ids,          \* the rows' identifiers: random uuids, ordered like numbers
  Kinds,        \* the lists walked
  MaxTime,      \* bound on the clock
  MaxWrites,    \* bound on the writes of the rest of the service
  MaxLimit,     \* the largest page a client may ask for (100 in the code)
  Milli         \* microseconds of a millisecond

VARIABLES
  kind,         \* the list this behaviour walks
  table,        \* identifier -> row or NoRow
  now,
  writes,       \* writes so far
  walk          \* the client's walk

listVars == <<kind, table, now, writes, walk>>

NoRow == [at |-> 0, status |-> "none"]
Start == [at |-> 0, id |-> 0]

(* The states a row of each list goes through and the ones it may change   *)
(* to.  "gone" rows have been deleted, retried, revoked or completed.      *)
Statuses(k) ==
  CASE k = "users"      -> {"active", "banned", "gone"}
    [] k = "reports"    -> {"pending", "resolved"}
    [] k = "requests"   -> {"pending", "completed"}
    [] k = "moderation" -> {"pending", "rejected"}
    [] k = "photos"     -> {"processing", "deleting", "gone"}
    [] k = "sessions"   -> {"live", "gone"}
    [] k \in {"dead_letters", "billing"} -> {"dead_letter", "gone"}
    [] k \in {"access_logs", "auth_events"} -> {"kept"}

First(k) ==
  CASE k = "users" -> "active"
    [] k \in {"reports", "requests", "moderation"} -> "pending"
    [] k = "photos" -> "processing"
    [] k = "sessions" -> "live"
    [] k \in {"dead_letters", "billing"} -> "dead_letter"
    [] k \in {"access_logs", "auth_events"} -> "kept"

(* The column a list is ordered by: set once for a creation time, written  *)
(* again by every change for updated_at and dead_lettered_at.              *)
Moves(k) == k \in {"moderation", "photos", "dead_letters", "billing"}

Rows == {i \in Ids : table[i] # NoRow}

----------------------------------------------------------------------------
(* What each list selects, before the cursor, the order and the limit.     *)

Wanted(i, f) == f \in {"all", table[i].status}

list_users(f) == {i \in Rows : table[i].status # "gone" /\ Wanted(i, f)}

list_reports(f) == {i \in Rows : Wanted(i, f)}

requests_for_admin(f) == {i \in Rows : Wanted(i, f)}

access_logs(f) == Rows

list_cases(f) == {i \in Rows : Wanted(i, f)}

(* A photo still processing is listed once it has been so for long enough  *)
(* (one unit here); a deletion is listed at once.                          *)
list_photos(f) ==
  {i \in Rows : /\ \/ table[i].status = "processing" /\ table[i].at < now
                   \/ table[i].status = "deleting"
                /\ Wanted(i, f)}

list_dead_letters(f) == {i \in Rows : table[i].status = "dead_letter"}

list_reconciliations(f) == {i \in Rows : table[i].status = "dead_letter"}

list_sessions(f) == {i \in Rows : table[i].status = "live"}

auth_events(f) == Rows

----------------------------------------------------------------------------
(* The cursor codecs, one for each service.  All but two write the row's   *)
(* time as PostgreSQL formatted it, to the microsecond.  A decoder refuses *)
(* what no encoder writes and reads back what one wrote.                   *)

Exactly(at, id) == [at |-> at, id |-> id]

ToTheMillisecond(at, id) == [at |-> at - (at % Milli), id |-> id]

users_cursor(at, id) == Exactly(at, id)

reports_cursor(at, id) == Exactly(at, id)

rights_cursor(at, id) == Exactly(at, id)

cases_cursor(at, id) == Exactly(at, id)

photos_cursor(at, id) == Exactly(at, id)

reconciliations_cursor(at, id) == Exactly(at, id)

sessions_cursor(at, id) == Exactly(at, id)

(* The administrators' authentication events and the dead letters of the   *)
(* outbox have the rest of the time cut off.                               *)
auth_events_cursor(at, id) == ToTheMillisecond(at, id)

dead_letters_cursor(at, id) == ToTheMillisecond(at, id)

Before(a, b) == \/ a.at < b.at
                \/ a.at = b.at /\ a.id < b.id

Key(i) == [at |-> table[i].at, id |-> i]

(* Mutant: only the times are compared, not (time, id).                    *)
Below_TimeOnly(i, c) == c = Start \/ Key(i).at < c.at

(* (time, id) < (cursor.at, cursor.id)                                     *)
Below(i, c) == c = Start \/ Before(Key(i), c)

(* The rows below the cursor, ORDER BY time DESC, id DESC.                 *)
Ordered(S, c) == SetToSortSeq({i \in S : Below(i, c)},
                              LAMBDA i, j : Before(Key(j), Key(i)))

validate_pagination(limit, offset, c) ==
  /\ limit \in 1..MaxLimit
  /\ c # Start => offset = 0

(* LIMIT n OFFSET o                                                        *)
Cut(s, n, o) ==
  IF o >= Len(s) THEN <<>>
  ELSE SubSeq(s, o + 1, IF o + n < Len(s) THEN o + n ELSE Len(s))

Page(items, next) == [items |-> items, next |-> next]

(* limit + 1 rows are read; the extra one only says whether more follow,   *)
(* and the cursor names the last row shown.                                *)
paginate(S, c, limit, offset) ==
  LET rows == Cut(Ordered(S, c), limit + 1, offset)
  IN  [items |-> Cut(rows, limit, 0), more |-> Len(rows) > limit]

WithCursor(page, Encode(_, _)) ==
  LET last == page.items[Len(page.items)]
  IN  Page(page.items, IF page.more THEN Encode(table[last].at, last) ELSE Start)

(* The service function of each list.                                      *)
users_page(f, c, n, o) == WithCursor(paginate(list_users(f), c, n, o), users_cursor)

reports_page(f, c, n, o) == WithCursor(paginate(list_reports(f), c, n, o), reports_cursor)

requests_page(f, c, n, o) == WithCursor(paginate(requests_for_admin(f), c, n, o), rights_cursor)

access_logs_page(f, c, n, o) == WithCursor(paginate(access_logs(f), c, n, o), rights_cursor)

cases_page(f, c, n, o) == WithCursor(paginate(list_cases(f), c, n, o), cases_cursor)

photos_page(f, c, n, o) == WithCursor(paginate(list_photos(f), c, n, o), photos_cursor)

(* Four lists take no offset.                                              *)
dead_letters_page(f, c, n) == WithCursor(paginate(list_dead_letters(f), c, n, 0), dead_letters_cursor)

reconciliations_page(f, c, n) == WithCursor(paginate(list_reconciliations(f), c, n, 0), reconciliations_cursor)

sessions_page(f, c, n) == WithCursor(paginate(list_sessions(f), c, n, 0), sessions_cursor)

auth_events_page(f, c, n) == WithCursor(paginate(auth_events(f), c, n, 0), auth_events_cursor)

TakesOffset == kind \in {"users", "reports", "requests", "access_logs",
                         "moderation", "photos"}

Selected(f) ==
  CASE kind = "users"        -> list_users(f)
    [] kind = "reports"      -> list_reports(f)
    [] kind = "requests"     -> requests_for_admin(f)
    [] kind = "access_logs"  -> access_logs(f)
    [] kind = "moderation"   -> list_cases(f)
    [] kind = "photos"       -> list_photos(f)
    [] kind = "dead_letters" -> list_dead_letters(f)
    [] kind = "billing"      -> list_reconciliations(f)
    [] kind = "sessions"     -> list_sessions(f)
    [] kind = "auth_events"  -> auth_events(f)

Asked(f, c, n, o) ==
  CASE kind = "users"        -> users_page(f, c, n, o)
    [] kind = "reports"      -> reports_page(f, c, n, o)
    [] kind = "requests"     -> requests_page(f, c, n, o)
    [] kind = "access_logs"  -> access_logs_page(f, c, n, o)
    [] kind = "moderation"   -> cases_page(f, c, n, o)
    [] kind = "photos"       -> photos_page(f, c, n, o)
    [] kind = "dead_letters" -> dead_letters_page(f, c, n)
    [] kind = "billing"      -> reconciliations_page(f, c, n)
    [] kind = "sessions"     -> sessions_page(f, c, n)
    [] kind = "auth_events"  -> auth_events_page(f, c, n)

----------------------------------------------------------------------------
(* The client.  `steady' holds the rows selected when the walk began that  *)
(* nothing has touched since and that the client did not ask to skip: the  *)
(* rows it has every reason to expect.                                     *)

Idle == [at |-> "idle", filter |-> "all", cursor |-> Start, shown |-> <<>>,
         steady |-> {}]

begin(f) ==
  /\ walk.at # "paging"
  /\ walk' = [at |-> "paging", filter |-> f, cursor |-> Start, shown |-> <<>>,
              steady |-> Selected(f)]
  /\ UNCHANGED <<kind, table, now, writes>>

fetch(limit, offset) ==
  /\ walk.at = "paging"
  /\ validate_pagination(limit, offset, walk.cursor)
  /\ offset > 0 => TakesOffset
  /\ \E page \in {Asked(walk.filter, walk.cursor, limit, offset)} :
       walk' = [walk EXCEPT
         !.at = IF page.next = Start THEN "done" ELSE "paging",
         !.cursor = page.next,
         !.shown = @ \o page.items,
         !.steady = @ \ Range(Cut(Ordered(Selected(walk.filter), walk.cursor),
                                  offset, 0))]
  /\ UNCHANGED <<kind, table, now, writes>>

----------------------------------------------------------------------------
(* The rest of the service.  A row's time is taken when its transaction    *)
(* starts, so it may become visible a little later.                        *)

insert(i, at) ==
  /\ writes < MaxWrites
  /\ table[i] = NoRow
  /\ table' = [table EXCEPT ![i] = [at |-> at, status |-> First(kind)]]
  /\ writes' = writes + 1
  /\ UNCHANGED <<kind, now, walk>>

change(i, status) ==
  /\ writes < MaxWrites
  /\ i \in Rows /\ table[i].status # status
  /\ kind \in {"sessions", "users"} => table[i].status # "gone"
  /\ table' = [table EXCEPT ![i] = [at |-> IF Moves(kind) THEN now ELSE @.at,
                                    status |-> status]]
  /\ writes' = writes + 1
  /\ walk' = [walk EXCEPT !.steady = @ \ {i}]
  /\ UNCHANGED <<kind, now>>

tick ==
  /\ now < MaxTime
  /\ now' = now + 1
  /\ UNCHANGED <<kind, table, writes, walk>>

----------------------------------------------------------------------------
ListInit ==
  /\ kind \in Kinds
  /\ table = [i \in Ids |-> NoRow]
  /\ now = 1
  /\ writes = 0
  /\ walk = Idle

ListNext ==
  \/ \E f \in {"all", First(kind)} : begin(f)
  \/ \E limit \in 0..(MaxLimit + 1), offset \in {0, 1} : fetch(limit, offset)
  \/ \E i \in Ids, at \in {now - 1, now} : insert(i, at)
  \/ \E i \in Ids, s \in Statuses(kind) : change(i, s)
  \/ tick

ListSpec == ListInit /\ [][ListNext]_listVars

----------------------------------------------------------------------------
(* A client that follows next_cursor until it is null has been shown every *)
(* row that was in the list when it began and that nothing touched since,  *)
(* exactly once: neither lost between two pages nor shown on both, whatever*)
(* was inserted, moved to the front, changed status or left meanwhile, and *)
(* however many rows share a timestamp.                                    *)
Times(i) == Cardinality({n \in DOMAIN walk.shown : walk.shown[n] = i})

WalkComplete ==
  \A i \in walk.steady : /\ Times(i) <= 1
                         /\ walk.at = "done" => Times(i) = 1
============================================================================
