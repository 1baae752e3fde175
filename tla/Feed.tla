-------------------------------- MODULE Feed --------------------------------
(***************************************************************************)
(* The pages of the discovery feed.  It lists candidates by their distance *)
(* from the viewer and then by their id; a position is such a pair.  A     *)
(* request gathers batches from the database until its page is full, and   *)
(* hands out a cursor for the next one; meanwhile the viewer swipes from   *)
(* another device, candidates come and go, and everybody moves.  Places    *)
(* are points on a line.                                                   *)
(***************************************************************************)
EXTENDS Integers, Sequences, FiniteSets, SequencesExt, FiniteSetsExt

CONSTANTS
    FirstPlace,     \* where each candidate is at first; the viewer is at 0
    Points,         \* the places people move to
    Reach,          \* the max_distance_km of each candidate
    MAX_DISTANCE,   \* the viewer's max_distance_km
    RADIUS,         \* the first search radius, and the margin beyond the cursor
    Limit,          \* profiles on a page
    MAX_BATCH,      \* maximum_batch
    MAX_FEED_BATCHES,
    MaxChanges      \* bound: how often candidates come and go, and people move

People == DOMAIN FirstPlace

VARIABLES
    eligible,       \* candidates every condition but the swipes lets through
    swiped,         \* candidates with a live decision of the viewer
    place,          \* where each candidate is
    here,           \* where the viewer is
    cursor,         \* the position the next page starts after
    scan,           \* the request under way: its own cursor, page, batch size, budget
    shown,          \* the candidates shown since the start, as they were positioned
    lasting,        \* candidates eligible, not swiped and where they were since the
                    \* start, seen from a viewer who has not moved either
    changes

presence == <<place, here>>
vars == <<eligible, swiped, presence, cursor, scan, shown, lasting, changes>>

Start == <<-1, 0>>  \* no cursor
Done == <<-2, 0>>   \* no next_cursor
Idle == [step |-> "idle", at |-> Start, visible |-> <<>>, size |-> 0, budget |-> 0,
         batch |-> <<>>]

\* A candidate swiped before is listed as little as one who is not eligible.
Init ==
    /\ eligible \in SUBSET People
    /\ swiped = {}
    /\ lasting = eligible \ swiped
    /\ place = FirstPlace /\ here = 0
    /\ cursor = Start /\ shown = <<>> /\ scan = Idle /\ changes = 0

-----------------------------------------------------------------------------
(* One selection of the database. *)

Before(x, y) == x[1] < y[1] \/ (x[1] = y[1] /\ x[2] < y[2])
InOrder(s) == SetToSortSeq(s, Before)
FirstOf(s, n) == SubSeq(s, 1, IF Len(s) < n THEN Len(s) ELSE n)
Less(x, y) == IF x < y THEN x ELSE y

distance_km(p) == IF place[p] < here THEN here - place[p] ELSE place[p] - here

\* The candidate is not too far away for the viewer, nor the viewer for them.
Reachable(p) == distance_km(p) <= Less(MAX_DISTANCE, Reach[p])

\* Positions within the radius and after a position, swipes left out.
Nearby(after, radius) ==
    {x \in {<<distance_km(p), p>> : p \in {q \in eligible \ swiped : Reachable(q)}} :
        Before(after, x) /\ x[1] <= radius}

Enough(found, limit) == Cardinality(found) >= limit

\* The radius doubles until it holds enough candidates or all there are.
feed_batch_inner(after, limit) ==
    LET first == RADIUS + (IF after = Start THEN 0 ELSE after[1])
        radii == {first * 2 ^ k : k \in 0 .. 6}
        last == CHOOSE r \in radii :
                    /\ r >= MAX_DISTANCE \/ Enough(Nearby(after, r), limit)
                    /\ \A q \in radii : q < r =>
                        q < MAX_DISTANCE /\ ~Enough(Nearby(after, q), limit)
    IN  FirstOf(InOrder(Nearby(after, last)), limit)

-----------------------------------------------------------------------------
(* GET /api/feed. *)

\* The cursor is decoded: it names a position of this viewer, or has expired.
feed ==
    /\ scan.step = "idle" /\ cursor # Done
    /\ scan' = [step |-> "query", at |-> cursor, visible |-> <<>>, size |-> Limit + 1,
                budget |-> MAX_BATCH * MAX_FEED_BATCHES, batch |-> <<>>]
    /\ UNCHANGED <<eligible, swiped, presence, cursor, shown, lasting, changes>>

Requested == Less(scan.size, scan.budget)

feed_batch ==
    /\ scan.step = "query"
    /\ scan' = [scan EXCEPT !.step = "recheck", !.batch = feed_batch_inner(scan.at, Requested)]
    /\ UNCHANGED <<eligible, swiped, presence, cursor, shown, lasting, changes>>

\* Mutant: the next page starts after the last candidate scanned.
NextCursor_Scanned(page, at) == at

NextCursor(page, at) == IF page = <<>> THEN at ELSE page[Len(page)]

swiped_target_ids(batch) == {x[2] : x \in Range(batch)} \cap swiped

\* The batch is checked against the swipes of this moment; then the page is full,
\* the database or the budget is exhausted, or another batch is read.
scan_batch ==
    /\ scan.step = "recheck"
    /\ LET n == Len(scan.batch)
           at == IF n = 0 THEN scan.at ELSE scan.batch[n]
           visible == scan.visible \o SelectSeq(scan.batch, LAMBDA x : x[2] \notin swiped_target_ids(scan.batch))
           budget == scan.budget - n
           exhausted == n < Requested
           more == Len(visible) > Limit \/ ~exhausted
           page == FirstOf(visible, Limit)
       IN  IF exhausted \/ budget = 0 \/ Len(visible) > Limit
           THEN /\ shown' = shown \o page
                /\ cursor' = IF more THEN NextCursor(page, at) ELSE Done
                /\ scan' = Idle
           ELSE /\ scan' = [scan EXCEPT !.step = "query", !.at = at, !.visible = visible,
                                        !.budget = budget, !.batch = <<>>,
                                        !.size = Less(@ * 2, MAX_BATCH)]
                /\ UNCHANGED <<shown, cursor>>
    /\ UNCHANGED <<eligible, swiped, presence, lasting, changes>>

\* A store fails, or the viewer is no longer ready: an error, and no page.
feed_fails ==
    /\ scan.step # "idle"
    /\ scan' = Idle
    /\ UNCHANGED <<eligible, swiped, presence, cursor, shown, lasting, changes>>

-----------------------------------------------------------------------------
(* What happens meanwhile. *)

swipe(p) ==
    /\ p \in eligible \ swiped
    /\ swiped' = swiped \cup {p} /\ lasting' = lasting \ {p}
    /\ UNCHANGED <<eligible, presence, cursor, scan, shown, changes>>

\* A candidate pauses, loses a photo or a consent, or comes back.
change(p) ==
    /\ changes < MaxChanges
    /\ changes' = changes + 1
    /\ eligible' = IF p \in eligible THEN eligible \ {p} ELSE eligible \cup {p}
    /\ lasting' = lasting \ {p}
    /\ UNCHANGED <<swiped, presence, cursor, scan, shown>>

\* A candidate is somewhere else: so is their place in the order.
upsert_presence(p) ==
    /\ changes < MaxChanges
    /\ changes' = changes + 1
    /\ \E x \in Points \ {place[p]} : place' = [place EXCEPT ![p] = x]
    /\ lasting' = lasting \ {p}
    /\ UNCHANGED <<eligible, swiped, here, cursor, scan, shown>>

\* The viewer is somewhere else, and everybody's distance with them.
upsert_viewer_presence ==
    /\ changes < MaxChanges
    /\ changes' = changes + 1
    /\ here' \in Points \ {here}
    /\ lasting' = {}
    /\ UNCHANGED <<eligible, swiped, place, cursor, scan, shown>>

\* The cursor has outlived TTL_SECONDS: the viewer starts again.
restart ==
    /\ scan.step = "idle" /\ cursor \notin {Start, Done}
    /\ cursor' = Start /\ shown' = <<>> /\ lasting' = eligible \ swiped
    /\ UNCHANGED <<eligible, swiped, presence, scan, changes>>

Next ==
    \/ feed \/ feed_batch \/ scan_batch \/ feed_fails \/ restart \/ upsert_viewer_presence
    \/ \E p \in People : swipe(p) \/ change(p) \/ upsert_presence(p)

Spec == Init /\ [][Next]_vars

-----------------------------------------------------------------------------
(* The pages of one walk through the feed go outwards, whoever moves       *)
(* meanwhile: each candidate comes at a position after those before them.  *)
(* A candidate who stays eligible, is not swiped and does not move, seen   *)
(* from a viewer who does not move, is listed once at most, and exactly    *)
(* once when there is no next page: none falls between two batches,        *)
(* between two pages or outside a search radius.                           *)
PagesComplete ==
    /\ \A i, j \in DOMAIN shown : i < j => Before(shown[i], shown[j])
    /\ \A p \in lasting :
        LET times == Cardinality({i \in DOMAIN shown : shown[i][2] = p})
        IN  times <= 1 /\ (cursor = Done /\ Reachable(p) => times = 1)
=============================================================================
