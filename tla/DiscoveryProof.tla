--------------------------- MODULE DiscoveryProof ---------------------------
(***************************************************************************)
(* Where members meet, for any of them: the two users of a match, the      *)
(* catalogue whose wordings they read, and the administrators who watch    *)
(* over both.                                                              *)
(***************************************************************************)
EXTENDS Matching, Catalog, AdminIdentity, FiniteSetTheorems, TLAPS

(***************************************************************************)
(* What holds of the two users of Matching whoever they are.  Both proofs  *)
(* strengthen the property to an inductive one: BlockedStaysClosed rests   *)
(* on who holds the pair's lock, MutualLikeMatched on the order in which a *)
(* swipe records its own decision and looks for the other's.               *)
(***************************************************************************)


\* The lock is held by a transaction or by nobody, and there are two users.
TwoUsers ==
    /\ \A u \in Pair : \E v \in Pair : v # u
    /\ \A u \in Pair : None # <<"create", u>> /\ None # <<"block", u>>

\* What the proofs need of the types.
Function(f) == f = [u \in Pair |-> f[u]]

Shape == /\ Function(decided) /\ Function(pc) /\ Function(req) /\ Function(reply)
         /\ Function(blocking)

LEMMA OtherOne ==
    ASSUME TwoUsers, NEW u \in Pair
    PROVE  Other(u) \in Pair /\ Other(u) # u
BY Zenon DEF TwoUsers, Other

LEMMA ShapeInit == MatchInit => Shape
BY Zenon DEF MatchInit, Shape, Function

LEMMA ShapeNext == Shape /\ [MatchNext]_matchVars => Shape'
<1> SUFFICES ASSUME Shape, [MatchNext]_matchVars PROVE Shape'
  BY Zenon
<1> USE DEF Shape, Function, Finish, Goto
<1>1. ASSUME NEW u \in Pair, swipe(u) PROVE Shape'
  BY <1>1, Zenon DEF swipe
<1>2. ASSUME NEW u \in Pair, candidate_batch(u) PROVE Shape'
  BY <1>2, Zenon DEF candidate_batch, Then
<1>3. ASSUME NEW u \in Pair, record(u) PROVE Shape'
  BY <1>3, Zenon DEF record, Then
<1>4. ASSUME NEW u \in Pair, find(u) PROVE Shape'
  BY <1>4, Zenon DEF find, Then
<1>5. ASSUME NEW u \in Pair, decide(u) PROVE Shape'
  BY <1>5, Zenon DEF decide
<1>6. ASSUME NEW u \in Pair, create_lock(u) PROVE Shape'
  BY <1>6, Zenon DEF create_lock, lock_user_pair
<1>7. ASSUME NEW u \in Pair, create_check(u) PROVE Shape'
  BY <1>7, Zenon DEF create_check
<1>8. ASSUME NEW u \in Pair, create_commit(u) PROVE Shape'
  BY <1>8, Zenon DEF create_commit
<1>9. ASSUME NEW u \in Pair, abandon(u) PROVE Shape'
  BY <1>9, Zenon DEF abandon
<1>10. ASSUME NEW u \in Pair, block(u) PROVE Shape'
  BY <1>10, Zenon DEF block, lock_user_pair
<1>11. ASSUME NEW u \in Pair, block_commit(u) PROVE Shape'
  BY <1>11, Zenon DEF block_commit, EndedByBlock
<1>12. ASSUME NEW u \in Pair, unblock(u) PROVE Shape'
  BY <1>12, Zenon DEF unblock
<1>13. ASSUME NEW u \in Pair, set_paused(u) PROVE Shape'
  BY <1>13, Zenon DEF set_paused
<1>14. ASSUME NEW u \in Pair, set_ban(u) PROVE Shape'
  BY <1>14, Zenon DEF set_ban
<1>15. ASSUME NEW u \in Pair, delete_account(u) PROVE Shape'
  BY <1>15, Zenon DEF delete_account
<1>16. ASSUME NEW u \in Pair, lapse(u) PROVE Shape'
  BY <1>16, Zenon DEF lapse
<1>17. ASSUME NEW u \in Pair, delete_expired_swipes(u) PROVE Shape'
  BY <1>17, Zenon DEF delete_expired_swipes
<1>18. CASE end \/ purge_matches \/ UNCHANGED matchVars
  BY <1>18, Zenon DEF end, purge_matches, matchVars
<1> QED
  BY Zenon, <1>1, <1>2, <1>3, <1>4, <1>5, <1>6, <1>7, <1>8, <1>9,
     <1>10, <1>11, <1>12, <1>13, <1>14, <1>15, <1>16, <1>17, <1>18 DEF MatchNext
-----------------------------------------------------------------------------
(* Blocks.  A request past create_lock holds the lock until it ends, and a *)
(* block request until it commits; so nobody's block commits between       *)
(* create_check, which found none, and create_commit.                      *)

Holders ==
    /\ \A u \in Pair : pc[u] \in {"check", "commit"} => lock = <<"create", u>>
    /\ \A u \in Pair : blocking[u] = "locked" => lock = <<"block", u>>

Serialised ==
    /\ Shape
    /\ Holders
    /\ \A u \in Pair : pc[u] = "commit" => blocks = {}
    /\ BlockedStaysClosed

LEMMA SerialisedInit == MatchInit => Serialised
BY ShapeInit, Zenon DEF MatchInit, Serialised, Holders, BlockedStaysClosed

LEMMA SerialisedNext == TwoUsers /\ Serialised /\ [MatchNext]_matchVars => Serialised'
<1> SUFFICES ASSUME TwoUsers, Serialised, [MatchNext]_matchVars PROVE Serialised'
  BY Zenon
<1>0. Shape /\ Shape'
  BY ShapeNext, Zenon DEF Serialised
<1> USE <1>0 DEF Serialised, Holders, BlockedStaysClosed, TwoUsers, Shape, Function, Finish, Goto, Unlocked
<1>1. ASSUME NEW u \in Pair, swipe(u) PROVE Serialised'
  BY <1>1 DEF swipe
<1>2. ASSUME NEW u \in Pair, candidate_batch(u) PROVE Serialised'
  BY <1>2 DEF candidate_batch, Then
<1>3. ASSUME NEW u \in Pair, record(u) PROVE Serialised'
  BY <1>3 DEF record, Then
<1>4. ASSUME NEW u \in Pair, find(u) PROVE Serialised'
  BY <1>4, Zenon DEF find, Then
<1>5. ASSUME NEW u \in Pair, decide(u) PROVE Serialised'
  BY <1>5 DEF decide
<1>6. ASSUME NEW u \in Pair, create_lock(u) PROVE Serialised'
  BY <1>6, Zenon DEF create_lock, lock_user_pair
<1>7. ASSUME NEW u \in Pair, create_check(u) PROVE Serialised'
  BY <1>7 DEF create_check
<1>8. ASSUME NEW u \in Pair, create_commit(u) PROVE Serialised'
  BY <1>8 DEF create_commit
<1>9. ASSUME NEW u \in Pair, abandon(u) PROVE Serialised'
  BY <1>9 DEF abandon
<1>10. ASSUME NEW u \in Pair, block(u) PROVE Serialised'
  BY <1>10, Zenon DEF block, lock_user_pair
<1>11. ASSUME NEW u \in Pair, block_commit(u) PROVE Serialised'
  BY <1>11 DEF block_commit, EndedByBlock
<1>12. ASSUME NEW u \in Pair, unblock(u) PROVE Serialised'
  BY <1>12, Zenon DEF unblock
<1>13. ASSUME NEW u \in Pair, set_paused(u) PROVE Serialised'
  BY <1>13, Zenon DEF set_paused
<1>14. ASSUME NEW u \in Pair, set_ban(u) PROVE Serialised'
  BY <1>14, Zenon DEF set_ban
<1>15. ASSUME NEW u \in Pair, delete_account(u) PROVE Serialised'
  BY <1>15, Zenon DEF delete_account
<1>16. ASSUME NEW u \in Pair, lapse(u) PROVE Serialised'
  BY <1>16, Zenon DEF lapse
<1>17. ASSUME NEW u \in Pair, delete_expired_swipes(u) PROVE Serialised'
  BY <1>17, Zenon DEF delete_expired_swipes
<1>18. CASE end \/ purge_matches \/ UNCHANGED matchVars
  BY <1>18, Zenon DEF end, purge_matches, matchVars
<1> QED
  BY Zenon, <1>1, <1>2, <1>3, <1>4, <1>5, <1>6, <1>7, <1>8, <1>9,
     <1>10, <1>11, <1>12, <1>13, <1>14, <1>15, <1>16, <1>17, <1>18 DEF MatchNext

(* While one of the two has blocked the other they share no open match:    *)
(* lock_user_pair serialises create and block_and_end_match.               *)
THEOREM BlocksHold == ASSUME TwoUsers PROVE MatchSpec => []BlockedStaysClosed
<1>1. Serialised => BlockedStaysClosed
  BY Zenon DEF Serialised
<1> QED
  BY SerialisedInit, SerialisedNext, <1>1, PTL DEF MatchSpec
-----------------------------------------------------------------------------
(* Likes.  A request has missed the other's like when it looked and did    *)
(* not find it.  It recorded its own like before, so of two requests that  *)
(* both like the later one to record cannot miss.                          *)

Missed(u) == reply[u] = "unmatched" \/ (pc[u] = "decide" /\ ~req[u].mutual)

Found ==
    /\ Shape
    /\ \A u \in Pair : pc[u] # "idle" => reply[u] = "none"
    /\ ~ \A u \in Pair : decided[u] = "like" /\ Missed(u)

LEMMA FoundInit == MatchInit /\ Pair # {} => Found
BY ShapeInit, Zenon DEF MatchInit, Found, Missed

LEMMA FoundNext == TwoUsers /\ Found /\ [MatchNext]_matchVars => Found'
<1> SUFFICES ASSUME TwoUsers, Found, [MatchNext]_matchVars PROVE Found'
  BY Zenon
<1>0. Shape /\ Shape'
  BY ShapeNext, Zenon DEF Found
<1> USE <1>0, OtherOne DEF Found, Missed, Shape, Function, Finish, Goto
<1>1. ASSUME NEW u \in Pair, swipe(u) PROVE Found'
  BY <1>1 DEF swipe
<1>2. ASSUME NEW u \in Pair, candidate_batch(u) PROVE Found'
  BY <1>2, ZenonT(90) DEF candidate_batch, Then
<1>3. ASSUME NEW u \in Pair, record(u) PROVE Found'
  BY <1>3, ZenonT(90) DEF record, Then
<1>4. ASSUME NEW u \in Pair, find(u) PROVE Found'
  BY <1>4, ZenonT(90) DEF find, Then
<1>5. ASSUME NEW u \in Pair, decide(u) PROVE Found'
  <2>1. CASE req[u].mutual
    BY <1>5, <2>1, Zenon DEF decide
  <2>2. CASE ~req[u].mutual
    BY <1>5, <2>2, ZenonT(90) DEF decide
  <2> QED
    BY <2>1, <2>2
<1>6. ASSUME NEW u \in Pair, create_lock(u) PROVE Found'
  BY <1>6, Zenon DEF create_lock, lock_user_pair
<1>7. ASSUME NEW u \in Pair, create_check(u) PROVE Found'
  BY <1>7, ZenonT(90) DEF create_check
<1>8. ASSUME NEW u \in Pair, create_commit(u) PROVE Found'
  BY <1>8, Zenon DEF create_commit
<1>9. ASSUME NEW u \in Pair, abandon(u) PROVE Found'
  BY <1>9, Zenon DEF abandon
<1>10. ASSUME NEW u \in Pair, block(u) PROVE Found'
  BY <1>10, Zenon DEF block, lock_user_pair
<1>11. ASSUME NEW u \in Pair, block_commit(u) PROVE Found'
  BY <1>11, Zenon DEF block_commit, EndedByBlock
<1>12. ASSUME NEW u \in Pair, unblock(u) PROVE Found'
  BY <1>12, Zenon DEF unblock
<1>13. ASSUME NEW u \in Pair, set_paused(u) PROVE Found'
  BY <1>13, Zenon DEF set_paused
<1>14. ASSUME NEW u \in Pair, set_ban(u) PROVE Found'
  BY <1>14, Zenon DEF set_ban
<1>15. ASSUME NEW u \in Pair, delete_account(u) PROVE Found'
  BY <1>15, Zenon DEF delete_account
<1>16. ASSUME NEW u \in Pair, lapse(u) PROVE Found'
  BY <1>16, Zenon DEF lapse
<1>17. ASSUME NEW u \in Pair, delete_expired_swipes(u) PROVE Found'
  BY <1>17, Zenon DEF delete_expired_swipes
<1>18. CASE end \/ purge_matches \/ UNCHANGED matchVars
  BY <1>18, Zenon DEF end, purge_matches, matchVars
<1> QED
  BY Zenon, <1>1, <1>2, <1>3, <1>4, <1>5, <1>6, <1>7, <1>8, <1>9,
     <1>10, <1>11, <1>12, <1>13, <1>14, <1>15, <1>16, <1>17, <1>18 DEF MatchNext

(* Two users whose live likes meet are never both answered "no match":     *)
(* swipe records the own decision before it looks for the other's.         *)
THEOREM LikesMeet == ASSUME TwoUsers, Pair # {} PROVE MatchSpec => []MutualLikeMatched
<1>1. Found => MutualLikeMatched
  BY Zenon DEF Found, Missed, MutualLikeMatched
<1> QED
  BY FoundInit, FoundNext, <1>1, PTL DEF MatchSpec

-----------------------------------------------------------------------------
(***************************************************************************)
(* The cached translations, for any catalogue and any number of pages.     *)
(* EditsAreSeen holds because nothing that may still be served is older    *)
(* than the newest edit that was answered: neither a young snapshot in the *)
(* cache nor the one its loader is about to store, since an edit is        *)
(* answered only while nobody holds the refresh mutex.                     *)
(***************************************************************************)


\* The mutex has a holder or none, and a request an item or none.
NobodyHolds == Nobody \notin Readers /\ Nobody \notin Items

Row == [write : Nat, present : BOOLEAN]

PageType == [pc : {"idle", "ask", "wait", "held", "loaded", "done"}, fresh : BOOLEAN,
          began : [Items -> Nat], rows : [Items -> Row], got : [Items -> Row]]

CatalogTypes ==
    /\ edits \in Nat
    /\ item \in [Items -> Row]
    /\ answered \in [Items -> Nat]
    /\ cache \in [young : BOOLEAN, value : [Items -> Row]]
    /\ editor \in Items \cup {Nobody}
    /\ reader \in [Readers -> PageType]

\* The rows are never older than the edits answered.
RowsAreNewest == \A i \in Items : answered[i] <= item[i].write /\ item[i].write <= edits

YoungIsNew == cache.young => \A i \in Items : answered[i] <= cache.value[i].write

\* A page holds the mutex from lock_refresh to store.
MutexHeld == \A r \in Readers : reader[r].pc \in {"held", "loaded"} => refresh = r

LoadedIsNew ==
    \A r \in Readers : reader[r].pc = "loaded" =>
        \A i \in Items : answered[i] <= reader[r].got[i].write

PageIsNew ==
    \A r \in Readers : reader[r].pc # "idle" =>
        \A i \in Items :
            /\ reader[r].began[i] <= answered[i]
            /\ reader[r].rows[i].present => reader[r].began[i] <= reader[r].rows[i].write

NothingOlder ==
    /\ CatalogTypes /\ RowsAreNewest /\ YoungIsNew /\ MutexHeld /\ LoadedIsNew /\ PageIsNew
    /\ EditsAreSeen

\* A served wording is the snapshot's, or the row's where there is none.
LEMMA NameRange ==
    ASSUME NEW snapshot \in [Items -> Row], NEW row \in [Items -> Row]
    PROVE  /\ name(snapshot, row) \in [Items -> Row]
           /\ \A i \in Items : name(snapshot, row)[i].present =>
                \/ name(snapshot, row)[i].write = snapshot[i].write
                \/ row[i].present /\ name(snapshot, row)[i].write = row[i].write
BY Zenon DEF name, Row

\* What a step of the page r has to show.
Allowed(page) ==
    /\ page \in PageType
    /\ page.pc # "idle" => \A i \in Items :
        /\ page.began[i] <= answered[i]
        /\ page.rows[i].present => page.began[i] <= page.rows[i].write
    /\ page.pc = "loaded" => \A i \in Items : answered[i] <= page.got[i].write
    /\ page.pc = "done" => \A i \in Items : page.got[i].present => page.got[i].write >= page.began[i]

LEMMA PageAllowed ==
    ASSUME NothingOlder, NEW r \in Readers PROVE Allowed(reader[r])
BY Zenon DEF NothingOlder, CatalogTypes, LoadedIsNew, PageIsNew, EditsAreSeen, Allowed

LEMMA PageMoves ==
    ASSUME NothingOlder, NEW r \in Readers, NEW page, reader' = [reader EXCEPT ![r] = page],
           Allowed(page), UNCHANGED <<edits, item, answered, editor>>,
           cache' \in [young : BOOLEAN, value : [Items -> Row]],
           YoungIsNew', MutexHeld'
    PROVE  NothingOlder'
<1>1. reader \in [Readers -> PageType] /\ page \in PageType
  BY Zenon DEF NothingOlder, CatalogTypes, Allowed
<1>2. /\ reader' \in [Readers -> PageType] /\ reader'[r] = page
      /\ \A q \in Readers : q # r => reader'[q] = reader[q]
  BY <1>1, Zenon
<1>3. CatalogTypes'
  BY <1>2, Zenon DEF NothingOlder, CatalogTypes
<1>4. RowsAreNewest'
  BY Zenon DEF NothingOlder, RowsAreNewest
<1>5. ASSUME NEW q \in Readers PROVE Allowed(reader'[q])
  BY <1>2, PageAllowed, Zenon
<1>6. LoadedIsNew' /\ PageIsNew' /\ EditsAreSeen'
  BY <1>5, Zenon DEF LoadedIsNew, PageIsNew, EditsAreSeen, Allowed
<1> QED
  BY <1>3, <1>4, <1>6, Zenon DEF NothingOlder

\* Serving a snapshot that is not older than the edits answered.
LEMMA ServeAllowed ==
    ASSUME NothingOlder, NEW r \in Readers, NEW snapshot \in [Items -> Row],
           reader[r].pc # "idle",
           \A i \in Items : answered[i] <= snapshot[i].write
    PROVE  Allowed([reader[r] EXCEPT !.pc = "done", !.got = name(snapshot, reader[r].rows)])
<1> DEFINE served == name(snapshot, reader[r].rows)
<1> DEFINE page == [reader[r] EXCEPT !.pc = "done", !.got = served]
<1>1. reader[r] \in PageType
  BY Zenon DEF NothingOlder, CatalogTypes
<1>2. reader[r].rows \in [Items -> Row] /\ reader[r].began \in [Items -> Nat]
  BY <1>1, Zenon DEF PageType
<1>3. served \in [Items -> Row] /\ \A i \in Items : served[i].present =>
        \/ served[i].write = snapshot[i].write
        \/ reader[r].rows[i].present /\ served[i].write = reader[r].rows[i].write
  BY <1>2, NameRange, Zenon
<1> HIDE DEF served
<1>4. /\ page \in PageType /\ page.pc = "done" /\ page.got = served
      /\ page.began = reader[r].began /\ page.rows = reader[r].rows
  BY <1>1, <1>3, Zenon DEF PageType
<1> HIDE DEF page
<1>5. \A i \in Items : /\ reader[r].began[i] <= answered[i]
                       /\ reader[r].rows[i].present => reader[r].began[i] <= reader[r].rows[i].write
  BY Zenon DEF NothingOlder, PageIsNew
<1>6. \A i \in Items : reader[r].began[i] \in Nat /\ answered[i] \in Nat /\ snapshot[i].write \in Nat
  BY <1>2, Zenon DEF NothingOlder, CatalogTypes, Row
<1>7. ASSUME NEW i \in Items, served[i].present PROVE served[i].write >= reader[r].began[i]
  BY <1>3, <1>5, <1>6, <1>7
<1>8. Allowed(page)
  BY <1>4, <1>5, <1>7, Zenon DEF Allowed
<1> QED
  BY <1>8, Zenon DEF page, served

LEMMA NothingOlderInit == CatalogInit => NothingOlder
BY DEF CatalogInit, NothingOlder, CatalogTypes, RowsAreNewest, YoungIsNew, MutexHeld, LoadedIsNew,
       PageIsNew, EditsAreSeen, NoItem, NoCache, Idle, Row, PageType

LEMMA PageNext ==
    ASSUME NobodyHolds, NothingOlder, NEW r \in Readers, Page(r) PROVE NothingOlder'
<1> USE DEF PageStep, rows, local
<1>1. /\ reader \in [Readers -> PageType] /\ reader[r] \in PageType
      /\ cache \in [young : BOOLEAN, value : [Items -> Row]] /\ item \in [Items -> Row]
      /\ answered \in [Items -> Nat]
  BY Zenon DEF NothingOlder, CatalogTypes
<1>2. YoungIsNew /\ MutexHeld
  BY Zenon DEF NothingOlder
<1>3. Allowed(reader[r])
  BY PageAllowed, Zenon
<1>4. Allowed(Idle) /\ Idle.pc = "idle"
  BY Zenon DEF Allowed, PageType, Idle, NoItem, Row
<1>5. ASSUME UNCHANGED <<answered, cache>> PROVE YoungIsNew'
  BY <1>2, <1>5, Zenon DEF YoungIsNew
<1>6. ASSUME NEW page, reader' = [reader EXCEPT ![r] = page],
             page.pc \notin {"held", "loaded"},
             refresh' = refresh \/ reader[r].pc \in {"held", "loaded"}
      PROVE  MutexHeld'
  BY <1>1, <1>2, <1>6, Zenon DEF MutexHeld
<1>7. ASSUME NEW ids, NEW fresh \in BOOLEAN, Begin(r, ids, fresh) PROVE NothingOlder'
  <2> DEFINE rs == [i \in Items |-> IF i \in ids THEN item[i] ELSE NoItem]
  <2> DEFINE page == [Idle EXCEPT !.pc = "ask", !.fresh = fresh, !.began = answered, !.rows = rs]
  <2>1. rs \in [Items -> Row] /\ \A i \in Items : rs[i].present => answered[i] <= rs[i].write
    BY <1>1, Zenon DEF NothingOlder, RowsAreNewest, NoItem, Row
  <2>2. reader' = [reader EXCEPT ![r] = page]
    BY <1>7, Zenon DEF Begin
  <2> HIDE DEF rs
  <2>3. page \in PageType /\ page.pc = "ask" /\ page.began = answered /\ page.rows = rs
    BY <1>1, <2>1, Zenon DEF Idle, NoItem, PageType, Row
  <2> HIDE DEF page
  <2>4. Allowed(page)
    BY <1>1, <2>1, <2>3 DEF Allowed
  <2>5. UNCHANGED <<edits, item, answered, cache, refresh, editor>>
    BY <1>7, Zenon DEF Begin
  <2> QED
    BY <1>1, <1>5, <1>6, <2>2, <2>3, <2>4, <2>5, PageMoves, Zenon
<1>8. ASSUME NEW snapshot \in [Items -> Row], reader[r].pc # "idle", Serve(r, snapshot),
             \A i \in Items : answered[i] <= snapshot[i].write,
             UNCHANGED <<edits, item, answered, editor>>,
             cache' = cache \/ cache' = [young |-> TRUE, value |-> snapshot],
             refresh' = refresh \/ reader[r].pc = "loaded"
      PROVE  NothingOlder'
  <2> DEFINE page == [reader[r] EXCEPT !.pc = "done", !.got = name(snapshot, reader[r].rows)]
  <2>1. Allowed(page)
    BY <1>8, ServeAllowed, Zenon
  <2>2. reader' = [reader EXCEPT ![r] = page]
    BY <1>8, Zenon DEF Serve
  <2>3. page.pc = "done"
    BY <1>1, Zenon DEF PageType
  <2> HIDE DEF page
  <2>4. cache' \in [young : BOOLEAN, value : [Items -> Row]] /\ YoungIsNew'
    <3>1. CASE cache' = cache
      BY <1>1, <1>5, <1>8, <3>1, Zenon
    <3>2. CASE cache' = [young |-> TRUE, value |-> snapshot]
      BY <1>8, <3>2, Zenon DEF YoungIsNew
    <3> QED
      BY <1>8, <3>1, <3>2, Zenon
  <2>5. MutexHeld'
    BY <1>6, <1>8, <2>2, <2>3, Zenon
  <2> QED
    BY <1>8, <2>1, <2>2, <2>4, <2>5, PageMoves, Zenon
<1>9. ASSUME NEW step \in {"wait", "held"}, reader' = [reader EXCEPT ![r].pc = step],
             reader[r].pc \in {"ask", "wait"},
             UNCHANGED <<edits, item, answered, editor, cache>>,
             (step = "wait" /\ refresh' = refresh) \/ (refresh = Nobody /\ refresh' = r)
      PROVE  NothingOlder'
  <2> DEFINE page == [reader[r] EXCEPT !.pc = step]
  <2>1. /\ page \in PageType /\ page.pc = step /\ page.began = reader[r].began
        /\ page.rows = reader[r].rows
    BY <1>1, Zenon DEF PageType
  <2>2. reader' = [reader EXCEPT ![r] = page]
    BY <1>9, Zenon
  <2> HIDE DEF page
  <2>3. Allowed(page)
    BY <1>3, <1>9, <2>1, Zenon DEF Allowed
  <2>4. MutexHeld'
    BY <1>1, <1>2, <1>9, <2>1, <2>2, ZenonT(90) DEF MutexHeld, NobodyHolds
  <2> QED
    BY <1>1, <1>5, <1>9, <2>2, <2>3, <2>4, PageMoves, Zenon
<1>10. CASE catalog(r)
  <2>1. CASE cached(r)
    <3>1. cache.value \in [Items -> Row] /\ \A i \in Items : answered[i] <= cache.value[i].write
      BY <1>1, <1>2, <2>1, Zenon DEF cached, YoungIsNew
    <3> QED
      BY <1>8, <1>10, <2>1, <3>1, Zenon DEF catalog
  <2>2. CASE ~ cached(r)
    <3>1. /\ reader[r].pc = "ask" /\ reader' = [reader EXCEPT ![r].pc = "wait"]
          /\ UNCHANGED <<edits, item, answered, editor, cache>> /\ refresh' = refresh
      BY <1>10, <2>2, Zenon DEF catalog
    <3>2. PICK step \in {"wait", "held"} : step = "wait"
      BY Zenon
    <3>3. reader' = [reader EXCEPT ![r].pc = step] /\ reader[r].pc \in {"ask", "wait"}
      BY <3>1, <3>2, Zenon
    <3> QED
      BY <1>9, <3>1, <3>2, <3>3, Zenon
  <2> QED
    BY <2>1, <2>2, Zenon
<1>11. CASE lock_refresh(r)
  <2>1. CASE cached(r)
    <3>1. cache.value \in [Items -> Row] /\ \A i \in Items : answered[i] <= cache.value[i].write
      BY <1>1, <1>2, <2>1, Zenon DEF cached, YoungIsNew
    <3> QED
      BY <1>8, <1>11, <2>1, <3>1, Zenon DEF lock_refresh
  <2>2. CASE ~ cached(r)
    BY <1>9, <1>11, <2>2, Zenon DEF lock_refresh
  <2> QED
    BY <2>1, <2>2, Zenon
<1>12. CASE read_catalog(r)
  <2> DEFINE page == [reader[r] EXCEPT !.pc = "loaded", !.got = item]
  <2>1. /\ page \in PageType /\ page.pc = "loaded" /\ page.got = item
        /\ page.began = reader[r].began /\ page.rows = reader[r].rows
    BY <1>1, Zenon DEF PageType
  <2>2. reader' = [reader EXCEPT ![r] = page]
    BY <1>12, Zenon DEF read_catalog
  <2> HIDE DEF page
  <2>3. Allowed(page)
    BY <1>3, <1>12, <2>1, Zenon DEF read_catalog, Allowed, NothingOlder, RowsAreNewest
  <2>4. MutexHeld'
    BY <1>1, <1>2, <1>12, <2>1, <2>2, Zenon DEF read_catalog, MutexHeld
  <2> QED
    BY <1>1, <1>5, <1>12, <2>2, <2>3, <2>4, PageMoves, Zenon DEF read_catalog
<1>13. CASE unavailable(r) \/ Close(r)
  <2>1. reader' = [reader EXCEPT ![r] = Idle] /\ UNCHANGED <<edits, item, answered, editor, cache>>
    BY <1>13, Zenon DEF unavailable, Close
  <2>2. MutexHeld'
    BY <1>4, <1>6, <1>13, <2>1, Zenon DEF unavailable, Close
  <2> QED
    BY <1>1, <1>4, <1>5, <2>1, <2>2, PageMoves, Zenon
<1>14. CASE store(r)
  <2>1. reader[r].got \in [Items -> Row] /\ \A i \in Items : answered[i] <= reader[r].got[i].write
    BY <1>1, <1>3, <1>14, Zenon DEF store, Allowed, PageType
  <2> QED
    BY <1>8, <1>14, <2>1, Zenon DEF store
<1> QED
  BY Zenon, <1>7, <1>10, <1>11, <1>12, <1>13, <1>14
     DEF Page, trait_rows, user_trait_rows, question_rows, list_traits, list_my_traits, list_questions, list_admin_traits, list_admin_questions

LEMMA NothingOlderNext == NobodyHolds /\ NothingOlder /\ [CatalogNext]_catalogVars => NothingOlder'
<1> SUFFICES ASSUME NobodyHolds, NothingOlder, [CatalogNext]_catalogVars PROVE NothingOlder'
  BY Zenon
<1> USE DEF NothingOlder, CatalogTypes, RowsAreNewest, YoungIsNew, MutexHeld, LoadedIsNew,
            PageIsNew, EditsAreSeen, NobodyHolds, Row
<1>1. ASSUME NEW i \in Items, NEW p \in BOOLEAN,
             item' = [item EXCEPT ![i] = [write |-> edits + 1, present |-> p]],
             edits' = edits + 1, editor' \in {i, editor},
             UNCHANGED <<answered, local, reader>>
      PROVE  NothingOlder'
  BY <1>1 DEF local
<1>2. ASSUME NEW i \in Items, Write(i) PROVE NothingOlder'
  BY <1>1, <1>2, Zenon DEF Write, post_trait, patch_trait, delete_trait_route, post_question, patch_question,
     delete_question_route, Elsewhere, create_translated_trait, update_translated_trait, remove_trait,
     create_translated_question, update_translated_question, remove_question, create_trait, update_trait,
     delete_trait, create_question, update_question, delete_question, create_row, update_row, delete_row,
     save_translations, Commit
<1>3. CASE Answer
  <2>1. CatalogTypes'
    BY <1>3, Zenon DEF Answer, invalidate, NoCache, NoItem, rows
  <2>2. ~ cache'.young /\ \A r \in Readers : reader[r].pc \notin {"held", "loaded"}
    BY <1>3, Zenon DEF Answer, invalidate, NoCache
  <2>3. \A i \in Items : answered[i] <= answered'[i] /\ answered'[i] <= item[i].write
    BY <1>3 DEF Answer
  <2>4. UNCHANGED <<edits, item, reader>>
    BY <1>3, Zenon DEF Answer, rows
  <2>5. PageIsNew'
    <3>1. \A r \in Readers, i \in Items : reader[r].began[i] \in Nat
      BY DEF PageType
    <3> QED
      BY <2>1, <2>3, <2>4, <3>1
  <2> QED
    BY <2>1, <2>2, <2>3, <2>4, <2>5, Zenon
<1>4. CASE Disconnect
  BY <1>4, Zenon DEF Disconnect, rows, local
<1>5. CASE Expire
  BY <1>5, Zenon DEF Expire, rows
<1>6. CASE Member
  BY <1>6, ZenonT(90) DEF Member, add_my_trait, check_trait, remove_my_trait, remove_trait_from_user,
     add_trait_to_user, rows, local
<1>7. ASSUME NEW r \in Readers, Page(r) PROVE NothingOlder'
  BY <1>7, PageNext, Zenon
<1>8. CASE UNCHANGED catalogVars
  BY <1>8, Zenon DEF catalogVars, rows, local
<1> QED
  BY Zenon, <1>2, <1>3, <1>4, <1>5, <1>6, <1>7, <1>8 DEF CatalogNext

(* A page begun after an edit was answered never shows an older wording of *)
(* the item (LocalizationService::invalidate and catalog).                 *)
THEOREM EditsReachPages == ASSUME NobodyHolds PROVE CatalogSpec => []EditsAreSeen
<1>1. NothingOlder => EditsAreSeen
  BY Zenon DEF NothingOlder
<1> QED
  BY NothingOlderInit, NothingOlderNext, <1>1, PTL DEF CatalogSpec
-----------------------------------------------------------------------------
(***************************************************************************)
(* The keys and sessions of an administrator.  A challenge is consumed in  *)
(* one statement, and from then on one request alone may exchange it       *)
(* (CeremoniesOK).  The session that asks for a revocation never changes   *)
(* its key, so that sparing it spares no session of the revoked key        *)
(* (KeysOK).                                                               *)
(***************************************************************************)
Exchanging == {"login_find", "login_complete", "bootstrap_complete", "add_complete"}

IdentityTypes ==
    /\ challenge = [c \in Challenges |-> challenge[c]]
    /\ bootstrap = [b \in Bootstraps |-> bootstrap[b]]
    /\ credential = [k \in Keys |-> credential[k]]
    /\ session = [s \in Sessions |-> session[s]]
    /\ ceremony = [r \in Requests |-> ceremony[r]]
    /\ yield \in [Challenges \cup Bootstraps -> {0, 1}]

\* What a request brings names rows.
Named(q) ==
    /\ q.op \in Exchanging \cup {"login", "bootstrap", "add"} => q.challenge \in Challenges /\ q.key \in Keys
    /\ q.op \in {"bootstrap", "bootstrap_complete"} => q.of \in Bootstraps
    /\ q.op = "revoke" => /\ q.by \in Sessions /\ q.key \in Keys
                          /\ session[q.by].state # "none" /\ session[q.by].credential # q.key

CeremoniesOK ==
    /\ \A r \in Requests : ceremony[r].op \in Exchanging =>
          challenge[ceremony[r].challenge].state = "spent" /\ yield[ceremony[r].challenge] = 0
    /\ \A r, q \in Requests :
          ceremony[r].op \in Exchanging /\ ceremony[q].op \in Exchanging =>
             (ceremony[r].challenge = ceremony[q].challenge => r = q)
    /\ \A c \in Challenges : challenge[c].state # "spent" => yield[c] = 0
    /\ \A b \in Bootstraps : bootstrap[b] # "spent" => yield[b] = 0

KeysOK ==
    /\ \A s \in Sessions : session[s].state = "open" =>
          session[s].credential \in Keys /\ credential[session[s].credential].state = "active"
    /\ (\E k \in Keys : credential[k].state = "revoked") =>
          \E k \in Keys : credential[k].state = "active"

IdentityInv ==
    IdentityTypes /\ (\A r \in Requests : Named(ceremony[r])) /\ CeremoniesOK /\ KeysOK

\* A request is new, or ends, or goes on without a challenge.
Plain(q) == q.op \notin Exchanging

\* The two facts about requests that exchange, in the form they are used.
LEMMA ExchangeReady ==
    ASSUME CeremoniesOK, NEW r \in Requests, ceremony[r].op \in Exchanging
    PROVE  challenge[ceremony[r].challenge].state = "spent" /\ yield[ceremony[r].challenge] = 0
BY Zenon DEF CeremoniesOK

LEMMA ExchangeAlone ==
    ASSUME CeremoniesOK, NEW r \in Requests, NEW q \in Requests,
           ceremony[r].op \in Exchanging, ceremony[q].op \in Exchanging,
           ceremony[r].challenge = ceremony[q].challenge
    PROVE  r = q
BY Zenon DEF CeremoniesOK

LEMMA CeremoniesKept ==
    ASSUME IdentityInv, UNCHANGED yield,
           \A c \in Challenges : challenge[c].state = "spent" => challenge'[c].state = "spent",
           \A b \in Bootstraps : bootstrap[b] = "spent" => bootstrap'[b] = "spent",
           \A r \in Requests : ceremony'[r] = ceremony[r] \/ Plain(ceremony'[r])
                               \/ /\ ceremony[r].op \in Exchanging /\ ceremony'[r].op \in Exchanging
                                  /\ ceremony'[r].challenge = ceremony[r].challenge
    PROVE  CeremoniesOK'
<1>1. ASSUME NEW r \in Requests, ceremony'[r].op \in Exchanging
      PROVE  /\ ceremony[r].op \in Exchanging /\ ceremony'[r].challenge = ceremony[r].challenge
             /\ ceremony[r].challenge \in Challenges
  BY <1>1, Zenon DEF Plain, IdentityInv, Named
<1>2. ASSUME NEW r \in Requests, ceremony'[r].op \in Exchanging
      PROVE  challenge'[ceremony'[r].challenge].state = "spent" /\ yield'[ceremony'[r].challenge] = 0
  <2>1. PICK c \in Challenges : c = ceremony[r].challenge /\ c = ceremony'[r].challenge
    BY <1>1, <1>2, Zenon
  <2>2. challenge[c].state = "spent" /\ yield[c] = 0
    BY <1>1, <1>2, <2>1, ExchangeReady, Zenon DEF IdentityInv
  <2>3. challenge'[c].state = "spent"
    BY <2>2, Zenon
  <2> QED BY <2>1, <2>2, <2>3, Zenon
<1>3. ASSUME NEW r \in Requests, NEW q \in Requests,
             ceremony'[r].op \in Exchanging, ceremony'[q].op \in Exchanging,
             ceremony'[r].challenge = ceremony'[q].challenge
      PROVE  r = q
  BY <1>1, <1>3, Zenon DEF IdentityInv, CeremoniesOK
<1>4. /\ \A c \in Challenges : challenge'[c].state # "spent" => yield'[c] = 0
      /\ \A b \in Bootstraps : bootstrap'[b] # "spent" => yield'[b] = 0
  BY Zenon DEF IdentityInv, CeremoniesOK
<1> QED BY <1>2, <1>3, <1>4, Zenon DEF CeremoniesOK

\* A session keeps its key, and is not opened.
SessionMoves(s) ==
    /\ session'[s].credential = session[s].credential
    /\ session'[s].state = "open" => session[s].state = "open"
    /\ session[s].state # "none" => session'[s].state # "none"

LEMMA KeysKept ==
    ASSUME KeysOK, \A s \in Sessions : SessionMoves(s),
           \A k \in Keys : credential'[k].state = credential[k].state
    PROVE  KeysOK'
<1>1. ASSUME NEW s \in Sessions, session'[s].state = "open"
      PROVE  /\ session'[s].credential \in Keys
             /\ credential'[session'[s].credential].state = "active"
  <2>1. PICK k : k = session[s].credential
    BY Zenon
  <2>2. session'[s].credential = k /\ session[s].state = "open"
    BY <1>1, <2>1, Zenon DEF SessionMoves
  <2>3. k \in Keys /\ credential[k].state = "active"
    BY <2>1, <2>2, Zenon DEF KeysOK
  <2> QED BY <2>2, <2>3, Zenon
<1>2. (\E k \in Keys : credential'[k].state = "revoked") =>
        \E k \in Keys : credential'[k].state = "active"
  BY Zenon DEF KeysOK
<1> QED BY <1>1, <1>2, Zenon DEF KeysOK

\* What a request names stays named, whatever sessions are opened.
LEMMA NamesKept ==
    ASSUME \A r \in Requests : Named(ceremony[r]),
           \A s \in Sessions : session[s].state # "none" =>
              session'[s].state # "none" /\ session'[s].credential = session[s].credential,
           \A r \in Requests : ceremony'[r] = ceremony[r] \/ ceremony'[r].op = "idle"
    PROVE  \A r \in Requests : Named(ceremony[r])'
<1> SUFFICES ASSUME NEW r \in Requests PROVE Named(ceremony[r])'
  BY Zenon
<1>1. PICK q : q = ceremony'[r]
  BY Zenon
<1>2. CASE q.op = "idle"
  BY <1>1, <1>2 DEF Named, Exchanging
<1>3. CASE q = ceremony[r]
  <2>1. Named(q)
    BY <1>3, Zenon
  <2> QED BY <1>1, <2>1, Zenon DEF Named
<1> QED BY <1>1, <1>2, <1>3, Zenon

LEMMA Overed ==
    ASSUME IdentityTypes, NEW r \in Requests, Over(r)
    PROVE  /\ ceremony' = [q \in Requests |-> ceremony'[q]]
           /\ ceremony'[r].op = "idle"
           /\ \A q \in Requests : q # r => ceremony'[q] = ceremony[q]
<1>1. NoCeremony.op = "idle"
  BY DEF NoCeremony
<1> QED BY <1>1, Zenon DEF Over, IdentityTypes

\* A step that opens no session, changes no key and exchanges nothing: requests
\* end, sessions are closed or grow old, challenges and tokens are made or lapse.
LEMMA QuietStep ==
    ASSUME IdentityInv, UNCHANGED <<yield, credential>>,
           challenge' = [c \in Challenges |-> challenge'[c]],
           bootstrap' = [b \in Bootstraps |-> bootstrap'[b]],
           session' = [s \in Sessions |-> session'[s]],
           ceremony' = [r \in Requests |-> ceremony'[r]],
           \A c \in Challenges : challenge[c].state = "spent" => challenge'[c].state = "spent",
           \A b \in Bootstraps : bootstrap[b] = "spent" => bootstrap'[b] = "spent",
           \A s \in Sessions : SessionMoves(s),
           \A r \in Requests : ceremony'[r] = ceremony[r] \/ ceremony'[r].op = "idle"
    PROVE  IdentityInv'
<1>1. IdentityTypes'
  BY Zenon DEF IdentityInv, IdentityTypes
<1>2. CeremoniesOK'
  <2>1. ASSUME NEW r \in Requests, ceremony'[r].op = "idle" PROVE Plain(ceremony'[r])
    BY <2>1 DEF Plain, Exchanging
  <2> QED BY <2>1, CeremoniesKept, Zenon
<1>3. KeysOK'
  BY KeysKept, Zenon DEF IdentityInv
<1>4. \A r \in Requests : Named(ceremony[r])'
  BY NamesKept, Zenon DEF IdentityInv, SessionMoves
<1> QED BY <1>1, <1>2, <1>3, <1>4, Zenon DEF IdentityInv

LEMMA SessionStays == ASSUME NEW s, session'[s] = session[s] PROVE SessionMoves(s)
BY Zenon DEF SessionMoves

LEMMA RefusedStep == ASSUME IdentityInv, NEW r \in Requests, Refused(r) PROVE IdentityInv'
<1>1. Over(r) /\ UNCHANGED <<bootstrap, challenge, credential, session, yield>>
  BY Zenon DEF Refused
<1>2. /\ ceremony' = [q \in Requests |-> ceremony'[q]]
      /\ \A q \in Requests : ceremony'[q] = ceremony[q] \/ ceremony'[q].op = "idle"
  BY <1>1, Overed, Zenon DEF IdentityInv
<1>3. \A s \in Sessions : SessionMoves(s)
  BY <1>1, SessionStays, Zenon
<1> QED BY <1>1, <1>2, <1>3, QuietStep, Zenon DEF IdentityInv, IdentityTypes

\* A request arrives.
LEMMA AcceptStep ==
    ASSUME IdentityInv, NEW r \in Requests, NEW q, Accept(r, q), Plain(q), Named(q),
           UNCHANGED <<bootstrap, challenge, credential, session, yield>>
    PROVE  IdentityInv'
<1>1. /\ ceremony' = [p \in Requests |-> ceremony'[p]] /\ ceremony'[r] = q
      /\ \A p \in Requests : p # r => ceremony'[p] = ceremony[p]
  BY Zenon DEF Accept, IdentityInv, IdentityTypes
<1>2. IdentityTypes'
  BY <1>1, Zenon DEF IdentityInv, IdentityTypes
<1>3. CeremoniesOK'
  BY <1>1, CeremoniesKept, Zenon
<1>4. KeysOK'
  BY Zenon DEF IdentityInv, KeysOK
<1>5. \A p \in Requests : Named(ceremony[p])'
  <2> SUFFICES ASSUME NEW p \in Requests PROVE Named(ceremony[p])'
    BY Zenon
  <2>1. PICK w : w = ceremony'[p]
    BY Zenon
  <2>2. Named(w)
    BY <1>1, <2>1, Zenon DEF IdentityInv
  <2> QED BY <2>1, <2>2, Zenon DEF Named
<1> QED BY <1>2, <1>3, <1>4, <1>5, Zenon DEF IdentityInv

\* A challenge is consumed by a request, which goes on alone with it.
LEMMA ConsumeStep ==
    ASSUME IdentityInv, NEW r \in Requests, NEW op \in Exchanging, NEW c, c = ceremony[r].challenge,
           ceremony[r].op \in {"login", "bootstrap", "add"},
           op = "bootstrap_complete" => ceremony[r].op = "bootstrap",
           challenge[c].state = "open", challenge' = [challenge EXCEPT ![c] = Consumed(c)],
           ceremony' = [ceremony EXCEPT ![r].op = op],
           UNCHANGED <<bootstrap, credential, session, yield>>
    PROVE  IdentityInv'
<1>1. c = ceremony[r].challenge
  OBVIOUS
<1>2. Named(ceremony[r])
  BY Zenon DEF IdentityInv
<1>3. c \in Challenges /\ ceremony[r].key \in Keys /\ (op = "bootstrap_complete" => ceremony[r].of \in Bootstraps)
  BY <1>1, <1>2 DEF Named
<1>4. challenge[c].state = "open" /\ challenge' = [challenge EXCEPT ![c] = Consumed(c)]
  OBVIOUS
<1>5. PICK x : x = challenge[c]
  BY Zenon
<1>6. [x EXCEPT !.state = "spent"].state = "spent"
  OBVIOUS
<1>7. /\ challenge' = [d \in Challenges |-> challenge'[d]] /\ challenge'[c].state = "spent"
      /\ \A d \in Challenges : d # c => challenge'[d] = challenge[d]
  BY <1>3, <1>4, <1>5, <1>6, Zenon DEF Consumed, IdentityInv, IdentityTypes
<1>8. PICK q : q = [ceremony[r] EXCEPT !.op = op]
  BY Zenon
<1>9. PICK w : w = ceremony[r]
  BY Zenon
<1>10. q = [w EXCEPT !.op = op]
  BY <1>8, <1>9, Zenon
<1>11. q.op = op /\ q.challenge = w.challenge /\ q.key = w.key /\ q.of = w.of
  BY <1>10
<1>12. ceremony' = [ceremony EXCEPT ![r] = q]
  BY <1>8
<1>13. /\ ceremony' = [p \in Requests |-> ceremony'[p]] /\ ceremony'[r] = q
       /\ \A p \in Requests : p # r => ceremony'[p] = ceremony[p]
  BY <1>12, Zenon DEF IdentityInv, IdentityTypes
<1>14. IdentityTypes'
  BY <1>7, <1>13, Zenon DEF IdentityInv, IdentityTypes
<1>15. KeysOK'
  BY Zenon DEF IdentityInv, KeysOK
<1>16. ASSUME NEW p \in Requests PROVE Named(ceremony[p])'
  <2>1. CASE p # r
    <3>1. PICK v : v = ceremony[p]
      BY Zenon
    <3>2. Named(v) /\ v = ceremony'[p]
      BY <1>13, <2>1, <3>1, Zenon DEF IdentityInv
    <3> QED BY <3>2, Zenon DEF Named
  <2>2. CASE p = r
    <3>1. /\ q.challenge \in Challenges /\ q.key \in Keys /\ q.op = op
          /\ op = "bootstrap_complete" => q.of \in Bootstraps
      BY <1>1, <1>3, <1>9, <1>11, Zenon
    <3>2. op # "bootstrap" /\ op # "revoke"
      BY DEF Exchanging
    <3>3. q = ceremony'[p]
      BY <1>13, <2>2, Zenon
    <3> QED BY <3>1, <3>2, <3>3, Zenon DEF Named
  <2> QED BY <2>1, <2>2, Zenon
<1>17. ASSUME NEW p \in Requests, ceremony[p].op \in Exchanging
       PROVE  ceremony[p].challenge \in Challenges /\ ceremony[p].challenge # c
  <2>1. challenge[ceremony[p].challenge].state = "spent"
    BY <1>17, Zenon DEF IdentityInv, CeremoniesOK
  <2>2. ceremony[p].challenge \in Challenges
    BY <1>17, Zenon DEF IdentityInv, Named
  <2> QED BY <1>4, <2>1, <2>2
<1>18. ceremony[r].op \notin Exchanging
  BY DEF Exchanging
<1>19. ASSUME NEW p \in Requests, ceremony'[p].op \in Exchanging
       PROVE  challenge'[ceremony'[p].challenge].state = "spent" /\ yield'[ceremony'[p].challenge] = 0
  <2>1. CASE p = r
    <3>1. ceremony'[p].challenge = c
      BY <1>1, <1>9, <1>11, <1>13, <2>1, Zenon
    <3>2. yield[c] = 0
      BY <1>3, <1>4 DEF IdentityInv, CeremoniesOK
    <3> QED BY <1>7, <3>1, <3>2, Zenon
  <2>2. CASE p # r
    <3>1. PICK d \in Challenges : d = ceremony[p].challenge /\ d # c
      BY <1>13, <1>17, <1>19, <2>2, Zenon
    <3>2. challenge[d].state = "spent" /\ yield[d] = 0 /\ d = ceremony'[p].challenge
      BY <1>13, <1>19, <2>2, <3>1, Zenon DEF IdentityInv, CeremoniesOK
    <3> QED BY <1>7, <3>1, <3>2, Zenon
  <2> QED BY <2>1, <2>2, Zenon
<1>20. ASSUME NEW p \in Requests, NEW o \in Requests,
              ceremony'[p].op \in Exchanging, ceremony'[o].op \in Exchanging,
              ceremony'[p].challenge = ceremony'[o].challenge
       PROVE  p = o
  <2>1. ceremony'[r].challenge = c
    BY <1>1, <1>9, <1>11, <1>13, Zenon
  <2>2. CASE p = r /\ o # r
    BY <1>13, <1>17, <1>20, <2>1, <2>2, Zenon
  <2>3. CASE p # r /\ o = r
    BY <1>13, <1>17, <1>20, <2>1, <2>3, Zenon
  <2>4. CASE p # r /\ o # r
    BY <1>13, <1>20, <2>4, Zenon DEF IdentityInv, CeremoniesOK
  <2> QED BY <2>2, <2>3, <2>4, Zenon
<1>21. /\ \A d \in Challenges : challenge'[d].state # "spent" => yield'[d] = 0
       /\ \A d \in Bootstraps : bootstrap'[d] # "spent" => yield'[d] = 0
  BY <1>7, Zenon DEF IdentityInv, CeremoniesOK
<1>22. CeremoniesOK'
  BY <1>19, <1>20, <1>21, Zenon DEF CeremoniesOK
<1> QED BY <1>14, <1>15, <1>16, <1>22, Zenon DEF IdentityInv

\* A challenge, and with it perhaps the bootstrap token X, is exchanged.
LEMMA ExchangeStep ==
    ASSUME IdentityInv, NEW r \in Requests, ceremony[r].op \in Exchanging, Over(r),
           NEW X \in SUBSET (Challenges \cup Bootstraps), ceremony[r].challenge \in X,
           \A x \in X : x \in Challenges => x = ceremony[r].challenge,
           \A x \in X : yield[x] = 0,
           yield' \in [Challenges \cup Bootstraps -> {0, 1}],
           \A x \in Challenges \cup Bootstraps : x \notin X => yield'[x] = yield[x],
           UNCHANGED challenge,
           \A b \in Bootstraps : IF b \in X THEN bootstrap'[b] = "spent" ELSE bootstrap'[b] = bootstrap[b]
    PROVE  CeremoniesOK'
<1>1. PICK c : c = ceremony[r].challenge
  BY Zenon
<1>2. c \in Challenges /\ challenge[c].state = "spent"
  BY <1>1, Zenon DEF IdentityInv, CeremoniesOK, Named
<1>3. /\ ceremony'[r].op = "idle" /\ \A q \in Requests : q # r => ceremony'[q] = ceremony[q]
  BY Overed, Zenon DEF IdentityInv
<1>4. "idle" \notin Exchanging
  BY DEF Exchanging
<1>5. ASSUME NEW p \in Requests, ceremony'[p].op \in Exchanging
      PROVE  /\ p # r /\ ceremony'[p] = ceremony[p]
             /\ ceremony[p].challenge \in Challenges /\ ceremony[p].challenge \notin X
  <2>1. p # r /\ ceremony'[p] = ceremony[p]
    BY <1>3, <1>4, <1>5, Zenon
  <2>2. ceremony[p].challenge \in Challenges
    BY <1>5, <2>1, Zenon DEF IdentityInv, Named
  <2>3. ceremony[p].challenge # c
    BY <1>1, <1>5, <2>1, Zenon DEF IdentityInv, CeremoniesOK
  <2> QED BY <1>1, <2>1, <2>2, <2>3, Zenon
<1>6. ASSUME NEW p \in Requests, ceremony'[p].op \in Exchanging
      PROVE  challenge'[ceremony'[p].challenge].state = "spent" /\ yield'[ceremony'[p].challenge] = 0
  <2>1. PICK d \in Challenges : d = ceremony[p].challenge /\ d = ceremony'[p].challenge /\ d \notin X
    BY <1>5, <1>6, Zenon
  <2>2. challenge[d].state = "spent" /\ yield[d] = 0
    <3>1. ceremony[p].op \in Exchanging
      BY <1>5, <1>6, Zenon
    <3> QED BY <2>1, <3>1, ExchangeReady, ZenonT(90) DEF IdentityInv
  <2> QED BY <2>1, <2>2, Zenon
<1>7. ASSUME NEW p \in Requests, NEW o \in Requests,
             ceremony'[p].op \in Exchanging, ceremony'[o].op \in Exchanging,
             ceremony'[p].challenge = ceremony'[o].challenge
      PROVE  p = o
  <2>1. /\ ceremony[p].op \in Exchanging /\ ceremony[o].op \in Exchanging
        /\ ceremony[p].challenge = ceremony[o].challenge
    BY <1>5, <1>7, Zenon
  <2> QED BY <2>1, ExchangeAlone, Zenon DEF IdentityInv
<1>8. ASSUME NEW d \in Challenges, challenge'[d].state # "spent" PROVE yield'[d] = 0
  BY <1>1, <1>2, <1>8, Zenon DEF IdentityInv, CeremoniesOK
<1>9. ASSUME NEW b \in Bootstraps, bootstrap'[b] # "spent" PROVE yield'[b] = 0
  BY <1>9, Zenon DEF IdentityInv, CeremoniesOK
<1> QED BY <1>6, <1>7, <1>8, <1>9, Zenon DEF CeremoniesOK

\* A session is opened with a key that is active by then.
LEMMA OpenedSession ==
    ASSUME IdentityInv, NEW k \in Keys, credential'[k].state = "active",
           \A j \in Keys : credential'[j].state \in {credential[j].state, "active"},
           NEW s \in Sessions, insert_session(s, k)
    PROVE  /\ KeysOK' /\ session' = [t \in Sessions |-> session'[t]]
           /\ \A t \in Sessions : session[t].state # "none" =>
                session'[t].state # "none" /\ session'[t].credential = session[t].credential
<1>1. PICK x : x = [state |-> "open", credential |-> k, age |-> "recent"]
  BY Zenon
<1>2. x.state = "open" /\ x.credential = k
  BY <1>1
<1>3. session[s].state = "none" /\ session' = [session EXCEPT ![s] = x]
  BY <1>1, Zenon DEF insert_session
<1>4. /\ session' = [t \in Sessions |-> session'[t]] /\ session'[s] = x
      /\ \A t \in Sessions : t # s => session'[t] = session[t]
  BY <1>3, Zenon DEF IdentityInv, IdentityTypes
<1>5. ASSUME NEW t \in Sessions, session'[t].state = "open"
      PROVE  session'[t].credential \in Keys /\ credential'[session'[t].credential].state = "active"
  <2>1. CASE t = s
    BY <1>2, <1>4, <2>1, Zenon
  <2>2. CASE t # s
    <3>1. PICK j \in Keys : j = session[t].credential /\ j = session'[t].credential
      BY <1>4, <1>5, <2>2, Zenon DEF IdentityInv, KeysOK
    <3>2. credential[j].state = "active"
      BY <1>4, <1>5, <2>2, <3>1, Zenon DEF IdentityInv, KeysOK
    <3>3. credential'[j].state = "active"
      BY <3>2
    <3> QED BY <3>1, <3>3, Zenon
  <2> QED BY <2>1, <2>2, Zenon
<1>6. KeysOK'
  BY <1>5, Zenon DEF KeysOK
<1> QED BY <1>3, <1>4, <1>6, Zenon

LEMMA InsertedKey ==
    ASSUME IdentityTypes, NEW k \in Keys, insert_credential(k)
    PROVE  /\ credential' = [j \in Keys |-> credential'[j]] /\ credential'[k].state = "active"
           /\ \A j \in Keys : j # k => credential'[j] = credential[j]
<1>1. PICK x : x = [state |-> "active", counter |-> signed[k]]
  BY Zenon
<1>2. x.state = "active"
  BY <1>1
<1> QED BY <1>1, <1>2, Zenon DEF insert_credential, IdentityTypes

LEMMA LoginStep == ASSUME IdentityInv, NEW r \in Requests, complete_authentication(r) PROVE IdentityInv'
<1>1. CASE Refused(r)
  BY <1>1, RefusedStep, Zenon
<1>2. ASSUME ~Refused(r) PROVE IdentityInv'
  <2>1. PICK k, c : k = ceremony[r].key /\ c = ceremony[r].challenge
    BY Zenon
  <2>2. /\ ceremony[r].op = "login_complete" /\ credential[k].state = "active"
        /\ credential' = [credential EXCEPT ![k].counter = ceremony[r].next]
        /\ \E s \in Sessions : insert_session(s, k)
        /\ yield' = [yield EXCEPT ![c] = yield[c] + 1]
        /\ Over(r) /\ UNCHANGED <<bootstrap, challenge>>
    BY <1>2, <2>1, Zenon DEF complete_authentication
  <2>3. ceremony[r].op \in Exchanging
    BY <2>2 DEF Exchanging
  <2>4. k \in Keys /\ c \in Challenges /\ yield[c] = 0
    BY <2>1, <2>3, ExchangeReady, Zenon DEF IdentityInv, Named
  <2>5. PICK x, n : x = credential[k] /\ n = ceremony[r].next
    BY Zenon
  <2>6. credential' = [credential EXCEPT ![k] = [x EXCEPT !.counter = n]]
    BY <2>2, <2>5
  <2>7. [x EXCEPT !.counter = n].state = x.state
    OBVIOUS
  <2>8. /\ credential' = [j \in Keys |-> credential'[j]]
        /\ credential'[k].state = credential[k].state
        /\ \A j \in Keys : j # k => credential'[j] = credential[j]
    BY <2>4, <2>5, <2>6, <2>7, Zenon DEF IdentityInv, IdentityTypes
  <2>9. \A j \in Keys : credential'[j].state \in {credential[j].state, "active"}
    BY <2>8, Zenon
  <2>10. /\ KeysOK' /\ session' = [t \in Sessions |-> session'[t]]
         /\ \A t \in Sessions : session[t].state # "none" =>
              session'[t].state # "none" /\ session'[t].credential = session[t].credential
    BY <2>2, <2>4, <2>8, <2>9, OpenedSession, Zenon
  <2>11. yield' = [yield EXCEPT ![c] = 1]
    <3>1. yield[c] + 1 = 1
      BY <2>4
    <3> QED BY <2>2, <3>1, Zenon
  <2>12. /\ yield' \in [Challenges \cup Bootstraps -> {0, 1}]
         /\ \A x1 \in Challenges \cup Bootstraps : x1 # c => yield'[x1] = yield[x1]
    BY <2>4, <2>11, Zenon DEF IdentityInv, IdentityTypes
  <2>13. PICK X \in SUBSET (Challenges \cup Bootstraps) : X = {c}
    BY <2>4, Zenon
  <2>14. \A b \in Bootstraps : b \notin X
    BY <2>4, <2>13, IdentityAssumption, Zenon
  <2>15. CeremoniesOK'
    BY <2>1, <2>2, <2>3, <2>4, <2>12, <2>13, <2>14, ExchangeStep, Zenon
  <2>16. /\ ceremony' = [q \in Requests |-> ceremony'[q]]
         /\ \A q \in Requests : ceremony'[q] = ceremony[q] \/ ceremony'[q].op = "idle"
    BY <2>2, Overed, Zenon DEF IdentityInv
  <2>17. \A q \in Requests : Named(ceremony[q])'
    BY <2>10, <2>16, NamesKept, Zenon DEF IdentityInv
  <2>18. IdentityTypes'
    BY <2>2, <2>8, <2>10, <2>12, <2>16, Zenon DEF IdentityInv, IdentityTypes
  <2> QED BY <2>10, <2>15, <2>17, <2>18, Zenon DEF IdentityInv
<1> QED BY <1>1, <1>2, Zenon

LEMMA BootstrapStep == ASSUME IdentityInv, NEW r \in Requests, complete_bootstrap(r) PROVE IdentityInv'
<1>1. CASE Refused(r)
  BY <1>1, RefusedStep, Zenon
<1>2. ASSUME ~Refused(r) PROVE IdentityInv'
  <2>1. PICK k, c, b : k = ceremony[r].key /\ c = ceremony[r].challenge /\ b = ceremony[r].of
    BY Zenon
  <2>2. /\ ceremony[r].op = "bootstrap_complete" /\ bootstrap_row(b) /\ insert_credential(k)
        /\ \E s \in Sessions : insert_session(s, k)
        /\ bootstrap' = [bootstrap EXCEPT ![b] = "spent"]
        /\ yield' = [yield EXCEPT ![b] = @ + 1, ![c] = @ + 1]
        /\ Over(r) /\ UNCHANGED challenge
    BY <1>2, <2>1, Zenon DEF complete_bootstrap
  <2>3. ceremony[r].op \in Exchanging
    BY <2>2 DEF Exchanging
  <2>4. k \in Keys /\ c \in Challenges /\ yield[c] = 0
    BY <2>1, <2>3, ExchangeReady, Zenon DEF IdentityInv, Named
  <2>5. b \in Bootstraps /\ bootstrap[b] = "open"
    BY <2>1, <2>2, Zenon DEF IdentityInv, Named, bootstrap_row
  <2>6. yield[b] = 0 /\ b # c
    <3>1. bootstrap[b] # "spent"
      BY <2>5
    <3> QED BY <2>4, <2>5, <3>1, IdentityAssumption, Zenon DEF IdentityInv, CeremoniesOK
  <2>7. /\ yield' \in [Challenges \cup Bootstraps -> {0, 1}]
        /\ \A x \in Challenges \cup Bootstraps : x # c /\ x # b => yield'[x] = yield[x]
    BY <2>2, <2>4, <2>5, <2>6 DEF IdentityInv, IdentityTypes
  <2>8. /\ bootstrap' = [a \in Bootstraps |-> bootstrap'[a]] /\ bootstrap'[b] = "spent"
        /\ \A a \in Bootstraps : a # b => bootstrap'[a] = bootstrap[a]
    BY <2>2, <2>5, Zenon DEF IdentityInv, IdentityTypes
  <2>9. /\ credential' = [j \in Keys |-> credential'[j]] /\ credential'[k].state = "active"
        /\ \A j \in Keys : j # k => credential'[j] = credential[j]
    BY <2>2, <2>4, InsertedKey, Zenon DEF IdentityInv
  <2>10. \A j \in Keys : credential'[j].state \in {credential[j].state, "active"}
    BY <2>9, Zenon
  <2>11. /\ KeysOK' /\ session' = [t \in Sessions |-> session'[t]]
         /\ \A t \in Sessions : session[t].state # "none" =>
              session'[t].state # "none" /\ session'[t].credential = session[t].credential
    BY <2>2, <2>4, <2>9, <2>10, OpenedSession, Zenon
  <2>12. PICK X \in SUBSET (Challenges \cup Bootstraps) : X = {b, c}
    BY <2>4, <2>5, Zenon
  <2>13. /\ c \in X /\ \A x \in X : x \in Challenges => x = c
         /\ \A x \in X : yield[x] = 0
         /\ \A a \in Bootstraps : a \in X <=> a = b
    BY <2>4, <2>5, <2>6, <2>12, IdentityAssumption, Zenon
  <2>14. \A x \in Challenges \cup Bootstraps : x \notin X => yield'[x] = yield[x]
    BY <2>7, <2>12, Zenon
  <2>15. \A a \in Bootstraps : IF a \in X THEN bootstrap'[a] = "spent" ELSE bootstrap'[a] = bootstrap[a]
    BY <2>8, <2>13, Zenon
  <2>16. CeremoniesOK'
    BY <2>1, <2>2, <2>3, <2>7, <2>13, <2>14, <2>15, ExchangeStep, Zenon
  <2>17. /\ ceremony' = [q \in Requests |-> ceremony'[q]]
         /\ \A q \in Requests : ceremony'[q] = ceremony[q] \/ ceremony'[q].op = "idle"
    BY <2>2, Overed, Zenon DEF IdentityInv
  <2>18. \A q \in Requests : Named(ceremony[q])'
    BY <2>11, <2>17, NamesKept, Zenon DEF IdentityInv
  <2>19. IdentityTypes'
    BY <2>2, <2>7, <2>8, <2>9, <2>11, <2>17, Zenon DEF IdentityInv, IdentityTypes
  <2> QED BY <2>11, <2>16, <2>18, <2>19, Zenon DEF IdentityInv
<1> QED BY <1>1, <1>2, Zenon

LEMMA AddStep == ASSUME IdentityInv, NEW r \in Requests, add_credential(r) PROVE IdentityInv'
<1>1. CASE Refused(r)
  BY <1>1, RefusedStep, Zenon
<1>2. ASSUME ~Refused(r) PROVE IdentityInv'
  <2>1. PICK k, c : k = ceremony[r].key /\ c = ceremony[r].challenge
    BY Zenon
  <2>2. /\ ceremony[r].op = "add_complete" /\ insert_credential(k)
        /\ yield' = [yield EXCEPT ![c] = yield[c] + 1]
        /\ Over(r) /\ UNCHANGED <<bootstrap, challenge, session>>
    BY <1>2, <2>1, Zenon DEF add_credential
  <2>3. ceremony[r].op \in Exchanging
    BY <2>2 DEF Exchanging
  <2>4. k \in Keys /\ c \in Challenges /\ yield[c] = 0
    BY <2>1, <2>3, ExchangeReady, Zenon DEF IdentityInv, Named
  <2>5. /\ credential' = [j \in Keys |-> credential'[j]] /\ credential'[k].state = "active"
        /\ \A j \in Keys : j # k => credential'[j] = credential[j]
    BY <2>2, <2>4, InsertedKey, Zenon DEF IdentityInv
  <2>6. yield' = [yield EXCEPT ![c] = 1]
    <3>1. yield[c] + 1 = 1
      BY <2>4
    <3> QED BY <2>2, <3>1, Zenon
  <2>7. /\ yield' \in [Challenges \cup Bootstraps -> {0, 1}]
        /\ \A x \in Challenges \cup Bootstraps : x # c => yield'[x] = yield[x]
    BY <2>4, <2>6, Zenon DEF IdentityInv, IdentityTypes
  <2>8. PICK X \in SUBSET (Challenges \cup Bootstraps) : X = {c}
    BY <2>4, Zenon
  <2>9. \A b \in Bootstraps : b \notin X
    BY <2>4, <2>8, IdentityAssumption, Zenon
  <2>10. CeremoniesOK'
    BY <2>1, <2>2, <2>3, <2>4, <2>7, <2>8, <2>9, ExchangeStep, Zenon
  <2>11. ASSUME NEW s \in Sessions, session'[s].state = "open"
         PROVE  session'[s].credential \in Keys /\ credential'[session'[s].credential].state = "active"
    <3>1. PICK j \in Keys : j = session[s].credential /\ credential[j].state = "active"
      BY <2>2, <2>11, Zenon DEF IdentityInv, KeysOK
    <3>2. credential'[j].state = "active"
      BY <2>5, <3>1, Zenon
    <3> QED BY <2>2, <3>1, <3>2, Zenon
  <2>12. KeysOK'
    BY <2>4, <2>5, <2>11, Zenon DEF KeysOK
  <2>13. /\ ceremony' = [q \in Requests |-> ceremony'[q]]
         /\ \A q \in Requests : ceremony'[q] = ceremony[q] \/ ceremony'[q].op = "idle"
    BY <2>2, Overed, Zenon DEF IdentityInv
  <2>14. \A q \in Requests : Named(ceremony[q])'
    BY <2>2, <2>13, NamesKept, Zenon DEF IdentityInv
  <2>15. IdentityTypes'
    BY <2>2, <2>5, <2>7, <2>13, Zenon DEF IdentityInv, IdentityTypes
  <2> QED BY <2>10, <2>12, <2>14, <2>15, Zenon DEF IdentityInv
<1> QED BY <1>1, <1>2, Zenon

LEMMA FindStep == ASSUME IdentityInv, NEW r \in Requests, authenticate_credential(r) PROVE IdentityInv'
<1>1. CASE Refused(r)
  BY <1>1, RefusedStep, Zenon
<1>2. ASSUME ~Refused(r) PROVE IdentityInv'
  <2>1. PICK p, n : p = ceremony[r] /\ n = credential[ceremony[r].key].counter
    BY Zenon
  <2>2. PICK q : q = [p EXCEPT !.op = "login_complete", !.stored = n]
    BY Zenon
  <2>3. p.op = "login_find"
    BY <2>1, Zenon DEF authenticate_credential
  <2>4. /\ ceremony' = [ceremony EXCEPT ![r].op = "login_complete", ![r].stored = n]
        /\ UNCHANGED <<bootstrap, challenge, credential, session, yield>>
    BY <1>2, <2>1, Zenon DEF authenticate_credential
  <2>5. ceremony' = [ceremony EXCEPT ![r] = q]
    BY <2>1, <2>2, <2>4, Zenon DEF IdentityInv, IdentityTypes
  <2>6. q.op = "login_complete" /\ q.challenge = p.challenge /\ q.key = p.key
    BY <2>2
  <2>7. Named(p)
    BY <2>1, Zenon DEF IdentityInv
  <2>8. q.challenge \in Challenges /\ q.key \in Keys
    BY <2>3, <2>6, <2>7 DEF Named, Exchanging
  <2>9. p.op \in Exchanging /\ q.op \in Exchanging /\ q.op \notin {"bootstrap", "bootstrap_complete"}
        /\ q.op # "revoke"
    BY <2>3, <2>6 DEF Exchanging
  <2>10. /\ ceremony' = [t \in Requests |-> ceremony'[t]] /\ ceremony'[r] = q
         /\ \A t \in Requests : t # r => ceremony'[t] = ceremony[t]
    BY <2>5, Zenon DEF IdentityInv, IdentityTypes
  <2>11. IdentityTypes'
    BY <2>4, <2>10, Zenon DEF IdentityInv, IdentityTypes
  <2>12. \A t \in Requests : \/ ceremony'[t] = ceremony[t]
                             \/ /\ ceremony[t].op \in Exchanging /\ ceremony'[t].op \in Exchanging
                                /\ ceremony'[t].challenge = ceremony[t].challenge
    BY <2>1, <2>6, <2>9, <2>10, Zenon
  <2>13. CeremoniesOK'
    BY <2>4, <2>12, CeremoniesKept, Zenon
  <2>14. KeysOK'
    BY <2>4, Zenon DEF IdentityInv, KeysOK
  <2>15. ASSUME NEW t \in Requests PROVE Named(ceremony[t])'
    <3>1. CASE t # r
      <4>1. PICK v : v = ceremony[t]
        BY Zenon
      <4>2. Named(v) /\ v = ceremony'[t]
        BY <2>10, <3>1, <4>1, Zenon DEF IdentityInv
      <4> QED BY <2>4, <4>2, Zenon DEF Named
    <3>2. CASE t = r
      BY <2>8, <2>9, <2>10, <3>2, Zenon DEF Named
    <3> QED BY <3>1, <3>2, Zenon
  <2> QED BY <2>11, <2>13, <2>14, <2>15, Zenon DEF IdentityInv
<1> QED BY <1>1, <1>2, Zenon

LEMMA ChallengeStep ==
    ASSUME IdentityInv, NEW r \in Requests,
           \/ authenticate_challenge(r) \/ complete_bootstrap_registration(r)
           \/ add_credential_challenge(r)
    PROVE  IdentityInv'
<1>1. CASE Refused(r)
  BY <1>1, RefusedStep, Zenon
<1>2. CASE authenticate_challenge(r) /\ ~Refused(r)
  <2>1. PICK op, c : op \in Exchanging /\ op = "login_find" /\ c = ceremony[r].challenge
    BY DEF Exchanging
  <2>2. /\ ceremony[r].op = "login" /\ challenge[c].state = "open"
        /\ challenge' = [challenge EXCEPT ![c] = Consumed(c)]
        /\ ceremony' = [ceremony EXCEPT ![r].op = op]
        /\ UNCHANGED <<bootstrap, credential, session, yield>>
    BY <1>2, <2>1, Zenon DEF authenticate_challenge, consume_challenge
  <2>3. /\ ceremony[r].op \in {"login", "bootstrap", "add"}
        /\ op = "bootstrap_complete" => ceremony[r].op = "bootstrap"
    BY <2>1, <2>2
  <2> QED BY <2>1, <2>2, <2>3, ConsumeStep, Zenon
<1>3. CASE complete_bootstrap_registration(r) /\ ~Refused(r)
  <2>1. PICK op, c : op \in Exchanging /\ op = "bootstrap_complete" /\ c = ceremony[r].challenge
    BY DEF Exchanging
  <2>2. /\ ceremony[r].op = "bootstrap" /\ challenge[c].state = "open"
        /\ challenge' = [challenge EXCEPT ![c] = Consumed(c)]
        /\ ceremony' = [ceremony EXCEPT ![r].op = op]
        /\ UNCHANGED <<bootstrap, credential, session, yield>>
    BY <1>3, <2>1, Zenon DEF complete_bootstrap_registration, consume_challenge
  <2>3. /\ ceremony[r].op \in {"login", "bootstrap", "add"}
        /\ op = "bootstrap_complete" => ceremony[r].op = "bootstrap"
    BY <2>1, <2>2
  <2> QED BY <2>1, <2>2, <2>3, ConsumeStep, Zenon
<1>4. CASE add_credential_challenge(r) /\ ~Refused(r)
  <2>1. PICK op, c : op \in Exchanging /\ op = "add_complete" /\ c = ceremony[r].challenge
    BY DEF Exchanging
  <2>2. /\ ceremony[r].op = "add" /\ challenge[c].state = "open"
        /\ challenge' = [challenge EXCEPT ![c] = Consumed(c)]
        /\ ceremony' = [ceremony EXCEPT ![r].op = op]
        /\ UNCHANGED <<bootstrap, credential, session, yield>>
    BY <1>4, <2>1, Zenon DEF add_credential_challenge, consume_challenge
  <2>3. /\ ceremony[r].op \in {"login", "bootstrap", "add"}
        /\ op = "bootstrap_complete" => ceremony[r].op = "bootstrap"
    BY <2>1, <2>2
  <2> QED BY <2>1, <2>2, <2>3, ConsumeStep, Zenon
<1> QED BY <1>1, <1>2, <1>3, <1>4, Zenon

\* Closing a session, or all sessions but one.
LEMMA ClosedSession ==
    ASSUME IdentityTypes, NEW s, session' = [session EXCEPT ![s].state = "revoked"]
    PROVE  /\ session' = [t \in Sessions |-> session'[t]]
           /\ \A t \in Sessions : SessionMoves(t)
<1>1. PICK w, x : w = session[s] /\ x = [w EXCEPT !.state = "revoked"]
  BY Zenon
<1>2. x.state = "revoked" /\ x.credential = w.credential
  BY <1>1
<1>3. session' = [session EXCEPT ![s] = x]
  BY <1>1
<1>4. /\ session' = [t \in Sessions |-> session'[t]]
      /\ \A t \in Sessions : IF t = s THEN session'[t] = x ELSE session'[t] = session[t]
  BY <1>3, Zenon DEF IdentityTypes
<1>5. ASSUME NEW t \in Sessions PROVE SessionMoves(t)
  <2>1. CASE t # s
    BY <1>4, <2>1, SessionStays, Zenon
  <2>2. CASE t = s
    <3>1. session'[t] = x /\ session[t] = w
      BY <1>1, <1>4, <2>2, Zenon
    <3>2. x.state # "open" /\ x.state # "none"
      BY <1>2
    <3> QED BY <1>2, <3>1, <3>2, Zenon DEF SessionMoves
  <2> QED BY <2>1, <2>2, Zenon
<1> QED BY <1>4, <1>5, Zenon

LEMMA ClosedSessions ==
    ASSUME IdentityTypes, NEW kept, session' = Revoked(kept)
    PROVE  /\ session' = [t \in Sessions |-> session'[t]]
           /\ \A t \in Sessions : SessionMoves(t)
           /\ \A t \in Sessions : session'[t].state = "open" => t = kept
<1>1. session' = [t \in Sessions |-> session'[t]]
  BY Zenon DEF Revoked
<1>2. ASSUME NEW t \in Sessions
      PROVE  SessionMoves(t) /\ (session'[t].state = "open" => t = kept)
  <2>1. PICK w, x : w = session[t] /\ x = [w EXCEPT !.state = "revoked"]
    BY Zenon
  <2>2. x.state = "revoked" /\ x.credential = w.credential
    BY <2>1
  <2>3. x.state # "open" /\ x.state # "none"
    BY <2>2
  <2>4. CASE w.state = "open" /\ t # kept
    <3>1. session'[t] = x
      BY <2>1, <2>4, Zenon DEF Revoked
    <3> QED BY <2>1, <2>2, <2>3, <3>1, Zenon DEF SessionMoves
  <2>5. CASE ~(w.state = "open" /\ t # kept)
    <3>1. session'[t] = session[t]
      BY <2>1, <2>5, Zenon DEF Revoked
    <3> QED BY <2>1, <2>5, <3>1, SessionStays, Zenon
  <2> QED BY <2>4, <2>5, Zenon
<1> QED BY <1>1, <1>2, Zenon

LEMMA CloseStep ==
    ASSUME IdentityInv, NEW r \in Requests,
           \/ revoke_selected_session(r) \/ revoke_other_sessions(r) \/ revoke_session(r)
    PROVE  IdentityInv'
<1>1. CASE Refused(r)
  BY <1>1, RefusedStep, Zenon
<1>2. CASE ~Refused(r)
  <2>1. /\ Over(r) /\ UNCHANGED <<yield, credential, challenge, bootstrap>>
        /\ \/ \E s : session' = [session EXCEPT ![s].state = "revoked"]
           \/ \E s : session' = Revoked(s)
    BY <1>2, Zenon DEF revoke_selected_session, revoke_other_sessions, revoke_session
  <2>2. /\ session' = [t \in Sessions |-> session'[t]]
        /\ \A t \in Sessions : SessionMoves(t)
    BY <2>1, ClosedSession, ClosedSessions, Zenon DEF IdentityInv
  <2>3. /\ ceremony' = [q \in Requests |-> ceremony'[q]]
        /\ \A q \in Requests : ceremony'[q] = ceremony[q] \/ ceremony'[q].op = "idle"
    BY <2>1, Overed, Zenon DEF IdentityInv
  <2>4. challenge' = [c \in Challenges |-> challenge'[c]] /\ bootstrap' = [b \in Bootstraps |-> bootstrap'[b]]
    BY <2>1, Zenon DEF IdentityInv, IdentityTypes
  <2> QED BY <2>1, <2>2, <2>3, <2>4, QuietStep, Zenon
<1> QED BY <1>1, <1>2, Zenon

\* A key is revoked only while another is active, and its sessions are closed:
\* the one that stays open is the caller's, which another key opened.
LEMMA RevokeStep == ASSUME IdentityInv, NEW r \in Requests, revoke_credential(r) PROVE IdentityInv'
<1>1. CASE Refused(r)
  BY <1>1, RefusedStep, Zenon
<1>2. ASSUME ~Refused(r) PROVE IdentityInv'
  <2>1. PICK k, by : k = ceremony[r].key /\ by = ceremony[r].by
    BY Zenon
  <2>2. /\ ceremony[r].op = "revoke" /\ k \in ActiveCredentials /\ ~Last(k)
        /\ credential' = [credential EXCEPT ![k].state = "revoked"]
        /\ session' = Revoked(by) /\ Over(r) /\ UNCHANGED <<bootstrap, challenge, yield>>
    BY <1>2, <2>1, Zenon DEF revoke_credential
  <2>3. /\ by \in Sessions /\ k \in Keys
        /\ session[by].state # "none" /\ session[by].credential # k
    BY <2>1, <2>2, Zenon DEF IdentityInv, Named
  <2>4. PICK j \in ActiveCredentials : j # k
    <3>1. SUFFICES ASSUME ActiveCredentials = {k} PROVE FALSE
      BY <2>2, Zenon
    <3>2. Cardinality(ActiveCredentials) = 1
      BY <3>1, FS_Singleton, Zenon
    <3> QED BY <2>2, <3>2 DEF Last
  <2>5. j \in Keys /\ credential[j].state = "active"
    BY <2>4, Zenon DEF ActiveCredentials
  <2>6. \A i \in Keys : i # k => credential'[i] = credential[i]
    BY <2>2, Zenon DEF IdentityInv, IdentityTypes
  <2>7. credential' = [i \in Keys |-> credential'[i]]
    BY <2>2, Zenon DEF IdentityInv, IdentityTypes
  <2>8. /\ session' = [t \in Sessions |-> session'[t]]
        /\ \A t \in Sessions : SessionMoves(t)
        /\ \A t \in Sessions : session'[t].state = "open" => t = by
    BY <2>2, ClosedSessions, Zenon DEF IdentityInv
  <2>9. ASSUME NEW t \in Sessions, session'[t].state = "open"
        PROVE  session'[t].credential \in Keys /\ credential'[session'[t].credential].state = "active"
    <3>1. t = by /\ session[t].state = "open" /\ session'[t].credential = session[t].credential
      BY <2>8, <2>9, Zenon DEF SessionMoves
    <3>2. PICK i \in Keys : i = session[t].credential /\ credential[i].state = "active"
      BY <3>1, Zenon DEF IdentityInv, KeysOK
    <3>3. credential'[i].state = "active"
      BY <2>3, <2>6, <3>1, <3>2, Zenon
    <3> QED BY <3>1, <3>2, <3>3, Zenon
  <2>10. credential'[j].state = "active"
    BY <2>4, <2>5, <2>6, Zenon
  <2>11. KeysOK'
    BY <2>5, <2>9, <2>10, Zenon DEF KeysOK
  <2>12. /\ ceremony' = [q \in Requests |-> ceremony'[q]]
         /\ \A q \in Requests : ceremony'[q] = ceremony[q] \/ ceremony'[q].op = "idle"
    BY <2>2, Overed, Zenon DEF IdentityInv
  <2>13. ASSUME NEW q \in Requests, ceremony'[q].op = "idle" PROVE Plain(ceremony'[q])
    BY <2>13 DEF Plain, Exchanging
  <2>14. CeremoniesOK'
    BY <2>2, <2>12, <2>13, CeremoniesKept, Zenon
  <2>15. \A t \in Sessions : session[t].state # "none" =>
            session'[t].state # "none" /\ session'[t].credential = session[t].credential
    BY <2>8, Zenon DEF SessionMoves
  <2>16. \A q \in Requests : Named(ceremony[q])'
    BY <2>12, <2>15, NamesKept, Zenon DEF IdentityInv
  <2>17. IdentityTypes'
    BY <2>2, <2>7, <2>8, <2>12, Zenon DEF IdentityInv, IdentityTypes
  <2> QED BY <2>11, <2>14, <2>16, <2>17, Zenon DEF IdentityInv
<1> QED BY <1>1, <1>2, Zenon

LEMMA ProceedStep == ASSUME IdentityInv, NEW r \in Requests, Proceed(r) PROVE IdentityInv'
BY FindStep, ChallengeStep, LoginStep, BootstrapStep, AddStep, RevokeStep, CloseStep, Zenon
   DEF Proceed, authenticate

LEMMA ArriveStep == ASSUME IdentityInv, NEW r \in Requests, Arrive(r) PROVE IdentityInv'
<1>1. CASE \E c \in Challenges, k \in Keys : login_verify(r, c, k)
  <2>1. PICK c \in Challenges, k \in Keys : login_verify(r, c, k)
    BY <1>1, Zenon
  <2>2. PICK n : Accept(r, [NoCeremony EXCEPT !.op = "login", !.key = k, !.challenge = c,
                                              !.next = n])
    BY <2>1, Zenon DEF login_verify
  <2>3. PICK q : q = [NoCeremony EXCEPT !.op = "login", !.key = k, !.challenge = c, !.next = n]
    BY Zenon
  <2>4. Plain(q) /\ Named(q)
    BY <2>3 DEF Plain, Named, Exchanging, NoCeremony
  <2> QED BY <2>1, <2>2, <2>3, <2>4, AcceptStep, Zenon DEF login_verify
<1>2. CASE \E c \in Challenges, k \in Keys : \E b \in Bootstraps : bootstrap_verify(r, b, c, k)
  <2>1. PICK c \in Challenges, k \in Keys, b \in Bootstraps : bootstrap_verify(r, b, c, k)
    BY <1>2, Zenon
  <2>2. PICK q : q = [NoCeremony EXCEPT !.op = "bootstrap", !.key = k, !.challenge = c, !.of = b]
    BY Zenon
  <2>3. Plain(q) /\ Named(q)
    BY <2>2 DEF Plain, Named, Exchanging, NoCeremony
  <2> QED BY <2>1, <2>2, <2>3, AcceptStep, Zenon DEF bootstrap_verify
<1>3. CASE \E c \in Challenges, k \in Keys : \E s \in Sessions : credential_verify(r, s, c, k)
  <2>1. PICK c \in Challenges, k \in Keys, s \in Sessions : credential_verify(r, s, c, k)
    BY <1>3, Zenon
  <2>2. PICK q : q = [NoCeremony EXCEPT !.op = "add", !.by = s, !.key = k, !.challenge = c]
    BY Zenon
  <2>3. Plain(q) /\ Named(q)
    BY <2>2 DEF Plain, Named, Exchanging, NoCeremony
  <2> QED BY <2>1, <2>2, <2>3, AcceptStep, Zenon DEF credential_verify
<1>4. CASE \E s \in Sessions : logout(r, s)
  <2>1. PICK s \in Sessions : logout(r, s)
    BY <1>4, Zenon
  <2>2. PICK q : q = [NoCeremony EXCEPT !.op = "logout", !.by = s]
    BY Zenon
  <2>3. Plain(q) /\ Named(q)
    BY <2>2 DEF Plain, Named, Exchanging, NoCeremony
  <2> QED BY <2>1, <2>2, <2>3, AcceptStep, Zenon DEF logout
<1>5. CASE \E s \in Sessions : request_end_others(r, s)
  <2>1. PICK s \in Sessions : request_end_others(r, s)
    BY <1>5, Zenon
  <2>2. PICK q : q = [NoCeremony EXCEPT !.op = "end_others", !.by = s]
    BY Zenon
  <2>3. Plain(q) /\ Named(q)
    BY <2>2 DEF Plain, Named, Exchanging, NoCeremony
  <2> QED BY <2>1, <2>2, <2>3, AcceptStep, Zenon DEF request_end_others
<1>6. CASE \E s \in Sessions, t \in Sessions : request_end(r, s, t)
  <2>1. PICK s \in Sessions, t \in Sessions : request_end(r, s, t)
    BY <1>6, Zenon
  <2>2. PICK q : q = [NoCeremony EXCEPT !.op = "end", !.by = s, !.of = t]
    BY Zenon
  <2>3. Plain(q) /\ Named(q)
    BY <2>2 DEF Plain, Named, Exchanging, NoCeremony
  <2> QED BY <2>1, <2>2, <2>3, AcceptStep, Zenon DEF request_end
<1>7. CASE \E s \in Sessions, k \in Keys : request_revocation(r, s, k)
  <2>1. PICK s \in Sessions, k \in Keys : request_revocation(r, s, k)
    BY <1>7, Zenon
  <2>2. PICK q : q = [NoCeremony EXCEPT !.op = "revoke", !.by = s, !.key = k]
    BY Zenon
  <2>3. session[s].state = "open" /\ k # session[s].credential
    BY <2>1, Zenon DEF request_revocation, RecentAdminIdentity, AdminIdentity,
                       authenticate_session, active_session
  <2>4. q.op = "revoke" /\ q.by = s /\ q.key = k
    BY <2>2 DEF NoCeremony
  <2>5. session[s].state # "none"
    BY <2>3
  <2>6. Plain(q) /\ q.op \notin Exchanging \cup {"login", "bootstrap", "add"}
        /\ q.op \notin {"bootstrap", "bootstrap_complete"}
    BY <2>4 DEF Plain, Exchanging
  <2>7. Named(q)
    BY <2>3, <2>4, <2>5, <2>6, Zenon DEF Named
  <2> QED BY <2>1, <2>2, <2>6, <2>7, AcceptStep, Zenon DEF request_revocation
<1> QED BY <1>1, <1>2, <1>3, <1>4, <1>5, <1>6, <1>7, Zenon DEF Arrive

\* Options make a challenge, time ends challenges, tokens and sessions.
LEMMA OptionsStep ==
    ASSUME IdentityInv, NEW c \in Challenges, NEW purpose, NEW b, NEW excluded,
           create_challenge(c, purpose, b, excluded)
    PROVE  IdentityInv'
<1>1. PICK x : x = [state |-> "open", purpose |-> purpose, bootstrap |-> b, excluded |-> excluded]
  BY Zenon
<1>2. /\ challenge[c].state = "none" /\ challenge' = [challenge EXCEPT ![c] = x]
      /\ UNCHANGED <<bootstrap, credential, session, ceremony, yield>>
  BY <1>1, Zenon DEF create_challenge
<1>3. challenge[c].state # "spent"
  BY <1>2
<1>4. /\ challenge' = [d \in Challenges |-> challenge'[d]]
      /\ \A d \in Challenges : challenge[d].state = "spent" => challenge'[d].state = "spent"
  BY <1>2, <1>3, Zenon DEF IdentityInv, IdentityTypes
<1>5. /\ bootstrap' = [a \in Bootstraps |-> bootstrap'[a]] /\ session' = [s \in Sessions |-> session'[s]]
      /\ ceremony' = [r \in Requests |-> ceremony'[r]]
  BY <1>2, Zenon DEF IdentityInv, IdentityTypes
<1> QED BY <1>2, <1>4, <1>5, SessionStays, QuietStep, Zenon

LEMMA ChallengeExpires == ASSUME IdentityInv, NEW c \in Challenges, challenge_expires(c) PROVE IdentityInv'
<1>1. PICK w, x : w = challenge[c] /\ x = [w EXCEPT !.state = "spent"]
  BY Zenon
<1>2. x.state = "spent"
  BY <1>1
<1>3. UNCHANGED <<bootstrap, credential, session, ceremony, yield>>
  BY Zenon DEF challenge_expires
<1>4. challenge' = [challenge EXCEPT ![c] = x]
  BY <1>1 DEF challenge_expires
<1>5. /\ challenge' = [d \in Challenges |-> challenge'[d]]
      /\ \A d \in Challenges : challenge[d].state = "spent" => challenge'[d].state = "spent"
  BY <1>2, <1>4, Zenon DEF IdentityInv, IdentityTypes
<1>6. /\ bootstrap' = [a \in Bootstraps |-> bootstrap'[a]] /\ session' = [s \in Sessions |-> session'[s]]
      /\ ceremony' = [r \in Requests |-> ceremony'[r]]
  BY <1>3, Zenon DEF IdentityInv, IdentityTypes
<1> QED BY <1>3, <1>5, <1>6, SessionStays, QuietStep, Zenon

LEMMA BootstrapMoves ==
    ASSUME IdentityInv, NEW b \in Bootstraps, issue_bootstrap(b) \/ bootstrap_expires(b)
    PROVE  IdentityInv'
<1>1. UNCHANGED <<challenge, credential, session, ceremony, yield>>
  BY Zenon DEF issue_bootstrap, bootstrap_expires
<1>2. /\ bootstrap' = [a \in Bootstraps |-> bootstrap'[a]]
      /\ \A a \in Bootstraps : bootstrap[a] = "spent" => bootstrap'[a] = "spent"
  <2>1. CASE issue_bootstrap(b)
    BY <2>1 DEF issue_bootstrap, IdentityInv, IdentityTypes
  <2>2. CASE bootstrap_expires(b)
    BY <2>2, Zenon DEF bootstrap_expires, IdentityInv, IdentityTypes
  <2> QED BY <2>1, <2>2, Zenon
<1>3. /\ challenge' = [c \in Challenges |-> challenge'[c]] /\ session' = [s \in Sessions |-> session'[s]]
      /\ ceremony' = [r \in Requests |-> ceremony'[r]]
  BY <1>1, Zenon DEF IdentityInv, IdentityTypes
<1> QED BY <1>1, <1>2, <1>3, SessionStays, QuietStep, Zenon

LEMMA SessionAges == ASSUME IdentityInv, NEW s \in Sessions, session_ages(s) PROVE IdentityInv'
<1>1. PICK w, a : w = session[s] /\ a = IF w.age = "recent" THEN "old" ELSE "lapsed"
  BY Zenon
<1>2. PICK x : x = [w EXCEPT !.age = a]
  BY Zenon
<1>3. x.state = w.state /\ x.credential = w.credential
  BY <1>2
<1>4. UNCHANGED <<bootstrap, challenge, credential, ceremony, yield>>
  BY Zenon DEF session_ages
<1>5. session' = [session EXCEPT ![s] = x]
  BY <1>1, <1>2 DEF session_ages
<1>6. /\ session' = [t \in Sessions |-> session'[t]] /\ session'[s] = x
      /\ \A t \in Sessions : t # s => session'[t] = session[t]
  BY <1>5, Zenon DEF IdentityInv, IdentityTypes
<1>7. \A t \in Sessions : SessionMoves(t)
  BY <1>1, <1>3, <1>6, Zenon DEF SessionMoves
<1>8. /\ challenge' = [c \in Challenges |-> challenge'[c]]
      /\ bootstrap' = [b \in Bootstraps |-> bootstrap'[b]]
      /\ ceremony' = [r \in Requests |-> ceremony'[r]]
  BY <1>4, Zenon DEF IdentityInv, IdentityTypes
<1> QED BY <1>4, <1>6, <1>7, <1>8, QuietStep, Zenon

LEMMA IdentityStep == ASSUME IdentityInv, [IdentityNext]_identityVars PROVE IdentityInv'
<1>1. CASE UNCHANGED <<bootstrap, challenge, credential, session, ceremony, yield>>
  <2>1. /\ challenge' = [c \in Challenges |-> challenge'[c]]
        /\ bootstrap' = [b \in Bootstraps |-> bootstrap'[b]]
        /\ session' = [s \in Sessions |-> session'[s]]
        /\ ceremony' = [r \in Requests |-> ceremony'[r]]
    BY <1>1, Zenon DEF IdentityInv, IdentityTypes
  <2> QED BY <1>1, <2>1, SessionStays, QuietStep, Zenon
<1>2. CASE account_closes \/ UNCHANGED identityVars
  BY <1>1, <1>2, Zenon DEF account_closes, identityVars
<1>3. CASE \E r \in Requests : (Free(r) /\ Arrive(r)) \/ Proceed(r)
  BY <1>3, ArriveStep, ProceedStep, Zenon
<1>4. CASE \E c \in Challenges :
             \/ authentication_options(c) \/ challenge_expires(c)
             \/ \E b \in Bootstraps : bootstrap_registration_options(c, b)
             \/ \E s \in Sessions : additional_registration_options(c, s)
  BY <1>4, OptionsStep, ChallengeExpires, Zenon
     DEF authentication_options, bootstrap_registration_options,
         additional_registration_options, registration_options, persist_challenge
<1>5. CASE \E b \in Bootstraps : issue_bootstrap(b) \/ bootstrap_expires(b)
  BY <1>5, BootstrapMoves, Zenon
<1>6. CASE \E s \in Sessions : session_ages(s)
  BY <1>6, SessionAges, Zenon
<1> QED BY <1>2, <1>3, <1>4, <1>5, <1>6, Zenon DEF IdentityNext

LEMMA IdentityStart == ASSUME IdentityInit PROVE IdentityInv
<1>1. PICK registered \in SUBSET Keys, opened \in [Sessions -> Keys \cup {Unset}] :
        /\ \A s \in Sessions : opened[s] \in registered \cup {Unset}
        /\ credential = [k \in Keys |->
            [state |-> IF k \in registered THEN "active" ELSE "none", counter |-> 0]]
        /\ session = [s \in Sessions |->
            [state |-> IF opened[s] = Unset THEN "none" ELSE "open",
             credential |-> opened[s], age |-> "recent"]]
  BY Zenon DEF IdentityInit
<1>2. /\ challenge = [c \in Challenges |-> NoChallenge]
      /\ bootstrap = [b \in Bootstraps |-> "none"]
      /\ ceremony = [r \in Requests |-> NoCeremony]
      /\ yield = [x \in Challenges \cup Bootstraps |-> 0]
  BY Zenon DEF IdentityInit
<1>3. IdentityTypes
  BY <1>1, <1>2 DEF IdentityTypes
<1>4. \A r \in Requests : ceremony[r].op = "idle"
  BY <1>2 DEF NoCeremony
<1>5. ASSUME NEW r \in Requests PROVE Named(ceremony[r])
  BY <1>4 DEF Named, Exchanging
<1>6. \A r \in Requests : ceremony[r].op \notin Exchanging
  BY <1>4 DEF Exchanging
<1>7. \A x \in Challenges \cup Bootstraps : yield[x] = 0
  BY <1>2, Zenon
<1>8. CeremoniesOK
  BY <1>6, <1>7, Zenon DEF CeremoniesOK
<1>9. ASSUME NEW s \in Sessions, session[s].state = "open"
      PROVE  session[s].credential \in Keys /\ credential[session[s].credential].state = "active"
  <2>1. session[s].credential = opened[s] /\ opened[s] # Unset
    BY <1>1, <1>9
  <2>2. opened[s] \in registered
    BY <1>1, <2>1, Zenon
  <2> QED BY <1>1, <2>1, <2>2
<1>10. \A k \in Keys : credential[k].state # "revoked"
  BY <1>1
<1>11. KeysOK
  BY <1>9, <1>10, Zenon DEF KeysOK
<1> QED BY <1>3, <1>5, <1>8, <1>11, Zenon DEF IdentityInv

\* For any keys, sessions, requests and challenges: no challenge or bootstrap token
\* is exchanged twice, an open session's key is active, and once a key was revoked
\* another is active (identity/admin/pg.rs, consume_challenge, complete_bootstrap,
\* revoke_credential).
THEOREM AdminAccessIsSound == IdentitySpec => []AdminAccessHolds
<1>1. IdentityInit => IdentityInv
  BY IdentityStart, Zenon
<1>2. IdentityInv /\ [IdentityNext]_identityVars => IdentityInv'
  BY IdentityStep, Zenon
<1>3. IdentityInv => AdminAccessHolds
  <2> SUFFICES ASSUME IdentityInv PROVE OneCeremony /\ RevocationReaches
    BY Zenon DEF AdminAccessHolds
  <2>1. OneCeremony
    BY DEF IdentityInv, IdentityTypes, OneCeremony
  <2>2. RevocationReaches
    BY Zenon DEF IdentityInv, KeysOK, RevocationReaches, ActiveCredentials
  <2> QED BY <2>1, <2>2, Zenon
<1> QED BY <1>1, <1>2, <1>3, PTL DEF IdentitySpec
=============================================================================
