---------------------------- MODULE MCDiscovery ----------------------------
(***************************************************************************)
(* Where members meet, and the administration that serves and watches      *)
(* them: matches, the feed, the catalogue of traits and questions, the     *)
(* administrators' identity, their powers, and the lists they page         *)
(* through.  None of the properties below speaks of two of these parts, so *)
(* a behaviour follows one of them and the others rest in an initial state.*)
(*                                                                         *)
(* No definition orders or chooses users, readers or requests: one pair of *)
(* interchangeable values stands for each.                                 *)
(***************************************************************************)
EXTENDS Matching, Catalog, AdminIdentity, Sequences, TLC

CONSTANTS Points, MAX_DISTANCE, RADIUS, Limit, MAX_BATCH, MAX_FEED_BATCHES, MaxChanges,
          superadmin, admin, member, encounter, MaxOrders, MaxDeletions,
          Kinds, MaxTime, MaxRowWrites, MaxLimit, Milli

VARIABLES
    focus,
    eligible, swiped, place, here, cursor, scan, shown, lasting, changes,
    role, banned, deleted, mobile, access, grant, present, report, order, log, flagged,
    opened, begun, events,
    kind, table, now, rowWrites, walk

FirstPlace == <<1, 1, 2, 5>>
Reach == <<9, 1, 9, 9>>
First == superadmin :> "superadmin" @@ admin :> "admin" @@ member :> "user"

Feed == INSTANCE Feed
Administration == INSTANCE Administration WITH
    People <- {superadmin, admin, member}, ReviewAccount <- None, Matches <- {encounter},
    Parties <- encounter :> {admin, member},
    Reports <- {1}, Requests <- Pair, MaxRequests <- MaxOrders, MaxEvents <- MaxDeletions,
    req <- order
Listings == INSTANCE Listings WITH
    Ids <- 1..3, MaxWrites <- MaxRowWrites, writes <- rowWrites

feed == <<eligible, swiped, place, here, cursor, scan, shown, lasting, changes>>
powers == <<role, banned, deleted, mobile, access, grant, present, report, order, log,
            flagged, opened, begun, events>>
lists == <<kind, table, now, rowWrites, walk>>
vars == <<focus, matchVars, feed, catalogVars, identityVars, powers, lists>>

\* Rows of a table are created in the order of their numbers: no definition
\* tells their identifiers apart, so nothing is lost.
InOrder ==
    /\ challenge[2].state # "none" => challenge[1].state # "none"
    /\ session[2].state # "none" => session[1].state # "none"
    /\ credential[2].state # "none" => credential[1].state # "none"

\* Bound: at most one of the two is paused, banned or deleted at a time.
OneAway == \A v \in Pair : Ready(v) \/ Ready(Other(v))

NoFeed == eligible = {}
\* Bound on the initial states: a key has at most the session of its number, and
\* where there are two keys the first has one.
SignedIn ==
    /\ \A k \in {1, 2} : session[k].credential \in {k, Unset}
    /\ credential[2].state = "active" => session[1].state = "open"
NobodyRegistered == \A k \in {1, 2} : credential[k].state = "none"
AnyKind == kind = CHOOSE k \in Kinds : TRUE

Init ==
    /\ MatchInit /\ Feed!Init /\ CatalogInit /\ IdentityInit
    /\ Administration!Init /\ Listings!ListInit
    /\ focus \in {"matching", "feed", "catalogue", "identity", "powers", "lists"}
    /\ focus # "feed" => NoFeed
    /\ IF focus = "identity" THEN InOrder /\ SignedIn ELSE NobodyRegistered
    /\ focus # "lists" => AnyKind

Next ==
    /\ UNCHANGED focus
    /\ \/ /\ focus = "matching" /\ MatchNext /\ OneAway'
          /\ UNCHANGED <<feed, catalogVars, identityVars, powers, lists>>
       \/ /\ focus = "feed" /\ Feed!Next
          /\ UNCHANGED <<matchVars, catalogVars, identityVars, powers, lists>>
       \/ /\ focus = "catalogue" /\ CatalogNext
          /\ UNCHANGED <<matchVars, feed, identityVars, powers, lists>>
       \/ /\ focus = "identity" /\ IdentityNext /\ InOrder'
          /\ UNCHANGED <<matchVars, feed, catalogVars, powers, lists>>
       \/ /\ focus = "powers" /\ Administration!Next
          /\ UNCHANGED <<matchVars, feed, catalogVars, identityVars, lists>>
       \/ /\ focus = "lists" /\ Listings!ListNext
          /\ UNCHANGED <<matchVars, feed, catalogVars, identityVars, powers>>

Spec == Init /\ [][Next]_vars

Sym == Permutations(Pair)

(* The pages of the feed list everyone within reach, once. *)
PagesComplete == focus = "feed" => Feed!PagesComplete

(* Roles and grants are changed by whoever is a superadmin when it happens; a ban    *)
(* reaches only whom the role its request was authenticated with may ban, as the     *)
(* target stands when it happens.  A conversation is read only for a report, and its *)
(* people find the reading in their log (administration/pg.rs, pg/conversations.rs). *)
PowersHold ==
    [][focus = "powers" => Administration!AuthorityStep /\ Administration!ReadsAreOpened']_vars

(* A walk along next_cursor shows each lasting row once. *)
WalkComplete == focus = "lists" => Listings!WalkComplete
=============================================================================
