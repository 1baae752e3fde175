----------------------------- MODULE MCPrivacy -----------------------------
(***************************************************************************)
(* The three answers to what the law lets a person ask for: the erasure of *)
(* an account, the requests that lead to it with the web page they may be  *)
(* made on, and the export of the person's data.  Rights ends where the    *)
(* erasure begins (accept_erasure) and the export only reads, so a         *)
(* behaviour follows one of them and the others stay where they started.   *)
(* The erasure is followed for each set of Casts, what is being made       *)
(* beside it: the customer, or two photos.  The requests are followed with *)
(* one visitor of the page, the page alone with all of Visits.             *)
(***************************************************************************)
EXTENDS Erasure, Rights, TLC

CONSTANTS Downloads, PageSize, MaxBytes, MaxConcurrency, MaxChanges

OneUser == {"u"}

\* A customer and two photos being made, and a swipe.
MixedKind == "customer" :> "customer" @@ "photo1" :> "photo"
               @@ "photo2" :> "photo" @@ "swipe" :> "swipe"
MixedItems == DOMAIN MixedKind
MixedParties == [i \in MixedItems |-> {"u"}]
OnePhoto == {"photo1"}
Casts == {{"customer"}, {"photo1", "photo2"}}

\* Bound: the second photo is uploaded after the first.
InTurn == activity["photo2"] # "none" => activity["photo1"] = "over"

\* Rows of the person and of others, two of them at the same moment, and a
\* swipe that has expired.
Data(t, at, id, by, to) == [table |-> t, at |-> at, id |-> id, by |-> by, to |-> to]
Outdated == {Data("discovery_actions", 1, 1, "me", "you")}
SomeData == {Data("matches", 1, 1, "you", "me"), Data("matches", 1, 2, "me", "you"),
             Data("authored_messages", 2, 1, "me", "you"),
             Data("authored_messages", 2, 2, "you", "me")} \cup Outdated

VARIABLES
    focus, cast,
    db, slots, download, disk, removing, logged, changes

Exports == INSTANCE Exports WITH Person <- "me", Possible <- SomeData, Expired <- Outdated

exportVars == <<db, slots, download, disk, removing, logged, changes>>
allVars == <<focus, cast, vars, rightsVars, exportVars>>

\* One initial state for each component that is not followed.
MCInit ==
    /\ Init /\ RightsInit /\ Exports!Init
    /\ onboarded /\ data = {"photo"}
    /\ \/ focus = "erasure" /\ cast \in Casts
       \/ focus \in {"rights", "portal", "exports"} /\ cast = {}
    /\ focus # "exports" => db = {}

MCNext ==
    /\ UNCHANGED <<focus, cast>>
    /\ \/ /\ focus = "erasure" /\ Next /\ InTurn'
          /\ \A i \in Items \ cast : activity'[i] = activity[i]
          /\ UNCHANGED <<rightsVars, exportVars>>
       \/ /\ focus = "rights" /\ RightsNext
          /\ \A v \in Visits \ {1} : visit'[v] = visit[v]
          /\ UNCHANGED <<vars, exportVars>>
       \/ /\ focus = "portal" /\ WebNext
          /\ UNCHANGED <<vars, desk, exportVars>>
       \/ focus = "exports" /\ Exports!Next /\ UNCHANGED <<vars, rightsVars>>

\* An erasure nobody asked for has no fair action that is enabled.
MCSpec == MCInit /\ [][MCNext]_allVars /\ Fairness

\* An export holds the person's data at one moment, each row once.
ExportIsSnapshot == Exports!ExportIsSnapshot
=============================================================================
