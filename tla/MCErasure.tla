------------------------------ MODULE MCErasure ------------------------------
(* Instances of Erasure. *)
EXTENDS Erasure, TLC

OneUser == {"u"}
TwoUsers == {"u", "v"}
TwoWorkers == {"w1", "w2"}

\* A customer and two photos being made, and a swipe.
MixedKind == "customer" :> "customer" @@ "photo1" :> "photo"
               @@ "photo2" :> "photo" @@ "swipe" :> "swipe"
MixedItems == DOMAIN MixedKind
MixedParties == [i \in MixedItems |-> {"u"}]
OnePhoto == {"photo1"}

\* Two accounts that are both erased and a swipe between them; v has another
\* one with somebody who stays.
SwipeParties == "uv" :> {"u", "v"} @@ "xv" :> {"v"}
SwipeItems == DOMAIN SwipeParties
SwipeKind == [i \in SwipeItems |-> "swipe"]
=============================================================================
