----------------------------- MODULE MCBilling -----------------------------
(***************************************************************************)
(* The two ways to pay: the checkout at Stripe, and the purchases at an    *)
(* application store, the second of which replaces the first.  They share  *)
(* no row but the account's, so a behaviour follows one of them and the    *)
(* other stays where it started.  Requests and verifications are           *)
(* interchangeable: no definition chooses or orders them.                  *)
(***************************************************************************)
EXTENDS Checkout, StorePurchases, TLC

CONSTANTS p1, p2

Chain == (p1 :> NoPurchase) @@ (p2 :> p1)

VARIABLE focus

allVars == <<focus, vars, storeVars>>

MCInit == Init /\ StoreInit /\ focus \in {"checkout", "store"}

MCNext ==
    /\ UNCHANGED focus
    /\ \/ focus = "checkout" /\ Next /\ UNCHANGED storeVars
       \/ focus = "store" /\ StoreNext /\ UNCHANGED vars

MCSpec == MCInit /\ [][MCNext]_allVars

Interchangeable == Permutations(Requests) \cup Permutations(Verifiers)
=============================================================================
