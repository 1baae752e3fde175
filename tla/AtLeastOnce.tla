----------------------------- MODULE AtLeastOnce -----------------------------
(***************************************************************************)
(* What the outbox promises to the components that write events into it.   *)
(* A request is a debt.  It is discharged only by a handler run that began *)
(* after it, it may be parked for an operator, and it disappears otherwise *)
(* only where the product allows an event to be dropped.  Nothing is said  *)
(* of tables, locks, attempts or processes.                                *)
(***************************************************************************)
CONSTANTS
    Events,     \* what can be asked for
    Runners,    \* who can run a handler
    Droppable   \* events an operator may discard or an erasure may delete

VARIABLES
    debt,   \* none, owed, or parked (waiting for an operator)
    runs    \* the handler runs in progress that began after the last request

debtVars == <<debt, runs>>

DebtInit ==
    /\ debt = [e \in Events |-> "none"]
    /\ runs = {}

\* A new request; the runs in progress began too early to honour it.
Ask(e) ==
    /\ debt' = [debt EXCEPT ![e] = "owed"]
    /\ runs' = {p \in runs : p[2] # e}

Begin(r, e) ==
    /\ debt[e] = "owed"
    /\ runs' = runs \cup {<<r, e>>}
    /\ UNCHANGED debt

\* Runs end without settling anything: failures, crashes, lost claims.
Abort ==
    /\ \E S \in SUBSET runs : runs' = runs \ S
    /\ UNCHANGED debt

Discharge(r, e) ==
    /\ debt[e] = "owed"
    /\ <<r, e>> \in runs
    /\ debt' = [debt EXCEPT ![e] = "none"]
    /\ runs' \in {runs, runs \ {<<r, e>>}}

Park(e) ==
    /\ debt[e] = "owed"
    /\ debt' = [debt EXCEPT ![e] = "parked"]
    /\ UNCHANGED runs

Resume(e) ==
    /\ debt[e] = "parked"
    /\ debt' = [debt EXCEPT ![e] = "owed"]
    /\ UNCHANGED runs

Drop(e) ==
    /\ e \in Droppable
    /\ debt[e] # "none"
    /\ debt' = [debt EXCEPT ![e] = "none"]
    /\ UNCHANGED runs

DebtNext ==
    \/ Abort
    \/ \E e \in Events :
          \/ Ask(e) \/ Park(e) \/ Resume(e) \/ Drop(e)
          \/ \E r \in Runners : Begin(r, e) \/ Discharge(r, e)

DebtSpec == DebtInit /\ [][DebtNext]_debtVars
=============================================================================
