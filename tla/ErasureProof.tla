---------------------------- MODULE ErasureProof ----------------------------
(***************************************************************************)
(* A completed erasure leaves nothing, for any number of accounts, items,  *)
(* workers and faults and any size of a batch.                             *)
(*                                                                         *)
(* Once a worker has held the exclusive lock of an account that is no      *)
(* longer live, nothing of the account is being made any more, except by   *)
(* an activity whose lock session was lost (Quiet), and that stays so.     *)
(* From then on the rows of an account only become fewer, which is why a   *)
(* worker may trust a short batch of customers it selected earlier         *)
(* (WorkerOK), although a worker whose claim was taken over goes on beside *)
(* it; and why the account has no customer after the first step            *)
(* (AccountOK).  Photos and swipes are looked for again by the last        *)
(* transaction.  A worker may still ask Stripe for a customer it selected, *)
(* and makes none that way that nobody would find: as long as the row is   *)
(* there it leads to the customer, and a row goes only when the customer   *)
(* was made, so that Stripe repeats its answer (Ledger).                   *)
(***************************************************************************)
EXTENDS Erasure, Rights, FiniteSetTheorems, TLAPS

Phases == {"idle", "claimed", "deferring", "guarded", "reading", "selected", "removing",
           "leaving", "finishing", "failing", "finished", "failed"}

ErasureTypes ==
    /\ step \in [Users -> Steps \cup {"none"}]
    /\ event \in [Users -> {"absent", "pending", "processing", "completed", "dead_letter"}]
    /\ rows \subseteq Items /\ remote \subseteq Items
    /\ activity \in [Items -> {"none", "locked", "checked", "recorded", "made", "over"}]
    /\ phase \in [Workers -> Phases]
    /\ job \in [Workers -> Users \cup {NoUser}]
    /\ seen \in [Workers -> Steps \cup {"none"}]
    /\ todo \in [Workers -> SUBSET Items]

\* Nothing of the account is being made, unless its lock session was lost.
Quiet(u) == \A i \in Mine(u) \ lost : activity[i] \notin {"checked", "recorded"}

Customers(u) == {i \in rows \cap Mine(u) : Kind[i] = "customer"}

ItemOK(i) ==
    /\ Kind[i] = "swipe" => activity[i] = "over" /\ i \notin remote
    /\ activity[i] = "recorded" => i \in rows \cup lost
    /\ i \in remote => i \in rows \cup lost

AccountOK(u) ==
    /\ event[u] # "absent" => step[u] # "none"
    /\ step[u] \notin {"none", "stripe"} => Quiet(u)
    /\ step[u] \notin {"none", "stripe"} /\ Unbroken(u) => Customers(u) = {}
    /\ step[u] = "completed" /\ Unbroken(u) => Remaining(u) = {}

\* What the worker selected is what its step is about, and a batch of
\* customers that is not full has all of them.
Selection(w) ==
    /\ \A i \in todo[w] : i \in Mine(job[w]) /\ Kind[i] = KindOf[seen[w]]
    /\ seen[w] = "stripe" /\ Unbroken(job[w]) =>
          \/ Customers(job[w]) \subseteq todo[w]
          \/ phase[w] = "selected" /\ Cardinality(todo[w]) = BatchSize
          \/ phase[w] = "removing" /\ w \in more

WorkerOK(w) ==
    /\ phase[w] # "idle" => job[w] \in Users /\ step[job[w]] # "none"
    /\ phase[w] \in {"idle", "claimed", "deferring", "guarded", "reading"} => todo[w] = {}
    /\ phase[w] \in {"guarded", "reading", "selected", "removing"} => Quiet(job[w])
    /\ phase[w] \in {"reading", "selected"} => seen[w] \in {"stripe", "photos", "swipes"}
    /\ phase[w] = "removing" => seen[w] \in {"stripe", "photos", "postgres"}
    /\ phase[w] \in {"selected", "removing"} => Selection(w)

IInv ==
    /\ ErasureTypes
    /\ \A i \in Items : ItemOK(i)
    /\ \A u \in Users : AccountOK(u)
    /\ \A w \in Workers : WorkerOK(w)

\* An id that is known, or about to be, is that of a customer that was made; and
\* a customer a worker still has to remove has its row, or was made before.
Ledger ==
    /\ \A i \in Items : i \in known \/ activity[i] = "made" => i \in made
    /\ \A w \in Workers : \A i \in todo[w] : Kind[i] = "customer" => i \in rows \cup made

LEMMA InitIInv == Init => IInv
<1> SUFFICES ASSUME Init PROVE IInv
  BY Zenon
<1>1. ErasureTypes
  BY ItemAssumption, Zenon DEF Init, ErasureTypes, Phases
<1>2. \A i \in Items : ItemOK(i)
  BY ItemAssumption, Zenon DEF Init, ItemOK
<1>3. \A u \in Users : AccountOK(u)
  BY Zenon DEF Init, AccountOK
<1>4. \A w \in Workers : WorkerOK(w)
  BY Zenon DEF Init, WorkerOK
<1> QED BY <1>1, <1>2, <1>3, <1>4, Zenon DEF IInv

\* What every step leaves to an account that is being erased: it stays so, it
\* stays quiet, and then it gets no row.
Calm(u) ==
    step[u] # "none" =>
        /\ step'[u] # "none"
        /\ Unbroken(u)' => Unbroken(u)
        /\ Quiet(u) => Quiet(u)' /\ (Unbroken(u)' => rows' \cap Mine(u) \subseteq rows)

\* What a worker relies on survives the steps of everybody else.
LEMMA OtherWorkers ==
    ASSUME NEW w \in Workers, WorkerOK(w), \A u \in Users : Calm(u),
           phase'[w] = phase[w], job'[w] = job[w], seen'[w] = seen[w],
           todo'[w] = todo[w], w \in more => w \in more'
    PROVE  WorkerOK(w)'
<1>1. CASE phase[w] = "idle"
  BY <1>1, Zenon DEF WorkerOK
<1>2. CASE phase[w] # "idle"
  <2>1. job[w] \in Users /\ step[job[w]] # "none" /\ Calm(job[w])
    BY <1>2, Zenon DEF WorkerOK
  <2>2. phase[w] \in {"selected", "removing"} => Selection(w)'
    <3> SUFFICES ASSUME phase[w] \in {"selected", "removing"} PROVE Selection(w)'
      BY Zenon
    <3>1. Selection(w) /\ Quiet(job[w])
      BY Zenon DEF WorkerOK
    <3>2. \A i \in todo'[w] : i \in Mine(job'[w]) /\ Kind[i] = KindOf[seen'[w]]
      BY <3>1 DEF Selection
    <3>3. ASSUME seen'[w] = "stripe", Unbroken(job[w])'
          PROVE  \/ Customers(job[w])' \subseteq todo'[w]
                 \/ phase'[w] = "selected" /\ Cardinality(todo'[w]) = BatchSize
                 \/ phase'[w] = "removing" /\ w \in more'
      BY <2>1, <3>1, <3>3, Zenon DEF Selection, Calm, Customers, Mine
    <3> QED BY <3>2, <3>3, Zenon DEF Selection, Mine
  <2> QED BY <2>1, <2>2, Zenon DEF WorkerOK, Calm
<1> QED BY <1>1, <1>2, Zenon

\* So does what is known of an account, while its step stays.
LEMMA SameStep ==
    ASSUME NEW u \in Users, AccountOK(u), Calm(u), step'[u] = step[u],
           event'[u] # "absent" => event[u] # "absent"
    PROVE  AccountOK(u)'
<1>1. CASE step[u] = "none"
  BY <1>1, Zenon DEF AccountOK
<1>2. CASE step[u] # "none"
  <2>1. Quiet(u) /\ Unbroken(u)' => Customers(u)' \subseteq Customers(u)
                                    /\ Remaining(u)' \subseteq Remaining(u)
    BY <1>2, Zenon DEF Calm, Customers, Remaining, Mine
  <2>2. step[u] = "completed" => step[u] \notin {"none", "stripe"}
    BY Zenon
  <2> QED BY <1>2, <2>1, <2>2, Zenon DEF AccountOK, Calm
<1> QED BY <1>1, <1>2, Zenon

\* Uploads, checkouts, and the maintenance that removes items.
LEMMA ActivityKeeps ==
    ASSUME IInv, NEW i \in Items,
           RunActivity(i) \/ abandon(i) \/ lose_shared(i) \/ purge(i) \/ grow_overdue(i)
    PROVE  IInv'
<1> USE DEF IInv
<1>0. /\ UNCHANGED <<step, event, phase, job, seen, todo, more>>
      /\ \A j \in Items : j # i => activity'[j] = activity[j]
      /\ \A j \in Items : j # i => (j \in rows' <=> j \in rows) /\ (j \in remote' <=> j \in remote)
      /\ lost \subseteq lost'
  BY ZenonT(90) DEF RunActivity, abandon, lose_shared, purge, queue, worker, ErasureTypes, lock_shared,
         check_accounts, record_item, create_remote, Make, record_created_customer,
         grow_overdue, creation
<1>1. ErasureTypes'
  <2>1. rows' \subseteq rows \cup {i}
    BY ZenonT(90) DEF RunActivity, abandon, lose_shared, purge, lock_shared,
       check_accounts, record_item, create_remote, record_created_customer, grow_overdue
  <2>2. remote' \subseteq remote \cup {i}
    BY ZenonT(90) DEF RunActivity, abandon, lose_shared, purge, lock_shared,
       check_accounts, record_item, create_remote, Make, record_created_customer, grow_overdue
  <2>3. activity' = activity \/ \E a \in {"locked", "checked", "recorded", "made", "over"} :
                                  activity' = [activity EXCEPT ![i] = a]
    BY ZenonT(90) DEF RunActivity, abandon, lose_shared, purge, lock_shared,
       check_accounts, record_item, create_remote, record_created_customer, grow_overdue
  <2> QED BY <1>0, <2>1, <2>2, <2>3 DEF ErasureTypes
<1>2. ItemOK(i)'
  BY Zenon DEF ItemOK, RunActivity, abandon, lose_shared, purge, queue, worker, ErasureTypes, lock_shared,
         check_accounts, record_item, create_remote, Make, record_created_customer,
         grow_overdue, creation
<1>3. \A j \in Items : ItemOK(j)'
  BY <1>0, <1>2, Zenon DEF ItemOK
\* An account that is no longer live lets nobody past check_accounts, and no
\* row is written before.
<1>4. ASSUME NEW u \in Users, step[u] # "none", i \in Mine(u)
      PROVE  /\ activity'[i] \in {"checked", "recorded"} => activity[i] \in {"checked", "recorded"}
             /\ i \in rows' => i \in rows \/ activity[i] = "checked"
  BY <1>4, Zenon DEF Mine, Live, ErasureTypes, RunActivity, abandon, lose_shared, purge, lock_shared,
              check_accounts, record_item, create_remote, Make, record_created_customer,
         grow_overdue, creation
<1>5. ASSUME NEW u \in Users PROVE Calm(u)
  <2> SUFFICES ASSUME step[u] # "none" PROVE Calm(u)
    BY Zenon DEF Calm
  <2>1. Unbroken(u)' => Unbroken(u)
    BY <1>0, Zenon DEF Unbroken, Mine
  <2>2. ASSUME Quiet(u) PROVE Quiet(u)'
    BY <1>0, <1>4, <2>2, Zenon DEF Quiet, Mine
  <2>3. ASSUME Quiet(u), Unbroken(u)' PROVE rows' \cap Mine(u) \subseteq rows
    BY <1>0, <1>4, <2>1, <2>3, Zenon DEF Quiet, Unbroken, Mine
  <2> QED BY <1>0, <2>1, <2>2, <2>3, Zenon DEF Calm
<1>6. \A u \in Users : AccountOK(u)'
  BY <1>0, <1>5, SameStep, Zenon
<1>7. \A w \in Workers : WorkerOK(w)'
  BY <1>0, <1>5, OtherWorkers, Zenon
<1> QED BY <1>1, <1>3, <1>6, <1>7, Zenon

\* A step that makes nothing keeps the invariant when it keeps it for the
\* worker that took it, for the accounts whose step it moved, and for the items
\* whose row it removed.
LEMMA Keeps ==
    ASSUME IInv, ErasureTypes', UNCHANGED <<activity, lost>>,
           rows' \subseteq rows, remote' \subseteq remote,
           \A i \in rows \ rows' : i \notin remote' /\ (i \in lost \/ activity[i] # "recorded"),
           \A u \in Users : step[u] # "none" => step'[u] # "none",
           \A u \in Users : event'[u] # "absent" => event[u] # "absent" \/ AccountOK(u)',
           \A u \in Users : step'[u] # step[u] => AccountOK(u)',
           \A w \in Workers : \/ /\ phase'[w] = phase[w] /\ job'[w] = job[w]
                                 /\ seen'[w] = seen[w] /\ todo'[w] = todo[w]
                                 /\ w \in more => w \in more'
                              \/ WorkerOK(w)'
    PROVE  IInv'
<1> USE DEF IInv
<1>1. \A i \in Items : ItemOK(i)'
  BY Zenon DEF ItemOK
<1>2. \A u \in Users : Calm(u)
  BY Zenon DEF Calm, Unbroken, Quiet, Mine
<1>3. \A u \in Users : AccountOK(u)'
  BY <1>2, SameStep, Zenon
<1>4. \A w \in Workers : WorkerOK(w)'
  BY <1>2, OtherWorkers, Zenon
<1> QED BY <1>1, <1>3, <1>4, Zenon

\* The event is accepted, retried or claimed, or a lock session breaks.
LEMMA QueueKeeps ==
    ASSUME IInv, NEW u \in Users,
           enqueue_account_erasure(u) \/ retry(u) \/ lose_exclusive(u)
    PROVE  IInv'
<1>1. /\ ErasureTypes' /\ UNCHANGED <<activity, lost, rows, remote, phase, job, seen, todo, more>>
      /\ \A v \in Users : v # u => step'[v] = step[v] /\ event'[v] = event[v]
      /\ step[u] # "none" => step'[u] # "none"
      /\ step'[u] # step[u] => step'[u] = "stripe"
      /\ event'[u] # "absent" => event[u] # "absent" \/ step'[u] = "stripe"
  BY Zenon DEF IInv, ErasureTypes, enqueue_account_erasure, retry, lose_exclusive, Queue, queue, worker,
         Steps, Live
<1>2. step'[u] = "stripe" => AccountOK(u)'
  BY Zenon DEF AccountOK
<1> QED BY <1>1, <1>2, Keeps, Zenon

LEMMA ClaimKeeps ==
    ASSUME IInv, NEW w \in Workers, NEW u \in Users, claim(w, u)
    PROVE  IInv'
<1>1. /\ ErasureTypes' /\ UNCHANGED <<activity, lost, rows, remote, step, seen, todo, more>>
      /\ \A v \in Users : event'[v] # "absent" => event[v] # "absent"
      /\ \A x \in Workers : x # w => phase'[x] = phase[x] /\ job'[x] = job[x]
  BY Zenon DEF IInv, ErasureTypes, claim, Goto, Phases
<1>2. WorkerOK(w)'
  <2>1. phase'[w] = "claimed" /\ job'[w] = u /\ todo'[w] = {} /\ step'[u] # "none"
    BY Zenon DEF IInv, ErasureTypes, claim, Goto, WorkerOK, AccountOK
  <2> QED BY <2>1, Zenon DEF WorkerOK
<1> QED BY <1>1, <1>2, Keeps, Zenon

\* What concerns no row and no step: locks, the end of a task, failures.
LEMMA TaskKeeps ==
    ASSUME IInv, NEW w \in Workers,
           \/ try_exclusive(w) \/ defer(w) \/ unlock(w) \/ settle(w)
           \/ unavailable(w) \/ crash(w) \/ reconciliation_required(w)
    PROVE  IInv'
<1> USE DEF IInv
<1>0. phase[w] # "idle" /\ job[w] \in Users /\ step[job[w]] # "none"
  BY Zenon DEF WorkerOK, try_exclusive, defer, unlock, settle, unavailable, crash,
     reconciliation_required
<1>1. /\ UNCHANGED <<activity, lost, rows, remote, step>>
      /\ \A v \in Users : event'[v] # "absent" => event[v] # "absent"
      /\ event' \in [Users -> {"absent", "pending", "processing", "completed", "dead_letter"}]
  BY <1>0, ZenonT(90) DEF ErasureTypes, try_exclusive, defer, unlock, settle, unavailable, crash, Queue, queue,
              worker, Owns, reconciliation_required, Refuse
<1>2. CASE Idle(w)
  <2>1. /\ ErasureTypes' /\ phase'[w] = "idle" /\ todo'[w] = {}
        /\ \A x \in Workers : x # w =>
              /\ phase'[x] = phase[x] /\ job'[x] = job[x]
              /\ seen'[x] = seen[x] /\ todo'[x] = todo[x]
              /\ x \in more => x \in more'
    BY <1>1, <1>2, ZenonT(90) DEF ErasureTypes, Idle, Goto, Phases
  <2>2. WorkerOK(w)'
    BY <2>1, Zenon DEF WorkerOK
  <2> QED BY <1>1, <2>1, <2>2, Keeps, Zenon
<1>3. ASSUME NEW p \in Phases \ {"idle", "reading", "selected", "removing"}, Goto(w, p),
             UNCHANGED <<job, seen, todo, more>>,
             p \in {"claimed", "deferring", "guarded"} => todo[w] = {},
             p = "guarded" => Quiet(job[w])
      PROVE  IInv'
  <2>1. /\ ErasureTypes' /\ phase'[w] = p
        /\ \A x \in Workers : x # w => phase'[x] = phase[x]
    BY <1>1, <1>3, Zenon DEF ErasureTypes, Goto, Phases
  <2>2. p = "guarded" => Quiet(job[w])'
    BY <1>1, <1>3, Zenon DEF Quiet, Mine
  <2>3. WorkerOK(w)'
    BY <1>0, <1>1, <1>3, <2>1, <2>2, Zenon DEF WorkerOK
  <2> QED BY <1>1, <1>3, <2>1, <2>3, Keeps, Zenon
<1>4. CASE try_exclusive(w)
  <2>1. todo[w] = {}
    BY <1>4, Zenon DEF try_exclusive, WorkerOK
  <2>2. Shared(job[w]) = {} => Quiet(job[w])
    BY Zenon DEF Shared, Quiet
  <2> QED BY <1>3, <1>4, <2>1, <2>2, Zenon DEF try_exclusive, Phases
<1>5. CASE unlock(w)
  BY <1>2, <1>3, <1>5, Zenon DEF unlock, Phases
<1>6. CASE unavailable(w)
  BY <1>3, <1>6, Zenon DEF unavailable, Phases
<1>7. CASE reconciliation_required(w)
  BY <1>3, <1>7, Zenon DEF reconciliation_required, Phases
<1> QED BY <1>2, <1>4, <1>5, <1>6, <1>7, Zenon DEF defer, settle, crash

\* The step is read and a batch of its rows is selected and taken.
LEMMA BatchKeeps ==
    ASSUME IInv, NEW w \in Workers, claimed(w) \/ select_batch(w) \/ take_batch(w)
    PROVE  IInv'
<1> USE DEF IInv
<1>0. phase[w] # "idle" /\ job[w] \in Users /\ step[job[w]] # "none" /\ Quiet(job[w])
  BY Zenon DEF WorkerOK, claimed, select_batch, take_batch
<1>1. UNCHANGED <<activity, lost, rows, remote, step, event, job>>
  BY Zenon DEF claimed, select_batch, take_batch, queue
<1>2. /\ ErasureTypes'
      /\ \A x \in Workers : x # w =>
            /\ phase'[x] = phase[x] /\ seen'[x] = seen[x] /\ todo'[x] = todo[x]
            /\ x \in more => x \in more'
  BY <1>0 DEF ErasureTypes, claimed, select_batch, take_batch, queue, Goto, Phases, Found, Taken
<1>3. Quiet(job[w])' /\ job'[w] \in Users /\ step'[job'[w]] # "none"
  BY <1>0, <1>1, Zenon DEF Quiet, Mine
<1>4. CASE claimed(w)
  <2>1. todo'[w] = {}
    BY <1>4, Zenon DEF claimed, WorkerOK
  <2>2. \/ phase'[w] \in {"leaving", "finishing"}
        \/ phase'[w] = "removing" /\ seen'[w] = "postgres"
        \/ phase'[w] = "reading" /\ seen'[w] \in {"stripe", "photos", "swipes"}
    BY <1>0, <1>4 DEF claimed, Goto, ErasureTypes, Steps
  <2>3. WorkerOK(w)'
    BY <1>3, <2>1, <2>2, Zenon DEF WorkerOK, Selection
  <2> QED BY <1>1, <1>2, <2>3, Keeps, Zenon
<1>5. CASE select_batch(w)
  <2>1. /\ seen'[w] \in {"stripe", "photos", "swipes"} /\ seen'[w] = seen[w]
        /\ phase'[w] = "selected"
    BY <1>5, Zenon DEF select_batch, WorkerOK, Goto, ErasureTypes
  <2>2. PICK S \in SUBSET Found(w) :
          (S # Found(w) => Cardinality(S) = BatchSize) /\ todo'[w] = S
    BY <1>5, Zenon DEF select_batch, ErasureTypes
  <2>3. Selection(w)'
    <3>1. \A i \in todo'[w] : i \in Mine(job'[w]) /\ Kind[i] = KindOf[seen'[w]]
      BY <1>1, <2>1, <2>2, Zenon DEF Found
    <3>2. seen[w] = "stripe" => Customers(job[w])' = Found(w)
      BY <1>1, Zenon DEF Customers, Found, KindOf, Steps, Mine
    <3> QED BY <1>1, <2>1, <2>2, <3>1, <3>2, Zenon DEF Selection, Mine
  <2>4. WorkerOK(w)'
    BY <1>3, <2>1, <2>3, Zenon DEF WorkerOK
  <2> QED BY <1>1, <1>2, <2>4, Keeps, Zenon
<1>6. CASE take_batch(w)
  <2>1. /\ seen'[w] \in {"stripe", "photos"} /\ seen'[w] = seen[w]
        /\ phase'[w] = "removing" /\ todo'[w] = Taken(w)
        /\ Cardinality(Taken(w)) = BatchSize => w \in more'
    BY <1>6, Zenon DEF take_batch, Goto, ErasureTypes
  <2>2. Selection(w) /\ phase[w] = "selected"
    BY <1>6, Zenon DEF take_batch, WorkerOK
  <2>3. Selection(w)'
    <3>1. \A i \in todo'[w] : i \in Mine(job'[w]) /\ Kind[i] = KindOf[seen'[w]]
      BY <1>1, <2>1, <2>2, Zenon DEF Selection, Taken
    <3>2. Customers(job[w])' = Customers(job[w]) /\ (Unbroken(job[w])' <=> Unbroken(job[w]))
      BY <1>1, Zenon DEF Customers, Unbroken, Mine
    <3> QED BY <1>1, <2>1, <2>2, <3>1, <3>2, Zenon DEF Selection, Mine, Taken
  <2>4. WorkerOK(w)'
    BY <1>3, <2>1, <2>3, Zenon DEF WorkerOK
  <2> QED BY <1>1, <1>2, <2>4, Keeps, Zenon
<1> QED BY <1>4, <1>5, <1>6, Zenon

\* Items leave the provider and then PostgreSQL, one by one, until a call fails.
LEMMA RemoveKeeps ==
    ASSUME IInv, NEW w \in Workers, remove_fails(w) \/ \E i \in Items : remove(w, i)
    PROVE  IInv'
<1> USE DEF IInv
<1>0. /\ phase[w] = "removing" /\ job[w] \in Users /\ step[job[w]] # "none"
      /\ Quiet(job[w]) /\ Selection(w)
  BY Zenon DEF WorkerOK, remove_fails, remove
<1>1. UNCHANGED <<activity, lost, step, event, job, seen, more>>
  BY Zenon DEF remove_fails, remove, queue
<1>2. /\ ErasureTypes' /\ rows' \subseteq rows /\ remote' \subseteq remote
      /\ \A x \in Workers : x # w => phase'[x] = phase[x] /\ todo'[x] = todo[x]
      /\ \A i \in rows \ rows' : i \in todo[w] /\ i \notin remote'
  BY <1>1, ZenonT(90) DEF ErasureTypes, remove_fails, remove, queue, Goto, Phases
<1>3. \A i \in rows \ rows' : i \in lost \/ activity[i] # "recorded"
  BY <1>0, <1>2, Zenon DEF Quiet, Selection
<1>4. Quiet(job[w])'
  BY <1>0, <1>1, Zenon DEF Quiet, Mine
<1>5. CASE remove_fails(w)
  <2>1. phase'[w] = "failing"
    BY <1>5, Zenon DEF remove_fails, Goto, ErasureTypes
  <2>2. WorkerOK(w)'
    BY <1>0, <1>1, <2>1, Zenon DEF WorkerOK
  <2> QED BY <1>1, <1>2, <1>3, <2>2, Keeps, Zenon
<1>6. ASSUME NEW i \in Items, remove(w, i) PROVE IInv'
  <2>1. phase'[w] = "removing" /\ todo'[w] = todo[w] \ {i} /\ rows' = rows \ {i}
    BY <1>6, <1>0, Zenon DEF remove, ErasureTypes
  <2>2. Selection(w)'
    <3>1. \A j \in todo'[w] : j \in Mine(job'[w]) /\ Kind[j] = KindOf[seen'[w]]
      BY <1>0, <1>1, <2>1, Zenon DEF Selection
    <3>2. /\ Customers(job[w])' = Customers(job[w]) \ {i}
          /\ Unbroken(job[w])' <=> Unbroken(job[w])
      BY <1>1, <2>1, Zenon DEF Customers, Unbroken, Mine
    <3> QED BY <1>0, <1>1, <2>1, <3>1, <3>2, Zenon DEF Selection, Mine
  <2>3. WorkerOK(w)'
    BY <1>0, <1>1, <1>4, <2>1, <2>2, Zenon DEF WorkerOK
  <2> QED BY <1>1, <1>2, <1>3, <2>3, Keeps, Zenon
<1> QED BY <1>5, <1>6, Zenon

\* The step of the account moves on, or stays for another batch.
LEMMA StepKeeps ==
    ASSUME IInv, NEW w \in Workers, delete_swipe_batch(w) \/ advance(w) \/ anonymize(w)
    PROVE  IInv'
<1> USE DEF IInv
<1> DEFINE u == job[w]
<1>0. /\ u \in Users /\ step[u] # "none" /\ Quiet(u) /\ Selection(w)
      /\ phase[w] = "selected" => seen[w] \in {"stripe", "photos", "swipes"}
      /\ phase[w] = "removing" => seen[w] \in {"stripe", "photos", "postgres"}
  BY Zenon DEF WorkerOK, delete_swipe_batch, advance, anonymize
<1>1. /\ UNCHANGED <<activity, lost, remote, job, seen, todo, more>>
      /\ \A v \in Users : event'[v] # "absent" => event[v] # "absent"
      /\ \A v \in Users : v # u => step'[v] = step[v]
      /\ \A x \in Workers : x # w => phase'[x] = phase[x]
      /\ phase'[w] \in {"leaving", "finishing", "failing"}
  <2>1. CASE delete_swipe_batch(w)
    BY <1>0, <2>1 DEF delete_swipe_batch, Checkpoint, Queue, queue, Owns, Goto, ErasureTypes
  <2>2. CASE advance(w)
    BY <1>0, <2>2 DEF advance, Checkpoint, Queue, queue, Owns, Goto, ErasureTypes
  <2>3. CASE anonymize(w)
    BY <1>0, <2>3 DEF anonymize, Checkpoint, Queue, queue, Owns, Goto, ErasureTypes, Refuse
  <2> QED BY <2>1, <2>2, <2>3, Zenon
<1>2. /\ ErasureTypes' /\ rows' \subseteq rows /\ step'[u] # "none"
  <2>1. CASE delete_swipe_batch(w)
    BY <1>0, <1>1, <2>1 DEF ErasureTypes, delete_swipe_batch, Checkpoint, Queue, queue, Goto,
                            Phases, Steps
  <2>2. CASE advance(w)
    BY <1>0, <1>1, <2>2 DEF ErasureTypes, advance, Checkpoint, Queue, queue, Goto, Phases,
                            Steps, After
  <2>3. CASE anonymize(w)
    BY <1>0, <1>1, <2>3 DEF ErasureTypes, anonymize, Checkpoint, Queue, queue, Goto, Phases,
                            Steps, Refuse
  <2> QED BY <2>1, <2>2, <2>3, Zenon
<1>3. WorkerOK(w)'
  BY <1>0, <1>1, <1>2, Zenon DEF WorkerOK
<1>4. \A i \in rows \ rows' : i \notin remote' /\ activity[i] # "recorded"
  <2>1. \A i \in rows \ rows' : i \in todo[w] /\ seen[w] = "swipes"
    BY Zenon DEF delete_swipe_batch, advance, anonymize
  <2>2. \A i \in rows \ rows' : Kind[i] = "swipe"
    BY <1>0, <2>1, Zenon DEF Selection, KindOf, Steps
  <2> QED BY <1>1, <2>2, Zenon DEF ItemOK, ErasureTypes
<1>5. ASSUME step'[u] # step[u] PROVE AccountOK(u)'
  <2>1. Quiet(u)' /\ (Unbroken(u)' <=> Unbroken(u))
    BY <1>0, <1>1, Zenon DEF Quiet, Unbroken, Mine
  <2>2. Customers(u)' \subseteq Customers(u) /\ Remaining(u)' \subseteq Remaining(u)
    BY <1>1, <1>2, Zenon DEF Customers, Remaining, Mine
  <2>3. CASE delete_swipe_batch(w)
    <3>1. step[u] = "swipes" /\ step'[u] = "postgres"
      BY <1>0, <1>5, <2>3, Zenon DEF delete_swipe_batch, Checkpoint, ErasureTypes
    <3> QED BY <1>0, <1>1, <1>2, <2>1, <2>2, <3>1, Zenon DEF AccountOK
  <2>4. CASE advance(w)
    <3>1. /\ step[u] = seen[w] /\ todo[w] = {} /\ w \notin more /\ phase[w] = "removing"
          /\ step'[u] = After[seen[w]]
      BY <1>0, <1>5, <2>4, Zenon DEF advance, Checkpoint, ErasureTypes
    <3>2. step'[u] \in {"photos", "swipes"}
      BY <1>0, <2>4, <3>1, Zenon DEF advance, After, Steps
    <3>3. Unbroken(u) => Customers(u) = {}
      BY <1>0, <2>4, <3>1, Zenon DEF AccountOK, Selection, advance
    <3> QED BY <1>0, <1>1, <1>2, <2>1, <2>2, <3>2, <3>3, Zenon DEF AccountOK
  <2>5. CASE anonymize(w)
    <3>1. step[u] = "postgres" /\ step'[u] = "completed" /\ Remaining(u) = {}
      BY <1>0, <1>5, <2>5, Zenon DEF anonymize, ErasureTypes
    <3> QED BY <1>0, <1>1, <1>2, <2>1, <2>2, <3>1, Zenon DEF AccountOK
  <2> QED BY <2>3, <2>4, <2>5, Zenon
<1> QED BY <1>0, <1>1, <1>2, <1>3, <1>4, <1>5, Keeps, Zenon

\* A customer is asked for again: it is the one its row leads to.
LEMMA ResolveKeeps ==
    ASSUME IInv, Ledger, NEW w \in Workers, NEW i \in Items,
           resolve_customer_creation(w, i) \/ resolve_fails(w, i)
    PROVE  IInv'
<1> USE DEF IInv
<1>0. /\ phase[w] = "removing" /\ i \in todo[w] /\ Kind[i] = "customer" /\ Make(i)
      /\ UNCHANGED <<step, event, rows, activity, job, seen, todo, more, lost>>
      /\ UNCHANGED phase \/ Goto(w, "failing")
  BY Zenon DEF resolve_customer_creation, resolve_fails, Unresolved, worker, queue
<1>1. \A j \in Items : j \in remote' => j \in remote \/ (j = i /\ i \in rows)
  BY <1>0, Zenon DEF Make, Ledger
<1>2. ErasureTypes'
  <2>1. phase' \in [Workers -> Phases]
    BY <1>0 DEF ErasureTypes, Goto, Phases
  <2>2. remote' \subseteq Items
    BY <1>0, Zenon DEF Make, ErasureTypes
  <2> QED BY <1>0, <2>1, <2>2, Zenon DEF ErasureTypes
<1>3. ASSUME NEW j \in Items PROVE ItemOK(j)'
  <2>1. Kind[j] = "swipe" => j # i
    BY <1>0, Zenon
  <2> QED BY <1>0, <1>1, <2>1, Zenon DEF ItemOK
<1>4. \A u \in Users : Calm(u)
  BY <1>0, Zenon DEF Calm, Unbroken, Quiet, Mine
<1>5. \A u \in Users : AccountOK(u)'
  BY <1>0, <1>4, SameStep, Zenon
<1>6. ASSUME NEW x \in Workers PROVE WorkerOK(x)'
  <2>1. CASE phase'[x] = phase[x]
    BY <1>0, <1>4, <2>1, OtherWorkers, Zenon
  <2>2. CASE x = w /\ Goto(w, "failing")
    <3>1. phase'[x] = "failing" /\ job'[x] \in Users /\ step'[job'[x]] # "none"
      BY <1>0, <2>2, Zenon DEF Goto, ErasureTypes, WorkerOK
    <3> QED BY <3>1, Zenon DEF WorkerOK
  <2> QED BY <1>0, <2>1, <2>2, Zenon DEF Goto, ErasureTypes
<1> QED BY <1>2, <1>3, <1>5, <1>6, Zenon

LEMMA NextIInv == IInv /\ Ledger /\ [Next]_vars => IInv'
<1> SUFFICES ASSUME IInv, Ledger, [Next]_vars PROVE IInv'
  BY Zenon
<1>1. CASE UNCHANGED vars
  <2>1. UNCHANGED <<step, event, rows, remote, activity, phase, job, seen, todo, more, lost>>
    BY <1>1, Zenon DEF vars, queue, worker
  <2>2. ErasureTypes'
    BY <2>1, Zenon DEF IInv, ErasureTypes
  <2>3. \A i \in Items : ItemOK(i)'
    BY <2>1, Zenon DEF IInv, ItemOK
  <2>4. \A u \in Users : AccountOK(u)'
    BY <2>1, Zenon DEF IInv, AccountOK, Quiet, Unbroken, Customers, Remaining, Mine
  <2>5. \A u \in Users : Calm(u)
    BY <2>1, Zenon DEF Calm, Unbroken, Quiet, Mine
  <2>6. \A w \in Workers : WorkerOK(w)'
    BY <2>1, <2>5, OtherWorkers, Zenon DEF IInv
  <2> QED BY <2>2, <2>3, <2>4, <2>6, Zenon DEF IInv
<1>2. CASE Next
  <2>1. ASSUME NEW w \in Workers,
               \/ Process(w) \/ remove_fails(w) \/ unavailable(w) \/ crash(w)
               \/ \E i \in Items : resolve_fails(w, i)
        PROVE  IInv'
    BY <2>1, TaskKeeps, BatchKeeps, RemoveKeeps, StepKeeps, ResolveKeeps, Zenon DEF Process
  <2> QED BY <1>2, <2>1, ActivityKeeps, QueueKeeps, ClaimKeeps, Zenon DEF Next
<1> QED BY <1>1, <1>2, Zenon

-----------------------------------------------------------------------------
\* What a step does to the ledger: what was made stays made, an id is recorded
\* of a customer that was made, a customer's row goes when its id is known,
\* and a worker takes up only what has a row.
Kept ==
    /\ made \subseteq made'
    /\ \A i \in Items : i \in known' => i \in known \/ i \in made'
    /\ \A i \in Items : activity'[i] = "made" => activity[i] = "made" \/ i \in made'
    /\ \A i \in Items : i \in rows \ rows' => Kind[i] # "customer" \/ i \in known
    /\ \A w \in Workers : todo'[w] \subseteq todo[w] \cup (rows \cap rows')

LEMMA KeptLedger == ASSUME ErasureTypes, ErasureTypes', Ledger, Kept PROVE Ledger'
<1>1. ASSUME NEW i \in Items, i \in known' \/ activity'[i] = "made" PROVE i \in made'
  BY <1>1, Zenon DEF Ledger, Kept
<1>2. ASSUME NEW w \in Workers, NEW i \in todo'[w], Kind[i] = "customer"
      PROVE  i \in rows' \cup made'
  <2>1. i \in Items
    BY Zenon DEF ErasureTypes
  <2> QED BY <1>2, <2>1, Zenon DEF Ledger, Kept
<1> QED BY <1>1, <1>2, Zenon DEF Ledger

LEMMA ActivityKept ==
    ASSUME IInv, Ledger, NEW i \in Items,
           RunActivity(i) \/ abandon(i) \/ lose_shared(i) \/ purge(i) \/ grow_overdue(i)
    PROVE  Kept
<1> USE DEF IInv, ErasureTypes
<1>1. UNCHANGED todo
  BY Zenon DEF RunActivity, lock_shared, check_accounts, record_item, create_remote,
     record_created_customer, abandon, lose_shared, purge, grow_overdue, worker
<1>2. made \subseteq made'
  BY Zenon DEF RunActivity, lock_shared, check_accounts, record_item, create_remote, Make,
     record_created_customer, abandon, lose_shared, purge, grow_overdue, creation
<1>3. \A j \in Items : activity'[j] = "made" => activity[j] = "made" \/ j \in made'
  BY ZenonT(90) DEF RunActivity, lock_shared, check_accounts, record_item, create_remote, Make,
     record_created_customer, abandon, lose_shared, purge, grow_overdue
<1>4. \A j \in Items : j \in rows \ rows' => Kind[j] # "customer"
  BY ItemAssumption, ZenonT(90) DEF RunActivity, lock_shared, check_accounts, record_item,
     create_remote, record_created_customer, abandon, lose_shared, purge, grow_overdue
<1>5. \A j \in Items : j \in known' => j \in known \/ j \in made'
  <2>1. CASE record_created_customer(i)
    BY <1>2, <2>1 DEF record_created_customer, Ledger
  <2>2. CASE ~record_created_customer(i)
    BY <2>2, Zenon DEF RunActivity, lock_shared, check_accounts, record_item, create_remote,
       abandon, lose_shared, purge, grow_overdue, creation
  <2> QED BY <2>1, <2>2, Zenon
<1>6. \A w \in Workers : todo'[w] \subseteq todo[w] \cup (rows \cap rows')
  BY <1>1, Zenon
<1> QED BY <1>2, <1>3, <1>4, <1>5, <1>6, Zenon DEF Kept

LEMMA QueueKept ==
    ASSUME IInv,
           \/ \E u \in Users : enqueue_account_erasure(u) \/ retry(u) \/ lose_exclusive(u)
           \/ \E w \in Workers, u \in Users : claim(w, u)
    PROVE  Kept
<1>1. UNCHANGED <<made, known, activity, rows, todo>>
  BY Zenon DEF enqueue_account_erasure, retry, lose_exclusive, claim, creation, worker
<1> QED BY <1>1, Zenon DEF Kept

LEMMA WorkerKept ==
    ASSUME IInv, NEW w \in Workers,
           \/ Process(w) \/ remove_fails(w) \/ unavailable(w) \/ crash(w)
           \/ \E i \in Items : resolve_fails(w, i)
    PROVE  Kept
<1> USE DEF IInv, ErasureTypes
<1>1. CASE \/ try_exclusive(w) \/ defer(w) \/ claimed(w) \/ advance(w) \/ anonymize(w)
           \/ unlock(w) \/ settle(w) \/ reconciliation_required(w) \/ unavailable(w) \/ crash(w)
  <2>1. UNCHANGED <<made, known, activity, rows>>
    BY <1>1, Zenon DEF try_exclusive, defer, claimed, advance, anonymize, unlock, settle,
       reconciliation_required, unavailable, crash, creation
  <2>2. UNCHANGED todo \/ Idle(w)
    BY <1>1, Zenon DEF try_exclusive, defer, claimed, advance, anonymize, unlock, settle,
       reconciliation_required, unavailable, crash
  <2>3. \A x \in Workers : todo'[x] \subseteq todo[x]
    BY <2>2, Zenon DEF Idle
  <2> QED BY <2>1, <2>3, Zenon DEF Kept
<1>2. CASE select_batch(w) \/ take_batch(w)
  <2>1. UNCHANGED <<made, known, activity, rows>>
    BY <1>2, Zenon DEF select_batch, take_batch, creation
  <2>2. \A x \in Workers : todo'[x] \subseteq todo[x] \cup rows
    BY <1>2, Zenon DEF select_batch, take_batch, Found, Taken
  <2> QED BY <2>1, <2>2, Zenon DEF Kept
<1>3. ASSUME NEW i \in Items, resolve_customer_creation(w, i) \/ resolve_fails(w, i) PROVE Kept
  <2>1. UNCHANGED <<activity, rows, todo>> /\ Make(i) /\ known' \subseteq known \cup {i}
    BY <1>3, Zenon DEF resolve_customer_creation, resolve_fails, worker
  <2> QED BY <2>1, Zenon DEF Kept, Make
<1>4. CASE remove_fails(w) \/ \E i \in Items : remove(w, i)
  <2>1. UNCHANGED <<made, known, activity>>
    BY <1>4, Zenon DEF remove_fails, remove, creation
  <2>2. \A i \in Items : i \in rows \ rows' => Kind[i] # "customer" \/ i \in known
    BY <1>4, Zenon DEF remove_fails, remove, Unresolved
  <2>3. \A x \in Workers : todo'[x] \subseteq todo[x]
    <3>1. UNCHANGED todo \/ \E i \in Items : todo' = [todo EXCEPT ![w] = @ \ {i}]
      BY <1>4, Zenon DEF remove_fails, remove
    <3> QED BY <3>1
  <2> QED BY <2>1, <2>2, <2>3, Zenon DEF Kept
<1>5. CASE delete_swipe_batch(w)
  <2>1. UNCHANGED <<made, known, activity, todo>>
    BY <1>5, Zenon DEF delete_swipe_batch, creation
  <2>2. \A i \in Items : i \in rows \ rows' => Kind[i] = "swipe"
    <3>1. \A i \in rows \ rows' : i \in todo[w] /\ seen[w] = "swipes"
      BY <1>5, Zenon DEF delete_swipe_batch
    <3>2. \A i \in todo[w] : Kind[i] = KindOf[seen[w]]
      BY <1>5, Zenon DEF delete_swipe_batch, WorkerOK, Selection
    <3> QED BY <3>1, <3>2 DEF KindOf, Steps
  <2> QED BY <2>1, <2>2, Zenon DEF Kept
<1> QED BY <1>1, <1>2, <1>3, <1>4, <1>5, Zenon DEF Process

\* The two together are inductive.
LEMMA ErasureStep == IInv /\ Ledger /\ [Next]_vars => IInv' /\ Ledger'
<1> SUFFICES ASSUME IInv, Ledger, [Next]_vars PROVE IInv' /\ Ledger'
  BY Zenon
<1>1. IInv'
  BY NextIInv, Zenon
<1>2. CASE Next
  <2>1. Kept
    BY <1>2, ActivityKept, QueueKept, WorkerKept, Zenon DEF Next
  <2> QED BY <1>1, <2>1, KeptLedger, Zenon DEF IInv
<1>3. CASE UNCHANGED vars
  BY <1>1, <1>3, Zenon DEF vars, worker, creation, Ledger
<1> QED BY <1>1, <1>2, <1>3, Zenon

\* A completed erasure has removed everything of its account, here and at the
\* providers, whatever uploads, checkouts, workers and failures ran beside it;
\* and no copy at a provider is ever without the row by which it is found
\* (privacy/erasure, delete_customer_for_account, delete_for_account).
THEOREM ErasureIsComplete == Spec => []NothingSurvives
<1>1. IInv => NothingSurvives
  <2> SUFFICES ASSUME IInv PROVE NothingSurvives
    BY Zenon
  <2>1. RemoteTracked
    BY Zenon DEF IInv, ErasureTypes, ItemOK, RemoteTracked
  <2>2. ASSUME NEW u \in Users, step[u] = "completed", Unbroken(u)
        PROVE  Mine(u) \cap rows = {}
    BY <2>2, ItemAssumption, Zenon DEF IInv, AccountOK, Customers, Remaining, Mine
  <2>3. ErasedEverywhere
    BY <2>1, <2>2, Zenon DEF ErasedEverywhere, RemoteTracked, Unbroken
  <2> QED BY <2>1, <2>3, Zenon DEF NothingSurvives
<1>2. Init => Ledger
  BY Zenon DEF Init, Ledger
<1> QED BY <1>1, <1>2, InitIInv, ErasureStep, PTL DEF Spec
-----------------------------------------------------------------------------
(***************************************************************************)
(* The requests that lead to an erasure, and the web page.  The workflow   *)
(* of an account belongs to a request that was created, so neither a new   *)
(* request nor a review of another one touches it (DeskOK).  Every request *)
(* to verify that is about to examine a code has used up an attempt of its *)
(* challenge, and a challenge that is not consumed has opened no session   *)
(* (PageOK).                                                               *)
(***************************************************************************)
Stati == {"none", "pending", "in_progress", "completed", "rejected"}

DeskTypes ==
    /\ created \in 0..MaxRequests
    /\ request \in [Ids -> [type : Types \cup {"none", "erasure"}, status : Stati]]
    /\ workflow \in Ids \cup {None}

\* The rows are numbered in the order of their creation.
RowsNumbered == \A j \in Ids : request[j] # NoRow => j <= created

DeskOK ==
    /\ DeskTypes
    /\ RowsNumbered
    /\ creating \subseteq Types
    /\ workflow # None => workflow <= created
    /\ DeletionBacked

Stages == {"idle", "examining", "opening", "over"}

PageTypes ==
    /\ challenge \in [Keys -> {"none", "open", "consumed", "expired"}]
    /\ tries \in [Keys -> 0..MaxTries]
    /\ examined \in [Keys -> Nat]
    /\ visit \in [Visits -> [at : Stages, key : Keys]]

\* The requests that are about to examine a code for the challenge.
Examining(k) == {v \in Visits : visit[v] = [at |-> "examining", key |-> k]}
Opened(k) == {v \in Visits : visit[v] = [at |-> "over", key |-> k]}

ChallengeOK(k) ==
    /\ examined[k] + Cardinality(Examining(k)) <= tries[k]
    /\ challenge[k] # "consumed" => Opened(k) = {}
    /\ \A v, w \in Opened(k) : v = w

PageOK == PageTypes /\ \A k \in Keys : ChallengeOK(k)

\* A visit that goes on keeps its challenge.
LEMMA VisitStep ==
    ASSUME PageTypes, NEW v \in Visits, NEW s \in Stages
    PROVE  /\ [visit EXCEPT ![v].at = s] =
                 [visit EXCEPT ![v] = [at |-> s, key |-> visit[v].key]]
           /\ visit[v] = [at |-> visit[v].at, key |-> visit[v].key]
           /\ visit[v].key \in Keys /\ visit[v].at \in Stages
<1>1. PICK r \in [at : Stages, key : Keys] : r = visit[v]
  BY Zenon DEF PageTypes
<1>2. [r EXCEPT !.at = s] = [at |-> s, key |-> r.key] /\ r = [at |-> r.at, key |-> r.key]
      /\ r.key \in Keys /\ r.at \in Stages
  OBVIOUS
<1> QED BY <1>1, <1>2, Zenon

\* What one visit leaves to the others: a move of v changes the requests that
\* examine a code for k, and the sessions k opened, by v alone.
LEMMA ExaminingStep ==
    ASSUME PageTypes, NEW v \in Visits, NEW r \in [at : Stages, key : Keys],
           visit' = [visit EXCEPT ![v] = r], NEW k \in Keys
    PROVE  /\ Examining(k)' = IF r = [at |-> "examining", key |-> k]
                              THEN Examining(k) \cup {v} ELSE Examining(k) \ {v}
           /\ Opened(k)' = IF r = [at |-> "over", key |-> k]
                           THEN Opened(k) \cup {v} ELSE Opened(k) \ {v}
<1>1. visit'[v] = r /\ \A w \in Visits : w # v => visit'[w] = visit[w]
  BY Zenon DEF PageTypes
<1> QED BY <1>1, Zenon DEF Examining, Opened

LEMMA ExaminingFinite ==
    ASSUME NEW k \in Keys, NEW v
    PROVE  /\ IsFiniteSet(Examining(k)) /\ Cardinality(Examining(k)) \in Nat
           /\ Cardinality(Examining(k) \cup {v}) <= Cardinality(Examining(k)) + 1
           /\ Cardinality(Examining(k) \cup {v}) \in Nat
           /\ Cardinality(Examining(k) \ {v}) =
                 IF v \in Examining(k) THEN Cardinality(Examining(k)) - 1
                 ELSE Cardinality(Examining(k))
<1>1. IsFiniteSet(Examining(k))
  <2>1. Examining(k) \subseteq Visits
    BY Zenon DEF Examining
  <2> QED BY <2>1, WebAssumption, FS_Subset, Zenon
<1>2. Cardinality(Examining(k)) \in Nat
  BY <1>1, FS_CardinalityType, Zenon
<1>3. Cardinality(Examining(k) \cup {v}) =
        IF v \in Examining(k) THEN Cardinality(Examining(k)) ELSE Cardinality(Examining(k)) + 1
  BY <1>1, FS_AddElement, Zenon
<1>4. Cardinality(Examining(k) \ {v}) =
        IF v \in Examining(k) THEN Cardinality(Examining(k)) - 1 ELSE Cardinality(Examining(k))
  BY <1>1, FS_RemoveElement, Zenon
<1> QED BY <1>1, <1>2, <1>3, <1>4

LEMMA NoVisitType == NoVisit \in [at : Stages, key : Keys] /\ NoVisit.at = "idle"
<1>1. (CHOOSE k \in Keys : TRUE) \in Keys
  BY WebAssumption, Zenon
<1> QED BY <1>1 DEF NoVisit, Stages

\* A step that moves v, without starting or finishing an attempt of k.
LEMMA ChallengeKept ==
    ASSUME PageTypes, NEW k \in Keys, ChallengeOK(k), Examining(k)' = Examining(k),
           Opened(k)' = Opened(k), tries'[k] = tries[k], examined'[k] = examined[k],
           challenge[k] = "consumed" => challenge'[k] = "consumed"
    PROVE  ChallengeOK(k)'
BY Zenon DEF ChallengeOK

\* Nothing of the visits and of the counters changes.
LEMMA PageKept ==
    ASSUME PageOK, UNCHANGED <<tries, examined, visit>>,
           challenge' \in [Keys -> {"none", "open", "consumed", "expired"}],
           \A k \in Keys : challenge[k] = "consumed" => challenge'[k] = "consumed"
    PROVE  PageOK'
<1>1. PageTypes'
  BY Zenon DEF PageOK, PageTypes
<1>2. ASSUME NEW k \in Keys PROVE ChallengeOK(k)'
  <2>1. Examining(k)' = Examining(k) /\ Opened(k)' = Opened(k)
    BY Zenon DEF Examining, Opened
  <2> QED BY <2>1, ChallengeKept, Zenon DEF PageOK
<1> QED BY <1>1, <1>2, Zenon DEF PageOK

\* A request to verify that was about to open a session ends without one.
LEMMA OpeningEnds ==
    ASSUME PageOK, NEW v \in Visits, visit[v].at = "opening",
           visit' = [visit EXCEPT ![v] = NoVisit],
           UNCHANGED <<challenge, tries, examined>>
    PROVE  PageOK'
<1> USE DEF PageOK
<1>1. PageTypes'
  BY NoVisitType, Zenon DEF PageTypes
<1>2. ASSUME NEW k \in Keys PROVE ChallengeOK(k)'
  <2>1. v \notin Examining(k) /\ v \notin Opened(k)
    BY DEF Examining, Opened
  <2>2. NoVisit # [at |-> "examining", key |-> k] /\ NoVisit # [at |-> "over", key |-> k]
    BY NoVisitType
  <2>3. Examining(k)' = Examining(k) \ {v} /\ Opened(k)' = Opened(k) \ {v}
    BY <2>2, NoVisitType, ExaminingStep, Zenon
  <2>4. Examining(k)' = Examining(k) /\ Opened(k)' = Opened(k)
    BY <2>1, <2>3, Zenon
  <2> QED BY <2>4, ChallengeKept, Zenon
<1> QED BY <1>1, <1>2, Zenon

LEMMA BeginStep ==
    ASSUME PageOK, NEW v \in Visits, NEW k \in Keys, begin_verify(v, k) PROVE PageOK'
<1> USE DEF PageOK
<1> DEFINE r == [at |-> "examining", key |-> k]
<1>1. r \in [at : Stages, key : Keys]
  BY DEF Stages
<1>2. tries' = [tries EXCEPT ![k] = tries[k] + 1] /\ tries[k] \in 0..MaxTries /\ tries[k] < MaxTries
      /\ challenge[k] = "open" /\ visit[v].at = "idle" /\ UNCHANGED <<challenge, examined>>
  BY Zenon DEF begin_verify, PageTypes
<1>3. tries[k] + 1 \in 0..MaxTries
  BY <1>2, WebAssumption
<1>4. tries' \in [Keys -> 0..MaxTries] /\ tries'[k] = tries[k] + 1
      /\ \A l \in Keys : l # k => tries'[l] = tries[l]
  BY <1>2, <1>3, Zenon DEF PageTypes
<1>5. visit' = [visit EXCEPT ![v] = r] \/ visit' = visit
  BY Zenon DEF begin_verify
<1>6. PageTypes'
  <2>1. visit' \in [Visits -> [at : Stages, key : Keys]]
    BY <1>1, <1>5, Zenon DEF PageTypes
  <2> QED BY <2>1, <1>2, <1>4, Zenon DEF PageTypes
<1>7. ASSUME NEW l \in Keys PROVE ChallengeOK(l)'
  <2>1. v \notin Examining(l) /\ v \notin Opened(l)
    BY <1>2 DEF Examining, Opened
  <2>2. r # [at |-> "over", key |-> l] /\ (l # k => r # [at |-> "examining", key |-> l])
    OBVIOUS
  <2>3. Opened(l)' = Opened(l)
    <3>1. CASE visit' = visit
      BY <3>1, Zenon DEF Opened
    <3>2. CASE visit' = [visit EXCEPT ![v] = r]
      <4>1. Opened(l)' = Opened(l) \ {v}
        BY <3>2, <2>2, <1>1, ExaminingStep, Zenon
      <4> QED BY <4>1, <2>1, Zenon
    <3> QED BY <3>1, <3>2, <1>5, Zenon
  <2>4. Examining(l)' = Examining(l) \/ (l = k /\ Examining(l)' = Examining(l) \cup {v})
    <3>1. CASE visit' = visit
      BY <3>1, Zenon DEF Examining
    <3>2. CASE visit' = [visit EXCEPT ![v] = r]
      <4>1. Examining(l)' = IF r = [at |-> "examining", key |-> l]
                            THEN Examining(l) \cup {v} ELSE Examining(l) \ {v}
        BY <3>2, <1>1, ExaminingStep, Zenon
      <4> QED BY <4>1, <2>1, <2>2, Zenon
    <3> QED BY <3>1, <3>2, <1>5, Zenon
  <2>5. CASE l # k
    BY <2>5, <2>3, <2>4, <1>2, <1>4, ChallengeKept, Zenon
  <2>6. CASE l = k
    <3>1. Cardinality(Examining(k)) \in Nat /\ Cardinality(Examining(k) \cup {v}) \in Nat
          /\ Cardinality(Examining(k) \cup {v}) <= Cardinality(Examining(k)) + 1
      BY ExaminingFinite, Zenon
    <3>2. Cardinality(Examining(k)') \in Nat
          /\ Cardinality(Examining(k)') <= Cardinality(Examining(k)) + 1
      <4>1. Examining(k)' = Examining(k) \/ Examining(k)' = Examining(k) \cup {v}
        BY <2>4, <2>6, Zenon
      <4> QED BY <4>1, <3>1
    <3>3. examined[k] \in Nat /\ examined'[k] = examined[k]
          /\ examined[k] + Cardinality(Examining(k)) <= tries[k]
      BY <1>2, Zenon DEF PageTypes, ChallengeOK
    <3>4. examined'[k] + Cardinality(Examining(k)') <= tries'[k]
      BY <3>1, <3>2, <3>3, <1>2, <1>4
    <3> QED BY <3>4, <2>3, <2>6, <1>2, Zenon DEF ChallengeOK
  <2> QED BY <2>5, <2>6, Zenon
<1> QED BY <1>6, <1>7, Zenon

LEMMA ConsumeStep ==
    ASSUME PageOK, NEW v \in Visits, consume(v) PROVE PageOK'
<1> USE DEF PageOK
<1> DEFINE k == visit[v].key
<1> DEFINE r == [at |-> "opening", key |-> k]
<1>1. k \in Keys /\ visit[v] = [at |-> "examining", key |-> k] /\ visit[v].at = "examining"
      /\ [visit EXCEPT ![v].at = "opening"] = [visit EXCEPT ![v] = r]
  <2>1. "opening" \in Stages
    BY DEF Stages
  <2> QED BY <2>1, VisitStep, Zenon DEF consume
<1>2. r \in [at : Stages, key : Keys] /\ r.at = "opening"
  BY <1>1 DEF Stages
<1>3. examined' = [examined EXCEPT ![k] = examined[k] + 1] /\ UNCHANGED <<tries, challenge>>
      /\ \E q \in [at : Stages, key : Keys] :
            visit' = [visit EXCEPT ![v] = q] /\ q.at \in {"opening", "idle"}
  <2>1. visit' = [visit EXCEPT ![v] = r] \/ visit' = [visit EXCEPT ![v] = NoVisit]
    BY <1>1, Zenon DEF consume, error, Visiting
  <2>2. examined' = [examined EXCEPT ![k] = examined[k] + 1] /\ UNCHANGED <<tries, challenge>>
    BY Zenon DEF consume, error
  <2> QED BY <2>1, <2>2, <1>2, NoVisitType, Zenon
<1>4. PICK q \in [at : Stages, key : Keys] :
        visit' = [visit EXCEPT ![v] = q] /\ q.at \in {"opening", "idle"}
  BY <1>3, Zenon
<1>5. examined[k] \in Nat /\ examined[k] + 1 \in Nat
  BY <1>1 DEF PageTypes
<1>6. examined' \in [Keys -> Nat] /\ examined'[k] = examined[k] + 1
      /\ \A l \in Keys : l # k => examined'[l] = examined[l]
  BY <1>1, <1>3, <1>5, Zenon DEF PageTypes
<1>7. PageTypes'
  BY <1>3, <1>4, <1>6, Zenon DEF PageTypes
<1>8. ASSUME NEW l \in Keys PROVE ChallengeOK(l)'
  <2>1. q # [at |-> "examining", key |-> l] /\ q # [at |-> "over", key |-> l]
    BY <1>4
  <2>2. v \notin Opened(l) /\ (v \in Examining(l) <=> l = k)
    BY <1>1 DEF Examining, Opened
  <2>3. Examining(l)' = Examining(l) \ {v} /\ Opened(l)' = Opened(l) \ {v}
    BY <2>1, <1>4, ExaminingStep, Zenon
  <2>4. Opened(l)' = Opened(l)
    BY <2>2, <2>3, Zenon
  <2>5. CASE l # k
    <3>1. Examining(l)' = Examining(l)
      BY <2>2, <2>3, <2>5, Zenon
    <3> QED BY <3>1, <2>4, <2>5, <1>3, <1>6, ChallengeKept, Zenon
  <2>6. CASE l = k
    <3>1. Cardinality(Examining(l)) \in Nat
          /\ Cardinality(Examining(l)') = Cardinality(Examining(l)) - 1
      <4>1. v \in Examining(l) /\ Examining(l)' = Examining(l) \ {v}
        BY <2>2, <2>3, <2>6, Zenon
      <4>2. Cardinality(Examining(l)) \in Nat
            /\ Cardinality(Examining(l) \ {v}) = Cardinality(Examining(l)) - 1
        BY <4>1, ExaminingFinite, Zenon
      <4>3. Cardinality(Examining(l)') = Cardinality(Examining(l)) - 1
        BY <4>1, <4>2, Zenon
      <4> QED BY <4>2, <4>3, Zenon
    <3>2. tries[l] \in Nat /\ examined[l] + Cardinality(Examining(l)) <= tries[l]
      BY DEF PageTypes, ChallengeOK
    <3>3. examined'[l] + Cardinality(Examining(l)') <= tries'[l]
      BY <3>1, <3>2, <2>6, <1>3, <1>5, <1>6
    <3>4. (challenge[l] # "consumed" => Opened(l) = {}) /\ \A x, y \in Opened(l) : x = y
      BY Zenon DEF ChallengeOK
    <3>5. (challenge'[l] # "consumed" => Opened(l)' = {}) /\ \A x, y \in Opened(l)' : x = y
      BY <3>4, <2>4, <1>3, Zenon
    <3> QED BY <3>3, <3>5, Zenon DEF ChallengeOK
  <2> QED BY <2>5, <2>6, Zenon
<1> QED BY <1>7, <1>8, Zenon

LEMMA OpenStep ==
    ASSUME PageOK, NEW v \in Visits, open_session(v) PROVE PageOK'
<1> USE DEF PageOK
<1> DEFINE k == visit[v].key
<1> DEFINE r == [at |-> "over", key |-> k]
<1>1. k \in Keys /\ visit[v].at = "opening"
      /\ [visit EXCEPT ![v].at = "over"] = [visit EXCEPT ![v] = r]
  <2>1. "over" \in Stages
    BY DEF Stages
  <2> QED BY <2>1, VisitStep, Zenon DEF open_session
<1>2. CASE ~(challenge[k] = "open" /\ Active)
  <2>1. visit' = [visit EXCEPT ![v] = NoVisit] /\ UNCHANGED <<challenge, tries, examined>>
    BY <1>2, Zenon DEF open_session, error
  <2> QED BY <2>1, <1>1, OpeningEnds, Zenon
<1>3. CASE challenge[k] = "open" /\ Active
  <2>1. /\ challenge' = [challenge EXCEPT ![k] = "consumed"] /\ visit' = [visit EXCEPT ![v] = r]
        /\ UNCHANGED <<tries, examined>>
    BY <1>1, <1>3, Zenon DEF open_session, Visiting
  <2>2. r \in [at : Stages, key : Keys]
    BY <1>1 DEF Stages
  <2>3. /\ challenge' \in [Keys -> {"none", "open", "consumed", "expired"}]
        /\ challenge'[k] = "consumed" /\ \A l \in Keys : l # k => challenge'[l] = challenge[l]
    BY <1>1, <2>1, Zenon DEF PageTypes
  <2>4. PageTypes'
    BY <2>1, <2>2, <2>3, Zenon DEF PageTypes
  <2>5. ASSUME NEW l \in Keys PROVE ChallengeOK(l)'
    <3>1. v \notin Opened(l) /\ v \notin Examining(l)
      BY <1>1 DEF Examining, Opened
    <3>2. r # [at |-> "examining", key |-> l] /\ (l # k => r # [at |-> "over", key |-> l])
      OBVIOUS
    <3>3. Examining(l)' = Examining(l) \ {v}
          /\ Opened(l)' = IF r = [at |-> "over", key |-> l] THEN Opened(l) \cup {v}
                          ELSE Opened(l) \ {v}
      BY <2>1, <2>2, <3>2, ExaminingStep, Zenon
    <3>4. Examining(l)' = Examining(l)
      BY <3>1, <3>3, Zenon
    <3>5. CASE l # k
      <4>1. Opened(l)' = Opened(l)
        BY <3>1, <3>2, <3>3, <3>5, Zenon
      <4> QED BY <4>1, <3>4, <3>5, <2>1, <2>3, ChallengeKept, Zenon
    <3>6. CASE l = k
      <4>1. Opened(l) = {}
        BY <3>6, <1>1, <1>3, Zenon DEF ChallengeOK
      <4>2. Opened(l)' = {v}
        BY <4>1, <3>3, <3>6, Zenon
      <4>3. examined'[l] + Cardinality(Examining(l)') <= tries'[l]
        BY <2>1, <3>4, Zenon DEF ChallengeOK
      <4> QED BY <4>2, <4>3, <2>3, <3>6, Zenon DEF ChallengeOK
    <3> QED BY <3>5, <3>6, Zenon
  <2> QED BY <2>4, <2>5, Zenon
<1> QED BY <1>2, <1>3, Zenon

LEMMA PageStep ==
    ASSUME PageOK, WebNext PROVE PageOK'
<1>1. ASSUME NEW k \in Keys, NEW right \in BOOLEAN, send(k, right) PROVE PageOK'
  <2>1. /\ challenge[k] = "none" /\ challenge' = [challenge EXCEPT ![k] = "open"]
        /\ UNCHANGED <<tries, examined, visit>>
    BY <1>1, Zenon DEF send, start, create_challenge
  <2>2. /\ challenge' \in [Keys -> {"none", "open", "consumed", "expired"}]
        /\ \A l \in Keys : challenge[l] = "consumed" => challenge'[l] = "consumed"
    BY <2>1 DEF PageOK, PageTypes
  <2> QED BY <2>1, <2>2, PageKept, Zenon
<1>2. ASSUME NEW v \in Visits, verify(v) PROVE PageOK'
  BY <1>2, BeginStep, ConsumeStep, OpenStep, Zenon DEF verify
<1>3. ASSUME NEW v \in Visits, logout(v) \/ checkout(v) PROVE PageOK'
  <2>1. UNCHANGED <<challenge, tries, examined, visit>>
    BY <1>3, Zenon DEF logout, checkout, portal
  <2> QED BY <2>1, PageKept, Zenon DEF PageOK, PageTypes
<1>4. CASE expire
  <2>1. UNCHANGED <<tries, examined, visit>>
    BY <1>4, Zenon DEF expire
  <2>2. CASE UNCHANGED challenge
    BY <2>1, <2>2, PageKept, Zenon DEF PageOK, PageTypes
  <2>3. ASSUME NEW k \in Keys, challenge[k] = "open",
               challenge' = [challenge EXCEPT ![k] = "expired"]
        PROVE PageOK'
    <3>1. /\ challenge' \in [Keys -> {"none", "open", "consumed", "expired"}]
          /\ \A l \in Keys : challenge[l] = "consumed" => challenge'[l] = "consumed"
      BY <2>3 DEF PageOK, PageTypes
    <3> QED BY <2>1, <3>1, PageKept, Zenon
  <2> QED BY <1>4, <2>2, <2>3, Zenon DEF expire
<1>5. CASE ban
  <2>1. UNCHANGED <<challenge, tries, examined, visit>>
    BY <1>5, Zenon DEF ban, portal
  <2> QED BY <2>1, PageKept, Zenon DEF PageOK, PageTypes
<1> QED BY <1>1, <1>2, <1>3, <1>4, <1>5, Zenon DEF WebNext

\* Other steps read the rows and the workflow, and begin or end no erasure.
LEMMA DeskKept ==
    ASSUME DeskOK, UNCHANGED <<created, request, workflow, erased>>, creating' \subseteq Types,
           account' = "deleted" => account = "deleted" /\ (token' = token \/ token' = {})
    PROVE  DeskOK'
BY Zenon DEF DeskOK, DeskTypes, RowsNumbered, NoRow, Row, DeletionBacked, Ids

\* A new row is not the one of the workflow.
LEMMA InsertStep ==
    ASSUME DeskOK, NEW i \in Ids, NEW row \in [type : Types \cup {"none", "erasure"}, status : Stati],
           insert_row(i, row)
    PROVE  /\ i # workflow /\ request'[i] = row
           /\ \A j \in Ids : j # i => request'[j] = request[j]
           /\ request' \in [Ids -> [type : Types \cup {"none", "erasure"}, status : Stati]]
           /\ created' \in 0..MaxRequests /\ i <= created'
           /\ workflow # None => workflow <= created'
           /\ RowsNumbered'
<1>1. i = created + 1 /\ created' = i /\ request' = [request EXCEPT ![i] = row]
  BY Zenon DEF insert_row
<1>2. created \in 0..MaxRequests /\ workflow \in Ids \cup {None}
      /\ (workflow # None => workflow <= created)
  BY Zenon DEF DeskOK, DeskTypes
<1>3. i # workflow /\ created' \in 0..MaxRequests /\ i <= created'
      /\ (workflow # None => workflow <= created')
  BY <1>1, <1>2, RequestAssumption DEF Ids
<1>4. request'[i] = row /\ (\A j \in Ids : j # i => request'[j] = request[j])
      /\ request' \in [Ids -> [type : Types \cup {"none", "erasure"}, status : Stati]]
  BY <1>1, Zenon DEF DeskOK, DeskTypes
<1>5. ASSUME NEW j \in Ids, request'[j] # NoRow PROVE j <= created'
  <2>1. CASE j = i
    BY <2>1, <1>3
  <2>2. CASE j # i
    <3>1. j <= created
      BY <2>2, <1>4, <1>5, Zenon DEF DeskOK, RowsNumbered
    <3> QED BY <3>1, <1>1, <1>2 DEF Ids
  <2> QED BY <2>1, <2>2, Zenon
<1>6. RowsNumbered'
  BY <1>5, Zenon DEF RowsNumbered, NoRow, Row, Ids
<1> QED BY <1>3, <1>4, <1>6, Zenon

\* The status of a row: what it is afterwards, and that no other row changes.
LEMMA StatusStep ==
    ASSUME DeskTypes, RowsNumbered, NEW i \in Ids, i <= created, UNCHANGED created, NEW s \in Stati,
           request' = [request EXCEPT ![i].status = s]
    PROVE  /\ request'[i] = Row(request[i].type, s)
           /\ \A j \in Ids : j # i => request'[j] = request[j]
           /\ request' \in [Ids -> [type : Types \cup {"none", "erasure"}, status : Stati]]
           /\ RowsNumbered'
<1>1. PICK r \in [type : Types \cup {"none", "erasure"}, status : Stati] : r = request[i]
  BY Zenon DEF DeskTypes
<1>2. [r EXCEPT !.status = s] = Row(r.type, s)
      /\ Row(r.type, s) \in [type : Types \cup {"none", "erasure"}, status : Stati]
  BY DEF Row
<1>3. request' = [request EXCEPT ![i] = Row(r.type, s)]
  BY <1>1, <1>2, Zenon
<1>4. request'[i] = Row(r.type, s) /\ (\A j \in Ids : j # i => request'[j] = request[j])
  BY <1>3, Zenon DEF DeskTypes
<1>5. request' \in [Ids -> [type : Types \cup {"none", "erasure"}, status : Stati]]
  BY <1>2, <1>3, Zenon DEF DeskTypes
<1>6. RowsNumbered'
  BY <1>4, Zenon DEF RowsNumbered, NoRow, Row, Ids
<1> QED BY <1>1, <1>4, <1>5, <1>6, Zenon

\* An erasure begins with a row that is in progress.
LEMMA BeginErasure ==
    ASSUME DeskOK, NEW i \in Ids, enqueue_erasure(i), workflow = None,
           request'[i] = Row("erasure", "in_progress"),
           request' \in [Ids -> [type : Types \cup {"none", "erasure"}, status : Stati]],
           created' \in 0..MaxRequests, i <= created', RowsNumbered', UNCHANGED creating
    PROVE  DeskOK'
<1>1. workflow' = i /\ token' = {}
  BY Zenon DEF enqueue_erasure
<1>2. i # None
  BY RequestAssumption, Zenon DEF Ids
<1> QED BY <1>1, <1>2, Zenon DEF DeskOK, DeskTypes, DeletionBacked, Ids

LEMMA CreateStep ==
    ASSUME DeskOK, NEW t \in Types, NEW d \in BOOLEAN, create_request(t, d) PROVE DeskOK'
<1>1. /\ UNCHANGED <<account, workflow, erased, token>> /\ creating' \subseteq Types
  BY Zenon DEF create_request, DeskOK
<1>2. CASE UNCHANGED <<request, created>>
  BY <1>1, <1>2, DeskKept, Zenon
<1>3. ASSUME NEW i \in Ids, insert_row(i, Row(t, "pending")) PROVE DeskOK'
  <2>1. Row(t, "pending") \in [type : Types \cup {"none", "erasure"}, status : Stati]
    BY DEF Row, Stati
  <2>2. /\ i # workflow /\ \A j \in Ids : j # i => request'[j] = request[j]
        /\ request' \in [Ids -> [type : Types \cup {"none", "erasure"}, status : Stati]]
        /\ created' \in 0..MaxRequests /\ (workflow # None => workflow <= created')
        /\ RowsNumbered'
    BY <1>3, <2>1, InsertStep, Zenon
  <2>3. workflow # None => workflow \in Ids /\ request'[workflow] = request[workflow]
    BY <2>2, Zenon DEF DeskOK, DeskTypes
  <2>4. DeletionBacked'
    BY <1>1, <2>3, Zenon DEF DeskOK, DeletionBacked
  <2> QED BY <1>1, <2>2, <2>4, Zenon DEF DeskOK, DeskTypes, Ids
<1> QED BY <1>2, <1>3, Zenon DEF create_request, insert_request

LEMMA ReviewStep ==
    ASSUME DeskOK, NEW i \in Ids, NEW s \in Transitions, NEW r \in BOOLEAN,
           update_request(i, s, r)
    PROVE  DeskOK'
<1>1. /\ i # workflow /\ UNCHANGED <<created, creating>> /\ update_request_tx(i, s, r)
      /\ i <= created
  BY Zenon DEF update_request, review, update_request_tx, Rows, DeskOK, RowsNumbered
<1>2. s \in Stati /\ "in_progress" \in Stati
  BY DEF Transitions, Stati
<1>3. CASE decide(i, s, r) # "schedule"
  <2>1. UNCHANGED <<account, workflow, erased, token>>
        /\ request' = [request EXCEPT ![i].status = s]
    BY <1>1, <1>3, Zenon DEF update_request_tx
  <2>2. /\ \A j \in Ids : j # i => request'[j] = request[j]
        /\ request' \in [Ids -> [type : Types \cup {"none", "erasure"}, status : Stati]]
        /\ RowsNumbered'
    BY <1>1, <2>1, <1>2, StatusStep, Zenon DEF DeskOK
  <2>3. workflow # None => workflow \in Ids /\ request'[workflow] = request[workflow]
    BY <2>2, <1>1, Zenon DEF DeskOK, DeskTypes
  <2>4. DeletionBacked'
    BY <2>1, <2>3, Zenon DEF DeskOK, DeletionBacked
  <2> QED BY <1>1, <2>1, <2>2, <2>4, Zenon DEF DeskOK, DeskTypes, Ids
<1>4. CASE decide(i, s, r) = "schedule"
  <2>1. /\ workflow = None /\ enqueue_erasure(i)
        /\ request' = [request EXCEPT ![i].status = "in_progress"]
    BY <1>1, <1>4, Zenon DEF update_request_tx
  <2>2. request[i].type = "erasure"
    BY <1>4 DEF decide
  <2>3. /\ request'[i] = Row("erasure", "in_progress")
        /\ request' \in [Ids -> [type : Types \cup {"none", "erasure"}, status : Stati]]
        /\ RowsNumbered'
    BY <1>1, <2>1, <2>2, <1>2, StatusStep, Zenon DEF DeskOK
  <2> QED BY <2>1, <2>3, <1>1, BeginErasure, Zenon DEF DeskOK, DeskTypes
<1> QED BY <1>3, <1>4, Zenon

LEMMA AcceptStep ==
    ASSUME DeskOK, NEW n, accept(n) PROVE DeskOK'
<1>1. /\ account # "deleted" /\ UNCHANGED creating
      /\ \E i \in Ids : erasure_request(i) /\ enqueue_erasure(i)
  BY Zenon DEF accept, accept_tx
<1>2. PICK i \in Ids : erasure_request(i) /\ enqueue_erasure(i)
  BY <1>1, Zenon
<1>3. /\ request'[i] = Row("erasure", "in_progress")
      /\ request' \in [Ids -> [type : Types \cup {"none", "erasure"}, status : Stati]]
      /\ created' \in 0..MaxRequests /\ i <= created' /\ RowsNumbered'
      /\ workflow # None => workflow <= created'
  <2>1. CASE OpenOf("erasure") # {}
    <3>1. /\ request[i] # NoRow /\ request[i].type = "erasure"
          /\ request' = [request EXCEPT ![i].status = "in_progress"] /\ created' = created
      BY <1>2, <2>1, Zenon DEF erasure_request, OpenOf, IsOpen, Rows
    <3>2. i <= created
      BY <3>1, Zenon DEF DeskOK, RowsNumbered
    <3>3. "in_progress" \in Stati
      BY DEF Stati
    <3>4. /\ request'[i] = Row(request[i].type, "in_progress")
          /\ request' \in [Ids -> [type : Types \cup {"none", "erasure"}, status : Stati]]
          /\ RowsNumbered'
      BY <3>1, <3>2, <3>3, StatusStep, Zenon DEF DeskOK
    <3> QED BY <3>1, <3>2, <3>4, Zenon DEF DeskOK, DeskTypes
  <2>2. CASE OpenOf("erasure") = {}
    <3>1. insert_row(i, Row("erasure", "in_progress"))
      BY <1>2, <2>2, Zenon DEF erasure_request
    <3>2. Row("erasure", "in_progress") \in [type : Types \cup {"none", "erasure"}, status : Stati]
      BY DEF Row, Stati
    <3> QED BY <3>1, <3>2, InsertStep, Zenon
  <2> QED BY <2>1, <2>2, Zenon
<1>4. CASE workflow = None
  BY <1>1, <1>2, <1>3, <1>4, BeginErasure, Zenon
<1>5. CASE workflow # None
  <2>1. UNCHANGED <<account, workflow>>
    BY <1>2, <1>5, Zenon DEF enqueue_erasure
  <2> QED BY <2>1, <1>1, <1>3, Zenon DEF DeskOK, DeskTypes, DeletionBacked, Ids
<1> QED BY <1>4, <1>5, Zenon

LEMMA CompleteStep ==
    ASSUME DeskOK, complete_erasure PROVE DeskOK'
<1> DEFINE s == IF request[workflow].status = "in_progress" THEN "completed"
                ELSE request[workflow].status
<1>1. /\ workflow \in Ids /\ workflow <= created /\ erased'
      /\ UNCHANGED <<account, created, creating, token, workflow>>
      /\ request' = [request EXCEPT ![workflow].status = s]
  BY Zenon DEF complete_erasure, DeskOK, DeskTypes
<1>2. s \in Stati
  <2>1. PICK r \in [type : Types \cup {"none", "erasure"}, status : Stati] : r = request[workflow]
    BY <1>1, Zenon DEF DeskOK, DeskTypes
  <2>2. r.status \in Stati /\ "completed" \in Stati
    BY <2>1 DEF Stati
  <2> QED BY <2>1, <2>2, Zenon
<1>3. /\ request' \in [Ids -> [type : Types \cup {"none", "erasure"}, status : Stati]]
      /\ RowsNumbered'
  <2> HIDE DEF s
  <2> QED BY <1>1, <1>2, StatusStep, Zenon DEF DeskOK
<1> QED BY <1>1, <1>3, Zenon DEF DeskOK, DeskTypes, DeletionBacked, Ids

LEMMA RetentionStep ==
    ASSUME DeskOK, retention PROVE DeskOK'
<1>1. UNCHANGED <<account, created, creating, erased>>
  BY Zenon DEF retention
<1>2. CASE token' = {} /\ UNCHANGED <<request, workflow>>
  BY <1>1, <1>2, DeskKept, Zenon DEF DeskOK
<1>3. ASSUME NEW i \in Ids, ~IsOpen(i), request' = [request EXCEPT ![i] = NoRow],
             workflow' = IF workflow = i THEN None ELSE workflow, UNCHANGED token
      PROVE  DeskOK'
  <2>1. NoRow \in [type : Types \cup {"none", "erasure"}, status : Stati]
    BY DEF NoRow, Row, Stati
  <2>2. /\ request' \in [Ids -> [type : Types \cup {"none", "erasure"}, status : Stati]]
        /\ request'[i] = NoRow /\ \A j \in Ids : j # i => request'[j] = request[j]
    BY <1>3, <2>1, Zenon DEF DeskOK, DeskTypes
  <2>3. RowsNumbered'
    BY <2>2, <1>1, Zenon DEF DeskOK, RowsNumbered, NoRow, Row, Ids
  <2>4. DeskTypes' /\ (workflow' # None => workflow' = workflow /\ workflow' <= created')
    BY <2>2, <1>1, <1>3, Zenon DEF DeskOK, DeskTypes, Ids
  <2>5. ASSUME account' = "deleted", ~erased'
        PROVE  workflow' # None /\ request'[workflow'] = Row("erasure", "in_progress")
    <3>1. workflow # None /\ request[workflow] = Row("erasure", "in_progress")
      BY <1>1, <2>5, Zenon DEF DeskOK, DeletionBacked
    <3>2. workflow \in Ids
      BY <3>1, Zenon DEF DeskOK, DeskTypes
    <3>3. Row("erasure", "in_progress").status = "in_progress"
          /\ Row("erasure", "in_progress") # NoRow
      BY DEF Row, NoRow
    <3>4. IsOpen(workflow)
      BY <3>1, <3>2, <3>3, Zenon DEF IsOpen, Rows
    <3> QED BY <3>1, <3>2, <3>4, <2>2, <1>3, Zenon
  <2>6. account' = "deleted" => token' = {}
    BY <1>1, <1>3, Zenon DEF DeskOK, DeletionBacked
  <2> QED BY <1>1, <2>3, <2>4, <2>5, <2>6, Zenon DEF DeskOK, DeletionBacked, Row
<1> QED BY <1>2, <1>3, Zenon DEF retention, Rows

\* The page moves the account between live and banned only.
LEMMA WebAccount ==
    ASSUME WebNext PROVE account' = "deleted" => account = "deleted"
<1>1. CASE ban
  BY <1>1 DEF ban
<1>2. CASE ~ban
  BY <1>2, Zenon DEF WebNext, send, start, verify, begin_verify, consume, open_session, logout,
     checkout, expire
<1> QED BY <1>1, <1>2, Zenon

LEMMA DeskStep ==
    ASSUME DeskOK, RightsNext PROVE DeskOK'
<1>1. ASSUME NEW t \in Types, authenticated(t) PROVE DeskOK'
  BY <1>1, DeskKept, Zenon DEF authenticated, DeskOK
<1>2. ASSUME NEW t \in Types, NEW d \in BOOLEAN, create_request(t, d) PROVE DeskOK'
  BY <1>2, CreateStep, Zenon
<1>3. ASSUME NEW i \in Ids, NEW s \in Transitions, NEW r \in BOOLEAN, update_request(i, s, r)
      PROVE  DeskOK'
  BY <1>3, ReviewStep, Zenon
<1>4. ASSUME issue PROVE DeskOK'
  BY <1>4, DeskKept, Zenon DEF issue, replace_token, DeskOK
<1>5. ASSUME NEW n, accept(n) PROVE DeskOK'
  BY <1>5, AcceptStep, Zenon
<1>6. ASSUME NEW v \in Visits, NEW c \in DataCategory, delete_data(v, c) PROVE DeskOK'
  BY <1>6, DeskKept, Zenon DEF delete_data, DeskOK
<1>7. CASE complete_erasure
  BY <1>7, CompleteStep, Zenon
<1>8. CASE retention
  BY <1>8, RetentionStep, Zenon
<1>9. ASSUME WebNext, UNCHANGED desk PROVE DeskOK'
  BY <1>9, WebAccount, DeskKept, Zenon DEF desk, DeskOK
<1> QED BY <1>1, <1>2, <1>3, <1>4, <1>5, <1>6, <1>7, <1>8, <1>9, Zenon
    DEF RightsNext, issue_deletion_token, accept_erasure, deletion_token, delete_account

\* What the page does is done by no other step.
LEMMA PageUntouched ==
    ASSUME RightsNext PROVE WebNext \/ UNCHANGED portal
BY Zenon DEF RightsNext, authenticated, create_request, update_request, review,
   issue_deletion_token, issue, accept_erasure, accept, deletion_token, delete_account,
   delete_data, complete_erasure, retention

\* A challenge that opened at most one session has one visit at most that is over.
LEMMA OpenedOnce ==
    ASSUME PageOK, NEW k \in Keys PROVE Cardinality(Opened(k)) <= 1
<1>1. CASE Opened(k) = {}
  BY <1>1, FS_EmptySet
<1>2. CASE Opened(k) # {}
  <2>1. PICK v : v \in Opened(k)
    BY <1>2, Zenon
  <2>2. Opened(k) = {v}
    <3>1. \A w \in Opened(k) : w = v
      BY <2>1, Zenon DEF PageOK, ChallengeOK
    <3> QED BY <2>1, <3>1, Zenon
  <2> QED BY <2>2, FS_Singleton
<1> QED BY <1>1, <1>2, Zenon

\* An account that was deleted and is not erased yet has its workflow and a
\* request in progress, whatever is reviewed, asked for again or purged
\* meanwhile (privacy/pg.rs, accept_erasure; rights/pg.rs, update_request), and
\* the codes examined for a challenge of the web page stay within its attempts,
\* whoever answers it at once (billing/web/pg.rs, begin_verify): for any number
\* of requests, tokens, challenges and visits.
THEOREM RightsAreKept == RightsSpec => []RightsHold
<1>1. RightsInit => DeskOK /\ PageOK
  <2> SUFFICES ASSUME RightsInit PROVE DeskOK /\ PageOK
    BY Zenon
  <2> USE DEF RightsInit, WebInit
  <2>1. DeskTypes /\ creating \subseteq Types /\ workflow = None /\ account # "deleted"
    BY RequestAssumption DEF DeskTypes, NoRow, Row, Stati
  <2>2. RowsNumbered
    BY Zenon DEF RowsNumbered
  <2>3. PageTypes
    BY WebAssumption, NoVisitType DEF PageTypes
  <2>4. ASSUME NEW k \in Keys PROVE ChallengeOK(k)
    <3>1. NoVisit # [at |-> "examining", key |-> k] /\ NoVisit # [at |-> "over", key |-> k]
      BY NoVisitType
    <3>2. Examining(k) = {} /\ Opened(k) = {}
      BY <3>1, Zenon DEF Examining, Opened
    <3>3. examined[k] = 0 /\ tries[k] = 0
      BY Zenon
    <3>4. examined[k] + Cardinality(Examining(k)) <= tries[k]
      BY <3>2, <3>3, FS_EmptySet
    <3> QED BY <3>2, <3>4, Zenon DEF ChallengeOK
  <2> QED BY <2>1, <2>2, <2>3, <2>4, Zenon DEF DeskOK, DeletionBacked, PageOK
<1>2. DeskOK /\ PageOK /\ [RightsNext]_rightsVars => (DeskOK /\ PageOK)'
  <2> SUFFICES ASSUME DeskOK, PageOK, [RightsNext]_rightsVars PROVE DeskOK' /\ PageOK'
    BY Zenon
  <2>1. CASE RightsNext
    <3>1. CASE WebNext
      BY <2>1, <3>1, DeskStep, PageStep, Zenon
    <3>2. CASE UNCHANGED portal
      <4>1. UNCHANGED <<challenge, tries, examined, visit>>
        BY <3>2, Zenon DEF portal
      <4> QED BY <4>1, <2>1, DeskStep, PageKept, Zenon DEF PageOK, PageTypes
    <3> QED BY <2>1, <3>1, <3>2, PageUntouched, Zenon
  <2>2. CASE UNCHANGED rightsVars
    <3>1. UNCHANGED <<account, desk, challenge, tries, examined, visit>>
      BY <2>2, Zenon DEF rightsVars, portal
    <3>2. PageOK'
      BY <3>1, PageKept, Zenon DEF PageOK, PageTypes
    <3> QED BY <3>1, <3>2, DeskKept, Zenon DEF desk, DeskOK
  <2> QED BY <2>1, <2>2, Zenon
<1>3. DeskOK /\ PageOK => RightsHold
  <2> SUFFICES ASSUME DeskOK, PageOK PROVE RightsHold
    BY Zenon
  <2>1. ASSUME NEW k \in Keys PROVE examined[k] <= MaxTries
    <3>1. /\ examined[k] \in Nat /\ tries[k] \in 0..MaxTries
          /\ examined[k] + Cardinality(Examining(k)) <= tries[k]
      BY Zenon DEF PageOK, PageTypes, ChallengeOK
    <3>2. Cardinality(Examining(k)) \in Nat
      BY ExaminingFinite, Zenon
    <3> QED BY <3>1, <3>2, WebAssumption
  <2>2. ASSUME NEW k \in Keys
        PROVE  Cardinality({v \in Visits : visit[v] = [at |-> "over", key |-> k]}) <= 1
    BY OpenedOnce, Zenon DEF Opened
  <2> QED BY <2>1, <2>2, Zenon DEF DeskOK, RightsHold, GuessesBounded
<1> QED BY <1>1, <1>2, <1>3, PTL DEF RightsSpec
=============================================================================
