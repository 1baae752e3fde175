------------------------------ MODULE Rewards ------------------------------
(***************************************************************************)
(* Advertising rewards (src/src/advertising/pg.rs).  A Free user prepares  *)
(* an intent, watches the advertisement, and the provider calls back with  *)
(* a signed proof: late, twice, for an intent cancelled meanwhile, or      *)
(* after the week it was earned in.  Every action is one transaction; the  *)
(* account and wallet locks make those of one user follow each other.      *)
(***************************************************************************)
EXTENDS Integers, FiniteSets

CONSTANTS
    Intents,        \* ids of advertising_reward_intent rows
    Owners,         \* users who watch advertisements
    Owner,          \* the user an intent id will belong to
    Transactions,   \* the provider's transaction ids
    LIFETIME,       \* 15 minutes: how long an intent can be watched
    GRACE,          \* 24 hours: how late its callback may come
    TOLERANCE,      \* 5 seconds: how far it may be behind
    SKEW,           \* 5 minutes: how far the provider's clock may be ahead
    REWARD_WEEK,
    REWARD_STOCK_LIMIT,  \* ADVERTISING_STOCK_LIMIT
    RewardClock,    \* bound: the last tick of the horizon
    MaxCallbacks,   \* bound: how many callbacks the provider signs
    NoTransaction   \* transaction_hash IS NULL

ASSUME RewardsAssumption ==
    /\ Owner \in [Intents -> Owners]
    /\ NoTransaction \notin Transactions
    /\ LIFETIME \in Nat \ {0} /\ GRACE \in Nat \ {0} /\ SKEW \in Nat /\ TOLERANCE \in Nat
    /\ REWARD_WEEK \in Nat \ {0} /\ REWARD_STOCK_LIMIT \in Nat \ {0}
    /\ RewardClock \in Nat /\ MaxCallbacks \in Nat

VARIABLES
    created,      \* created_at
    deadline,      \* expires_at
    state,        \* "none", or which of completed_at and cancelled_at is set
    transaction,  \* transaction_hash
    credited,     \* intents with credited_at set
    stock,      \* continuation_wallet.advertising_credits
    stockWeek,   \* continuation_wallet.week_start
    unlimited,      \* users whose plan has no weekly limit
    callbacks,    \* the signed callbacks the provider may deliver, any number of times
    paid,         \* credits granted for a transaction, over the whole history
    time

rowVars == <<created, deadline, state, transaction, credited>>
rewardVars == <<rowVars, stock, stockWeek, unlimited, callbacks, paid, time>>

reward_week(t) == t \div REWARD_WEEK

RewardInit ==
    /\ created = [i \in Intents |-> 0]
    /\ deadline = [i \in Intents |-> 0]
    /\ state = [i \in Intents |-> "none"]
    /\ transaction = [i \in Intents |-> NoTransaction]
    /\ credited = {}
    /\ stock = [u \in Owners |-> 0]
    /\ stockWeek = [u \in Owners |-> 0]
    /\ unlimited = {}
    /\ callbacks = {}
    /\ paid = [x \in Transactions |-> 0]
    /\ time = 0

Stock(u) == IF stockWeek[u] = reward_week(time) THEN stock[u] ELSE 0

\* Mutant: an intent gives up its slot when it can no longer be watched.
Outstanding_UntilExpiry(u) ==
    {i \in Intents : Owner[i] = u /\ state[i] = "pending" /\ deadline[i] > time}

\* The intents that hold the slot of their owner: a signed callback may still come.
Outstanding(u) ==
    {i \in Intents : /\ Owner[i] = u /\ state[i] = "pending"
                     /\ deadline[i] + GRACE > time
                     /\ reward_week(deadline[i]) >= reward_week(time)}

\* With an intent outstanding the same one is returned, or the request refused.
\* The clock moves on between the reading that decides and the end of the
\* transaction; the defaults of the row are read at the insertion, in between.
create_on(i) ==
    LET u == Owner[i] IN
    /\ state[i] = "none"
    /\ u \notin unlimited
    /\ Stock(u) < REWARD_STOCK_LIMIT
    /\ Outstanding(u) = {}
    /\ time < RewardClock
    /\ time' = time + 1
    /\ state' = [state EXCEPT ![i] = "pending"]
    /\ \E inserted \in {time, time'} :
         /\ created' = [created EXCEPT ![i] = inserted]
         /\ deadline' = [deadline EXCEPT ![i] = inserted + LIFETIME]
    /\ UNCHANGED <<transaction, credited, stock, stockWeek, unlimited, callbacks, paid>>

cancel_on(i) ==
    /\ state[i] = "pending"
    /\ state' = [state EXCEPT ![i] = "cancelled"]
    /\ UNCHANGED <<created, deadline, transaction, credited, stock, stockWeek, unlimited,
                   callbacks, paid, time>>

\* The proof is accepted: watched within the intent's life, not in the future, not
\* too late.  A refused callback changes nothing and may be delivered again.
Accepted(c) ==
    /\ state[c.intent] = "pending"
    /\ c.event + TOLERANCE >= created[c.intent]
    /\ c.event <= deadline[c.intent]
    /\ c.event <= time + SKEW
    /\ time <= deadline[c.intent] + GRACE

grant_credit(u) ==
    LET w == reward_week(time) IN
    /\ \/ stockWeek[u] < w
       \/ stockWeek[u] = w /\ stock[u] < REWARD_STOCK_LIMIT
    /\ stock' = [stock EXCEPT ![u] = IF stockWeek[u] = w THEN @ + 1 ELSE 1]
    /\ stockWeek' = [stockWeek EXCEPT ![u] = w]

\* Mutant: the same transaction may be presented for another intent.
Unused_AnyTransaction(x) == TRUE

\* transaction_hash is unique over all intents.
Unused(x) == \A i \in Intents : transaction[i] # x

CurrentWeek(c) == reward_week(c.event) = reward_week(time)

\* The row is consumed; only a proof of the current week is credited.  A full
\* wallet fails the transaction, so that the intent stays pending.
complete_on(c) ==
    /\ Accepted(c)
    /\ Unused(c.transaction)
    /\ state' = [state EXCEPT ![c.intent] = "completed"]
    /\ transaction' = [transaction EXCEPT ![c.intent] = c.transaction]
    /\ IF CurrentWeek(c)
       THEN /\ grant_credit(Owner[c.intent])
            /\ credited' = credited \cup {c.intent}
            /\ paid' = [paid EXCEPT ![c.transaction] = @ + 1]
       ELSE UNCHANGED <<stock, stockWeek, credited, paid>>
    /\ UNCHANGED <<created, deadline, unlimited, callbacks, time>>

-----------------------------------------------------------------------------
(* The routes; a request they refuse changes nothing. *)

create_intent(i) == create_on(i)
cancel(i) == cancel_on(i)

\* A proof whose signature is not verified goes no further, and the validation
\* of the address of the route carries no reward.
complete_verified_callback(c) == complete_on(c)
webhook(c) == c \in callbacks /\ complete_verified_callback(c)

-----------------------------------------------------------------------------
\* The provider signs callbacks for advertisements watched to their end and
\* delivers them late, repeatedly, and possibly with a transaction it used before.
watched(i, x, event) ==
    /\ state[i] # "none"
    /\ event <= time + SKEW
    /\ Cardinality(callbacks) < MaxCallbacks
    /\ callbacks' = callbacks \cup {[intent |-> i, transaction |-> x, event |-> event]}
    /\ UNCHANGED <<rowVars, stock, stockWeek, unlimited, paid, time>>

\* A continuation spends an advertising credit of the current week.
debit(u) ==
    /\ Stock(u) > 0
    /\ stock' = [stock EXCEPT ![u] = @ - 1]
    /\ UNCHANGED <<rowVars, stockWeek, unlimited, callbacks, paid, time>>

change_plan(u) ==
    /\ unlimited' = IF u \in unlimited THEN unlimited \ {u} ELSE unlimited \cup {u}
    /\ UNCHANGED <<rowVars, stock, stockWeek, callbacks, paid, time>>

reward_tick ==
    /\ time < RewardClock
    /\ time' = time + 1
    /\ UNCHANGED <<rowVars, stock, stockWeek, unlimited, callbacks, paid>>

RewardNext ==
    \/ \E i \in Intents : create_intent(i) \/ cancel(i)
    \/ \E c \in callbacks : webhook(c)
    \/ \E i \in Intents, x \in Transactions, event \in 0..(RewardClock + SKEW) : watched(i, x, event)
    \/ \E u \in Owners : debit(u) \/ change_plan(u)
    \/ reward_tick

RewardSpec == RewardInit /\ [][RewardNext]_rewardVars

-----------------------------------------------------------------------------
(* Properties. *)

\* However often and for whichever intents a proof is delivered, a transaction
\* and an intent pay one credit at most, and the rows say exactly which were paid.
PaidOnce ==
    /\ \A x \in Transactions :
         paid[x] = Cardinality({i \in credited : transaction[i] = x}) /\ paid[x] <= 1
    /\ \A i \in credited : state[i] = "completed"

\* "One outstanding intent reserves the last stock slot": an advertisement of this
\* week that a pending intent may still be credited for always finds room in the
\* wallet, so that StockFull never takes a reward back.
Creditable(i, event) ==
    /\ Accepted([intent |-> i, transaction |-> NoTransaction, event |-> event])
    /\ reward_week(event) = reward_week(time)
RewardHasRoom ==
    \A i \in Intents : \A event \in 0..(RewardClock + SKEW) :
      Creditable(i, event) => Stock(Owner[i]) < REWARD_STOCK_LIMIT

\* A transaction and an intent pay one credit at most, however often the
\* provider delivers the proof, and an advertisement that may still be
\* credited finds room in the wallet (advertising/pg.rs, complete_on, create_on).
RewardsHold == PaidOnce /\ RewardHasRoom
=============================================================================
