# TLA+ model of the Histae API

Histae is a dating service. The repository is its backend: an Axum/Tokio API,
an outbox worker and a maintenance process that share PostgreSQL (the source of
truth), Redis (rate limits, fan-out of live events) and an S3 bucket (photos),
and that call Stripe, the mobile stores, an SMS provider and push services.

The algorithms are simple. What is hard is the order in which transactions of
several processes, answers of providers, retries, restarts and clocks can
follow each other, and that is what the modules are about. One step of a model
is one transaction, one statement whose answer a later one relies on, one call
to a provider, or the passing of time. PostgreSQL is taken at its word: a
transaction with the locks it takes is atomic, and READ COMMITTED is not
assumed to be more than it is.

## 1. The system

### Parts and modules

| part | source (`src/src`) | module |
|---|---|---|
| outbox and its contract | `outbox/` | `Outbox`, `AtLeastOnce` |
| maintenance passes, their leader and status row | `operations/`, `app/` | `Jobs` |
| Stripe webhooks, subscription reconciliation | `billing/webhook/`, `billing/reconcile/` | `Subscriptions` |
| web checkout, customers at Stripe | `billing/` | `Checkout` |
| purchases in the application stores | `billing/stores/` | `StorePurchases` |
| photos with the object store | `media/`, `moderation/`, `administration/photos/` | `Photos` |
| notifications, devices, pushes | `notifications/` | `Push` |
| live event streams | `notifications/`, `infra/` | `Stream` |
| continuation of matches, credits | `matches/pg/` | `Continuation` |
| advertising rewards | `advertising/` | `Rewards` |
| one conversation from creation to purge | `matches/` | `Conversation` |
| swipes, mutual likes, blocks, pauses | `discovery/`, `privacy/` | `Matching` |
| the discovery feed | `discovery/` | `Feed` |
| catalogue and its cached translations | `catalog/`, `localization/` | `Catalog` |
| erasure of accounts | `privacy/erasure/` | `Erasure` |
| requests of data subjects, deletion tokens | `privacy/` | `Rights` |
| web access (challenge, code, session) | `billing/web/` | `WebAccess` |
| exports | `privacy/export/` | `Exports` |
| mobile sessions | `identity/mobile/pg/` | `Sessions` |
| registration and login | `identity/mobile/account.rs`, `play_review.rs` | `Registration` |
| consents, profile, moderated texts | `profiles/`, `moderation/`, `catalog/` | `Profiles` |
| one-time codes | `identity/mobile/otp/` | `Otp` |
| SMS budgets, suspension, phone policy | `identity/mobile/sms_safety/`, `phone_blocklist/` | `SmsSafety` |
| account activity leases | `infra/postgres_locks.rs` | `Leases` |
| administrators' passkeys and sessions | `identity/admin/` | `AdminIdentity` |
| bans, roles, reports, access to conversations | `administration/`, `reports/` | `Administration` |
| keyset-paginated lists | `administration/`, `outbox/admin/`, and others | `Listings` |

`PROJECT.json` lists every part with its exact sources, and its map gives the
lines behind each definition. Actions are named after the functions they model.

### How the parts interact

- Every asynchronous effect is an **outbox** event written in the transaction
  that makes it due: one-time codes, deletions of photos, pushes, erasures,
  reconciliations. The other modules use only what `AtLeastOnce` promises: the
  handler of an event runs at least once, may run several times, may run twice
  at once, and is repeated until it succeeds or an operator is asked.
- An upload or a checkout holds the **shared activity lock** of its account
  while it makes something at a provider; the **erasure** takes the exclusive
  one. A lock belongs to a database session that can be lost while its holder
  goes on. `Leases` is the mechanism, `Erasure` and `Checkout` use it.
- The **continuation** of a match spends the credits that **rewards** earn;
  both write `continuation_wallet` under the account's lock. **Subscriptions**
  decide who is limited at all.
- **Rights** ends where the **erasure** begins (`accept_erasure`), and
  **registration** where **sessions** begin (`create`).
- A ban, a deletion or a logout closes **sessions**, and with them the devices
  that receive **pushes** and the open **streams**.

### What is hard to get right

`PROJECT.json` lists the hazards line by line. They are of six kinds:

1. a claim, lease or lock that is lost while its holder goes on (outbox,
   erasure, checkout, maintenance);
2. two stores without a common transaction (PostgreSQL with S3, with Stripe,
   with the SMS provider, with a cache), and an answer lost between them;
3. events and callbacks late, repeated, out of order, or with the time
   resolution of a second (webhooks, SMS callbacks, rewards, store answers);
4. a client that repeats a request because it got no answer (rotation of
   tokens, uploads, checkouts, continuations);
5. a right, quota or version read in one step and used in a later one
   (administrators, reviewers, swipes against blocks, week boundaries);
6. maintenance deciding by age or by a short batch that something is over.

## 2. How the modules are built

`AtLeastOnce` is an abstract specification: a set of debts (requests accepted
and not honoured), and the only ways in which a debt may disappear. `Outbox`
implements it (`ImplementsContract`, an `INSTANCE` with a refinement mapping).

An operator whose comment begins with *Mutant* is a plausible mistake in the
definition that follows it. It is used nowhere: substituting it must break a
property, which shows that the property depends on that code.

Choices a reader should know:

- **`Outbox`**: a row's timestamps are reduced to whether its current delay is
  over (`elapsed`). History variables: `owed` (accepted and not honoured) and
  `current` (the handler run began after the last request). Faults: a process
  dies, a statement fails with or without having been applied, a handler
  outlasts its lock.
- **`Photos`**: ages are counted up to the limits the code compares them with.
  `UPLOAD < STALE`: the timeouts of the codec (35 s) and the storage (10 s) are
  below the 30 minutes after which maintenance takes an upload for abandoned.
- **`Otp`**: the guard `Prompt` assumes that a handler does not stall between
  two statements for a whole code lifetime; without it a request whose row was
  already purged would be sent a second time.
- **`Sessions`**: the application is modelled as far as the protocol needs it:
  it stores its attempt before sending it, may lose the answer and may send
  again; a `Varied` one may also send tokens without a key or be restored from
  a backup.
- **`Checkout`**: the API's and Stripe's clocks agree on `expires_at`; a
  request to Stripe is not in flight for 23 hours; a key is used with one
  billing period; the account is not being erased (that is `Erasure`). When the
  reconciliation finds no customer of an overdue creation it clears the
  creation, and the same key may begin another one. One reconciliation of a
  customer runs at a time: its calls time out after 10 seconds, its lock after
  5 minutes.
- **`Erasure`**: `made` is what a provider has made under an idempotency key,
  `known` the customers whose identifier the row has. A step that refuses
  although nothing failed counts in `refusals`: one finds a customer's creation
  unknown for 23 hours (`reconciliation_required`), the other finds photos or
  swipes left (`anonymize`). Stripe is the configured provider, and the
  reconciliation of creations does not come to the erasure's help meanwhile.
- **`Feed`**: a position is a distance with an id, as in the cursor. Places are
  points on a line, so that a move of the viewer changes every distance at once.
- **`Profiles`**: a change of consent and another write of the member are in
  flight together, each past its guard.
- **`Subscriptions`**: events are stamped with whole seconds while the API's
  clock has two instants a second; the numbers of changes are history.
- **`Continuation`**: what moves under the locks of a decision is the clock,
  which the code reads three times.
- **`Listings`**: one protocol for ten lists; `kind` says which list a
  behaviour walks, with its order, its filter and its cursor's precision.

## 3. Runs

An `MC` module puts together components that belong to one subject. Where the
components share no state that a property speaks of, a behaviour follows one of
them (`focus`) and the others stay in an initial state; the comment of each
`MC` module says why nothing is lost. Components about which something is
proved are extended, not instantiated, by both the `MC` module and the proof
module, so that a run and a theorem speak of the same definition. Their names
are disjoint for that reason: `ConversationSpec`, `RewardSpec`, `JobSpec`,
`RegistrationSpec`, and `lock_conversation` for `lock_available_match` or
`account_open` for `lock_active_account`, which other modules define as well.

| run | module | properties | what it shows |
|---|---|---|---|
| `outbox` | `MCOutbox` | `LiveIffOwed`, `NewestRunShown`, `ImplementsContract`, `RequestsSettle`, `Converges` | No accepted request is lost and nothing is queued without one, the outbox implements its contract, every request is honoured or becomes a dead letter; the row of a maintenance job shows its newest pass; the copy of a subscription converges to Stripe's state although webhooks are late, repeated or lost. |
| `photos` | `MCPhotos` | `ReadyHasObject`, `ObjectsTracked`, `PhotosSettle`, `PushesSettle` | Rows and objects agree although they share no transaction, uploads and deletions end; a push is sent or given up, and only to a device and for a fact that are still right. |
| `continuation` | `MCContinuation` | `CreditsHold`, `ChargedTogether`, `ReservationHonoured`, `RewardsHold`, `ShownAsStored`, `SendNeedsAccess`, `ClosedIsPurged`, `NoGap` | Limits hold with reservations counted, both participants pay or neither, a good reservation is not withdrawn; a proof pays once and finds its slot; the list shows a conversation as it is stored, nothing is sent without access, a closed match is purged; what a stream has handed over has no gap. |
| `privacy` | `MCPrivacy` | `NothingSurvives`, `ErasureCompletes`, `RightsHold`, `ExportIsSnapshot` | A completed erasure leaves nothing here or at a provider; it completes, or is a dead letter after as many failed or refused attempts as it has; a deleted account keeps the workflow that erases it, and the codes tried stay within the attempts; an export shows one instant, each row once. |
| `billing` | `MCBilling` | `PayOnce`, `CustomersTracked`, `PurchasesHold` | An account is never charged twice and no customer at Stripe is lost; an older answer of a store never replaces a newer one, and an acknowledgement that is due is owed by an event. |
| `sessions` | `MCSessions` | `SessionsHold`, `NotStranded`, `RegistrationHolds`, `ConsentBacksData`, `DecisionOnSeen` | A session never forks, is revoked as replayed only when a token was presented again, and is dead once revoked; a careful application is never sent back to sign-in by lost or late messages; only active accounts get sessions; data stands only with its consent; a decision applies to the text its reviewer saw. |
| `otp` | `MCOtp` | `OneSms`, `NewestWins`, `SmsPermitsHold`, `LeasesHold` | One SMS per request and the newest code wins; the four budgets hold and decisions apply to what their author had read, unless the entry was purged in between; a lease excludes what it must and leaves no lock in the pool. |
| `discovery` | `MCDiscovery` | `BlockedStaysClosed`, `MutualLikeMatched`, `PagesComplete`, `EditsAreSeen`, `AdminAccessHolds`, `WalkComplete`, `PowersHold` | Mutual likes match and a block leaves no open match; the pages of the feed go outwards and list whoever stays and does not move once; an edit that was answered is seen; a revoked key has no session; a role or a grant is changed by a superadmin of that moment, a ban reaches only a target that its request's role may ban; a conversation is read for a report. |
| `checkout_deleted` | `Checkout` | `NewAttemptPossible` | **Violated**, see section 6. |
| `erasure_swipes` | `MCErasure` | `SwipesGone` | **Violated**, see section 6. |
| `registration_tombstone` | `MCSessions` | `TombstoneRejectsCreation` | **Violated**, see section 6. |
| `listings_millis` | `Listings` | `WalkComplete` | **Violated**, see section 6. |

### Bounds

Every bound is a constant marked *bound* in its module, or the size of a set.
They are chosen so that the interesting case happens and something can still
follow it: two workers, handlers, requests or verifiers so that one overtakes
the other; a fault so that a claim is lost, two where the recovery itself can
fail; two keys, intents or purchases so that they compete; clocks that cross
the window, week or lifetime concerned once and go on after it.

- `outbox`: an event of each of four kinds, in three casts; two workers, two
  attempts, one fault, two requests. Two passes by two processes; two
  subscriptions, three events, one webhook request at a time beside the
  reconciliation.
- `photos`: two photos, one key, one remover, `UPLOAD` 1 and `STALE` 2; two
  devices, each with a session of the user (`BothMine`), three kinds of
  notification, one fault, two changes.
- `continuation`: three users, two matches that share one of them; a window of
  2 in a week of 3 (the week ends inside it), one free credit, a limit of two;
  a match begins by `LastMatch`, so that its deadlines fall within the clock.
  Two intents and two transactions of one owner, over one week's end. Two
  texts, one key, two messages, two reveals, in four scenarios (`MCScenarios`:
  reading; ending, blocking and purging; revealing; reporting), with one
  message where messages are only purged (`OneToPurge`). Buffers of two events
  and three events sent.
- `privacy`: one account with a swipe, and in two casts the customer or two
  photos that are being made, one after the other (`InTurn`); batches of one, two workers, two faults. A batch of one photo
  counts short when maintenance takes the photo first, so that an erasure can
  reach the step `postgres` with a photo left; and a creation can grow overdue.
  Both end as dead letters without a fault. A customer made by a request whose
  lock session was lost is in bounds too.
- `billing`: a monthly and an annual key, two requests at once, two calls, two
  faults; two purchases, the second replacing the first, two verifiers.
- `sessions`: a careful family and a `Varied` one, three tokens, one device,
  three messages in flight; two logins, three accounts of one phone; two texts
  and one reviewer.
- `otp`: two requests, two handlers that begin while their request is held
  (`ReadsHeld`; otherwise they only finish); four permits against budgets 1, 2,
  2 and 3; two accounts, tasks and connections, one broken session.
- `discovery`: one pair; four candidates at three distances, one change or move
  of one of them or of the viewer, pages of one, batches of two and a budget of
  two batches, so that a page is cut from two batches and a scan can end without
  a page (batch sizes do not get to double); two wordings; two
  keys and sessions; three people; three rows of eight kinds of list, two
  microseconds to a millisecond. The two other kinds are `listings_millis`.

The limits of the code become small numbers that keep their order
(`UPLOAD < STALE`, `COOLDOWN <= TTL`, `LIFETIME < GRACE`, `HOUR <= DAY`).

Symmetry is used for tokens (`sessions`), requests and workers (`otp`),
requests and verifiers (`billing`) and the pair (`discovery`), which no
definition orders or chooses from, and in no run that checks liveness. The
configurations say `CHECK_DEADLOCK FALSE` because these systems come to rest
when all work is done or the bounds are reached; `listings_millis` is checked
for deadlock.

### Fairness

- `Outbox`: a supervisor restarts workers, the loop polls, handlers return
  because their clients have timeouts, delays run out, and rows are claimed
  oldest first (a given row that stays claimable is claimed).
- `Erasure`: workers poll and finish, started uploads and checkouts end.
  `ErasureCompletes` cannot promise more than the code: an erasure whose every
  attempt is refused becomes a dead letter, and nothing makes the operator retry
  it. It does say that nothing else stops one: being busy costs no attempt.
- `Photos`: maintenance runs on a timer and its calls may fail any finite
  number of times (strong fairness of each step of a remover); uploads end by
  their timeouts; time passes.
- `Push`: the outbox repeats a job until it is done.
- `Conversation`: maintenance runs on a timer and time passes.
- `Subscriptions`: only the three steps of the reconciliation are fair; webhooks
  may all be lost.
- `Checkout` (`LiveSpec`, for `checkout_deleted`): requests end, time passes,
  jobs and webhooks are carried out.

Nothing makes a user, an operator or a fault act.

## 4. Proofs

Theorems hold for any sets of events, workers, photos, users, matches, tokens
and requests and for any bounds that satisfy the named assumptions. TLC
evaluates those assumptions in the runs, whose modules extend the same
components. Each inductive invariant was model-checked before it was proved.

**`OutboxProof`** proves `OutboxTypes`, `LocksMatch`, `PermanentFinal`,
`ClaimsBounded`, `OwnersRunCurrent`, `RequestsKept` (`LiveIffOwed`) and
`OutboxImplementsContract`, from `WorkerAssumption`, `TypeAssumption` and
`BoundAssumption`. `LiveIffOwed` is not inductive: `complete` may remove a debt
only if the completing worker's run began after the last request. That is
`OwnerRunIsCurrent`, which rests on the lock owner being there exactly while
the row is processed (`LockMatchesStatus`). `AttemptsWithinFaults` needs
`AttemptsAccount`: a row that is or can become claimable has an attempt to
spare, because every way of getting there without `reschedule` is a counted
fault. The refinement takes each action in turn and shows which step of the
contract it is. `RowShowsNewest` (`NewestRunShown`) is about `Jobs`, from
`RunsAssumption`: a pass that still runs has reported nothing, so the row, which
agrees with the passes recorded (`RowAgrees`), only moves forward.
`RewardsArePaidOnce` (`RewardsHold`) is about `Rewards`, from
`RewardsAssumption`: an intent that may still be credited is the only one of its
owner, and there is room for its credit (`Held`); a transaction belongs to one
intent.

**`MembersProof`** proves `PhotoTypes`, `NoOrphanObject` (`ObjectsTracked`),
`ShownPhotosExist` (`ReadyHasObject`) and the action property `NoResurrection`,
from `PhotoAssumption` and `TimeAssumption`. The invariant adds that an upload
which may still write its object has a processing row too young for anyone to
take (`Young`, where `UPLOAD < STALE` is used), and that a remover works only
on photos that can no longer be shown (`Doomed`). It also proves
`ShownMatchIsStored` (`ShownAsStored`) and the action property
`SendingNeedsAccess` (`SendNeedsAccess`) of `Conversation`, from
`ConversationAssumption`: in an open match the messages are numbered in their
order (`Numbered`) and what a reader has listed is an initial part of them
(`KnownFirst`), so a boundary they have listed covers nothing they have not;
a match behind a block is not open, so a command that looked for blocks before
it waited for the row finds the row closed.

**`OtpProof`** proves `OtpTypes`, `AtMostOneSms`, `AtMostOneUsable`,
`NewestCodeWins`, from `OtpAssumption` and `SpanAssumption`. Attempt numbers
order the rows of the phone totally and later rows expire later (`Ordered`),
activating a code spends the older ones (`Spent`), and the call of a request
belongs to the worker that inserted its row, which outlives the request
(`Ledgered`). `LeasesGuard` (`LeasesHold`) is about `Leases`: what a task
believes it holds, a live session of its own holds, unless the session broke
and the next probe will say so. `PermitsAreSound` (`SmsPermitsHold`) is about
`SmsSafety`, from `BudgetAssumption`: a permit young enough to count still has
its row (`PermitsStored`), so that a budget counted over the rows holds of all
permits ever given; and a version names one state of what an administrator read
as long as the entry is not purged (a new one counts from the first version).

**`CheckoutProof`** proves `NoCustomerLost` (`CustomersTracked`) and
`ChargedOnce` (`PayOnce`), from `KeysAssumption` and `BoundsAssumption`.
Whatever names a customer names one that was made (`Known`), and a living
customer was made by an attempt whose row says that the creation began
(`Tracked`, which also speaks of requests about to ask for one and of what the
reconciliation holds). An attempt is armed while Stripe may open or let
somebody pay the session of its stored request; at most one attempt is live
(`OneLive`), its customer is the linked one (`LinkedAlive`), and its request
looked for a subscription after it became the only one (`OnePaid`).
`PurchasesAreCurrent` (`PurchasesHold`) is about `StorePurchases`, from
`PurchaseAssumption`: the row carries the time at which its verification began,
and whatever the store wants acknowledged has an event that is not done.

**`ErasureProof`** proves `ErasureIsComplete` (`NothingSurvives`), from
`ItemAssumption`, `NobodyAssumption` and `BoundAssumption`. Once a worker has
held the exclusive lock of an account that is no longer live, nothing of it is
being made, except by an activity whose lock session was lost (`Quiet`); from
then on its rows only become fewer, which is why a worker may trust what it
selected earlier (`WorkerOK`). A worker may still make a customer, when it asks
Stripe again for one it does not know; that one has its row, or was made before
and is not made twice (`Ledger`). `RightsAreKept` (`RightsHold`) is about `Rights`
and `WebAccess`, from `RequestAssumption` and `WebAssumption`: the workflow of
an account belongs to a request that was created, so no other request or review
touches it (`DeskOK`); a visit about to examine a code has used up an attempt
(`PageOK`).

**`DiscoveryProof`** proves `BlocksHold` (`BlockedStaysClosed`), `LikesMeet`
(`MutualLikeMatched`) and `EditsReachPages` (`EditsAreSeen`), under the
hypotheses that the pair has two users and that the null value is nobody. A
creation that has found no block still holds the pair's lock; of two likes, the
later one to be recorded finds the other, because each records before it looks;
a snapshot loaded before an edit is dropped by the invalidation that precedes
the edit's answer. `AdminAccessIsSound` (`AdminAccessHolds`) is about
`AdminIdentity`, from `IdentityAssumption`: a challenge is consumed in one
statement and from then on one request alone may exchange it (`CeremoniesOK`);
the session that asks for a revocation never changes its key, so sparing it
spares no session of the revoked key (`KeysOK`).

**`ContinuationProof`** proves `ContinuationInvariant`, `CreditsAreKept`
(`CreditsHold`), `BothOrNone` (`ChargedTogether`) and the action property
`GoodReservationsStand` (`ReservationHonoured`), from `ContinuationAssumption`.
The counters are cardinalities of sets of reservations, so the lemmas say how
these sets change with one reservation, one debit, one ended match. The limits
survive a clock that moves inside a decision because nothing is counted in a
week to come (`NotAhead`) and a match has reservations only once it waits for
them (`Unreserved`).

**`SessionsProof`** proves `SessionInvariant`, `SessionsAreSound`
(`SessionsHold`) and the action property `NobodyStranded` (`NotStranded`), from
`SessionAssumption`. A session does not fork because a token is spent before it
has a child (`Lineage`) and a receipt names the one replacement ever given for
its token (`Receipts`). A careful application is not stranded because the child
its receipt names cannot have been presented by anyone else (`Recoverable`) and
lives as long as its family (`InStep`). `DataHasConsent` (`ConsentBacksData`)
and `DecisionsFit` (`DecisionOnSeen`) are about `Profiles`: only a newest row
that grants has live rows (`NewestIsLive`); a case a reviewer saw at the version
it still has was seen with the text it still has. `RegistrationIsSound`
(`RegistrationHolds`) is about `Registration`, from `RegistrationAssumption`: an
identity a login has chosen and not yet inserted is held by no other login
(`LoginsOK`), and nobody is banned before they have an account.

Only model-checked:

- liveness, which the prover cannot do: `RequestsSettle`, `Converges`,
  `PhotosSettle`, `PushesSettle`, `ClosedIsPurged`, `ErasureCompletes`;
- what a walk over data computes, which needs an induction over sequences or
  over the size of a set: `PagesComplete`, `WalkComplete`, `ExportIsSnapshot`,
  `NoGap`;
- not proved so far: `PowersHold`.

`Subscriptions`, `Push`, `Stream`, `Feed`, `Exports`, `Listings` and
`Administration` therefore have no theorem.

## 5. What the models leave out

- Parts without state that operations share: the HTTP layer, configuration, the
  Redis client, cryptography, the image codec, legal texts, commands and tools.
  Rate limits only refuse what may already be refused. `PROJECT.json` gives the
  reason for each.
- Values that no property tells apart: codes, prices, languages, the wording of
  texts. Hashes and ciphers are injective.
- Refusals without effect (malformed requests, a provider that is switched
  off), and reads that only feed a page.
- `Erasure`: the anonymisation of the account row itself (`fct_anonymize_user`)
  is the last transaction, as a whole. `Checkout`: the billing portal and the
  purge of old attempts. `Subscriptions`: prices and periods; `resolve_user`
  always finds the linked account. `Feed`: eligibility is one flag, apart from
  the distance. `Otp`: the
  SMS budget and the blocklist, which only refuse; they are `SmsSafety`.
- Failures that the code excludes by timeouts are excluded by named
  assumptions (`TimeAssumption`, `Prompt`, `grow_overdue`), not by silence.

## 6. Where the code and its description disagree

**Swipes left behind by an erasure** (`erasure_swipes`,
`privacy/erasure/pg.rs:353`). A batch of swipes is taken for the last one when
it deleted fewer rows than the batch size. Under READ COMMITTED a concurrent
deletion (the other party's erasure, or retention) makes a full batch count
short. The account then reaches the step `postgres` with swipes left, whose
transaction refuses and from which no step leads back, until the event is a
dead letter. `tests/account_erasure_postgres.rs:416` expects none at that step.
Batches of photos are counted in the same way (`media/pg.rs:194`); the run
`privacy` reaches that case.

**No checkout after a customer was deleted at Stripe** (`checkout_deleted`,
`billing/reconcile/pg.rs:463`). The attempt that created the customer keeps its
identifier; the reconciliation of creations links it again without asking
Stripe, the reconciliation of the subscription unlinks it, and the two go on
for ever, while every new checkout is refused or uses a customer that does not
exist. `docs/billing.md:96` says that a canceled subscription permits a new
attempt.

**A remembered phone gets a new account** (`registration_tombstone`,
`identity/mobile/account.rs:95`). `create_impl` reads the tombstones in one
statement and inserts the account in the next; an anonymisation that writes the
tombstone and frees the phone hash can commit between the two. The review path
checks again (`identity/mobile/pg/review.rs:60` says why), and
`tests/otp_sweego_contract.rs:1185` states the rule for the ordinary path.

**Rows that no page lists** (`listings_millis`, `outbox/admin/service.rs:178`,
`identity/admin/domain.rs:160`). Two lists write the position of a page's last
row to the millisecond while rows are ordered by microseconds, so that the next
page begins below the rows of the same millisecond. `docs/http-contract.md:97`
promises the whole collection; the other cursors keep the microseconds.

Further observations without a run of their own. In `Checkout`, a request whose
`save_customer` fails and that loses its lease between `mark_checkout_failed`
and the deletion of the customer can delete a customer that a second request
with the same key has meanwhile linked. In `Administration`, `set_ban` and the
audited reads go by the role their request was authenticated with, while
`set_role` and `set_premium_grant` read the author again; no document says which
is meant. In `SmsSafety`, an entry that was purged and created anew begins with
the first version again. In `Feed`, a candidate who moves outwards during a walk
is listed again, as `docs/http-contract.md:99` tells clients to expect.
