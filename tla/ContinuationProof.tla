--------------------------- MODULE ContinuationProof ---------------------------
(***************************************************************************)
(* What a continuation costs, for any number of matches, users and weeks.  *)
(*                                                                         *)
(* The limits are kept although the clock moves inside a decision: nothing *)
(* is counted in a week to come (NotAhead), so a week begins with the      *)
(* reservations that outlived the last one and nothing else; and a match   *)
(* has reservations only once it waits for them (Unreserved), so opening   *)
(* the second window late brings none with it.                             *)
(***************************************************************************)
EXTENDS Continuation, FiniteSetTheorems, TLAPS

W(t) == start_of_utc_week(t)

Statuses == {"none", "active", "awaiting_continuation", "confirmed", "expired", "ended"}
Sources  == {"none", "free", "advertising", "premium"}

Rows ==
    /\ status \in [Matches -> Statuses]
    /\ expires \in [Matches -> Nat]
    /\ source \in [Seats -> Sources]
    /\ week \in [Seats -> Nat]
    /\ used \in [Users \X Weeks -> Nat]
    /\ freeUsed \in [Users \X Weeks -> Nat]
    /\ credits \in [Users -> Nat]
    /\ walletWeek \in [Users -> Nat]
    /\ charges \in [Seats -> Nat]
    /\ clock \in 0..MaxClock

NotAhead ==
    \A u \in Users :
      /\ \A m \in Matches : week[<<m, u>>] <= W(clock)
      /\ \A v \in Weeks : v > W(clock) => used[<<u, v>>] = 0

Unreserved ==
    \A m \in Matches : status[m] \in {"none", "active"} =>
      \A u \in Users : source[<<m, u>>] = "none"

\* CreditsHold for one user, at a time t that has come or is to come.
LimitAt(u, t) ==
    used[<<u, W(t)>>] + Cardinality(Reserved(u, W(t), t)) <= FREE_WEEKLY_CONTINUATION_LIMIT
FreeAt(u, v, t) ==
    freeUsed[<<u, v>>] + Cardinality(FreeReserved(u, v, t)) <= FREE_WEEKLY_CREDITS
AdsAt(u, t) ==
    AdReserved(u, W(t), t) # {} =>
        walletWeek[u] = W(t) /\ Cardinality(AdReserved(u, W(t), t)) <= credits[u]
WithinAt(u, t) == LimitAt(u, t) /\ (\A v \in Weeks : FreeAt(u, v, t)) /\ AdsAt(u, t)

IInv == Rows /\ NotAhead /\ Unreserved /\ CreditsHold /\ ChargedTogether

-----------------------------------------------------------------------------
(* Weeks, seats and counting. *)

\* A later time is in the same week or a later one.
LEMMA Weekly == ASSUME NEW s \in Nat, NEW t \in Nat, s <= t PROVE /\ W(s) \in Nat
                                                                  /\ W(s) <= W(t)
<1> USE ContinuationAssumption
<1>1. /\ W(s) \in Nat /\ W(t) \in Nat
      /\ W(s) * WEEK <= s /\ t < W(t) * WEEK + WEEK
  BY DEF W, start_of_utc_week
<1>2. SUFFICES ASSUME W(t) + 1 <= W(s) PROVE FALSE
  BY <1>1
<1>3. (W(t) + 1) * WEEK <= W(s) * WEEK
  BY <1>1, <1>2
<1> QED
  BY <1>1, <1>3

\* The weeks up to the horizon are the ones with rows.
LEMMA WeekInRange == ASSUME NEW t \in 0..MaxClock PROVE W(t) \in Weeks
BY Weekly, ContinuationAssumption DEF Weeks, W

LEMMA LowerWeek == ASSUME NEW x \in Nat, NEW y \in Weeks, x <= y PROVE x \in Weeks
<1>1. start_of_utc_week(MaxClock) \in Nat
  BY Weekly, ContinuationAssumption DEF W
<1> QED
  BY <1>1 DEF Weeks

\* Two participants, each the partner of the other.
LEMMA Partners ==
    ASSUME NEW m \in Matches, NEW u \in Participants[m]
    PROVE  /\ u \in Users /\ Partner(m, u) \in Participants[m] /\ Partner(m, u) # u
           /\ \A p \in Participants[m] : p = u \/ p = Partner(m, u)
<1>1. PICK x \in Users, y \in Users : x < y /\ Participants[m] = {x, y}
  BY ContinuationAssumption, Zenon
<1>2. x # y
  BY <1>1, ContinuationAssumption
<1>3. \E v \in Participants[m] : v # u
  BY <1>1, <1>2, Zenon
<1>4. Partner(m, u) \in Participants[m] /\ Partner(m, u) # u
  BY <1>3, Zenon DEF Partner
<1> QED
  BY <1>1, <1>4, Zenon

\* Fewer matches count less; one more counts one more; one less, one less.
LEMMA Fewer ==
    ASSUME NEW A \in SUBSET Matches, NEW B \in SUBSET A
    PROVE  Cardinality(A) \in Nat /\ Cardinality(B) \in Nat /\ Cardinality(B) <= Cardinality(A)
BY ContinuationAssumption, FS_Subset, FS_CardinalityType, Zenon

LEMMA FewerStill ==
    ASSUME NEW a \in Nat, NEW b \in Nat, NEW c \in Nat, a <= b, b <= c
    PROVE  a <= c
OBVIOUS

LEMMA OneMore ==
    ASSUME NEW A \in SUBSET Matches, NEW m \in Matches, NEW B \in SUBSET (A \cup {m})
    PROVE  Cardinality(A) \in Nat /\ Cardinality(B) \in Nat /\ Cardinality(B) <= Cardinality(A) + 1
<1>1. IsFiniteSet(A)
  BY ContinuationAssumption, FS_Subset, Zenon
<1>2. Cardinality(A) \in Nat
  BY <1>1, FS_CardinalityType, Zenon
<1>3. Cardinality(A \cup {m}) = IF m \in A THEN Cardinality(A) ELSE Cardinality(A) + 1
  BY <1>1, FS_AddElement, Zenon
<1>4. Cardinality(B) \in Nat /\ Cardinality(B) <= Cardinality(A \cup {m})
  BY Fewer, Zenon
<1> QED
  BY <1>2, <1>3, <1>4

LEMMA OneLess ==
    ASSUME NEW A \in SUBSET Matches, NEW m \in A, NEW B \in SUBSET (A \ {m})
    PROVE  Cardinality(A) \in Nat /\ Cardinality(B) \in Nat /\ Cardinality(B) + 1 <= Cardinality(A)
<1>1. IsFiniteSet(A)
  BY ContinuationAssumption, FS_Subset, Zenon
<1>2. Cardinality(A \ {m}) = Cardinality(A) - 1 /\ Cardinality(A) \in Nat
  BY <1>1, FS_RemoveElement, FS_CardinalityType, Zenon
<1> QED
  BY <1>2, Fewer

\* CreditsHold says it of every user at the present time.
LEMMA Within == CreditsHold <=> \A u \in Users : WithinAt(u, clock)
BY Zenon DEF CreditsHold, QuotasHold, WalletBacksReservations, WithinAt, LimitAt, FreeAt, AdsAt, W

LEMMA WithinLater == CreditsHold' <=> \A u \in Users : WithinAt(u, clock)'
BY Zenon DEF CreditsHold, QuotasHold, WalletBacksReservations, WithinAt, LimitAt, FreeAt, AdsAt, W

-----------------------------------------------------------------------------
(* Time passes over reservations. *)

\* What counts later counts now: deadlines pass, and no reservation is of a
\* week to come.
LEMMA CountsBefore ==
    ASSUME Rows, NotAhead, NEW u \in Users, NEW s \in clock..MaxClock, NEW t \in s..MaxClock
    PROVE  /\ Reserved(u, W(t), t) \subseteq Reserved(u, W(s), s)
           /\ AdReserved(u, W(t), t) \subseteq AdReserved(u, W(s), s)
           /\ AdReserved(u, W(t), t) # {} => W(t) = W(s)
           /\ \A v \in Weeks : FreeReserved(u, v, t) \subseteq FreeReserved(u, v, s)
<1>1. clock \in Nat /\ s \in Nat /\ t \in Nat /\ clock <= s /\ s <= t
  BY ContinuationAssumption DEF Rows
<1>2. /\ W(clock) \in Nat /\ W(s) \in Nat /\ W(t) \in Nat
      /\ W(clock) <= W(s) /\ W(s) <= W(t)
  BY <1>1, Weekly
<1>3. ASSUME NEW m \in Matches, Waiting(m, t) PROVE Waiting(m, s)
  BY <1>1, <1>3 DEF Waiting, Rows
<1>4. ASSUME NEW m \in Matches, week[<<m, u>>] = W(t) PROVE W(t) = W(s)
  BY <1>2, <1>4 DEF NotAhead
<1> QED
  BY <1>3, <1>4, Zenon DEF Reserved, AdReserved, FreeReserved

LEMMA CountsNow ==
    ASSUME Rows, NotAhead, NEW u \in Users, NEW t \in clock..MaxClock
    PROVE  /\ Reserved(u, W(t), t) \subseteq Reserved(u, W(clock), clock)
           /\ AdReserved(u, W(t), t) \subseteq AdReserved(u, W(clock), clock)
           /\ AdReserved(u, W(t), t) # {} => W(t) = W(clock)
           /\ \A v \in Weeks : FreeReserved(u, v, t) \subseteq FreeReserved(u, v, clock)
<1>1. clock \in clock..MaxClock
  BY ContinuationAssumption DEF Rows
<1> QED
  BY <1>1, CountsBefore, Zenon

LEMMA Later ==
    ASSUME Rows, NotAhead, NEW u \in Users, WithinAt(u, clock), NEW t \in clock..MaxClock
    PROVE  WithinAt(u, t)
<1> DEFINE A == Reserved(u, W(clock), clock)
           B == Reserved(u, W(t), t)
<1>1. /\ clock \in 0..MaxClock /\ t \in 0..MaxClock /\ clock \in Nat /\ t \in Nat /\ clock <= t
      /\ FREE_WEEKLY_CONTINUATION_LIMIT \in Nat /\ FREE_WEEKLY_CREDITS \in Nat
  BY ContinuationAssumption DEF Rows
<1>2. W(clock) \in Nat /\ W(t) \in Nat /\ W(clock) <= W(t) /\ W(t) \in Weeks /\ W(clock) \in Weeks
  BY <1>1, Weekly, WeekInRange
<1>3. A \subseteq Matches
  BY Zenon DEF Reserved, AdReserved
<1>4. B \subseteq A
  BY CountsNow, Zenon
<1>5. Cardinality(A) \in Nat /\ Cardinality(B) \in Nat /\ Cardinality(B) <= Cardinality(A)
  BY <1>3, <1>4, Fewer, Zenon
<1>6. LimitAt(u, t)
  <2>1. used[<<u, W(clock)>>] \in Nat /\ used[<<u, W(t)>>] \in Nat
    BY <1>2, Zenon DEF Rows
  <2>2. CASE W(t) = W(clock)
    BY <1>1, <1>5, <2>1, <2>2 DEF WithinAt, LimitAt
  <2>3. CASE W(t) > W(clock)
    <3>1. used[<<u, W(t)>>] = 0
      BY <1>2, <2>3, Zenon DEF NotAhead
    <3> QED
      BY <1>1, <1>5, <2>1, <3>1 DEF WithinAt, LimitAt
  <2> QED
    BY <1>2, <2>2, <2>3
<1>7. ASSUME NEW v \in Weeks PROVE FreeAt(u, v, t)
  <2>1. FreeReserved(u, v, t) \subseteq FreeReserved(u, v, clock) /\ FreeReserved(u, v, clock) \subseteq Matches
    BY CountsNow, Zenon DEF FreeReserved
  <2>2. /\ Cardinality(FreeReserved(u, v, clock)) \in Nat /\ Cardinality(FreeReserved(u, v, t)) \in Nat
        /\ Cardinality(FreeReserved(u, v, t)) <= Cardinality(FreeReserved(u, v, clock))
    BY <2>1, Fewer, Zenon
  <2>3. freeUsed[<<u, v>>] \in Nat
    BY Zenon DEF Rows
  <2> QED
    BY <1>1, <2>2, <2>3 DEF WithinAt, FreeAt
<1>8. AdsAt(u, t)
  <2> SUFFICES ASSUME AdReserved(u, W(t), t) # {}
               PROVE  walletWeek[u] = W(t) /\ Cardinality(AdReserved(u, W(t), t)) <= credits[u]
    BY Zenon DEF AdsAt
  <2>1. /\ W(t) = W(clock) /\ AdReserved(u, W(t), t) \subseteq AdReserved(u, W(clock), clock)
        /\ AdReserved(u, W(clock), clock) \subseteq Matches
    BY CountsNow, Zenon DEF AdReserved
  <2>2. /\ Cardinality(AdReserved(u, W(clock), clock)) \in Nat /\ Cardinality(AdReserved(u, W(t), t)) \in Nat
        /\ Cardinality(AdReserved(u, W(t), t)) <= Cardinality(AdReserved(u, W(clock), clock))
    BY <2>1, Fewer, Zenon
  <2>3. walletWeek[u] = W(clock) /\ Cardinality(AdReserved(u, W(clock), clock)) <= credits[u]
    BY <2>1, Zenon DEF WithinAt, AdsAt
  <2>4. credits[u] \in Nat
    BY Zenon DEF Rows
  <2> QED
    BY <2>1, <2>2, <2>3, <2>4
<1> QED
  BY <1>6, <1>7, <1>8, Zenon DEF WithinAt

-----------------------------------------------------------------------------
(* A user who gains no reservation by a step stays within the limits. *)

Shrinks(v, S) ==
    \A n \in S :
      /\ status'[n] = "awaiting_continuation" /\ expires'[n] > clock'
      /\ source'[<<n, v>>] \in {"free", "advertising"}
      => /\ Waiting(n, clock')
         /\ source'[<<n, v>>] = source[<<n, v>>] /\ week'[<<n, v>>] = week[<<n, v>>]

LEMMA Kept ==
    ASSUME Rows, Rows', NEW v \in Users, WithinAt(v, clock'), Shrinks(v, Matches),
           \A x \in Weeks : /\ used'[<<v, x>>] = used[<<v, x>>]
                            /\ freeUsed'[<<v, x>>] = freeUsed[<<v, x>>],
           walletWeek'[v] = walletWeek[v], credits[v] <= credits'[v]
    PROVE  WithinAt(v, clock)'
<1> DEFINE w == W(clock')
           A == Reserved(v, w, clock')
           B == Reserved(v, W(clock), clock)'
           G == AdReserved(v, w, clock')
           H == AdReserved(v, W(clock), clock)'
<1>1. /\ clock' \in 0..MaxClock /\ clock' \in Nat
      /\ FREE_WEEKLY_CONTINUATION_LIMIT \in Nat /\ FREE_WEEKLY_CREDITS \in Nat
  BY ContinuationAssumption DEF Rows
<1>2. w \in Weeks
  BY <1>1, WeekInRange, Zenon
<1>3. B \subseteq A /\ H \subseteq G /\ A \subseteq Matches /\ G \subseteq Matches
  BY Zenon DEF Reserved, AdReserved, Shrinks, Waiting, W, start_of_utc_week
<1>4. /\ Cardinality(A) \in Nat /\ Cardinality(B) \in Nat /\ Cardinality(B) <= Cardinality(A)
      /\ Cardinality(G) \in Nat /\ Cardinality(H) \in Nat /\ Cardinality(H) <= Cardinality(G)
  BY <1>3, Fewer, Zenon
<1>5. used[<<v, w>>] \in Nat /\ used'[<<v, w>>] = used[<<v, w>>]
  BY <1>2, Zenon DEF Rows
<1>6. credits[v] \in Nat /\ credits'[v] \in Nat
  BY Zenon DEF Rows
<1>7. used[<<v, w>>] + Cardinality(A) <= FREE_WEEKLY_CONTINUATION_LIMIT
  BY Zenon DEF WithinAt, LimitAt
<1>8. LimitAt(v, clock)'
  <2>1. used'[<<v, w>>] + Cardinality(B) <= FREE_WEEKLY_CONTINUATION_LIMIT
    BY <1>1, <1>4, <1>5, <1>7
  <2> QED
    BY <2>1, Zenon DEF LimitAt, W, start_of_utc_week
<1>9. ASSUME NEW x \in Weeks PROVE FreeAt(v, x, clock)'
  <2> DEFINE C == FreeReserved(v, x, clock')
             D == FreeReserved(v, x, clock)'
  <2>1. D \subseteq C /\ C \subseteq Matches
    BY Zenon DEF FreeReserved, Shrinks, Waiting
  <2>2. /\ Cardinality(C) \in Nat /\ Cardinality(D) \in Nat /\ Cardinality(D) <= Cardinality(C)
    BY <2>1, Fewer, Zenon
  <2>3. freeUsed[<<v, x>>] \in Nat /\ freeUsed'[<<v, x>>] = freeUsed[<<v, x>>]
    BY Zenon DEF Rows
  <2>4. freeUsed[<<v, x>>] + Cardinality(C) <= FREE_WEEKLY_CREDITS
    BY Zenon DEF WithinAt, FreeAt
  <2>5. freeUsed'[<<v, x>>] + Cardinality(D) <= FREE_WEEKLY_CREDITS
    BY <1>1, <2>2, <2>3, <2>4
  <2> QED
    BY <2>5, Zenon DEF FreeAt
<1>10. AdsAt(v, clock)'
  <2>1. SUFFICES ASSUME H # {} PROVE walletWeek'[v] = w /\ Cardinality(H) <= credits'[v]
    BY Zenon DEF AdsAt, W, start_of_utc_week
  <2>2. walletWeek[v] = w /\ Cardinality(G) <= credits[v]
    BY <1>3, <2>1, Zenon DEF WithinAt, AdsAt
  <2> QED
    BY <1>4, <1>6, <2>2
<1> QED
  BY <1>8, <1>9, <1>10, Zenon DEF WithinAt

-----------------------------------------------------------------------------
(* The steps that neither reserve nor debit. *)

Moves(n) ==
    \/ status'[n] = status[n]
    \/ status'[n] = "ended"
    \/ status[n] = "none" /\ status'[n] = "active"
    \/ status[n] = "active" /\ status'[n] \in {"awaiting_continuation", "expired"}
    \/ status[n] = "awaiting_continuation" /\ status'[n] = "expired"

\* A window that is open keeps its deadline.
Dated(n) ==
    status[n] = "awaiting_continuation" /\ status'[n] = "awaiting_continuation"
        => expires'[n] = expires[n]

\* A reservation stays as it is or goes.
SeatKept(x) ==
    \/ source'[x] = source[x] /\ week'[x] = week[x]
    \/ source'[x] = "none" /\ week'[x] = 0

LEMMA MovesKeepCharges ==
    ASSUME ChargedTogether, charges' = charges, \A n \in Matches : Moves(n)
    PROVE  ChargedTogether'
<1> SUFFICES ASSUME NEW m \in Matches, NEW u \in Participants[m]
             PROVE  /\ charges[<<m, u>>] \in {0, 1}
                    /\ charges[<<m, u>>] = charges[<<m, Partner(m, u)>>]
                    /\ status'[m] = "confirmed" => charges[<<m, u>>] = 1
                    /\ status'[m] \in {"none", "active", "awaiting_continuation", "expired"}
                          => charges[<<m, u>>] = 0
  BY ZenonT(90) DEF ChargedTogether, Partner
<1>1. /\ charges[<<m, u>>] \in {0, 1}
      /\ charges[<<m, u>>] = charges[<<m, Partner(m, u)>>]
      /\ status[m] = "confirmed" => charges[<<m, u>>] = 1
      /\ status[m] \in {"none", "active", "awaiting_continuation", "expired"}
            => charges[<<m, u>>] = 0
  BY Zenon DEF ChargedTogether
<1>2. Moves(m)
  BY Zenon
<1> QED
  BY <1>1, <1>2, Zenon DEF Moves

LEMMA SeatsNotAhead ==
    ASSUME Rows, Rows', NotAhead, clock <= clock',
           \A x \in Seats : week'[x] \in {week[x], 0, W(clock')},
           \A u \in Users : \A v \in Weeks : v > W(clock') => used'[<<u, v>>] = used[<<u, v>>]
    PROVE  NotAhead'
<1>1. W(clock) \in Nat /\ W(clock') \in Nat /\ W(clock) <= W(clock')
  BY Weekly DEF Rows
<1>2. ASSUME NEW u \in Users, NEW m \in Matches PROVE week'[<<m, u>>] <= W(clock')
  <2>1. week[<<m, u>>] <= W(clock) /\ week[<<m, u>>] \in Nat
    BY Zenon DEF NotAhead, Rows, Seats
  <2>2. week'[<<m, u>>] \in {week[<<m, u>>], 0, W(clock')}
    BY Zenon DEF Seats
  <2> QED
    BY <1>1, <2>1, <2>2
<1>3. ASSUME NEW u \in Users, NEW v \in Weeks, v > W(clock') PROVE used'[<<u, v>>] = 0
  <2>1. v \in Nat
    BY DEF Weeks
  <2>2. v > W(clock)
    BY <1>1, <1>3, <2>1
  <2> QED
    BY <1>3, <2>2, Zenon DEF NotAhead
<1> QED
  BY <1>2, <1>3, Zenon DEF NotAhead, W, start_of_utc_week

\* Nothing new counts on a match whose reservation is kept or goes.
LEMMA KeptShrinks ==
    ASSUME IInv, NEW v \in Users, NEW S \in SUBSET Matches,
           \A n \in S : Moves(n) /\ Dated(n) /\ SeatKept(<<n, v>>)
    PROVE  Shrinks(v, S)
<1> SUFFICES ASSUME NEW n \in S, status'[n] = "awaiting_continuation", expires'[n] > clock',
                    source'[<<n, v>>] \in {"free", "advertising"}
             PROVE  /\ Waiting(n, clock')
                    /\ source'[<<n, v>>] = source[<<n, v>>] /\ week'[<<n, v>>] = week[<<n, v>>]
  BY Zenon DEF Shrinks
<1>1. source'[<<n, v>>] = source[<<n, v>>] /\ week'[<<n, v>>] = week[<<n, v>>]
  BY Zenon DEF SeatKept
<1>2. status[n] = "awaiting_continuation"
  BY <1>1, Zenon DEF IInv, Unreserved, Moves
<1>3. expires'[n] = expires[n]
  BY <1>2, Zenon DEF Dated
<1> QED
  BY <1>1, <1>2, <1>3, Zenon DEF Waiting

LEMMA Quiet ==
    ASSUME IInv, Rows', clock <= clock',
           \A n \in Matches : Moves(n) /\ Dated(n),
           \A x \in Seats : SeatKept(x),
           used' = used, freeUsed' = freeUsed, credits' = credits, walletWeek' = walletWeek,
           charges' = charges
    PROVE  IInv'
<1>1. ChargedTogether'
  BY MovesKeepCharges, Zenon DEF IInv
<1>2. NotAhead'
  BY SeatsNotAhead, Zenon DEF IInv, SeatKept
<1>3. Unreserved'
  <2> SUFFICES ASSUME NEW n \in Matches, status'[n] \in {"none", "active"}, NEW v \in Users
               PROVE  source'[<<n, v>>] = "none"
    BY Zenon DEF Unreserved
  <2>1. status[n] \in {"none", "active"} /\ <<n, v>> \in Seats
    BY Zenon DEF Moves, Seats
  <2> QED
    BY <2>1, Zenon DEF IInv, Unreserved, SeatKept
<1>4. ASSUME NEW v \in Users PROVE WithinAt(v, clock)'
  <2>1. WithinAt(v, clock')
    <3>1. clock' \in clock..MaxClock
      BY ContinuationAssumption DEF IInv, Rows
    <3> QED
      BY <3>1, Within, Later, Zenon DEF IInv
  <2>2. Shrinks(v, Matches)
    <3>1. \A n \in Matches : <<n, v>> \in Seats
      BY Zenon DEF Seats
    <3> QED
      BY <3>1, KeptShrinks, Zenon
  <2>3. credits[v] <= credits'[v]
    BY DEF IInv, Rows
  <2> QED
    BY <2>1, <2>2, <2>3, Kept, Zenon DEF IInv
<1> QED
  BY <1>1, <1>2, <1>3, <1>4, WithinLater, Zenon DEF IInv

-----------------------------------------------------------------------------
(* The match a command finds when it locks it. *)

LEMMA FoundAt ==
    ASSUME Rows, NEW m \in Matches, NEW t \in Nat
    PROVE  /\ DeadlineAt(m, t) \in Nat
           /\ StatusAt(m, t) \in Statuses
           /\ status[m] # "active" => DeadlineAt(m, t) = expires[m]
           /\ \/ StatusAt(m, t) = status[m]
              \/ status[m] = "confirmed" /\ StatusAt(m, t) = "ended"
              \/ status[m] = "active" /\ StatusAt(m, t) \in {"awaiting_continuation", "expired"}
              \/ status[m] = "awaiting_continuation" /\ StatusAt(m, t) = "expired"
           /\ StatusAt(m, t) = "expired" /\ status[m] # "expired" => DeadlineAt(m, t) <= t
<1>1. /\ status[m] \in Statuses /\ expires[m] \in Nat /\ WINDOW \in Nat
  BY ContinuationAssumption, Zenon DEF Rows
<1>2. DeadlineAt(m, t) \in Nat /\ (status[m] # "active" => DeadlineAt(m, t) = expires[m])
  BY <1>1 DEF DeadlineAt
<1>3. \/ StatusAt(m, t) = status[m]
      \/ status[m] = "confirmed" /\ StatusAt(m, t) = "ended"
      \/ status[m] = "active" /\ StatusAt(m, t) = "awaiting_continuation"
      \/ /\ status[m] = "active" /\ StatusAt(m, t) = "expired"
         /\ expires[m] <= t /\ expires[m] + WINDOW <= t
      \/ /\ status[m] = "awaiting_continuation" /\ StatusAt(m, t) = "expired"
         /\ expires[m] <= t
  <2>1. CASE ~(expires[m] <= t)
    BY <2>1, Zenon DEF StatusAt
  <2>2. CASE expires[m] <= t /\ status[m] = "confirmed"
    BY <2>2, Zenon DEF StatusAt
  <2>3. CASE expires[m] <= t /\ status[m] = "awaiting_continuation"
    BY <2>3, Zenon DEF StatusAt
  <2>4. CASE expires[m] <= t /\ status[m] = "active" /\ expires[m] + WINDOW > t
    <3>1. ~(expires[m] + WINDOW <= t)
      BY <1>1, <2>4
    <3> QED
      BY <2>4, <3>1, Zenon DEF StatusAt
  <2>5. CASE expires[m] <= t /\ status[m] = "active" /\ expires[m] + WINDOW <= t
    <3>1. ~(expires[m] + WINDOW > t)
      BY <1>1, <2>5
    <3> QED
      BY <2>5, <3>1, Zenon DEF StatusAt
  <2>6. CASE status[m] \notin {"confirmed", "awaiting_continuation", "active"}
    BY <2>6, Zenon DEF StatusAt
  <2> QED
    BY <1>1, <2>1, <2>2, <2>3, <2>4, <2>5, <2>6
<1>4. StatusAt(m, t) = "expired" /\ status[m] # "expired" => DeadlineAt(m, t) <= t
  BY <1>1, <1>3, Zenon DEF DeadlineAt
<1> QED
  BY <1>1, <1>2, <1>3, <1>4, Zenon DEF Statuses

\* A decision is taken on a match whose second window is open or opens now;
\* with a reservation on it, it was open already.
LEMMA DecidingOpen ==
    ASSUME IInv, NEW m \in Matches, NEW u \in Users, Deciding(m, u)
    PROVE  /\ u \in Participants[m]
           /\ status[m] \in {"active", "awaiting_continuation"}
           /\ DeadlineAt(m, clock) \in Nat
           /\ \A v \in Users : source[<<m, v>>] # "none" =>
                status[m] = "awaiting_continuation" /\ DeadlineAt(m, clock) = expires[m]
<1>1. clock \in Nat
  BY ContinuationAssumption DEF IInv, Rows
<1>2. /\ DeadlineAt(m, clock) \in Nat
      /\ status[m] # "active" => DeadlineAt(m, clock) = expires[m]
      /\ status[m] \in {"active", "awaiting_continuation"}
  BY <1>1, FoundAt, Zenon DEF IInv, Deciding
<1>3. \A v \in Users : source[<<m, v>>] # "none" => status[m] # "active"
  BY Zenon DEF IInv, Unreserved
<1> QED
  BY <1>2, <1>3, Zenon DEF Deciding

\* What reserve finds for the source it gives.
LEMMA Reservable ==
    ASSUME Rows, NEW u \in Users, NEW t \in 0..MaxClock, reserve(u, t) # "none"
    PROVE  /\ reserve(u, t) \in {"premium", "free", "advertising"}
           /\ reserve(u, t) = "premium" <=> u \in premium
           /\ reserve(u, t) # "premium" =>
                used[<<u, W(t)>>] + Cardinality(Reserved(u, W(t), t)) + 1
                    <= FREE_WEEKLY_CONTINUATION_LIMIT
           /\ reserve(u, t) = "free" =>
                freeUsed[<<u, W(t)>>] + Cardinality(FreeReserved(u, W(t), t)) + 1
                    <= FREE_WEEKLY_CREDITS
           /\ reserve(u, t) = "advertising" =>
                walletWeek[u] = W(t) /\ Cardinality(AdReserved(u, W(t), t)) + 1 <= credits[u]
<1> DEFINE R == Reserved(u, W(t), t)
           F == FreeReserved(u, W(t), t)
           G == AdReserved(u, W(t), t)
<1>1. R \subseteq Matches /\ F \subseteq Matches /\ G \subseteq Matches
  BY Zenon DEF Reserved, FreeReserved, AdReserved
<1>2. Cardinality(R) \in Nat /\ Cardinality(F) \in Nat /\ Cardinality(G) \in Nat
  BY <1>1, Fewer, Zenon
<1>3. W(t) \in Weeks
  BY WeekInRange, Zenon
<1>4. /\ used[<<u, W(t)>>] \in Nat /\ freeUsed[<<u, W(t)>>] \in Nat /\ credits[u] \in Nat
      /\ FREE_WEEKLY_CONTINUATION_LIMIT \in Nat /\ FREE_WEEKLY_CREDITS \in Nat
  BY <1>3, ContinuationAssumption, Zenon DEF Rows
<1>5. /\ reserve(u, t) \in {"premium", "free", "advertising"}
      /\ reserve(u, t) = "premium" <=> u \in premium
      /\ reserve(u, t) # "premium" => ~(LimitRemaining(u, W(t), t) <= 0)
      /\ reserve(u, t) = "free" => FreeRemaining(u, W(t), t) > 0
      /\ reserve(u, t) = "advertising" => AdRemaining(u, W(t), t) > 0
  BY Zenon DEF reserve, W
<1>6. ~(LimitRemaining(u, W(t), t) <= 0) =>
        used[<<u, W(t)>>] + Cardinality(R) + 1 <= FREE_WEEKLY_CONTINUATION_LIMIT
  BY <1>2, <1>4 DEF LimitRemaining
<1>7. FreeRemaining(u, W(t), t) > 0 =>
        freeUsed[<<u, W(t)>>] + Cardinality(F) + 1 <= FREE_WEEKLY_CREDITS
  BY <1>2, <1>4 DEF FreeRemaining
<1>8. AdRemaining(u, W(t), t) > 0 => walletWeek[u] = W(t) /\ Cardinality(G) + 1 <= credits[u]
  BY <1>2, <1>4 DEF AdRemaining, Balance
<1> QED
  BY <1>5, <1>6, <1>7, <1>8, Zenon

-----------------------------------------------------------------------------
(* A decision that reserves. *)

LEMMA Gain ==
    ASSUME IInv, Rows', NEW m \in Matches, NEW u \in Users, NEW t \in clock..MaxClock,
           clock' = t, Deciding(m, u), Opened(m), reserve(u, t) # "none",
           source'[<<m, u>>] = reserve(u, t), week'[<<m, u>>] = W(t),
           \A x \in Seats \ {<<m, u>>} : SeatKept(x),
           used' = used, freeUsed' = freeUsed, credits' = credits, walletWeek' = walletWeek,
           charges' = charges
    PROVE  IInv'
<1>1. /\ t \in 0..MaxClock /\ t \in Nat /\ clock \in Nat /\ clock <= t
      /\ FREE_WEEKLY_CONTINUATION_LIMIT \in Nat /\ FREE_WEEKLY_CREDITS \in Nat
  BY ContinuationAssumption DEF IInv, Rows
<1>2. /\ status[m] \in {"active", "awaiting_continuation"}
      /\ status[m] # "active" => DeadlineAt(m, clock) = expires[m]
  BY <1>1, DecidingOpen, FoundAt, Zenon DEF IInv
<1>3. ASSUME NEW n \in Matches PROVE Moves(n) /\ Dated(n)
  BY <1>2, Zenon DEF Opened, Moves, Dated, IInv, Rows
<1>4. status'[m] = "awaiting_continuation"
  BY Zenon DEF Opened, IInv, Rows
<1>5. ChargedTogether'
  BY <1>3, MovesKeepCharges, Zenon DEF IInv
<1>6. NotAhead'
  BY <1>1, SeatsNotAhead, Zenon DEF IInv, SeatKept
<1>7. Unreserved'
  <2> SUFFICES ASSUME NEW n \in Matches, status'[n] \in {"none", "active"}, NEW v \in Users
               PROVE  source'[<<n, v>>] = "none"
    BY Zenon DEF Unreserved
  <2>1. n # m
    BY <1>4, Zenon
  <2>2. status[n] \in {"none", "active"} /\ <<n, v>> \in Seats \ {<<m, u>>}
    BY <1>3, <2>1, Zenon DEF Moves, Seats
  <2> QED
    BY <2>2, Zenon DEF IInv, Unreserved, SeatKept
<1>8. ASSUME NEW v \in Users PROVE WithinAt(v, t)
  BY Within, Later, Zenon DEF IInv
<1>9. ASSUME NEW v \in Users, v # u PROVE WithinAt(v, clock)'
  <2>1. \A n \in Matches : <<n, v>> \in Seats \ {<<m, u>>}
    BY <1>9, Zenon DEF Seats
  <2>2. Shrinks(v, Matches)
    BY <1>3, <2>1, KeptShrinks, Zenon
  <2>3. credits[v] <= credits'[v]
    BY DEF IInv, Rows
  <2> QED
    BY <1>8, <2>2, <2>3, Kept, Zenon DEF IInv
<1>10. WithinAt(u, clock)'
  <2> DEFINE w == W(t)
             A == Reserved(u, w, t)
             B == Reserved(u, W(clock), clock)'
             G == AdReserved(u, w, t)
             H == AdReserved(u, W(clock), clock)'
  <2>1. w \in Weeks
    BY <1>1, WeekInRange, Zenon
  <2>2. Shrinks(u, Matches \ {m})
    <3>1. \A n \in Matches \ {m} : <<n, u>> \in Seats \ {<<m, u>>}
      BY Zenon DEF Seats
    <3> QED
      BY <1>3, <3>1, KeptShrinks, Zenon
  <2>3. /\ A \subseteq Matches /\ G \subseteq Matches
        /\ B \subseteq A \cup {m} /\ H \subseteq G \cup {m}
        /\ reserve(u, t) = "premium" => B \subseteq A
        /\ reserve(u, t) # "advertising" => H \subseteq G
    BY <2>2, Zenon DEF Reserved, AdReserved, Shrinks, Waiting, W, start_of_utc_week
  <2>4. /\ Cardinality(A) \in Nat /\ Cardinality(B) \in Nat /\ Cardinality(B) <= Cardinality(A) + 1
        /\ Cardinality(G) \in Nat /\ Cardinality(H) \in Nat /\ Cardinality(H) <= Cardinality(G) + 1
    BY <2>3, OneMore, Zenon
  <2>5. /\ used[<<u, w>>] \in Nat /\ credits[u] \in Nat
    BY <2>1, Zenon DEF IInv, Rows
  <2>6. /\ reserve(u, t) \in {"premium", "free", "advertising"}
        /\ reserve(u, t) # "premium" =>
             used[<<u, w>>] + Cardinality(A) + 1 <= FREE_WEEKLY_CONTINUATION_LIMIT
        /\ reserve(u, t) = "free" =>
             freeUsed[<<u, w>>] + Cardinality(FreeReserved(u, w, t)) + 1 <= FREE_WEEKLY_CREDITS
        /\ reserve(u, t) = "advertising" =>
             walletWeek[u] = w /\ Cardinality(G) + 1 <= credits[u]
    BY <1>1, Reservable, Zenon DEF IInv
  <2>7. LimitAt(u, clock)'
    <3>1. used[<<u, w>>] + Cardinality(B) <= FREE_WEEKLY_CONTINUATION_LIMIT
      <4>1. CASE reserve(u, t) = "premium"
        <5>1. Cardinality(B) <= Cardinality(A)
          BY <2>3, <4>1, Fewer, Zenon
        <5>2. used[<<u, w>>] + Cardinality(A) <= FREE_WEEKLY_CONTINUATION_LIMIT
          BY <1>8, Zenon DEF WithinAt, LimitAt
        <5> QED
          BY <1>1, <2>4, <2>5, <5>1, <5>2
      <4>2. CASE reserve(u, t) # "premium"
        BY <1>1, <2>4, <2>5, <2>6, <4>2
      <4> QED
        BY <4>1, <4>2, Zenon
    <3> QED
      BY <3>1, Zenon DEF LimitAt, W, start_of_utc_week
  <2>8. ASSUME NEW x \in Weeks PROVE FreeAt(u, x, clock)'
    <3> DEFINE C == FreeReserved(u, x, t)
               D == FreeReserved(u, x, clock)'
    <3>1. freeUsed[<<u, x>>] \in Nat
      BY Zenon DEF IInv, Rows
    <3>2. freeUsed[<<u, x>>] + Cardinality(D) <= FREE_WEEKLY_CREDITS
      <4>1. CASE reserve(u, t) = "free" /\ x = w
        <5>1. C \subseteq Matches /\ D \subseteq C \cup {m}
          BY <2>2, Zenon DEF FreeReserved, Shrinks, Waiting
        <5>2. /\ Cardinality(C) \in Nat /\ Cardinality(D) \in Nat
              /\ Cardinality(D) <= Cardinality(C) + 1
          BY <5>1, OneMore, Zenon
        <5>3. freeUsed[<<u, x>>] + Cardinality(C) + 1 <= FREE_WEEKLY_CREDITS
          BY <2>6, <4>1, Zenon
        <5> QED
          BY <1>1, <3>1, <5>2, <5>3
      <4>2. CASE ~(reserve(u, t) = "free" /\ x = w)
        <5>1. C \subseteq Matches /\ D \subseteq C
          BY <2>2, <4>2, Zenon DEF FreeReserved, Shrinks, Waiting
        <5>2. /\ Cardinality(C) \in Nat /\ Cardinality(D) \in Nat
              /\ Cardinality(D) <= Cardinality(C)
          BY <5>1, Fewer, Zenon
        <5>3. freeUsed[<<u, x>>] + Cardinality(C) <= FREE_WEEKLY_CREDITS
          BY <1>8, Zenon DEF WithinAt, FreeAt
        <5> QED
          BY <1>1, <3>1, <5>2, <5>3
      <4> QED
        BY <4>1, <4>2, Zenon
    <3> QED
      BY <3>2, Zenon DEF FreeAt
  <2>9. AdsAt(u, clock)'
    <3>1. SUFFICES ASSUME H # {} PROVE walletWeek[u] = w /\ Cardinality(H) <= credits[u]
      BY Zenon DEF AdsAt, W, start_of_utc_week
    <3>2. CASE reserve(u, t) = "advertising"
      BY <2>4, <2>5, <2>6, <3>2
    <3>3. CASE reserve(u, t) # "advertising"
      <4>1. walletWeek[u] = w /\ Cardinality(G) <= credits[u]
        BY <1>8, <2>3, <3>1, <3>3, Zenon DEF WithinAt, AdsAt
      <4>2. Cardinality(H) <= Cardinality(G)
        BY <2>3, <3>3, Fewer, Zenon
      <4> QED
        BY <2>4, <2>5, <4>1, <4>2
    <3> QED
      BY <3>2, <3>3, Zenon
  <2> QED
    BY <2>7, <2>8, <2>9, Zenon DEF WithinAt
<1> QED
  BY <1>5, <1>6, <1>7, <1>9, <1>10, WithinLater, Zenon DEF IInv

-----------------------------------------------------------------------------
(* The second decision debits both. *)

\* Whoever is charged has room for it: the one who decides because reserve has
\* just said so, the partner because their reservation was counted.
LEMMA Room ==
    ASSUME IInv, NEW m \in Matches, NEW u \in Users, NEW t \in clock..MaxClock,
           Chargeable(m, u, t), NEW p \in Participants[m], p \notin premium
    PROVE  /\ p \in Users /\ SourceOf(m, u, t, p) \in {"free", "advertising"}
           /\ WeekOf(m, u, t, p) \in Weeks
           /\ used[<<p, W(t)>>] + Cardinality(Reserved(p, W(t), t) \ {m}) + 1
                <= FREE_WEEKLY_CONTINUATION_LIMIT
           /\ SourceOf(m, u, t, p) = "free" =>
                LET v == WeekOf(m, u, t, p) IN
                freeUsed[<<p, v>>] + Cardinality(FreeReserved(p, v, t) \ {m}) + 1
                  <= FREE_WEEKLY_CREDITS
           /\ SourceOf(m, u, t, p) = "advertising" =>
                /\ walletWeek[p] = W(t)
                /\ Cardinality(AdReserved(p, W(t), t) \ {m}) + 1 <= credits[p]
<1> DEFINE v == WeekOf(m, u, t, p)
           R == Reserved(p, W(t), t)
           F == FreeReserved(p, v, t)
           G == AdReserved(p, W(t), t)
<1>1. /\ t \in 0..MaxClock /\ t \in Nat /\ clock \in Nat /\ clock <= t /\ clock \in 0..MaxClock
      /\ FREE_WEEKLY_CONTINUATION_LIMIT \in Nat /\ FREE_WEEKLY_CREDITS \in Nat
  BY ContinuationAssumption DEF IInv, Rows
<1>2. /\ p \in Users /\ W(t) \in Weeks /\ W(t) \in Nat /\ W(clock) <= W(t) /\ W(clock) \in Nat
      /\ W(clock) \in Weeks /\ <<m, p>> \in Seats
  BY <1>1, Partners, Weekly, WeekInRange DEF Seats
<1>3. /\ Deciding(m, u) /\ DeadlineAt(m, clock) > t /\ reserve(u, t) # "none"
      /\ source[<<m, Partner(m, u)>>] # "none" /\ ~Lapsed(m, u, t, p)
  BY Zenon DEF Chargeable, Inserted, Reserving
<1>4. /\ R \subseteq Matches /\ F \subseteq Matches /\ G \subseteq Matches
      /\ R \ {m} \subseteq R /\ F \ {m} \subseteq F /\ G \ {m} \subseteq G
  BY Zenon DEF Reserved, FreeReserved, AdReserved
<1>5. /\ Cardinality(R) \in Nat /\ Cardinality(F) \in Nat /\ Cardinality(G) \in Nat
      /\ Cardinality(R \ {m}) \in Nat /\ Cardinality(R \ {m}) <= Cardinality(R)
      /\ Cardinality(F \ {m}) \in Nat /\ Cardinality(F \ {m}) <= Cardinality(F)
      /\ Cardinality(G \ {m}) \in Nat /\ Cardinality(G \ {m}) <= Cardinality(G)
  BY <1>4, Fewer, Zenon
<1>6. CASE p = u
  <2>1. /\ SourceOf(m, u, t, p) = reserve(u, t) /\ v = W(t)
    BY <1>6, Zenon DEF SourceOf, WeekOf, W
  <2>2. /\ reserve(u, t) \in {"free", "advertising"}
        /\ used[<<u, W(t)>>] + Cardinality(R) + 1 <= FREE_WEEKLY_CONTINUATION_LIMIT
        /\ reserve(u, t) = "free" =>
             freeUsed[<<u, v>>] + Cardinality(F) + 1 <= FREE_WEEKLY_CREDITS
        /\ reserve(u, t) = "advertising" =>
             walletWeek[u] = W(t) /\ Cardinality(G) + 1 <= credits[u]
    BY <1>1, <1>3, <1>6, <2>1, Reservable, Zenon DEF IInv
  <2>3. used[<<u, W(t)>>] \in Nat /\ freeUsed[<<u, v>>] \in Nat /\ credits[u] \in Nat
    BY <1>2, <1>6, <2>1, Zenon DEF IInv, Rows
  <2> QED
    BY <1>1, <1>2, <1>5, <1>6, <2>1, <2>2, <2>3
<1>7. CASE p # u
  <2>1. p = Partner(m, u)
    BY <1>3, <1>7, Partners, Zenon DEF Deciding
  <2>2. /\ SourceOf(m, u, t, p) = source[<<m, p>>] /\ v = week[<<m, p>>]
    BY <1>7, Zenon DEF SourceOf, WeekOf
  <2>3. source[<<m, p>>] # "none" /\ source[<<m, p>>] \in Sources
    BY <1>2, <1>3, <2>1, Zenon DEF IInv, Rows
  <2>4. /\ source[<<m, p>>] \in {"free", "advertising"}
        /\ source[<<m, p>>] = "advertising" => v = W(t)
    BY <1>3, <2>2, <2>3, Zenon DEF Lapsed, Sources, W
  <2>5. Waiting(m, t)
    BY <1>2, <1>3, <2>3, DecidingOpen, Zenon DEF Waiting
  <2>6. v \in Nat /\ v <= W(clock)
    BY <1>2, <2>2, Zenon DEF IInv, Rows, NotAhead
  <2>7. v \in Weeks
    BY <1>2, <2>6, LowerWeek, Zenon
  <2>8. WithinAt(p, t)
    BY <1>2, Within, Later, Zenon DEF IInv
  <2>9. /\ m \in R
        /\ source[<<m, p>>] = "free" => m \in F
        /\ source[<<m, p>>] = "advertising" => m \in G
    BY <2>2, <2>4, <2>5, Zenon DEF Reserved, FreeReserved, AdReserved
  <2>10. /\ Cardinality(R \ {m}) + 1 <= Cardinality(R)
         /\ source[<<m, p>>] = "free" => Cardinality(F \ {m}) + 1 <= Cardinality(F)
         /\ source[<<m, p>>] = "advertising" => Cardinality(G \ {m}) + 1 <= Cardinality(G)
    BY <1>4, <2>9, OneLess, Zenon
  <2>11. /\ used[<<p, W(t)>>] + Cardinality(R) <= FREE_WEEKLY_CONTINUATION_LIMIT
         /\ freeUsed[<<p, v>>] + Cardinality(F) <= FREE_WEEKLY_CREDITS
         /\ source[<<m, p>>] = "advertising" => walletWeek[p] = W(t) /\ Cardinality(G) <= credits[p]
    BY <2>7, <2>8, <2>9, Zenon DEF WithinAt, LimitAt, FreeAt, AdsAt
  <2>12. used[<<p, W(t)>>] \in Nat /\ freeUsed[<<p, v>>] \in Nat /\ credits[p] \in Nat
    BY <1>2, <2>7, Zenon DEF IInv, Rows
  <2> QED
    BY <1>1, <1>2, <1>5, <2>2, <2>4, <2>7, <2>10, <2>11, <2>12
<1> QED
  BY <1>6, <1>7, Zenon

LEMMA Pays ==
    ASSUME IInv, Rows', NEW m \in Matches, NEW u \in Users, NEW t \in clock..MaxClock,
           NEW s \in t..MaxClock, record_confirmed(m, u, t, s)
    PROVE  IInv'
<1>1. /\ t \in 0..MaxClock /\ t \in Nat /\ clock \in Nat /\ clock <= t /\ clock \in 0..MaxClock
      /\ s \in Nat /\ t <= s /\ clock <= s /\ s \in clock..MaxClock /\ s \in 0..MaxClock
      /\ FREE_WEEKLY_CONTINUATION_LIMIT \in Nat /\ FREE_WEEKLY_CREDITS \in Nat
  BY ContinuationAssumption DEF IInv, Rows
<1>2. /\ W(t) \in Weeks /\ W(t) \in Nat /\ W(s) \in Weeks /\ W(s) \in Nat /\ W(t) <= W(s)
  BY <1>1, Weekly, WeekInRange
<1>3. /\ Chargeable(m, u, t) /\ Deciding(m, u) /\ clock' = s
  BY Zenon DEF record_confirmed, Chargeable, Inserted, Reserving
<1>4. status[m] \in {"active", "awaiting_continuation"}
  BY <1>3, DecidingOpen, Zenon
<1>5. /\ status'[m] = "confirmed"
      /\ \A n \in Matches \ {m} : status'[n] = status[n] /\ expires'[n] = expires[n]
  BY Zenon DEF record_confirmed, IInv, Rows
<1>6. ASSUME NEW n \in Matches, NEW v \in Users
      PROVE  /\ <<n, v>> \in Seats /\ SeatKept(<<n, v>>)
             /\ n # m => source'[<<n, v>>] = source[<<n, v>>] /\ week'[<<n, v>>] = week[<<n, v>>]
  BY Zenon DEF record_confirmed, delete_reservations, SeatKept, Seats
<1>7. ChargedTogether'
  <2> SUFFICES ASSUME NEW n \in Matches, NEW p \in Participants[n]
               PROVE  /\ charges'[<<n, p>>] \in {0, 1}
                      /\ charges'[<<n, p>>] = charges'[<<n, Partner(n, p)>>]
                      /\ status'[n] = "confirmed" => charges'[<<n, p>>] = 1
                      /\ status'[n] \in {"none", "active", "awaiting_continuation", "expired"}
                            => charges'[<<n, p>>] = 0
    BY Zenon DEF ChargedTogether, Partner
  <2>1. /\ p \in Users /\ Partner(n, p) \in Users /\ Partner(n, p) \in Participants[n]
        /\ <<n, p>> \in Seats /\ <<n, Partner(n, p)>> \in Seats
    BY Partners, Zenon DEF Seats
  <2>2. /\ charges[<<n, p>>] \in {0, 1}
        /\ charges[<<n, p>>] = charges[<<n, Partner(n, p)>>]
        /\ status[n] = "confirmed" => charges[<<n, p>>] = 1
        /\ status[n] \in {"none", "active", "awaiting_continuation", "expired"}
              => charges[<<n, p>>] = 0
    BY Zenon DEF IInv, ChargedTogether
  <2>3. charges' = [x \in Seats |->
         IF x[1] = m /\ x[2] \in Participants[m] THEN charges[x] + 1 ELSE charges[x]]
    BY Zenon DEF record_confirmed
  <2>4. CASE n = m
    BY <1>4, <1>5, <2>1, <2>2, <2>3, <2>4
  <2>5. CASE n # m
    BY <1>5, <2>1, <2>2, <2>3, <2>5, Zenon
  <2> QED
    BY <2>4, <2>5, Zenon
<1>8. ASSUME NEW p \in Users, NEW x \in Weeks
      PROVE  /\ used'[<<p, x>>] = IF x = W(t) /\ p \in Participants[m] \ premium
                                  THEN used[<<p, x>>] + 1 ELSE used[<<p, x>>]
             /\ freeUsed'[<<p, x>>] = IF Debits(m, u, t, "free", p) /\ x = WeekOf(m, u, t, p)
                                      THEN freeUsed[<<p, x>>] + 1 ELSE freeUsed[<<p, x>>]
             /\ credits'[p] = IF Debits(m, u, t, "advertising", p) THEN credits[p] - 1 ELSE credits[p]
             /\ walletWeek'[p] = walletWeek[p]
  BY Zenon DEF record_confirmed, debit_usage, debit_free, debit_wallet, W
<1>9. NotAhead'
  <2>1. \A x \in Seats : week'[x] \in {week[x], 0, W(clock')}
    BY Zenon DEF record_confirmed, delete_reservations
  <2>2. ASSUME NEW p \in Users, NEW x \in Weeks, x > W(s) PROVE used'[<<p, x>>] = used[<<p, x>>]
    <3>1. x # W(t)
      BY <1>2, <2>2 DEF Weeks
    <3> QED
      BY <1>8, <3>1, Zenon
  <2> QED
    BY <1>1, <1>3, <2>1, <2>2, SeatsNotAhead, Zenon DEF IInv
<1>10. Unreserved'
  BY <1>5, <1>6, ZenonT(90) DEF IInv, Unreserved, SeatKept
<1>11. ASSUME NEW v \in Users PROVE Shrinks(v, Matches)
  BY <1>5, <1>6, Zenon DEF Shrinks, Waiting
<1>12. ASSUME NEW p \in Users, p \notin Participants[m] \ premium PROVE WithinAt(p, clock)'
  <2>1. ~Debits(m, u, t, "free", p) /\ ~Debits(m, u, t, "advertising", p)
    BY <1>12, Zenon DEF Debits, Charge
  <2>2. 0 \in Weeks
    BY <1>2, LowerWeek
  <2>3. credits'[p] = credits[p] /\ walletWeek'[p] = walletWeek[p]
    BY <1>8, <2>1, <2>2, Zenon
  <2>4. credits[p] <= credits'[p]
    BY <2>3 DEF IInv, Rows
  <2>5. WithinAt(p, s)
    BY <1>1, Within, Later, Zenon DEF IInv
  <2> QED
    BY <1>3, <1>8, <1>11, <1>12, <2>1, <2>3, <2>4, <2>5, Kept, Zenon DEF IInv
<1>13. ASSUME NEW p \in Participants[m], p \notin premium PROVE WithinAt(p, clock)'
  <2>0. /\ Reserved(p, W(s), s) \subseteq Reserved(p, W(t), t)
        /\ AdReserved(p, W(s), s) \subseteq AdReserved(p, W(t), t)
        /\ AdReserved(p, W(s), s) # {} => W(s) = W(t)
        /\ \A v \in Weeks : FreeReserved(p, v, s) \subseteq FreeReserved(p, v, t)
    <3>1. p \in Users /\ Rows /\ NotAhead
      BY <1>13, Partners DEF IInv
    <3> QED
      BY <3>1, CountsBefore, Zenon
  <2> DEFINE v == WeekOf(m, u, t, p)
             c == SourceOf(m, u, t, p)
             A == Reserved(p, W(t), t) \ {m}
             B == Reserved(p, W(clock), clock)'
             G == AdReserved(p, W(t), t) \ {m}
             H == AdReserved(p, W(clock), clock)'
  <2>1. /\ p \in Users /\ c \in {"free", "advertising"} /\ v \in Weeks
        /\ used[<<p, W(t)>>] + Cardinality(A) + 1 <= FREE_WEEKLY_CONTINUATION_LIMIT
        /\ c = "free" =>
             freeUsed[<<p, v>>] + Cardinality(FreeReserved(p, v, t) \ {m}) + 1 <= FREE_WEEKLY_CREDITS
        /\ c = "advertising" => walletWeek[p] = W(t) /\ Cardinality(G) + 1 <= credits[p]
    BY <1>3, <1>13, Room, Zenon
  <2>2. Debits(m, u, t, "free", p) <=> c = "free"
    BY <1>13, Zenon DEF Debits, Charge
  <2>3. Debits(m, u, t, "advertising", p) <=> c = "advertising"
    BY <1>13, Zenon DEF Debits, Charge
  <2>4. Reserved(p, W(s), s) \subseteq Reserved(p, W(t), t)
    BY <2>0, Zenon
  <2>5. /\ AdReserved(p, W(s), s) \subseteq AdReserved(p, W(t), t)
        /\ AdReserved(p, W(s), s) # {} => W(s) = W(t)
    BY <2>0, Zenon
  <2>6. /\ B \subseteq Reserved(p, W(s), s) \ {m} /\ H \subseteq AdReserved(p, W(s), s) \ {m}
        /\ A \subseteq Matches /\ G \subseteq Matches
    BY <1>3, <1>5, <1>11, <2>1, ZenonT(90)
       DEF Reserved, AdReserved, Shrinks, Waiting, W, start_of_utc_week
  <2>7. B \subseteq A /\ H \subseteq G /\ (H # {} => W(s) = W(t))
    BY <2>4, <2>5, <2>6, Zenon
  <2>8. /\ Cardinality(A) \in Nat /\ Cardinality(B) \in Nat /\ Cardinality(B) <= Cardinality(A)
        /\ Cardinality(G) \in Nat /\ Cardinality(H) \in Nat /\ Cardinality(H) <= Cardinality(G)
    BY <2>6, <2>7, Fewer, Zenon
  <2>9. /\ used[<<p, W(t)>>] \in Nat /\ used[<<p, W(s)>>] \in Nat /\ credits[p] \in Nat
        /\ WithinAt(p, s)
    BY <1>1, <1>2, <2>1, Within, Later, Zenon DEF IInv, Rows
  <2>10. LimitAt(p, clock)'
    <3>1. used'[<<p, W(s)>>] + Cardinality(B) <= FREE_WEEKLY_CONTINUATION_LIMIT
      <4>1. CASE W(s) = W(t)
        <5>1. used'[<<p, W(s)>>] = used[<<p, W(t)>>] + 1
          BY <1>2, <1>8, <1>13, <2>1, <4>1, Zenon
        <5> QED
          BY <1>1, <2>1, <2>8, <2>9, <5>1
      <4>2. CASE W(s) # W(t)
        <5>1. used'[<<p, W(s)>>] = used[<<p, W(s)>>]
          BY <1>2, <1>8, <2>1, <4>2, Zenon
        <5>2. used[<<p, W(s)>>] = 0
          <6>1. /\ W(clock) \in Nat /\ W(clock) <= W(t)
            BY <1>1, Weekly, Zenon
          <6>2. W(s) > W(clock)
            BY <1>2, <4>2, <6>1
          <6> QED
            BY <1>2, <2>1, <6>2, Zenon DEF IInv, NotAhead
        <5> QED
          BY <1>1, <2>1, <2>8, <2>9, <5>1, <5>2
      <4> QED
        BY <4>1, <4>2, Zenon
    <3> QED
      BY <1>3, <3>1, Zenon DEF LimitAt, W, start_of_utc_week
  <2>11. ASSUME NEW x \in Weeks PROVE FreeAt(p, x, clock)'
    <3> DEFINE C == FreeReserved(p, x, t)
               D == FreeReserved(p, x, clock)'
    <3>1. FreeReserved(p, x, s) \subseteq C
      BY <2>0, Zenon
    <3>2. D \subseteq FreeReserved(p, x, s) \ {m} /\ C \subseteq Matches
      BY <1>3, <1>5, <1>11, <2>1, Zenon DEF FreeReserved, Shrinks, Waiting
    <3>3. D \subseteq C \ {m} /\ D \subseteq C /\ C \ {m} \subseteq Matches
      BY <3>1, <3>2, Zenon
    <3>4. /\ Cardinality(C) \in Nat /\ Cardinality(D) \in Nat /\ Cardinality(C \ {m}) \in Nat
          /\ Cardinality(D) <= Cardinality(C) /\ Cardinality(D) <= Cardinality(C \ {m})
      BY <3>2, <3>3, Fewer, Zenon
    <3>5. freeUsed[<<p, x>>] \in Nat
      BY <2>1, Zenon DEF IInv, Rows
    <3>6. freeUsed'[<<p, x>>] + Cardinality(D) <= FREE_WEEKLY_CREDITS
      <4>1. CASE c = "free" /\ x = v
        <5>1. freeUsed'[<<p, x>>] = freeUsed[<<p, x>>] + 1
          BY <1>8, <2>1, <2>2, <4>1, Zenon
        <5>2. freeUsed[<<p, x>>] + Cardinality(C \ {m}) + 1 <= FREE_WEEKLY_CREDITS
          BY <2>1, <4>1, Zenon
        <5> QED
          BY <1>1, <3>4, <3>5, <5>1, <5>2
      <4>2. CASE ~(c = "free" /\ x = v)
        <5>1. freeUsed'[<<p, x>>] = freeUsed[<<p, x>>]
          BY <1>8, <2>1, <2>2, <4>2, Zenon
        <5>2. WithinAt(p, t)
          BY <2>1, Within, Later, Zenon DEF IInv
        <5>3. freeUsed[<<p, x>>] + Cardinality(C) <= FREE_WEEKLY_CREDITS
          BY <5>2, Zenon DEF WithinAt, FreeAt
        <5> QED
          BY <1>1, <3>4, <3>5, <5>1, <5>3
      <4> QED
        BY <4>1, <4>2, Zenon
    <3> QED
      BY <3>6, Zenon DEF FreeAt
  <2>12. AdsAt(p, clock)'
    <3>1. SUFFICES ASSUME H # {} PROVE walletWeek'[p] = W(s) /\ Cardinality(H) <= credits'[p]
      BY <1>3, Zenon DEF AdsAt, W, start_of_utc_week
    <3>2. W(s) = W(t)
      BY <2>7, <3>1, Zenon
    <3>3. CASE c = "advertising"
      <4>1. credits'[p] = credits[p] - 1 /\ walletWeek'[p] = walletWeek[p]
        BY <1>2, <1>8, <2>1, <2>3, <3>3, Zenon
      <4> QED
        BY <2>1, <2>8, <2>9, <3>2, <3>3, <4>1
    <3>4. CASE c # "advertising"
      <4>1. credits'[p] = credits[p] /\ walletWeek'[p] = walletWeek[p]
        BY <1>2, <1>8, <2>1, <2>3, <3>4, Zenon
      <4>2. AdReserved(p, W(s), s) # {} /\ H \subseteq AdReserved(p, W(s), s)
        BY <2>6, <3>1, Zenon
      <4>3. walletWeek[p] = W(s) /\ Cardinality(AdReserved(p, W(s), s)) <= credits[p]
        BY <2>9, <4>2, Zenon DEF WithinAt, AdsAt
      <4>4. AdReserved(p, W(s), s) \subseteq Matches
        BY Zenon DEF AdReserved
      <4>5. /\ Cardinality(H) <= Cardinality(AdReserved(p, W(s), s))
            /\ Cardinality(AdReserved(p, W(s), s)) \in Nat
        BY <4>2, <4>4, Fewer, Zenon
      <4>6. Cardinality(H) <= credits[p]
        BY <2>8, <2>9, <4>3, <4>5, FewerStill, Zenon
      <4> QED
        BY <4>1, <4>3, <4>6, Zenon
    <3> QED
      BY <3>3, <3>4, Zenon
  <2> QED
    BY <2>10, <2>11, <2>12, Zenon DEF WithinAt
<1> QED
  BY <1>7, <1>9, <1>10, <1>12, <1>13, WithinLater, Zenon DEF IInv

-----------------------------------------------------------------------------
(* Every step. *)

\* A credit for an advertisement: of a wallet of a past week nothing is
\* reserved any more.
LEMMA Grant ==
    ASSUME IInv, Rows', NEW u \in Users, grant_advertising_credit(u)
    PROVE  IInv'
<1>1. /\ status' = status /\ expires' = expires /\ source' = source /\ week' = week
      /\ used' = used /\ freeUsed' = freeUsed /\ charges' = charges /\ clock' = clock
      /\ credits' = [credits EXCEPT ![u] = IF walletWeek[u] = W(clock) THEN @ + 1 ELSE 1]
      /\ walletWeek' = [walletWeek EXCEPT ![u] = W(clock)]
  BY Zenon DEF grant_advertising_credit, matchVars, choiceVars, W
<1>2. clock <= clock'
  BY <1>1, ContinuationAssumption DEF IInv, Rows
<1>3. ChargedTogether' /\ Unreserved'
  BY <1>1, Zenon DEF IInv, ChargedTogether, Partner, Unreserved
<1>4. NotAhead'
  BY <1>1, <1>2, SeatsNotAhead, Zenon DEF IInv
<1>5. ASSUME NEW v \in Users PROVE WithinAt(v, clock)'
  <2>1. WithinAt(v, clock)
    BY Within, Zenon DEF IInv
  <2>2. LimitAt(v, clock)' /\ \A x \in Weeks : FreeAt(v, x, clock)'
    BY <1>1, <2>1, Zenon DEF WithinAt, LimitAt, FreeAt, Reserved, FreeReserved, AdReserved, Waiting,
       W, start_of_utc_week
  <2>3. AdsAt(v, clock)'
    <3> DEFINE G == AdReserved(v, W(clock), clock)
    <3>1. SUFFICES ASSUME G # {} PROVE walletWeek'[v] = W(clock) /\ Cardinality(G) <= credits'[v]
      BY <1>1, Zenon DEF AdsAt, AdReserved, Waiting, W, start_of_utc_week
    <3>2. walletWeek[v] = W(clock) /\ Cardinality(G) <= credits[v]
      BY <2>1, <3>1, Zenon DEF WithinAt, AdsAt
    <3>3. G \subseteq Matches
      BY Zenon DEF AdReserved
    <3>4. Cardinality(G) \in Nat /\ credits[v] \in Nat
      BY <3>3, Fewer, Zenon DEF IInv, Rows
    <3>5. /\ walletWeek'[v] = W(clock)
          /\ credits'[v] = credits[v] + 1 \/ credits'[v] = credits[v]
      BY <1>1, <3>2, Zenon DEF IInv, Rows
    <3> QED
      BY <3>2, <3>4, <3>5
  <2> QED
    BY <2>2, <2>3, Zenon DEF WithinAt
<1> QED
  BY <1>3, <1>4, <1>5, WithinLater, Zenon DEF IInv

\* A transaction of record that reserves or debits nothing.
LEMMA Withdrawal ==
    ASSUME IInv, Rows', NEW m \in Matches, NEW u \in Users, Deciding(m, u), clock <= clock',
           Opened(m) \/ (/\ status' = [status EXCEPT ![m] = "expired"]
                         /\ expires' = [expires EXCEPT ![m] = DeadlineAt(m, clock)]),
           \A x \in Seats : SeatKept(x),
           UNCHANGED <<walletVars, charges>>
    PROVE  IInv'
<1>1. clock \in Nat
  BY ContinuationAssumption DEF IInv, Rows
<1>2. /\ status[m] \in {"active", "awaiting_continuation"}
      /\ status[m] # "active" => DeadlineAt(m, clock) = expires[m]
  BY <1>1, DecidingOpen, FoundAt, Zenon DEF IInv
<1>3. ASSUME NEW n \in Matches PROVE Moves(n) /\ Dated(n)
  BY <1>2, Zenon DEF Opened, Moves, Dated, IInv, Rows
<1> QED
  BY <1>3, Quiet, Zenon DEF walletVars

LEMMA SeatsCleared ==
    ASSUME Rows, NEW m \in Matches, NEW u \in Users, clear_choice(m, u), NEW x \in Seats
    PROVE  SeatKept(x)
BY Zenon DEF Rows, clear_choice, SeatKept, Seats

LEMMA SeatsDeleted ==
    ASSUME NEW m \in Matches, delete_reservations(m), NEW x \in Seats
    PROVE  SeatKept(x)
BY Zenon DEF delete_reservations, SeatKept

\* The decisions of continue_match.
LEMMA DecisionRows ==
    ASSUME IInv, NEW m \in Matches, NEW u \in Users, NEW t \in clock..MaxClock,
           \/ record_expired(m, u, t) \/ record_plan_changed(m, u, t)
           \/ record_quota_reached(m, u, t) \/ record_pending(m, u, t) \/ record_lapsed(m, u, t)
    PROVE  Rows' /\ clock' = t
<1>1. /\ clock \in Nat /\ t \in 0..MaxClock /\ t \in Nat /\ W(t) \in Nat
      /\ DeadlineAt(m, clock) \in Nat /\ <<m, u>> \in Seats
      /\ reserve(u, t) \in Sources
  <2>1. clock \in Nat /\ t \in 0..MaxClock /\ t \in Nat
    BY ContinuationAssumption DEF IInv, Rows
  <2>2. reserve(u, t) \in Sources
    BY Zenon DEF reserve, Sources
  <2> QED
    BY <2>1, <2>2, Weekly, FoundAt DEF IInv, Seats
<1>2. clock' = t
  BY Zenon DEF record_expired, record_plan_changed, record_quota_reached, record_pending, record_lapsed
<1>3. /\ used' = used /\ freeUsed' = freeUsed /\ credits' = credits /\ walletWeek' = walletWeek
      /\ charges' = charges
  BY Zenon DEF record_expired, record_plan_changed, record_quota_reached, record_pending, record_lapsed,
     walletVars
<1>4. /\ status' \in [Matches -> Statuses] /\ expires' \in [Matches -> Nat]
  <2>1. /\ \/ status' = [status EXCEPT ![m] = "expired"]
           \/ status' = [status EXCEPT ![m] = "awaiting_continuation"]
        /\ expires' = [expires EXCEPT ![m] = DeadlineAt(m, clock)]
    BY Zenon DEF record_expired, record_plan_changed, record_quota_reached, record_pending, record_lapsed,
       Opened
  <2> QED
    BY <1>1, <2>1, Zenon DEF IInv, Rows, Statuses
<1>5. source' \in [Seats -> Sources] /\ week' \in [Seats -> Nat]
  <2>1. CASE record_expired(m, u, t)
    BY <2>1, Zenon DEF record_expired, delete_reservations, IInv, Rows, Sources
  <2>2. CASE record_plan_changed(m, u, t)
    BY <2>2, Zenon DEF record_plan_changed, clear_choice, IInv, Rows, Sources
  <2>3. CASE record_quota_reached(m, u, t)
    <3>1. clear_choice(m, u) \/ (source' = source /\ week' = week)
      BY <2>3, Zenon DEF record_quota_reached, choiceVars
    <3>2. CASE clear_choice(m, u)
      BY <3>2, Zenon DEF clear_choice, IInv, Rows, Sources
    <3>3. CASE source' = source /\ week' = week
      BY <3>3, Zenon DEF IInv, Rows
    <3> QED
      BY <3>1, <3>2, <3>3, Zenon
  <2>4. CASE record_pending(m, u, t)
    BY <1>1, <2>4, Zenon DEF record_pending, IInv, Rows, W
  <2>5. CASE record_lapsed(m, u, t)
    <3>1. PICK p \in Participants[m] :
            /\ source' = [source EXCEPT ![<<m, u>>] = reserve(u, t), ![<<m, p>>] = "none"]
            /\ week' = [week EXCEPT ![<<m, u>>] = start_of_utc_week(t), ![<<m, p>>] = 0]
      BY <2>5, Zenon DEF record_lapsed
    <3>2. "none" \in Sources /\ source \in [Seats -> Sources] /\ week \in [Seats -> Nat]
      BY Zenon DEF IInv, Rows, Sources
    <3> QED
      BY <1>1, <3>1, <3>2, Zenon DEF W
  <2> QED
    BY <2>1, <2>2, <2>3, <2>4, <2>5, Zenon
<1> QED
  BY <1>1, <1>2, <1>3, <1>4, <1>5, Zenon DEF IInv, Rows

LEMMA Decision ==
    ASSUME IInv, NEW m \in Matches, NEW u \in Users, continue_match(m, u)
    PROVE  IInv'
<1>1. PICK t \in clock..MaxClock :
        \/ record_expired(m, u, t) \/ record_plan_changed(m, u, t)
        \/ record_quota_reached(m, u, t) \/ record_pending(m, u, t) \/ record_lapsed(m, u, t)
        \/ \E s \in t..MaxClock : record_confirmed(m, u, t, s)
  BY Zenon DEF continue_match
<1>2. Rows /\ clock \in Nat /\ clock <= t /\ t \in Nat
  BY ContinuationAssumption DEF IInv, Rows
<1>3. CASE record_expired(m, u, t)
  <2>1. Rows' /\ clock' = t
    BY <1>3, DecisionRows, Zenon
  <2>2. \A x \in Seats : SeatKept(x)
    BY <1>3, SeatsDeleted, Zenon DEF record_expired
  <2> QED
    BY <1>2, <1>3, <2>1, <2>2, Withdrawal, Zenon DEF record_expired
<1>4. CASE record_plan_changed(m, u, t)
  <2>1. Rows' /\ clock' = t
    BY <1>4, DecisionRows, Zenon
  <2>2. \A x \in Seats : SeatKept(x)
    BY <1>2, <1>4, SeatsCleared, Zenon DEF record_plan_changed
  <2> QED
    BY <1>2, <1>4, <2>1, <2>2, Withdrawal, Zenon DEF record_plan_changed
<1>5. CASE record_quota_reached(m, u, t)
  <2>1. Rows' /\ clock' = t
    BY <1>5, DecisionRows, Zenon
  <2>2. \A x \in Seats : SeatKept(x)
    <3>1. CASE clear_choice(m, u)
      BY <1>2, <3>1, SeatsCleared, Zenon
    <3>2. CASE UNCHANGED choiceVars
      BY <3>2, Zenon DEF choiceVars, SeatKept
    <3> QED
      BY <1>5, <3>1, <3>2, Zenon DEF record_quota_reached
  <2> QED
    BY <1>2, <1>5, <2>1, <2>2, Withdrawal, Zenon DEF record_quota_reached, Reserving
<1>6. CASE record_pending(m, u, t)
  <2>1. Rows' /\ clock' = t
    BY <1>6, DecisionRows, Zenon
  <2>2. /\ source' = [source EXCEPT ![<<m, u>>] = reserve(u, t)]
        /\ week' = [week EXCEPT ![<<m, u>>] = W(t)]
    BY <1>6, Zenon DEF record_pending, W
  <2>3. /\ source'[<<m, u>>] = reserve(u, t) /\ week'[<<m, u>>] = W(t)
        /\ \A x \in Seats \ {<<m, u>>} : SeatKept(x)
    BY <1>2, <2>2, Zenon DEF Rows, SeatKept, Seats
  <2> QED
    BY <1>6, <2>1, <2>3, Gain, Zenon DEF record_pending, Inserted, Reserving, walletVars
<1>7. CASE record_lapsed(m, u, t)
  <2>1. Rows' /\ clock' = t
    BY <1>7, DecisionRows, Zenon
  <2>2. /\ Deciding(m, u) /\ Opened(m) /\ reserve(u, t) # "none"
        /\ UNCHANGED <<walletVars, charges>>
    BY <1>7, Zenon DEF record_lapsed, Inserted, Reserving
  <2>3. PICK p \in Participants[m] :
          /\ source' = [source EXCEPT ![<<m, u>>] = reserve(u, t), ![<<m, p>>] = "none"]
          /\ week' = [week EXCEPT ![<<m, u>>] = W(t), ![<<m, p>>] = 0]
    BY <1>7, Zenon DEF record_lapsed, W
  <2>4. p \in Users
    BY Partners, Zenon
  <2>5. CASE p = u
    <3>1. \A x \in Seats : SeatKept(x)
      BY <1>2, <2>3, <2>4, <2>5, Zenon DEF Rows, SeatKept, Seats
    <3> QED
      BY <1>2, <2>1, <2>2, <3>1, Withdrawal, Zenon
  <2>6. CASE p # u
    <3>1. /\ source'[<<m, u>>] = reserve(u, t) /\ week'[<<m, u>>] = W(t)
          /\ \A x \in Seats \ {<<m, u>>} : SeatKept(x)
      BY <1>2, <2>3, <2>4, <2>6, Zenon DEF Rows, SeatKept, Seats
    <3> QED
      BY <2>1, <2>2, <3>1, Gain, Zenon DEF walletVars
  <2> QED
    BY <2>5, <2>6, Zenon
<1>8. ASSUME NEW s \in t..MaxClock, record_confirmed(m, u, t, s) PROVE IInv'
  <2>1. Rows'
    <3>1. /\ s \in Nat /\ s \in 0..MaxClock /\ INACTIVITY \in Nat
      BY <1>2, ContinuationAssumption DEF IInv, Rows
    <3>2. status' \in [Matches -> Statuses] /\ expires' \in [Matches -> Nat]
      BY <1>2, <1>8, <3>1 DEF record_confirmed, Rows, Statuses
    <3>3. source' \in [Seats -> Sources] /\ week' \in [Seats -> Nat]
      BY <1>2, <1>8, Zenon DEF record_confirmed, delete_reservations, Rows, Sources
    <3>4. used' \in [Users \X Weeks -> Nat] /\ freeUsed' \in [Users \X Weeks -> Nat]
      BY <1>2, <1>8 DEF record_confirmed, debit_usage, debit_free, Rows
    <3>5. credits' \in [Users -> Nat]
      <4>1. ASSUME NEW p \in Users, Debits(m, u, t, "advertising", p) PROVE credits[p] - 1 \in Nat
        <5>1. credits[p] > 0
          BY <1>8, <4>1, Zenon DEF record_confirmed, WalletCovers, Debits
        <5> QED
          BY <1>2, <5>1 DEF Rows
      <4> QED
        BY <1>2, <1>8, <4>1, Zenon DEF record_confirmed, debit_wallet, Rows
    <3>6. charges' \in [Seats -> Nat]
      BY <1>2, <1>8 DEF record_confirmed, Rows
    <3> QED
      BY <1>2, <1>8, <3>1, <3>2, <3>3, <3>4, <3>5, <3>6, Zenon DEF record_confirmed, Rows
  <2> QED
    BY <1>8, <2>1, Pays, Zenon
<1> QED
  BY <1>1, <1>3, <1>4, <1>5, <1>6, <1>7, <1>8, Zenon

\* Opening, reading and ending a match, and what happens around it.
LEMMA Surroundings ==
    ASSUME IInv,
           \/ \E m \in Matches : \/ create(m) \/ lock_available_match(m) \/ record_end(m)
                                 \/ block(m) \/ message(m)
           \/ \E now \in 0..MaxClock : run_batch(now)
           \/ \E u \in Subscribers : change_subscription(u)
           \/ tick
           \/ UNCHANGED vars
    PROVE  IInv'
<1>1. /\ Rows /\ clock \in Nat /\ WINDOW \in Nat /\ INACTIVITY \in Nat /\ MaxClock \in Nat
      /\ \A m \in Matches : status[m] \in Statuses /\ expires[m] \in Nat
  BY ContinuationAssumption DEF IInv, Rows
<1>2. /\ used' = used /\ freeUsed' = freeUsed /\ credits' = credits /\ walletWeek' = walletWeek
      /\ charges' = charges
  BY Zenon DEF create, lock_available_match, record_end, block, message, run_batch,
     change_subscription, tick, walletVars, vars
<1>3. clock' \in 0..MaxClock /\ clock <= clock'
  <2>1. CASE tick
    BY <1>1, <2>1 DEF tick, Rows
  <2>2. CASE clock' = clock
    BY <1>1, <2>2 DEF Rows
  <2> QED
    BY <2>1, <2>2, Zenon DEF create, lock_available_match, record_end, block, message, run_batch,
       change_subscription, vars
<1>4. /\ source' \in [Seats -> Sources] /\ week' \in [Seats -> Nat]
      /\ \A x \in Seats : SeatKept(x)
  <2>1. CASE source' = source /\ week' = week
    BY <1>1, <2>1, Zenon DEF Rows, SeatKept
  <2>2. ASSUME NEW m \in Matches, delete_reservations(m)
        PROVE  /\ source' \in [Seats -> Sources] /\ week' \in [Seats -> Nat]
               /\ \A x \in Seats : SeatKept(x)
    BY <1>1, <2>2, SeatsDeleted, Zenon DEF Rows, delete_reservations, Sources
  <2> QED
    BY <2>1, <2>2, Zenon DEF create, lock_available_match, record_end, block, message, run_batch,
       change_subscription, tick, choiceVars, vars
<1>5. /\ status' \in [Matches -> Statuses] /\ expires' \in [Matches -> Nat]
      /\ \A n \in Matches : Moves(n) /\ Dated(n)
  <2>1. ASSUME NEW m \in Matches, create(m)
        PROVE  /\ status' \in [Matches -> Statuses] /\ expires' \in [Matches -> Nat]
               /\ \A n \in Matches : Moves(n) /\ Dated(n)
    BY <1>1, <2>1 DEF create, Rows, Statuses, Moves, Dated
  <2>2. ASSUME NEW m \in Matches, lock_available_match(m)
        PROVE  /\ status' \in [Matches -> Statuses] /\ expires' \in [Matches -> Nat]
               /\ \A n \in Matches : Moves(n) /\ Dated(n)
    <3>1. /\ status' = [status EXCEPT ![m] = StatusAt(m, clock)]
          /\ expires' = [expires EXCEPT ![m] = DeadlineAt(m, clock)]
      BY <2>2, Zenon DEF lock_available_match
    <3>2. /\ DeadlineAt(m, clock) \in Nat /\ StatusAt(m, clock) \in Statuses
          /\ status[m] # "active" => DeadlineAt(m, clock) = expires[m]
          /\ \/ StatusAt(m, clock) = status[m]
             \/ status[m] = "confirmed" /\ StatusAt(m, clock) = "ended"
             \/ status[m] = "active" /\ StatusAt(m, clock) \in {"awaiting_continuation", "expired"}
             \/ status[m] = "awaiting_continuation" /\ StatusAt(m, clock) = "expired"
      BY <1>1, FoundAt, Zenon
    <3> QED
      BY <1>1, <3>1, <3>2, Zenon DEF Rows, Moves, Dated
  <2>3. ASSUME NEW m \in Matches, record_end(m) \/ block(m)
        PROVE  /\ status' \in [Matches -> Statuses] /\ expires' \in [Matches -> Nat]
               /\ \A n \in Matches : Moves(n) /\ Dated(n)
    <3>1. status' = [status EXCEPT ![m] = "ended"] /\ expires' = expires
      BY <2>3, Zenon DEF record_end, block
    <3> QED
      BY <1>1, <3>1, Zenon DEF Rows, Statuses, Moves, Dated
  <2>4. ASSUME NEW m \in Matches, message(m)
        PROVE  /\ status' \in [Matches -> Statuses] /\ expires' \in [Matches -> Nat]
               /\ \A n \in Matches : Moves(n) /\ Dated(n)
    <3>1. /\ StatusAt(m, clock) = "confirmed" /\ status' = status
          /\ expires' = [expires EXCEPT ![m] = clock + INACTIVITY]
      BY <2>4, Zenon DEF message
    <3>2. status[m] = "confirmed"
      BY <1>1, <3>1, FoundAt, Zenon
    <3> QED
      BY <1>1, <3>1, <3>2 DEF Rows, Moves, Dated
  <2>5. ASSUME NEW now \in 0..MaxClock, run_batch(now)
        PROVE  /\ status' \in [Matches -> Statuses] /\ expires' \in [Matches -> Nat]
               /\ \A n \in Matches : Moves(n) /\ Dated(n)
    <3>1. PICK O \in SUBSET {m \in Matches : status[m] = "active" /\ expires[m] <= now} :
          \E E \in SUBSET ( {m \in Matches : status[m] = "awaiting_continuation" /\ expires[m] <= now}
                             \cup {m \in O : expires[m] + WINDOW <= now}) :
          \E C \in SUBSET {m \in Matches : status[m] = "confirmed" /\ expires[m] <= now} :
            /\ status' = [m \in Matches |-> IF m \in E THEN "expired"
                                            ELSE IF m \in O THEN "awaiting_continuation"
                                            ELSE IF m \in C THEN "ended" ELSE status[m]]
            /\ expires' = [m \in Matches |-> IF m \in O THEN expires[m] + WINDOW ELSE expires[m]]
      BY <2>5, Zenon DEF run_batch
    <3>2. PICK E \in SUBSET ( {m \in Matches : status[m] = "awaiting_continuation" /\ expires[m] <= now}
                             \cup {m \in O : expires[m] + WINDOW <= now}) :
          \E C \in SUBSET {m \in Matches : status[m] = "confirmed" /\ expires[m] <= now} :
            /\ status' = [m \in Matches |-> IF m \in E THEN "expired"
                                            ELSE IF m \in O THEN "awaiting_continuation"
                                            ELSE IF m \in C THEN "ended" ELSE status[m]]
            /\ expires' = [m \in Matches |-> IF m \in O THEN expires[m] + WINDOW ELSE expires[m]]
      BY <3>1, Zenon
    <3>3. PICK C \in SUBSET {m \in Matches : status[m] = "confirmed" /\ expires[m] <= now} :
            /\ status' = [m \in Matches |-> IF m \in E THEN "expired"
                                            ELSE IF m \in O THEN "awaiting_continuation"
                                            ELSE IF m \in C THEN "ended" ELSE status[m]]
            /\ expires' = [m \in Matches |-> IF m \in O THEN expires[m] + WINDOW ELSE expires[m]]
      BY <3>2, Zenon
    <3>4. ASSUME NEW n \in Matches
          PROVE  /\ status'[n] \in Statuses /\ expires'[n] \in Nat
                 /\ Moves(n) /\ Dated(n)
      BY <1>1, <3>1, <3>2, <3>3 DEF Moves, Dated, Statuses
    <3>5. /\ status' = [n \in Matches |-> status'[n]] /\ expires' = [n \in Matches |-> expires'[n]]
      BY <3>3, Zenon
    <3> QED
      BY <3>4, <3>5, Zenon
  <2>6. CASE status' = status /\ expires' = expires
    BY <1>1, <2>6, Zenon DEF Rows, Moves, Dated
  <2> QED
    BY <2>1, <2>2, <2>3, <2>4, <2>5, <2>6, Zenon DEF change_subscription, tick, matchVars, vars
<1>6. Rows'
  BY <1>1, <1>2, <1>3, <1>4, <1>5, Zenon DEF Rows
<1> QED
  BY <1>2, <1>3, <1>4, <1>5, <1>6, Quiet, Zenon

LEMMA GrantRows ==
    ASSUME IInv, NEW u \in Users, grant_advertising_credit(u)
    PROVE  Rows'
<1>1. Rows /\ clock \in Nat /\ W(clock) \in Nat
  BY ContinuationAssumption, Weekly DEF IInv, Rows
<1>2. /\ credits' \in [Users -> Nat] /\ walletWeek' \in [Users -> Nat]
  BY <1>1 DEF grant_advertising_credit, Rows, W
<1> QED
  BY <1>1, <1>2, Zenon DEF grant_advertising_credit, matchVars, choiceVars, Rows

LEMMA InitIInv == Init => IInv
<1> SUFFICES ASSUME Init PROVE IInv
  BY Zenon
<1>1. PICK spent \in SUBSET Viewers :
        used = [x \in Users \X Weeks |-> IF x[1] \in spent /\ x[2] = 0 THEN 1 ELSE 0]
  BY Zenon DEF Init
<1>2. /\ MaxClock \in Nat /\ FREE_WEEKLY_CREDITS \in Nat
      /\ FREE_WEEKLY_CONTINUATION_LIMIT \in Nat \ {0}
  BY ContinuationAssumption, Zenon
<1>3. Rows
  BY <1>1, <1>2 DEF Init, Rows, Statuses, Sources
<1>4. W(0) \in Nat /\ W(0) \in Weeks
  BY <1>2, Weekly, WeekInRange
<1>5. NotAhead
  <2>1. ASSUME NEW u \in Users, NEW m \in Matches PROVE week[<<m, u>>] <= W(clock)
    BY <1>4 DEF Init, Seats
  <2>2. ASSUME NEW u \in Users, NEW v \in Weeks, v > W(clock) PROVE used[<<u, v>>] = 0
    <3>1. v # 0
      BY <1>4, <2>2 DEF Init
    <3> QED
      BY <1>1, <3>1, Zenon
  <2> QED
    BY <2>1, <2>2, Zenon DEF NotAhead
<1>6. Unreserved /\ ChargedTogether
  BY Partners, Zenon DEF Init, Unreserved, ChargedTogether, Seats
<1>7. CreditsHold
  <2>1. ASSUME NEW u \in Users PROVE WithinAt(u, clock)
    <3>1. /\ Reserved(u, W(clock), clock) = {} /\ AdReserved(u, W(clock), clock) = {}
          /\ \A v \in Weeks : FreeReserved(u, v, clock) = {}
      BY Zenon DEF Init, Reserved, AdReserved, FreeReserved, Waiting
    <3>2. Cardinality({}) = 0
      BY FS_EmptySet, Zenon
    <3>3. /\ used[<<u, W(clock)>>] \in {0, 1} /\ \A v \in Weeks : freeUsed[<<u, v>>] = 0
      BY <1>1, <1>4, Zenon DEF Init
    <3>4. LimitAt(u, clock)
      BY <1>2, <3>1, <3>2, <3>3 DEF LimitAt
    <3>5. \A v \in Weeks : FreeAt(u, v, clock)
      BY <1>2, <3>1, <3>2, <3>3 DEF FreeAt
    <3> QED
      BY <3>1, <3>4, <3>5, Zenon DEF WithinAt, AdsAt
  <2> QED
    BY <2>1, Within, Zenon
<1> QED
  BY <1>3, <1>5, <1>6, <1>7, Zenon DEF IInv

LEMMA NextIInv == IInv /\ [Next]_vars => IInv'
<1> SUFFICES ASSUME IInv, [Next]_vars PROVE IInv'
  BY Zenon
<1>1. ASSUME NEW m \in Matches, NEW u \in Users, continue_match(m, u) PROVE IInv'
  BY <1>1, Decision, Zenon
<1>2. ASSUME NEW u \in Viewers, grant_advertising_credit(u) PROVE IInv'
  <2>1. u \in Users
    BY ContinuationAssumption, Zenon
  <2> QED
    BY <1>2, <2>1, GrantRows, Grant, Zenon
<1> QED
  BY <1>1, <1>2, Surroundings, Zenon DEF Next

\* The invariant on which the two theorems below rest: rows, reservations and
\* counters of matches/pg in every reachable state.
THEOREM ContinuationInvariant == Spec => []IInv
  BY InitIInv, NextIInv, PTL DEF Spec

\* The continuations and credits of a user stay within their limits,
\* reservations counted, and the wallet backs every advertising reservation:
\* record (pg/continuation.rs) can always debit what it let be reserved.
THEOREM CreditsAreKept == Spec => []CreditsHold
<1>1. IInv => CreditsHold
  BY Zenon DEF IInv
<1> QED
  BY <1>1, ContinuationInvariant, PTL

\* Both participants are debited once and together, for a match that is
\* confirmed and for no other (record, pg/continuation.rs).
THEOREM BothOrNone == Spec => []ChargedTogether
<1>1. IInv => ChargedTogether
  BY Zenon DEF IInv
<1> QED
  BY <1>1, ContinuationInvariant, PTL

-----------------------------------------------------------------------------
(* A good reservation is honoured. *)

Honoured(m, u) ==
    /\ Waiting(m, clock)
    /\ GoodReservation(m, u, clock')
    /\ source'[<<m, u>>] = "none"
    => status'[m] \in {"confirmed", "ended"}

\* A reservation that still counts leaves room for the continuation it reserves:
\* the limit check of record cannot refuse it.
LEMMA RoomForReserved ==
    ASSUME IInv, NEW m \in Matches, NEW u \in Users, NEW t \in clock..MaxClock,
           m \in Reserved(u, W(t), t)
    PROVE  used[<<u, W(t)>>] < FREE_WEEKLY_CONTINUATION_LIMIT
<1>1. WithinAt(u, t)
  <2>1. WithinAt(u, clock)
    BY Within, Zenon DEF IInv
  <2> QED
    BY <2>1, Later, Zenon DEF IInv
<1>2. t \in 0..MaxClock
  BY ContinuationAssumption DEF IInv, Rows
<1>3. used[<<u, W(t)>>] \in Nat
  BY <1>2, WeekInRange, Zenon DEF IInv, Rows
<1>4. Reserved(u, W(t), t) \subseteq Matches
  BY Zenon DEF Reserved, AdReserved
<1>5. /\ Cardinality(Reserved(u, W(t), t)) \in Nat
      /\ 1 <= Cardinality(Reserved(u, W(t), t))
  <2>1. /\ Cardinality({}) = 0 /\ {} \in SUBSET (Reserved(u, W(t), t) \ {m})
    BY FS_EmptySet, Zenon
  <2> QED
    BY <1>4, <2>1, OneLess
<1> QED
  BY <1>1, <1>3, <1>5, ContinuationAssumption DEF WithinAt, LimitAt

\* The other participant's decision finds every good reservation chargeable.
LEMMA GoodIsChargeable ==
    ASSUME IInv, NEW m \in Matches, NEW u \in Participants[m], NEW v \in Users, v # u,
           NEW t \in clock..MaxClock, Waiting(m, clock), GoodReservation(m, u, t)
    PROVE  ~Lapsed(m, v, t, u)
<1>1. SourceOf(m, v, t, u) = source[<<m, u>>] /\ WeekOf(m, v, t, u) = week[<<m, u>>]
  BY Zenon DEF SourceOf, WeekOf
<1>2. u \in Users
  BY Partners, Zenon
<1>3. CASE source[<<m, u>>] = "premium"
  BY <1>1, <1>3, Zenon DEF Lapsed, GoodReservation
<1>4. CASE \/ source[<<m, u>>] = "free"
           \/ source[<<m, u>>] = "advertising" /\ week[<<m, u>>] = W(t)
  <2>1. Waiting(m, t)
    <3>1. /\ clock \in Nat /\ status[m] = "awaiting_continuation"
      BY ContinuationAssumption DEF IInv, Rows, Waiting
    <3>2. DeadlineAt(m, clock) = expires[m]
      BY <3>1, Zenon DEF DeadlineAt
    <3> QED
      BY <3>1, <3>2, Zenon DEF GoodReservation, Waiting
  <2>2. m \in Reserved(u, W(t), t)
    BY <1>4, <2>1, Zenon DEF Reserved, AdReserved
  <2>3. used[<<u, W(t)>>] < FREE_WEEKLY_CONTINUATION_LIMIT
    BY <1>2, <2>2, RoomForReserved, Zenon
  <2>4. used[<<u, W(t)>>] \in Nat /\ FREE_WEEKLY_CONTINUATION_LIMIT \in Nat
    <3>1. t \in 0..MaxClock
      BY ContinuationAssumption DEF IInv, Rows
    <3> QED
      BY <1>2, <3>1, WeekInRange, ContinuationAssumption, Zenon DEF IInv, Rows
  <2>5. ~(used[<<u, W(t)>>] >= FREE_WEEKLY_CONTINUATION_LIMIT)
    BY <2>3, <2>4
  <2> QED
    BY <1>1, <1>4, <2>5, Zenon DEF Lapsed, W
<1> QED
  BY <1>3, <1>4, Zenon DEF GoodReservation, Stale, W

LEMMA DecisionHonours ==
    ASSUME IInv, NEW n \in Matches, NEW v \in Users, continue_match(n, v),
           NEW m \in Matches, NEW u \in Participants[m]
    PROVE  Honoured(m, u)
<1> SUFFICES ASSUME Waiting(m, clock), GoodReservation(m, u, clock'), source'[<<m, u>>] = "none"
             PROVE  status'[m] \in {"confirmed", "ended"}
  BY Zenon DEF Honoured
<1>1. /\ source[<<m, u>>] # "none" /\ u \in Users /\ <<m, u>> \in Seats /\ <<n, v>> \in Seats
      /\ status \in [Matches -> Statuses] /\ source \in [Seats -> Sources]
  BY Partners, Zenon DEF GoodReservation, Seats, IInv, Rows
<1>2. /\ DeadlineAt(m, clock) > clock'
      /\ source[<<m, u>>] = "premium" => u \in premium
      /\ ~Stale(m, u, clock')
  BY Zenon DEF GoodReservation, Stale
<1>3. PICK t \in clock..MaxClock :
        \/ record_expired(n, v, t) \/ record_plan_changed(n, v, t)
        \/ record_quota_reached(n, v, t) \/ record_pending(n, v, t)
        \/ record_lapsed(n, v, t)
        \/ \E s \in t..MaxClock : record_confirmed(n, v, t, s)
  BY Zenon DEF continue_match
<1>4. CASE record_expired(n, v, t)
  <2>1. n = m
    BY <1>1, <1>4, Zenon DEF record_expired, delete_reservations
  <2>2. DeadlineAt(m, clock) <= clock'
    BY <1>4, <2>1, Zenon DEF record_expired
  <2>3. DeadlineAt(m, clock) \in Nat /\ clock' \in Nat
    <3>1. clock \in Nat /\ clock' \in Nat
      BY <1>3, <1>4, ContinuationAssumption DEF IInv, Rows, record_expired
    <3> QED
      BY <3>1, FoundAt, Zenon DEF IInv
  <2> QED
    BY <1>2, <2>2, <2>3
<1>5. CASE record_plan_changed(n, v, t)
  <2>1. n = m /\ v = u
    BY <1>1, <1>5, Zenon DEF record_plan_changed, clear_choice
  <2> QED
    BY <1>2, <1>5, <2>1, Zenon DEF record_plan_changed
<1>6. CASE record_quota_reached(n, v, t)
  <2>1. Stale(n, v, t) /\ clear_choice(n, v)
    BY <1>1, <1>6, Zenon DEF record_quota_reached, choiceVars
  <2>2. n = m /\ v = u
    BY <1>1, <2>1, Zenon DEF clear_choice
  <2> QED
    BY <1>2, <1>6, <2>1, <2>2, Zenon DEF record_quota_reached
<1>7. CASE record_pending(n, v, t)
  BY <1>1, <1>7, Zenon DEF record_pending, Inserted
<1>8. CASE record_lapsed(n, v, t)
  <2>1. PICK p \in Participants[n] :
          /\ Lapsed(n, v, t, p)
          /\ source' = [source EXCEPT ![<<n, v>>] = reserve(v, t), ![<<n, p>>] = "none"]
    BY <1>8, Zenon DEF record_lapsed
  <2>2. clock' = t /\ reserve(v, t) # "none" /\ (source[<<n, v>>] = "none" \/ Stale(n, v, t))
    BY <1>8, Zenon DEF record_lapsed, Inserted, Reserving
  <2>3. n = m /\ p = u
    BY <1>1, <2>1, <2>2, Zenon
  <2>4. v # u
    BY <1>1, <1>2, <2>2, <2>3, Zenon
  <2>5. ~Lapsed(m, v, t, u)
    BY <2>2, <2>4, GoodIsChargeable, Zenon
  <2> QED
    BY <2>1, <2>3, <2>5, Zenon
<1>9. CASE \E s \in t..MaxClock : record_confirmed(n, v, t, s)
  <2>1. PICK s \in t..MaxClock : record_confirmed(n, v, t, s)
    BY <1>9, Zenon
  <2>2. delete_reservations(n) /\ status' = [status EXCEPT ![n] = "confirmed"]
    BY <2>1, Zenon DEF record_confirmed
  <2> QED
    BY <1>1, <2>2, Zenon DEF delete_reservations
<1> QED
  BY <1>3, <1>4, <1>5, <1>6, <1>7, <1>8, <1>9, Zenon

\* No other step withdraws a reservation before its deadline, unless it ends the match.
LEMMA OthersHonour ==
    ASSUME IInv, [Next]_vars, ~ \E n \in Matches, v \in Users : continue_match(n, v),
           NEW m \in Matches, NEW u \in Participants[m]
    PROVE  Honoured(m, u)
<1> SUFFICES ASSUME GoodReservation(m, u, clock'), source'[<<m, u>>] = "none"
             PROVE  status'[m] \in {"confirmed", "ended"}
  BY Zenon DEF Honoured
<1>1. /\ source[<<m, u>>] # "none" /\ <<m, u>> \in Seats /\ clock \in Nat
      /\ status \in [Matches -> Statuses] /\ source \in [Seats -> Sources]
      /\ DeadlineAt(m, clock) > clock'
  BY Partners, ContinuationAssumption DEF GoodReservation, Seats, IInv, Rows
<1>2. ASSUME NEW n \in Matches, lock_available_match(n) PROVE FALSE
  <2>1. n = m /\ StatusAt(m, clock) = "expired" /\ status[m] # "expired"
    BY <1>1, <1>2, Zenon DEF lock_available_match, delete_reservations
  <2>2. DeadlineAt(m, clock) \in Nat /\ DeadlineAt(m, clock) <= clock /\ clock' = clock
    BY <1>1, <1>2, <2>1, FoundAt, Zenon DEF IInv, lock_available_match
  <2> QED
    BY <1>1, <2>2
<1>3. ASSUME NEW n \in Matches, record_end(n) PROVE status'[m] = "ended"
  BY <1>1, <1>3, Zenon DEF record_end, delete_reservations
<1>4. CASE source' = source
  BY <1>1, <1>4, Zenon
<1> QED
  BY <1>2, <1>3, <1>4, Zenon DEF Next, create, block, message, run_batch, change_subscription,
     grant_advertising_credit, tick, choiceVars, vars

\* A reservation that is still good is never withdrawn by the other participant's
\* decision, by a late command or by maintenance: it leaves with its match, which
\* is confirmed or ended (record, pg/continuation.rs; lock_available_match, pg/access.rs).
THEOREM GoodReservationsStand == Spec => ReservationHonoured
<1>1. IInv /\ [Next]_vars => \A m \in Matches : \A u \in Participants[m] : Honoured(m, u)
  BY DecisionHonours, OthersHonour, Zenon
<1>2. IInv /\ [Next]_vars =>
        [\A m \in Matches : \A u \in Participants[m] :
           /\ Waiting(m, clock)
           /\ GoodReservation(m, u, clock')
           /\ source'[<<m, u>>] = "none"
           => status'[m] \in {"confirmed", "ended"}]_vars
  BY <1>1, Zenon DEF Honoured
<1> QED
  BY <1>2, ContinuationInvariant, PTL DEF Spec, ReservationHonoured
=============================================================================
