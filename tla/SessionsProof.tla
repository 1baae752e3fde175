---------------------------- MODULE SessionsProof ----------------------------
(***************************************************************************)
(* The sessions of an account, for any number of families, tokens and      *)
(* devices, any lifetimes and any order of deliveries.                     *)
(*                                                                         *)
(* A session does not fork because a token is spent before it has a child  *)
(* (Lineage) and a receipt names the one replacement ever given for its    *)
(* token (Receipts).  An application that only repeats its stored attempt  *)
(* is not stranded because the child its receipt names cannot have been    *)
(* presented by anyone else (Recoverable), and lives as long as its family *)
(* (InStep).                                                               *)
(*                                                                         *)
(* The second part is about Profiles, which the same run checks: consent   *)
(* and the data that needs it, for any texts, questions, cells, reviewers  *)
(* and numbers of document versions.  ConsentBacksData alone is not        *)
(* inductive: a write finds the current version among the live rows of the *)
(* consent, and only a newest row that grants has live rows.               *)
(* DecisionOnSeen rests on what a reviewer holds: a case seen at the       *)
(* version it still has was seen with the text it still has.               *)
(*                                                                         *)
(* The third part is about Registration, for any accounts and logins of a  *)
(* phone.  A login that has chosen the identity of an account it has yet to*)
(* insert must be the only one that holds it, and no such identity may be  *)
(* banned already (LoginsOK): a session opened later is then the owner's.  *)
(***************************************************************************)
EXTENDS Sessions, Profiles, Registration, TLAPS

Rows ==
    /\ family \in [Families -> {"none", "active", "erased"} \cup Reasons]
    /\ deadline \in [Families -> Nat]
    /\ tok \in [Tokens -> {"none", "live", "rotated", "revoked", "gone"}]
    /\ familyOf \in [Tokens -> Families \cup {NoFamily}]
    /\ parent \in [Tokens -> Tokens \cup {NoToken}]
    /\ left \in [Tokens -> Nat]
    /\ since \in [Tokens -> Nat]
    /\ key \in [Tokens -> AllKeys]
    /\ result \in [Tokens -> Tokens \cup {NoToken}]
    /\ device \in [Devices -> Families \cup {NoFamily}]
    /\ holds \in [Families -> Tokens \cup {NoToken}]
    /\ requests \subseteq Tokens \X AllKeys
    /\ given \in [Tokens -> SUBSET Tokens]

\* A token that was inserted belongs to a family that was.
Inserted ==
    \A t \in Tokens :
      /\ tok[t] = "none" => familyOf[t] = NoFamily /\ parent[t] = NoToken
      /\ tok[t] # "none" => familyOf[t] \in Families /\ family[familyOf[t]] # "none"

\* Only a rotated token has a receipt, which names what was given for it.
Receipts ==
    \A t \in Tokens :
      /\ tok[t] \in {"none", "live"} => given[t] = {}
      /\ result[t] # NoToken => tok[t] = "rotated" /\ given[t] \subseteq {result[t]}

\* A token with a child was rotated.
Lineage == \A c \in Tokens : parent[c] # NoToken => tok[parent[c]] \in {"rotated", "gone"}

\* A request names a token that was given out, with the keys its application
\* sends; a rotation was asked for.
Asked ==
    /\ \A t \in Tokens : tok[t] = "rotated" => <<t, key[t]>> \in requests
    /\ \A t \in Tokens, k \in AllKeys : <<t, k>> \in requests =>
          tok[t] # "none" /\ (familyOf[t] \notin Varied => k = "key")

\* A live token and its family expire together.
InStep == \A t \in Tokens : tok[t] = "live" => left[t] = deadline[familyOf[t]]

\* An application holds a token of its own family.
Holds == \A f \in Families : holds[f] # NoToken => familyOf[holds[f]] = f

\* The application of f holds a token that was spent, and its receipt counts.
Waits(f) ==
    /\ holds[f] # NoToken
    /\ family[f] = "active" /\ deadline[f] > 0
    /\ tok[holds[f]] = "rotated" /\ since[holds[f]] < WINDOW

\* The receipt then names a live child, which nobody has presented.
ChildUnseen(f, n) ==
    /\ n \in Tokens /\ parent[n] = holds[f] /\ familyOf[n] = f /\ tok[n] = "live"
    /\ \A k \in AllKeys : <<n, k>> \notin requests
Recoverable == \A f \in Families \ Varied : Waits(f) => ChildUnseen(f, result[holds[f]])

\* Some token of f was presented without a key, or with two.
Reused(f) ==
    \E t \in Tokens : /\ familyOf[t] = f
                      /\ \/ <<t, "strict">> \in requests
                         \/ {<<t, "key">>, <<t, "other">>} \subseteq requests

SInv ==
    /\ Rows /\ Inserted /\ Receipts /\ Lineage /\ Asked /\ InStep /\ Holds /\ Recoverable
    /\ NoFork /\ ReplayNeedsReuse /\ RevokedIsDead

-----------------------------------------------------------------------------

LEMMA SInvInit == Init => SInv
<1> SUFFICES ASSUME Init PROVE SInv
  BY Zenon
<1> USE SessionAssumption
<1>1. Rows
  BY Zenon DEF Init, Rows, AllKeys
<1>2. Inserted /\ Receipts /\ Lineage /\ Asked /\ InStep
  BY Zenon DEF Init, Inserted, Receipts, Lineage, Asked, InStep
<1>3. Holds /\ Recoverable
  BY Zenon DEF Init, Holds, Recoverable, Waits
<1>4. NoFork /\ ReplayNeedsReuse /\ RevokedIsDead
  BY Zenon DEF Init, NoFork, ReplayNeedsReuse, RevokedIsDead, Revoked, Reasons, Stored
<1> QED
  BY <1>1, <1>2, <1>3, <1>4, Zenon DEF SInv

\* Answers: the rows stay, and an application holds what it held, nothing, or a
\* live token of its family.
LEMMA AnswerKeeps ==
    ASSUME SInv, UNCHANGED <<family, deadline, tok, row, result, device, requests>>,
           holds' \in [Families -> Tokens \cup {NoToken}],
           \A f \in Families : \/ holds'[f] \in {holds[f], NoToken}
                               \/ /\ holds'[f] \in Tokens /\ familyOf[holds'[f]] = f
                                  /\ f \in Varied \/ tok[holds'[f]] = "live",
           given' \in [Tokens -> SUBSET Tokens],
           \A t \in Tokens : \/ given'[t] = given[t]
                             \/ result[t] # NoToken /\ given'[t] = {result[t]}
    PROVE  SInv'
<1> USE SessionAssumption
<1>1. /\ Rows /\ family' = family /\ deadline' = deadline /\ tok' = tok /\ result' = result
      /\ familyOf' = familyOf /\ parent' = parent /\ left' = left /\ since' = since
      /\ key' = key /\ device' = device /\ requests' = requests
  BY Zenon DEF SInv, row
<1>2. Rows'
  BY <1>1, ZenonT(90) DEF Rows
<1>3. Inserted' /\ Lineage' /\ Asked' /\ InStep' /\ RevokedIsDead' /\ ReplayNeedsReuse'
  BY <1>1 DEF SInv, Inserted, Lineage, Asked, InStep, RevokedIsDead, ReplayNeedsReuse, Revoked
<1>4. Receipts' /\ NoFork'
  BY <1>1 DEF SInv, Receipts, NoFork, Stored
<1>5. Holds'
  BY <1>1, Zenon DEF SInv, Holds
<1>6. Recoverable'
  <2> SUFFICES ASSUME NEW f \in Families \ Varied, Waits(f)'
               PROVE  ChildUnseen(f, result[holds[f]])'
    BY <1>1, Zenon DEF Recoverable, Waits
  <2>1. holds'[f] = holds[f]
    BY <1>1, Zenon DEF Waits
  <2>2. ChildUnseen(f, result[holds[f]])
    BY <1>1, <2>1, Zenon DEF SInv, Recoverable, Waits
  <2> QED
    BY <1>1, <2>1, <2>2, Zenon DEF ChildUnseen
<1> QED
  BY <1>2, <1>3, <1>4, <1>5, <1>6, Zenon DEF SInv

\* Sending adds a request for the token the application holds.
LEMMA SendKeeps == ASSUME SInv, NEW f \in Families, NEW k \in KeysOf(f), send(f, k) PROVE SInv'
<1> USE SessionAssumption
<1>1. /\ Rows /\ family' = family /\ deadline' = deadline /\ tok' = tok /\ result' = result
      /\ familyOf' = familyOf /\ parent' = parent /\ left' = left /\ since' = since
      /\ key' = key /\ device' = device /\ holds' = holds /\ given' = given
      /\ requests' = requests \cup {<<holds[f], k>>} /\ holds[f] # NoToken
  BY Zenon DEF SInv, row, send
<1>2. /\ holds[f] \in Tokens /\ k \in AllKeys /\ familyOf[holds[f]] = f
      /\ f \notin Varied => k = "key"
  BY <1>1, Zenon DEF SInv, Rows, Holds, KeysOf, AllKeys
<1>3. Rows'
  BY <1>1, <1>2 DEF Rows
<1>4. Inserted' /\ Receipts' /\ Lineage' /\ InStep' /\ Holds' /\ NoFork' /\ RevokedIsDead'
  BY <1>1 DEF SInv, Inserted, Receipts, Lineage, InStep, Holds, NoFork, Stored,
     RevokedIsDead, Revoked
<1>5. Asked'
  BY <1>1, <1>2, Zenon DEF SInv, Asked, Inserted
<1>6. ReplayNeedsReuse'
  <2> SUFFICES ASSUME NEW g \in Families, Reused(g) PROVE Reused(g)'
    BY <1>1, Zenon DEF SInv, ReplayNeedsReuse, Reused
  <2>1. familyOf' = familyOf /\ requests \subseteq requests'
    BY <1>1, Zenon
  <2> QED
    BY <2>1, Zenon DEF Reused
<1>7. Recoverable'
  <2> SUFFICES ASSUME NEW g \in Families \ Varied, Waits(g)
               PROVE  ChildUnseen(g, result[holds[g]])'
    BY <1>1, Zenon DEF Recoverable, Waits
  <2>1. ChildUnseen(g, result[holds[g]])
    BY Zenon DEF SInv, Recoverable
  <2>2. holds[f] # result[holds[g]]
    BY <1>2, <2>1, Zenon DEF Waits, ChildUnseen
  <2> QED
    BY <1>1, <2>1, <2>2, Zenon DEF ChildUnseen
<1> QED
  BY <1>3, <1>4, <1>5, <1>6, <1>7, Zenon DEF SInv

\* Nothing of the families is revived by closing some of them.
LEMMA RevokeKeeps ==
    ASSUME SInv, NEW F \in SUBSET Families, NEW reason \in Reasons,
           revoke_families(F, reason),
           UNCHANGED <<requests, given>>,
           holds' = holds \/ \E t \in Tokens : holds' = [f \in Families |-> IF holds[f] = t THEN NoToken ELSE holds[f]],
           reason = "replay" => \A f \in F : Reused(f)
    PROVE  SInv'
<1> USE SessionAssumption DEF row
<1>1. /\ Rows /\ deadline' = deadline /\ familyOf' = familyOf /\ parent' = parent /\ left' = left
      /\ since' = since /\ key' = key /\ requests' = requests /\ given' = given
  BY Zenon DEF SInv, revoke_families
<1>2. \A f \in Families : family'[f] = IF f \in F /\ family[f] = "active" THEN reason ELSE family[f]
  BY Zenon DEF revoke_families
<1>3. \A t \in Tokens :
        /\ tok'[t] = IF familyOf[t] \in F /\ tok[t] = "live" THEN "revoked" ELSE tok[t]
        /\ result'[t] = IF familyOf[t] \in F THEN NoToken ELSE result[t]
  BY Zenon DEF revoke_families
<1>4. \A d \in Devices : device'[d] = IF device[d] \in F THEN NoFamily ELSE device[d]
  BY Zenon DEF revoke_families
<1>5. \A f \in Families : holds'[f] = holds[f] \/ holds'[f] = NoToken
  BY <1>1, ZenonT(90) DEF Rows
<1>6. Rows'
  BY <1>1, Zenon DEF Rows, revoke_families, Reasons
<1>7. Inserted' /\ Receipts' /\ Lineage'
  BY <1>1, <1>2, <1>3 DEF SInv, Rows, Inserted, Receipts, Lineage, Reasons
<1>8. Asked' /\ InStep'
  BY <1>1, <1>2, <1>3, Zenon DEF SInv, Rows, Asked, InStep
<1>9. Holds'
  BY <1>1, <1>5, Zenon DEF SInv, Rows, Holds
<1>10. Recoverable'
  <2> SUFFICES ASSUME NEW f \in Families \ Varied, Waits(f)'
               PROVE  ChildUnseen(f, result[holds[f]])'
    BY Zenon DEF Recoverable
  <2>1. holds'[f] = holds[f] /\ holds[f] \in Tokens /\ f \notin F /\ familyOf[holds[f]] = f
    BY <1>1, <1>2, <1>5, Zenon DEF SInv, Rows, Waits, Reasons, Holds
  <2>2. Waits(f) /\ result'[holds[f]] = result[holds[f]]
    BY <1>1, <1>2, <1>3, <2>1, Zenon DEF Waits, Reasons
  <2>3. ChildUnseen(f, result[holds[f]])
    BY <2>2, Zenon DEF SInv, Recoverable
  <2> QED
    BY <1>1, <1>3, <2>1, <2>2, <2>3, Zenon DEF ChildUnseen
<1>11. NoFork'
  BY <1>1, <1>3, Zenon DEF SInv, Rows, NoFork, Stored
<1>12. ReplayNeedsReuse'
  <2> SUFFICES ASSUME NEW f \in Families, family'[f] = "replay" PROVE Reused(f)'
    BY Zenon DEF ReplayNeedsReuse, Reused
  <2>1. family[f] = "replay" \/ (f \in F /\ reason = "replay")
    BY <1>2, Zenon
  <2>2. Reused(f)
    BY <2>1, Zenon DEF SInv, ReplayNeedsReuse, Reused
  <2> QED
    BY <1>1, <2>2, Zenon DEF Reused
<1>13. RevokedIsDead'
  BY <1>1, <1>2, <1>3, <1>4 DEF SInv, Rows, RevokedIsDead, Revoked, Reasons, Inserted, Receipts
<1> QED
  BY <1>6, <1>7, <1>8, <1>9, <1>10, <1>11, <1>12, <1>13, Zenon DEF SInv

\* A sign-in opens a family that had no token.
LEMMA IssueKeeps ==
    ASSUME SInv, NEW f \in Families, NEW n \in Tokens, issue_token_pair(f, n) PROVE SInv'
<1> USE SessionAssumption
<1>1. /\ Rows /\ family[f] = "none" /\ tok[n] = "none"
      /\ family' = [family EXCEPT ![f] = "active"]
      /\ deadline' = [deadline EXCEPT ![f] = TTL]
      /\ tok' = [tok EXCEPT ![n] = "live"]
      /\ familyOf' = [familyOf EXCEPT ![n] = f]
      /\ parent' = [parent EXCEPT ![n] = NoToken]
      /\ left' = [left EXCEPT ![n] = TTL]
      /\ holds' = [holds EXCEPT ![f] = n]
      /\ since' = since /\ key' = key /\ result' = result /\ device' = device
      /\ requests' = requests /\ given' = given
  BY Zenon DEF SInv, issue_token_pair, create, insert_session, insert_token
<1>2. Rows'
  BY <1>1, ZenonT(90) DEF Rows
<1>3. \A t \in Tokens : familyOf[t] = f => tok[t] = "none" /\ FALSE
  BY <1>1, Zenon DEF SInv, Inserted
<1>4. Inserted' /\ Receipts' /\ Lineage'
  BY <1>1, <1>3 DEF SInv, Rows, Inserted, Receipts, Lineage
<1>5. Asked' /\ InStep' /\ Holds'
  BY <1>1, <1>3 DEF SInv, Rows, Inserted, Asked, InStep, Holds
<1>6. Recoverable'
  <2> SUFFICES ASSUME NEW g \in Families \ Varied, Waits(g)'
               PROVE  ChildUnseen(g, result[holds[g]])'
    BY Zenon DEF Recoverable
  <2>1. g # f /\ holds'[g] = holds[g] /\ holds[g] \in Tokens \ {n}
    BY <1>1, Zenon DEF Waits, Rows, SInv, Holds, Inserted
  <2>2. ChildUnseen(g, result[holds[g]])
    BY <1>1, <2>1, Zenon DEF Waits, Rows, SInv, Recoverable
  <2> QED
    BY <1>1, <2>1, <2>2, Zenon DEF ChildUnseen, Rows
<1>7. NoFork'
  BY <1>1, <1>3, ZenonT(90) DEF SInv, Rows, NoFork, Stored, Inserted
<1>8. ReplayNeedsReuse'
  <2> SUFFICES ASSUME NEW g \in Families, Reused(g) PROVE Reused(g)'
    BY <1>1, ZenonT(90) DEF SInv, Rows, ReplayNeedsReuse, Reused
  <2>1. \A t \in Tokens : familyOf[t] = g => familyOf'[t] = g
    BY <1>1, ZenonT(90) DEF SInv, Inserted, Rows
  <2> QED
    BY <1>1, <2>1, Zenon DEF Reused
<1>9. RevokedIsDead'
  BY <1>1, <1>3, ZenonT(90) DEF SInv, Rows, RevokedIsDead, Revoked, Reasons
<1> QED
  BY <1>2, <1>4, <1>5, <1>6, <1>7, <1>8, <1>9, Zenon DEF SInv

\* A rotation: the family's live token is spent and its one child takes its place.
LEMMA RotateKeeps ==
    ASSUME SInv, NEW t \in Tokens, NEW k \in AllKeys, <<t, k>> \in requests, tok[t] = "live",
           active_family(familyOf[t]), NEW n \in Tokens, rotate_live(t, k, n),
           requests' = requests
    PROVE  SInv'
<1> USE SessionAssumption
<1> DEFINE f == familyOf[t]
<1>1. /\ Rows /\ tok[n] = "none" /\ n # t
      /\ f \in Families /\ family[f] = "active" /\ deadline[f] > 0
      /\ family' = family
      /\ deadline' = [deadline EXCEPT ![f] = TTL]
      /\ tok' = [tok EXCEPT ![t] = "rotated", ![n] = "live"]
      /\ familyOf' = [familyOf EXCEPT ![n] = f]
      /\ parent' = [parent EXCEPT ![n] = t]
      /\ left' = [left EXCEPT ![n] = TTL]
      /\ since' = [since EXCEPT ![t] = 0]
      /\ key' = [key EXCEPT ![t] = k]
      /\ result' = [result EXCEPT ![t] = IF k = "strict" THEN NoToken ELSE n]
      /\ given' = [given EXCEPT ![t] = given[t] \cup {n}]
      /\ device' = device /\ requests' = requests
  BY Zenon DEF SInv, Inserted, rotate_live, insert_token, give, active_family, RefreshRecovery
<1>3. /\ holds' \in [Families -> Tokens \cup {NoToken}]
      /\ \A g \in Families : \/ holds'[g] = holds[g]
                             \/ holds[g] = t /\ holds'[g] = n
  BY <1>1 DEF rotate_live, give, answer, Rows
<1>4. Rows'
  BY <1>1, <1>3, Zenon DEF Rows
<1>5. /\ f \in Families
      /\ \A s \in Tokens : tok[s] = "live" /\ familyOf[s] = f => s = t
      /\ given[t] = {} /\ \A x \in AllKeys : <<n, x>> \notin requests
      /\ \A g \in Families : holds[g] # n
      /\ \A c \in Tokens : parent[c] # t /\ parent[c] # n
  <2>1. \A s \in Tokens : tok[s] = "live" /\ familyOf[s] = f => s = t
    BY Zenon DEF SInv, NoFork
  <2>2. given[t] = {} /\ \A x \in AllKeys : <<n, x>> \notin requests
    BY <1>1, Zenon DEF SInv, Receipts, Asked
  <2>3. \A g \in Families : holds[g] # n
    BY <1>1, ZenonT(90) DEF SInv, Holds, Inserted
  <2>4. \A c \in Tokens : parent[c] # t /\ parent[c] # n
    BY <1>1, Zenon DEF SInv, Lineage
  <2> QED
    BY <1>1, <2>1, <2>2, <2>3, <2>4, Zenon
<1> HIDE DEF f
<1>6. Inserted' /\ Receipts' /\ Lineage'
  BY <1>1, <1>5 DEF SInv, Rows, Inserted, Receipts, Lineage
<1>7. Asked' /\ InStep'
  BY <1>1, <1>5, ZenonT(90) DEF SInv, Rows, Inserted, Asked, InStep, f
<1>8. Holds'
  BY <1>1, <1>3, <1>5 DEF SInv, Rows, Inserted, Holds, f
<1>9. Recoverable'
  <2> SUFFICES ASSUME NEW g \in Families \ Varied, Waits(g)'
               PROVE  ChildUnseen(g, result[holds[g]])'
    BY Zenon DEF Recoverable
  <2>1. holds'[g] = holds[g] /\ holds[g] \in Tokens \ {n}
    BY <1>1, <1>3, <1>5, Zenon DEF Waits, Rows
  <2>2. CASE holds[g] = t
    <3>1. g = f /\ k = "key"
      BY <1>1, <2>2, Zenon DEF SInv, Holds, Asked, f
    <3> QED
      BY <1>1, <1>5, <2>1, <2>2, <3>1, Zenon DEF ChildUnseen, Rows
  <2>3. CASE holds[g] # t
    <3>1. family[g] = "active" /\ tok[holds[g]] = "rotated" /\ since[holds[g]] < WINDOW
      BY <1>1, <2>1, <2>3, Zenon DEF Waits, Rows
    <3>2. deadline[g] > 0
      BY <1>1, <2>1, Zenon DEF Waits, Rows
    <3>3. ChildUnseen(g, result[holds[g]])
      BY <2>1, <3>1, <3>2, Zenon DEF SInv, Recoverable, Waits
    <3>4. result[holds[g]] # t /\ result[holds[g]] # n
      BY <1>1, <3>3, Zenon DEF ChildUnseen
    <3> QED
      BY <1>1, <2>1, <2>3, <3>3, <3>4, Zenon DEF ChildUnseen, Rows
  <2> QED
    BY <2>2, <2>3, Zenon
<1>10. NoFork'
  <2>1. \A s, v \in Tokens : tok'[s] = "live" /\ tok'[v] = "live"
                              /\ familyOf'[s] = familyOf'[v] => s = v
    BY <1>1, <1>5, Zenon DEF SInv, Rows, NoFork
  <2>2. \A s, v \in Tokens : Stored(s)' /\ Stored(v)'
                              /\ parent'[s] = parent'[v] /\ parent'[s] # NoToken => s = v
    BY <1>1, <1>5 DEF SInv, Rows, NoFork, Stored, Inserted
  <2>3. \A s \in Tokens : \A x, y \in given'[s] : x = y
    BY <1>1, <1>5 DEF SInv, Rows, NoFork
  <2> QED
    BY <2>1, <2>2, <2>3, Zenon DEF NoFork
<1>11. ReplayNeedsReuse'
  <2> SUFFICES ASSUME NEW g \in Families, Reused(g) PROVE Reused(g)'
    BY <1>1, Zenon DEF SInv, ReplayNeedsReuse, Reused
  <2>1. \A s \in Tokens : familyOf[s] = g => familyOf'[s] = g
    BY <1>1, Zenon DEF SInv, Inserted, Rows
  <2> QED
    BY <1>1, <2>1, Zenon DEF Reused
<1>12. RevokedIsDead'
  BY <1>1, <1>5, Zenon DEF SInv, Rows, RevokedIsDead, Revoked, Reasons, f
<1> QED
  BY <1>4, <1>6, <1>7, <1>8, <1>9, <1>10, <1>11, <1>12, Zenon DEF SInv

\* Devices come and go with active sessions.
LEMMA DeviceKeeps ==
    ASSUME SInv, NEW d \in Devices,
           \/ \E f \in Families : register_device(d, f)
           \/ remove_device(d)
    PROVE  SInv'
<1>1. /\ Rows /\ family' = family /\ deadline' = deadline /\ tok' = tok /\ result' = result
      /\ familyOf' = familyOf /\ parent' = parent /\ left' = left /\ since' = since
      /\ key' = key /\ holds' = holds /\ requests' = requests /\ given' = given
  BY Zenon DEF SInv, row, app, register_device, remove_device
<1>2. \/ \E f \in Families : family[f] = "active" /\ device' = [device EXCEPT ![d] = f]
      \/ device' = [device EXCEPT ![d] = NoFamily]
  BY Zenon DEF register_device, active_family, remove_device
<1>3. Rows'
  BY <1>1, <1>2, Zenon DEF Rows
<1>4. Inserted' /\ Lineage' /\ Asked' /\ InStep' /\ ReplayNeedsReuse' /\ Receipts' /\ NoFork' /\ Holds'
  BY <1>1 DEF SInv, Inserted, Lineage, Asked, InStep, ReplayNeedsReuse, Receipts, NoFork, Stored, Holds
<1>5. Recoverable'
  BY <1>1, Zenon DEF SInv, Recoverable, Waits, ChildUnseen
<1>6. RevokedIsDead'
  BY <1>1, <1>2, Zenon DEF SInv, Rows, RevokedIsDead, Revoked, Reasons
<1> QED
  BY <1>3, <1>4, <1>5, <1>6, Zenon DEF SInv

\* Rows only disappear: by erasure or by retention.
LEMMA RemovalKeeps ==
    ASSUME SInv, Rows', UNCHANGED <<deadline, familyOf, left, since, key, app>>,
           \A f \in Families : \/ family'[f] = family[f]
                               \/ family[f] # "none" /\ family'[f] = "erased",
           \A t \in Tokens : \/ tok'[t] = tok[t]
                             \/ tok[t] # "none" /\ tok'[t] = "gone" /\ result'[t] = NoToken,
           \A t \in Tokens : result'[t] \in {result[t], NoToken},
           \A c \in Tokens : parent'[c] \in {parent[c], NoToken},
           \A d \in Devices : device'[d] \in {device[d], NoFamily},
           \A t \in Tokens : familyOf[t] \in Families /\ family'[familyOf[t]] = "erased" =>
                               tok'[t] # "live" /\ result'[t] = NoToken,
           \A d \in Devices : device'[d] # NoFamily => family'[device'[d]] = family[device'[d]],
           \A f \in Families \ Varied : Waits(f)' =>
               LET n == result[holds[f]] IN result'[holds[f]] = n /\ parent'[n] = parent[n] /\ tok'[n] = tok[n]
    PROVE  SInv'
<1> USE SessionAssumption
<1>1. /\ Rows /\ deadline' = deadline /\ familyOf' = familyOf /\ left' = left /\ since' = since
      /\ key' = key /\ holds' = holds /\ requests' = requests /\ given' = given
  BY Zenon DEF SInv, app
<1>2. Inserted' /\ Lineage'
  <2>0. Inserted /\ Lineage
    BY Zenon DEF SInv
  <2>1. \A t \in Tokens : /\ tok'[t] = "none" <=> tok[t] = "none"
                         /\ tok'[t] \in {tok[t], "gone"}
                         /\ parent'[t] \in {parent[t], NoToken}
    OBVIOUS
  <2>2. \A f \in Families : family[f] # "none" => family'[f] # "none"
    OBVIOUS
  <2>3. Inserted'
    <3>1. ASSUME NEW t \in Tokens, tok'[t] = "none" PROVE familyOf'[t] = NoFamily /\ parent'[t] = NoToken
      BY <1>1, <2>0, <2>1, <3>1 DEF Inserted
    <3>2. ASSUME NEW t \in Tokens, tok'[t] # "none"
          PROVE  familyOf'[t] \in Families /\ family'[familyOf'[t]] # "none"
      BY <1>1, <2>0, <2>1, <2>2, <3>2 DEF Inserted
    <3> QED
      BY <3>1, <3>2, Zenon DEF Inserted
  <2>4. ASSUME NEW c \in Tokens, parent'[c] # NoToken PROVE tok'[parent'[c]] \in {"rotated", "gone"}
    <3>1. parent'[c] = parent[c]
      BY <2>1, <2>4, Zenon
    <3>2. parent[c] \in Tokens /\ tok[parent[c]] \in {"rotated", "gone"}
      BY <1>1, <2>0, <2>4, <3>1 DEF Rows, Lineage
    <3> QED
      BY <2>1, <3>1, <3>2
  <2> QED
    BY <2>3, <2>4, Zenon DEF Lineage
<1>3. Receipts' /\ Asked' /\ InStep' /\ Holds'
  <2>0. Receipts /\ Asked /\ InStep /\ Holds
    BY Zenon DEF SInv
  <2>1. \A t \in Tokens : /\ tok'[t] \in {"none", "live", "rotated"} => tok'[t] = tok[t]
                         /\ tok'[t] = "none" => tok[t] = "none"
    OBVIOUS
  <2>2. Receipts'
    BY <1>1, <2>0 DEF Receipts
  <2>3. Asked'
    BY <1>1, <2>0, <2>1, ZenonT(90) DEF Asked
  <2>4. InStep'
    BY <1>1, <2>0, <2>1, Zenon DEF InStep
  <2>5. Holds'
    BY <1>1, <2>0, Zenon DEF Holds
  <2> QED
    BY <2>2, <2>3, <2>4, <2>5
<1>4. NoFork'
  <2>1. \A s \in Tokens : /\ tok'[s] = "live" => tok[s] = "live"
                          /\ Stored(s)' => Stored(s)
                          /\ parent'[s] # NoToken => parent'[s] = parent[s]
    BY Zenon DEF Stored
  <2>2. \A s, v \in Tokens : Stored(s)' /\ Stored(v)'
                              /\ parent'[s] = parent'[v] /\ parent'[s] # NoToken => s = v
    <3> SUFFICES ASSUME NEW s \in Tokens, NEW v \in Tokens, Stored(s)', Stored(v)',
                        parent'[s] = parent'[v], parent'[s] # NoToken
                 PROVE  s = v
      BY Zenon
    <3>1. Stored(s) /\ Stored(v) /\ parent[s] = parent[v] /\ parent[s] # NoToken
      BY <2>1, Zenon
    <3> QED
      BY <3>1, Zenon DEF SInv, NoFork
  <2>3. \A s, v \in Tokens : tok'[s] = "live" /\ tok'[v] = "live"
                              /\ familyOf'[s] = familyOf'[v] => s = v
    BY <1>1, <2>1 DEF SInv, NoFork
  <2>4. \A s \in Tokens : \A x, y \in given'[s] : x = y
    BY <1>1, ZenonT(90) DEF SInv, NoFork
  <2> QED
    BY <2>2, <2>3, <2>4, Zenon DEF NoFork
<1>5. ReplayNeedsReuse'
  <2> SUFFICES ASSUME NEW f \in Families, family'[f] = "replay" PROVE Reused(f)'
    BY Zenon DEF ReplayNeedsReuse, Reused
  <2>1. family[f] = "replay"
    BY Zenon
  <2>2. Reused(f)
    BY <2>1, Zenon DEF SInv, ReplayNeedsReuse, Reused
  <2> QED
    BY <1>1, <2>2, ZenonT(90) DEF Reused
<1>6. RevokedIsDead'
  <2>0. RevokedIsDead
    BY Zenon DEF SInv
  <2>1. \A f \in Families : Revoked(f)' => Revoked(f) \/ family'[f] = "erased"
    BY Zenon DEF Revoked
  <2>2. \A t \in Tokens : familyOf'[t] \in Families /\ Revoked(familyOf[t])' =>
            tok'[t] # "live" /\ result'[t] = NoToken
    <3> SUFFICES ASSUME NEW t \in Tokens, familyOf[t] \in Families, Revoked(familyOf[t])'
                 PROVE  tok'[t] # "live" /\ result'[t] = NoToken
      BY <1>1, Zenon
    <3>1. CASE family'[familyOf[t]] = "erased"
      BY <3>1, Zenon
    <3>2. CASE Revoked(familyOf[t])
      <4>1. tok[t] # "live" /\ result[t] = NoToken
        BY <2>0, <3>2, Zenon DEF RevokedIsDead
      <4> QED
        BY <4>1, SMTT(20)
    <3> QED
      BY <2>1, <3>1, <3>2, Zenon
  <2>3. \A d \in Devices : device'[d] # NoFamily => ~Revoked(device[d])'
    BY <2>0 DEF RevokedIsDead, Revoked
  <2> QED
    BY <1>1, <2>2, <2>3, Zenon DEF RevokedIsDead, Revoked
<1>7. Recoverable'
  <2> SUFFICES ASSUME NEW f \in Families \ Varied, Waits(f)'
               PROVE  ChildUnseen(f, result[holds[f]])'
    BY Zenon DEF Recoverable
  <2>1. Waits(f)
    BY <1>1 DEF Waits, Rows
  <2>2. ChildUnseen(f, result[holds[f]])
    BY <2>1, Zenon DEF SInv, Recoverable
  <2> QED
    BY <1>1, <2>2, Zenon DEF ChildUnseen
<1> QED
  BY <1>2, <1>3, <1>4, <1>5, <1>6, <1>7, Zenon DEF SInv

LEMMA ErasureKeeps == ASSUME SInv, delete_account PROVE SInv'
<1> USE SessionAssumption
<1>1. /\ Rows /\ UNCHANGED <<deadline, familyOf, left, since, key, app>> /\ parent' = parent
      /\ family' = [f \in Families |-> IF family[f] = "none" THEN "none" ELSE "erased"]
      /\ tok' = [t \in Tokens |-> IF Stored(t) THEN "gone" ELSE tok[t]]
      /\ result' = [t \in Tokens |-> NoToken]
      /\ device' = [d \in Devices |-> NoFamily]
  BY Zenon DEF SInv, delete_account, row
<1>2. Rows'
  BY <1>1, Zenon DEF Rows, app
<1>3. \A f \in Families : family'[f] # "active"
  BY <1>1, Zenon
<1> QED
  BY <1>1, <1>2, <1>3, RemovalKeeps, Zenon DEF Rows, Stored, Waits

LEMMA PurgeKeeps == ASSUME SInv, run_as_leader PROVE SInv'
<1> USE SessionAssumption
<1>1. ASSUME NEW t \in Tokens, purge_token(t) PROVE SInv'
  <2>1. /\ Rows /\ UNCHANGED <<deadline, familyOf, left, since, key, app>>
        /\ family' = family /\ device' = device
        /\ tok' = [tok EXCEPT ![t] = "gone"]
        /\ parent' = [c \in Tokens |-> IF parent[c] = t THEN NoToken ELSE parent[c]]
        /\ result' = [result EXCEPT ![t] = NoToken]
        /\ Stored(t) /\ left[t] = 0
    BY <1>1, Zenon DEF SInv, purge_token, Purgeable
  <2>2. Rows'
    BY <2>1, Zenon DEF Rows, app
  <2>3. ASSUME NEW f \in Families \ Varied, Waits(f)'
        PROVE  LET n == result[holds[f]] IN result'[holds[f]] = n /\ parent'[n] = parent[n] /\ tok'[n] = tok[n]
    <3>1. holds[f] \in Tokens \ {t} /\ Waits(f)
      BY <2>1, <2>3, Zenon DEF Waits, Rows, app
    <3>2. ChildUnseen(f, result[holds[f]])
      BY <3>1, Zenon DEF SInv, Recoverable
    <3>3. result[holds[f]] # t
      <4>1. InStep /\ deadline[f] > 0
        BY <3>1, Zenon DEF SInv, Waits
      <4>2. result[holds[f]] = t => left[t] = deadline[f]
        BY <3>2, <4>1, Zenon DEF InStep, ChildUnseen
      <4>3. left[t] = 0
        BY <2>1, Zenon
      <4>4. deadline[f] # 0
        BY <4>1, SMT
      <4> QED
        BY <4>2, <4>3, <4>4, Zenon
    <3> QED
      BY <2>1, <3>1, <3>2, <3>3, Zenon DEF ChildUnseen, Rows
  <2>4. \A s \in Tokens : familyOf[s] \in Families /\ family'[familyOf[s]] = "erased" =>
                               tok'[s] # "live" /\ result'[s] = NoToken
    BY <2>1, Zenon DEF SInv, Rows, RevokedIsDead, Revoked
  <2> QED
    BY <2>1, <2>2, <2>3, <2>4, RemovalKeeps, ZenonT(90) DEF Rows, Stored
<1>2. ASSUME NEW t \in Tokens, purge_receipt(t) PROVE SInv'
  <2>1. /\ Rows /\ UNCHANGED <<deadline, familyOf, left, since, key, app>>
        /\ family' = family /\ device' = device /\ tok' = tok /\ parent' = parent
        /\ result' = [result EXCEPT ![t] = NoToken]
        /\ since[t] >= WINDOW
    BY <1>2, Zenon DEF SInv, purge_receipt, Stale, row
  <2>2. Rows'
    BY <2>1, Zenon DEF Rows, app
  <2>3. ASSUME NEW f \in Families \ Varied, Waits(f)' PROVE result'[holds[f]] = result[holds[f]]
    <3>1. holds[f] \in Tokens \ {t}
      BY <2>1, <2>3 DEF Waits, Rows, app
    <3> QED
      BY <2>1, <3>1, Zenon DEF Rows
  <2>4. \A s \in Tokens : familyOf[s] \in Families /\ family'[familyOf[s]] = "erased" =>
                               tok'[s] # "live" /\ result'[s] = NoToken
    BY <2>1, Zenon DEF SInv, Rows, RevokedIsDead, Revoked
  <2> QED
    BY <2>1, <2>2, <2>3, <2>4, RemovalKeeps, Zenon DEF Rows
<1>3. ASSUME NEW f \in Families, purge_family(f) PROVE SInv'
  <2>1. /\ Rows /\ UNCHANGED <<deadline, familyOf, left, since, key, app>>
        /\ tok' = tok /\ parent' = parent /\ result' = result
        /\ family[f] # "none"
        /\ family' = [family EXCEPT ![f] = "erased"]
        /\ device' = [d \in Devices |-> IF device[d] = f THEN NoFamily ELSE device[d]]
        /\ \A t \in Tokens : ~(Stored(t) /\ familyOf[t] = f)
    BY <1>3, Zenon DEF SInv, purge_family, row
  <2>2. Rows'
    BY <2>1, Zenon DEF Rows, app
  <2>3. \A s \in Tokens : familyOf[s] \in Families /\ family'[familyOf[s]] = "erased" =>
                               tok'[s] # "live" /\ result'[s] = NoToken
    BY <2>1, Zenon DEF SInv, Rows, RevokedIsDead, Revoked, Stored, Receipts
  <2>4. \A d \in Devices : device'[d] # NoFamily => family'[device'[d]] = family[device'[d]]
    BY <2>1, Zenon DEF Rows
  <2> QED
    BY <2>1, <2>2, <2>3, <2>4, RemovalKeeps, Zenon DEF Rows
<1> QED
  BY <1>1, <1>2, <1>3, Zenon DEF run_as_leader

\* Time passes alike for a live token and its family.
LEMMA TickKeeps == ASSUME SInv, tick PROVE SInv'
<1> USE SessionAssumption
<1>1. /\ Rows /\ family' = family /\ tok' = tok /\ result' = result
      /\ familyOf' = familyOf /\ parent' = parent /\ key' = key /\ device' = device
      /\ holds' = holds /\ requests' = requests /\ given' = given
      /\ deadline' = [f \in Families |-> IF deadline[f] > 0 THEN deadline[f] - 1 ELSE 0]
      /\ left' = [t \in Tokens |-> IF left[t] > 0 THEN left[t] - 1 ELSE 0]
      /\ since' = [t \in Tokens |-> IF tok[t] = "rotated" /\ since[t] < WINDOW
                                     THEN since[t] + 1 ELSE since[t]]
  BY Zenon DEF SInv, app, tick
<1>2. Rows'
  BY <1>1 DEF Rows
<1>3. Inserted' /\ Lineage' /\ Asked' /\ Receipts' /\ NoFork' /\ Holds' /\ RevokedIsDead'
  BY <1>1 DEF SInv, Inserted, Lineage, Asked, Receipts, NoFork, Stored, Holds, RevokedIsDead, Revoked
<1>4. InStep'
  BY <1>1, Zenon DEF SInv, InStep, Rows, Inserted
<1>5. ReplayNeedsReuse'
  BY <1>1, Zenon DEF SInv, ReplayNeedsReuse
<1>6. Recoverable'
  <2> SUFFICES ASSUME NEW f \in Families \ Varied, Waits(f)'
               PROVE  ChildUnseen(f, result[holds[f]])'
    BY Zenon DEF Recoverable
  <2>1. Waits(f)
    BY <1>1 DEF Waits, Rows
  <2>2. ChildUnseen(f, result[holds[f]])
    BY <2>1, Zenon DEF SInv, Recoverable
  <2> QED
    BY <1>1, <2>2, Zenon DEF ChildUnseen
<1> QED
  BY <1>2, <1>3, <1>4, <1>5, <1>6, Zenon DEF SInv

\* One delivery of a request, whatever it finds.
LEMMA RefreshKeeps ==
    ASSUME SInv, NEW t \in Tokens, NEW k \in AllKeys, refresh(t, k) PROVE SInv'
<1> USE SessionAssumption
<1>1. <<t, k>> \in requests /\ requests' = requests /\ rotate_inner(t, k)
  BY Zenon DEF refresh, refresh_with_attempt, rotate_inner
<1>2. Rows
  BY Zenon DEF SInv
<1>3. ASSUME refuse(t)
      PROVE  /\ given' = given
             /\ holds' \in [Families -> Tokens \cup {NoToken}]
             /\ \A f \in Families : holds'[f] \in {holds[f], NoToken}
             /\ \/ holds' = holds
                \/ holds' = [f \in Families |-> IF holds[f] = t THEN NoToken ELSE holds[f]]
  BY <1>2, <1>3, Zenon DEF refuse, answer, Rows
<1>4. ASSUME refuse(t), UNCHANGED <<family, deadline, tok, row, result, device>> PROVE SInv'
  <2>1. given' \in [Tokens -> SUBSET Tokens]
    BY <1>2, <1>3, <1>4, Zenon DEF Rows
  <2> QED
    BY <1>1, <1>3, <1>4, <2>1, AnswerKeeps, Zenon
<1>5. ASSUME SameAttempt(t, k), recover_rotation(t) PROVE SInv'
  <2>1. UNCHANGED <<family, deadline, tok, row, result, device>>
    BY <1>5, Zenon DEF recover_rotation
  <2>2. CASE refuse(t)
    BY <1>4, <2>1, <2>2, Zenon
  <2>3. CASE result[t] # NoToken /\ Child(t, result[t]) /\ give(t, result[t])
    <3>1. /\ result[t] \in Tokens /\ familyOf[result[t]] = familyOf[t] /\ tok[result[t]] = "live"
          /\ given[t] \subseteq {result[t]}
      BY <1>2, <2>3, Zenon DEF Child, Rows, SInv, Receipts
    <3>2. /\ given' \in [Tokens -> SUBSET Tokens]
          /\ \A s \in Tokens : given'[s] = given[s] \/ (result[s] # NoToken /\ given'[s] = {result[s]})
      BY <1>2, <2>3, <3>1, Zenon DEF give, Rows
    <3>3. /\ holds' \in [Families -> Tokens \cup {NoToken}]
          /\ \A f \in Families : \/ holds'[f] = holds[f]
                                 \/ holds[f] = t /\ holds'[f] = result[t]
      BY <1>2, <2>3, <3>1, Zenon DEF give, answer, Rows
    <3>4. \A f \in Families : \/ holds'[f] \in {holds[f], NoToken}
                              \/ /\ holds'[f] \in Tokens /\ familyOf[holds'[f]] = f
                                 /\ f \in Varied \/ tok[holds'[f]] = "live"
      BY <3>1, <3>3, Zenon DEF SInv, Holds
    <3> QED
      BY <1>1, <2>1, <3>2, <3>3, <3>4, AnswerKeeps, Zenon
  <2> QED
    BY <1>5, <2>2, <2>3, Zenon DEF recover_rotation
<1>6. ASSUME tok[t] = "rotated", ~SameAttempt(t, k), revoke_families({familyOf[t]}, "replay"), refuse(t)
      PROVE  SInv'
  <2>1. /\ familyOf[t] \in Families /\ key[t] \in AllKeys /\ <<t, key[t]>> \in requests
        /\ k = "strict" \/ key[t] # k
    BY <1>2, <1>6, Zenon DEF SInv, Inserted, Rows, Asked, SameAttempt
  <2>2. Reused(familyOf[t])
    BY <1>1, <2>1, Zenon DEF Reused, AllKeys
  <2>3. {familyOf[t]} \in SUBSET Families /\ "replay" \in Reasons
    BY <2>1, Zenon DEF Reasons
  <2> QED
    BY <1>1, <1>3, <1>6, <2>2, <2>3, RevokeKeeps, Zenon
<1> QED
  BY <1>1, <1>4, <1>5, <1>6, RotateKeeps, Zenon DEF rotate_inner

LEMMA SInvNext == SInv /\ [Next]_vars => SInv'
<1> SUFFICES ASSUME SInv, [Next]_vars PROVE SInv'
  BY Zenon
<1>1. Rows
  BY Zenon DEF SInv
<1>2. ASSUME NEW F \in SUBSET Families, NEW reason \in Reasons \ {"replay"},
             revoke_families(F, reason), UNCHANGED app
      PROVE  SInv'
  BY <1>2, RevokeKeeps, Zenon DEF app
<1>3. ASSUME UNCHANGED <<family, deadline, tok, row, result, device, app>> PROVE SInv'
  BY <1>1, <1>3, AnswerKeeps, Zenon DEF app, Rows
<1>4. ASSUME NEW f \in Families, NEW t \in Tokens, restore(f, t) PROVE SInv'
  <2>1. /\ UNCHANGED <<family, deadline, tok, row, result, device, requests, given>>
        /\ f \in Varied /\ familyOf[t] = f /\ holds' = [holds EXCEPT ![f] = t]
    BY <1>4, Zenon DEF restore
  <2>2. /\ holds' \in [Families -> Tokens \cup {NoToken}]
        /\ \A g \in Families : \/ holds'[g] \in {holds[g], NoToken}
                               \/ /\ holds'[g] \in Tokens /\ familyOf[holds'[g]] = g
                                  /\ g \in Varied \/ tok[holds'[g]] = "live"
    BY <1>1, <2>1, Zenon DEF Rows
  <2> QED
    BY <1>1, <2>1, <2>2, AnswerKeeps, Zenon DEF Rows
<1>5. ASSUME NEW f \in Families, NEW t \in Tokens, post_logout(f, t) PROVE SInv'
  <2>1. revoke_families({f}, "logout") /\ UNCHANGED app
    BY <1>5, Zenon DEF post_logout, logout, logout_tx
  <2> QED
    BY <1>2, <2>1, Zenon DEF Reasons
<1>6. ASSUME NEW f \in Families, NEW g \in Families, delete_session(f, g) PROVE SInv'
  <2>1. revoke_families({g}, "user_revoked") /\ UNCHANGED app
    BY <1>6, Zenon DEF delete_session, revoke_session, revoke
  <2> QED
    BY <1>2, <2>1, Zenon DEF Reasons
<1>7. ASSUME NEW f \in Families, post_logout_all(f) PROVE SInv'
  <2>1. revoke_families(Families, "logout_all") /\ UNCHANGED app
    BY <1>7, Zenon DEF post_logout_all, logout_all, revoke
  <2> QED
    BY <1>2, <2>1, Zenon DEF Reasons
<1>8. CASE set_ban
  <2>1. CASE revoke_families(Families, "banned") /\ UNCHANGED app
    BY <1>2, <2>1, Zenon DEF Reasons
  <2> QED
    BY <1>3, <1>8, <2>1, Zenon DEF set_ban
<1>9. CASE UNCHANGED vars
  BY <1>3, <1>9, Zenon DEF vars
<1> QED
  BY <1>4, <1>5, <1>6, <1>7, <1>8, <1>9, IssueKeeps, SendKeeps, RefreshKeeps, ErasureKeeps,
     DeviceKeeps, PurgeKeeps, TickKeeps, Zenon DEF Next

\* The invariant on which the two theorems below rest.
THEOREM SessionInvariant == Spec => []SInv
  BY SInvInit, SInvNext, PTL DEF Spec

\* A session never forks, is revoked as replayed only when a token of it was
\* really presented again, and once revoked or erased nothing of it can be used
\* (identity/mobile/pg/rotation.rs, rotate_inner; pg.rs, revoke_families).
THEOREM SessionsAreSound == Spec => []SessionsHold
<1>1. SInv => SessionsHold
  BY Zenon DEF SInv, SessionsHold
<1> QED
  BY <1>1, SessionInvariant, PTL

-----------------------------------------------------------------------------
(* Who is sent back to sign-in. *)

Excused(f) ==
    \/ account # "active"
    \/ family[f] # "active" \/ deadline[f] = 0
    \/ /\ ~(tok[holds[f]] = "live" /\ left[holds[f]] > 0)
       /\ ~(tok[holds[f]] = "rotated" /\ since[holds[f]] < WINDOW)

\* An attempt that the application stored is refused only with an excuse.
LEMMA RefusedWithExcuse ==
    ASSUME SInv, NEW f \in Families \ Varied, holds[f] # NoToken, NEW k \in AllKeys,
           refresh(holds[f], k), holds'[f] = NoToken
    PROVE  Excused(f)
<1> USE SessionAssumption
<1> DEFINE t == holds[f]
<1> SUFFICES ASSUME account = "active", family[f] = "active", deadline[f] # 0,
                    \/ tok[t] = "live" /\ left[t] > 0
                    \/ tok[t] = "rotated" /\ since[t] < WINDOW
             PROVE  FALSE
  BY Zenon DEF Excused
<1>1. /\ t \in Tokens /\ familyOf[t] = f /\ <<t, k>> \in requests /\ rotate_inner(t, k)
      /\ deadline[f] > 0 /\ k = "key"
  BY DEF SInv, Rows, Holds, Asked, refresh, refresh_with_attempt
<1>2. tok[t] = "rotated" => SameAttempt(t, k)
  <2>1. key[t] \in AllKeys
    BY <1>1, Zenon DEF SInv, Rows
  <2>2. tok[t] = "rotated" => key[t] = "key"
    BY <1>1, <2>1, Zenon DEF SInv, Asked
  <2> QED
    BY <1>1, <2>2, Zenon DEF SameAttempt
<1>3. lock_token(t, k) /\ active_family(familyOf[t])
  BY <1>1, <1>2, Zenon DEF lock_token, active_family, Stored, SameAttempt
<1>4. ASSUME NEW n \in Tokens, give(t, n) PROVE FALSE
  BY <1>1, <1>4, Zenon DEF give, answer
<1>5. CASE tok[t] = "live"
  BY <1>1, <1>3, <1>4, <1>5, Zenon DEF rotate_inner, rotate_live, Spent
<1>6. CASE tok[t] = "rotated" /\ since[t] < WINDOW
  <2>1. ChildUnseen(f, result[t])
    BY <1>1, <1>6, Zenon DEF SInv, Recoverable, Waits
  <2>2. result[t] \in Tokens /\ Child(t, result[t])
    BY <1>1, <2>1, Zenon DEF SInv, InStep, ChildUnseen, Child
  <2>3. recover_rotation(t)
    BY <1>2, <1>3, <1>6, <1>1, Zenon DEF rotate_inner
  <2>4. give(t, result[t])
    BY <1>6, <2>2, <2>3, Zenon DEF recover_rotation
  <2> QED
    BY <1>4, <2>2, <2>4, Zenon
<1> QED
  BY <1>5, <1>6, Zenon

\* An application that only repeats its stored attempts is sent back to sign-in
\* only when its account is unavailable, its session closed or expired, its unspent
\* token expired or its receipt out of time; never because an answer was lost or
\* a request delivered late or twice (rotation.rs, recover_rotation).
THEOREM NobodyStranded == Spec => NotStranded
<1>1. ASSUME SInv, [Next]_vars, NEW f \in Families \ Varied, holds[f] # NoToken, holds'[f] = NoToken
      PROVE  Excused(f)
  <2>1. Rows
    BY <1>1, Zenon DEF SInv
  <2>2. ASSUME NEW g \in Families, NEW n \in Tokens, issue_token_pair(g, n) PROVE FALSE
    BY <1>1, <2>1, <2>2, SessionAssumption, Zenon DEF issue_token_pair, Rows
  <2>3. ASSUME NEW g \in Families, NEW t \in Tokens, restore(g, t) PROVE FALSE
    BY <1>1, <2>1, <2>3, SessionAssumption, Zenon DEF restore, Rows
  <2>4. ASSUME NEW t \in Tokens, NEW k \in AllKeys, refresh(t, k) PROVE t = holds[f]
    <3>1. \/ answer(t, NoToken)
          \/ \E n \in Tokens : answer(t, n)
      <4>1. ASSUME recover_rotation(t) PROVE answer(t, NoToken) \/ \E n \in Tokens : answer(t, n)
        BY <2>1, <4>1, Zenon DEF recover_rotation, refuse, give, Rows
      <4> QED
        BY <2>4, <4>1, Zenon DEF refresh, refresh_with_attempt, rotate_inner, rotate_live, give, refuse
    <3> QED
      BY <1>1, <3>1, Zenon DEF answer
  <2>5. CASE holds' = holds
    BY <1>1, <2>5, Zenon
  <2>6. ASSUME NEW t \in Tokens, NEW k \in AllKeys, refresh(t, k) PROVE Excused(f)
    BY <1>1, <2>4, <2>6, RefusedWithExcuse, Zenon
  <2> QED
    BY <1>1, <2>2, <2>3, <2>5, <2>6, Zenon DEF Next, send, post_logout, logout, delete_session, revoke_session,
       post_logout_all, logout_all, set_ban, delete_account, register_device, remove_device,
       run_as_leader, purge_token, purge_receipt, purge_family, tick, app, vars
<1>2. SInv /\ [Next]_vars =>
        [\A f \in Families \ Varied : LET t == holds[f] IN
            t # NoToken /\ holds'[f] = NoToken =>
                \/ account # "active"
                \/ family[f] # "active" \/ deadline[f] = 0
                \/ ~(tok[t] = "live" /\ left[t] > 0) /\ ~(tok[t] = "rotated" /\ since[t] < WINDOW)]_vars
  BY <1>1, Zenon DEF Excused
<1> QED
  BY <1>2, SessionInvariant, PTL DEF Spec, NotStranded

-----------------------------------------------------------------------------
(* Profiles.                                                               *)

\* A live row is there exactly while the newest row of its type grants.
NewestIsLive ==
    \A t \in ConsentType : live[t] # {} => latest[t].granted

Backed ==
    /\ latest = [t \in ConsentType |-> latest[t]]
    /\ live = [t \in ConsentType |-> live[t]]
    /\ NewestIsLive
    /\ ConsentBacksData

LEMMA BackedInit == ProfileInit => Backed
BY Zenon DEF ProfileInit, EmptyProfile, Backed, NewestIsLive, ConsentBacksData, NoRow, NoCell, ConsentType

LEMMA BackedNext == Backed /\ [ProfileNext]_profileVars => Backed'
<1> SUFFICES ASSUME Backed, [ProfileNext]_profileVars PROVE Backed'
  BY Zenon
<1> USE DEF Backed, NewestIsLive, ConsentBacksData, NoCell, ConsentType
<1>1. ASSUME UNCHANGED <<choices, private>> PROVE Backed'
  BY <1>1, Zenon DEF choices, private
<1>2. ASSUME NEW t \in ConsentType, NEW granted \in BOOLEAN, update_consents(t, granted)
      PROVE  Backed'
  <2>1. CASE record_consents(t, granted)
    BY <2>1, Zenon DEF record_consents, withdraw, private
  <2>2. CASE profile_error
    BY <1>1, <2>2, Zenon DEF profile_error, state
  <2> QED
    BY <1>2, <2>1, <2>2, Zenon DEF update_consents, update_consents_in
<1>3. CASE put_preferences
  <2>1. CASE upsert_preferences
    BY <2>1, Zenon DEF upsert_preferences, lock_legal_choices, required, choices
  <2>2. CASE profile_error
    BY <1>1, <2>2, Zenon DEF profile_error, state
  <2> QED
    BY <1>3, <2>1, <2>2, Zenon DEF put_preferences, update_preferences
<1>4. ASSUME NEW cell \in Cells, put_presence(cell) PROVE Backed'
  <2>1. CASE upsert_presence(cell)
    BY <2>1, Zenon DEF upsert_presence, lock_legal_choices, required, choices
  <2>2. CASE profile_error
    BY <1>1, <2>2, Zenon DEF profile_error, state
  <2> QED
    BY <1>4, <2>1, <2>2, Zenon DEF put_presence, update_presence
<1>5. ASSUME NEW withSex \in BOOLEAN, NEW text \in Texts \cup {"none"}, put_profile(withSex, text)
      PROVE  Backed'
  <2>1. CASE upsert_profile(withSex, text)
    BY <2>1, Zenon DEF upsert_profile, lock_legal_choices, required, choices
  <2>2. CASE profile_error
    BY <1>1, <2>2, Zenon DEF profile_error, state
  <2> QED
    BY <1>5, <2>1, <2>2, Zenon DEF put_profile, update_profile
<1>6. CASE Elapse
  BY <1>6 DEF Elapse, choices
<1>7. CASE Redeploy
  BY <1>7, Zenon DEF Redeploy, private
<1>8. CASE AccountDeleted
  BY <1>8, Zenon DEF AccountDeleted, private
<1>9. CASE Authenticate \/ UNCHANGED profileVars
  BY <1>1, <1>9, Zenon DEF Authenticate, profileVars, state
<1>10. ASSUME NEW Q \in SUBSET Questions, NEW answers \in [Q -> Texts], replace_my_answers(answers)
       PROVE  Backed'
  BY <1>1, <1>10, Zenon DEF replace_my_answers, replace_answers, replace_answers_for_user, profile_error, state
<1>11. ASSUME NEW q \in Questions, delete_question(q) PROVE Backed'
  BY <1>1, <1>11, Zenon DEF delete_question
<1>12. ASSUME NEW r \in Reviewers, NEW f \in Fields, view_case(r, f) PROVE Backed'
  BY <1>1, <1>12, Zenon DEF view_case, detail
<1>13. ASSUME NEW r \in Reviewers, NEW d \in ModerationDecision, review_case(r, d) PROVE Backed'
  BY <1>1, <1>13, Zenon DEF review_case, review
<1> HIDE DEF Backed, NewestIsLive, ConsentBacksData, NoCell, ConsentType
<1>14. CASE ConsentNext
  BY Zenon, <1>2, <1>3, <1>4, <1>6, <1>7, <1>8, <1>9, <1>14 DEF ConsentNext
<1>15. CASE ContentNext
  BY Zenon, <1>5, <1>10, <1>11, <1>12, <1>13, <1>15 DEF ContentNext
<1> QED
  BY <1>9, <1>14, <1>15, Zenon DEF ProfileNext

(* The sex, the preferences and the location are stored only while their   *)
(* consent stands: lock_legal_choices and record_consents run under the    *)
(* same account lock.                                                      *)
THEOREM DataHasConsent == ProfileSpec => []ConsentBacksData
<1>1. Backed => ConsentBacksData
  BY Zenon DEF Backed
<1> QED
  BY BackedInit, BackedNext, <1>1, PTL DEF ProfileSpec
-----------------------------------------------------------------------------
(* Decisions on content. *)

\* The ids of rows differ from the id of no row.
IdsAreRows == 0 \notin Ids

CaseType == [text : Texts \cup {"none"}, id : Ids \cup {0}, version : Nat,
             status : ModerationStatus \cup {"none"}, basis : Texts \cup {"none"}]

ContentTypes == content \in [Fields -> CaseType] /\ seen \in [Reviewers -> CaseType]

OneFieldPerCase ==
    \A f, g \in Fields : f # g /\ content[f].id # 0 => content[f].id # content[g].id

\* The version tells whether a case is still what the reviewer saw.
VersionTells ==
    \A r \in Reviewers : IF seen[r].id = 0 THEN seen[r].version = 0 ELSE
        \A f \in Fields : seen[r].id = content[f].id =>
            /\ seen[r].version <= content[f].version
            /\ seen[r].version = content[f].version => seen[r].text = content[f].text

Reviewed == ContentTypes /\ OneFieldPerCase /\ VersionTells /\ DecisionOnSeen

LEMMA ReviewedInit == ProfileInit => Reviewed
BY DEF ProfileInit, EmptyProfile, Reviewed, ContentTypes, CaseType, OneFieldPerCase, VersionTells,
       DecisionOnSeen, NoContent

\* A field gets a case nobody holds, the same case with a new version, or none.
LEMMA FieldChanges ==
    ASSUME IdsAreRows, Reviewed, UNCHANGED seen, NEW F \in SUBSET Fields,
           content' \in [Fields -> CaseType],
           \A f \in Fields \ F : content'[f] = content[f],
           \A f \in F :
             /\ content'[f].basis = content'[f].text
             /\ \/ content'[f] = NoContent
                \/ content'[f].id \in Fresh
                \/ content'[f].id = content[f].id /\ content'[f].version = content[f].version + 1,
           \A f, g \in F : f # g /\ content'[f].id # 0 => content'[f].id # content'[g].id
    PROVE  Reviewed'
<1>1. ContentTypes'
  BY Zenon DEF Reviewed, ContentTypes
<1>2. ASSUME NEW f \in Fields
      PROVE  content'[f].id \in {0, content[f].id} \cup Fresh
  BY DEF NoContent
<1>3. OneFieldPerCase'
  <2> SUFFICES ASSUME NEW f \in Fields, NEW g \in Fields, f # g, content'[f].id # 0,
                      content'[f].id = content'[g].id
               PROVE  FALSE
    BY Zenon DEF OneFieldPerCase
  <2>1. ASSUME NEW h \in Fields, NEW k \in Fields, content'[h].id \in Fresh
        PROVE  content'[h].id # content[k].id
    BY <2>1, ZenonT(90) DEF Fresh, Held
  <2>2. content[f].id # 0 => content[f].id # content[g].id
    BY Zenon DEF Reviewed, OneFieldPerCase
  <2>3. CASE f \in F /\ g \in F
    BY <2>3, Zenon
  <2>4. CASE ~ (f \in F /\ g \in F)
    BY <1>2, <2>1, <2>2, <2>4, Zenon
  <2> QED
    BY <2>3, <2>4, Zenon
<1>4. VersionTells'
  <2> SUFFICES ASSUME NEW r \in Reviewers, seen[r].id # 0, NEW f \in Fields,
                      seen[r].id = content'[f].id
               PROVE  /\ seen[r].version <= content'[f].version
                      /\ seen[r].version = content'[f].version => seen[r].text = content'[f].text
    BY Zenon DEF Reviewed, VersionTells
  <2>1. content'[f].id \notin Fresh /\ content'[f] # NoContent
    BY DEF Fresh, Held, NoContent
  <2>2. CASE f \notin F
    BY <2>2 DEF Reviewed, VersionTells
  <2>3. CASE f \in F
    <3>1. content'[f].id = content[f].id /\ content'[f].version = content[f].version + 1
      BY <2>1, <2>3, Zenon
    <3>2. seen[r].version <= content[f].version
      BY <3>1, Zenon DEF Reviewed, VersionTells
    <3>3. seen[r].version \in Nat /\ content[f].version \in Nat
      BY Zenon DEF Reviewed, ContentTypes, CaseType
    <3> QED
      BY <3>1, <3>2, <3>3
  <2> QED
    BY <2>2, <2>3, Zenon
<1>5. DecisionOnSeen'
  BY Zenon DEF Reviewed, DecisionOnSeen
<1> QED
  BY <1>1, <1>3, <1>4, <1>5, Zenon DEF Reviewed

LEMMA ReviewedNext == IdsAreRows /\ Reviewed /\ [ProfileNext]_profileVars => Reviewed'
<1> SUFFICES ASSUME IdsAreRows, Reviewed, [ProfileNext]_profileVars PROVE Reviewed'
  BY Zenon
<1>1. ASSUME UNCHANGED <<content, seen>> PROVE Reviewed'
  BY <1>1, Zenon DEF Reviewed, ContentTypes, OneFieldPerCase, VersionTells, DecisionOnSeen
<1>2. content \in [Fields -> CaseType] /\ seen \in [Reviewers -> CaseType]
  BY Zenon DEF Reviewed, ContentTypes
<1>3. NoContent \in CaseType /\ NoContent.id = 0 /\ NoContent.basis = NoContent.text
  BY Zenon DEF NoContent, CaseType
<1>4. ASSUME NEW text \in Texts, NEW id \in Fresh
      PROVE  /\ new_case(text, id) \in CaseType /\ new_case(text, id).id = id
             /\ new_case(text, id).basis = new_case(text, id).text
  BY Zenon DEF new_case, CaseType, analyze, ModerationStatus, Fresh
<1>5. ASSUME NEW withSex \in BOOLEAN, NEW text \in Texts \cup {"none"}, put_profile(withSex, text)
      PROVE  Reviewed'
  <2>1. CASE profile_error
    BY <1>1, <2>1, Zenon DEF profile_error, state, review_vars
  <2>2. CASE upsert_profile(withSex, text)
    <3>1. "bio" \in Fields /\ UNCHANGED seen
      BY <2>2, Zenon DEF Fields, upsert_profile
    <3>2. ASSUME NEW case \in CaseType, content' = [content EXCEPT !["bio"] = case],
                 case.basis = case.text,
                 \/ case = NoContent
                 \/ case.id \in Fresh
                 \/ case.id = content["bio"].id /\ case.version = content["bio"].version + 1
          PROVE  Reviewed'
      <4>1. content' \in [Fields -> CaseType] /\ content'["bio"] = case
        BY <1>2, <3>1, <3>2, Zenon
      <4>2. \A f \in Fields \ {"bio"} : content'[f] = content[f]
        BY <1>2, <3>2, Zenon
      <4> DEFINE F == {"bio"}
      <4>3. /\ F \in SUBSET Fields
            /\ \A f, g \in F : f # g /\ content'[f].id # 0 => content'[f].id # content'[g].id
            /\ \A f \in F : f = "bio"
        BY <3>1, Zenon
      <4>4. \A f \in F : /\ content'[f].basis = content'[f].text
                         /\ \/ content'[f] = NoContent
                            \/ content'[f].id \in Fresh
                            \/ /\ content'[f].id = content[f].id
                               /\ content'[f].version = content[f].version + 1
        BY <3>2, <4>1, Zenon
      <4>5. \A f \in Fields \ F : content'[f] = content[f]
        BY <4>2, Zenon
      <4> HIDE DEF F
      <4> QED
        BY <3>1, <4>1, <4>3, <4>4, <4>5, FieldChanges, Zenon
    <3>3. CASE text = "none" /\ content' = [content EXCEPT !["bio"] = NoContent]
      BY <1>3, <3>2, <3>3, Zenon
    <3>4. CASE UNCHANGED content
      BY <1>1, <3>1, <3>4, Zenon
    <3>5. ASSUME text # "none", NEW id \in Fresh, content' = [content EXCEPT !["bio"] = bio_case(text, id)]
          PROVE  Reviewed'
      <4>1. text \in Texts
        BY <3>5, Zenon
      <4>2. CASE content["bio"].id = 0
        BY <1>4, <3>2, <3>5, <4>1, <4>2, Zenon DEF bio_case
      <4>3. CASE content["bio"].id # 0
        <5> DEFINE case == [content["bio"] EXCEPT !.version = content["bio"].version + 1, !.text = text,
                              !.basis = text, !.status = analyze(text)]
        <5>1. /\ case \in CaseType /\ case.basis = case.text /\ case.id = content["bio"].id
              /\ case.version = content["bio"].version + 1
          <6>1. content["bio"] \in CaseType
            BY <1>2, <3>1, Zenon
          <6>2. analyze(text) \in ModerationStatus
            BY Zenon DEF analyze, ModerationStatus
          <6>3. content["bio"].version + 1 \in Nat
            BY <6>1 DEF CaseType
          <6>4. PICK c \in CaseType : c = content["bio"]
            BY <6>1, Zenon
          <6>5. PICK v \in Nat : v = content["bio"].version + 1
            BY <6>3, Zenon
          <6>6. PICK s \in ModerationStatus : s = analyze(text)
            BY <6>2, Zenon
          <6>7. PICK new : new = [c EXCEPT !.version = v, !.text = text, !.basis = text, !.status = s]
            BY Zenon
          <6>8. case = new
            BY <6>4, <6>5, <6>6, <6>7, Zenon
          <6> HIDE DEF case
          <6>9. /\ new \in CaseType /\ new.text = text /\ new.basis = text /\ new.id = c.id
                /\ new.version = v
            BY <4>1, <6>7, Zenon DEF CaseType
          <6> QED
            BY <6>4, <6>5, <6>8, <6>9, Zenon
        <5>2. content' = [content EXCEPT !["bio"] = case]
          BY <3>5, <4>3, Zenon DEF bio_case
        <5> HIDE DEF case
        <5> QED
          BY <3>2, <5>1, <5>2, Zenon
      <4> QED
        BY <4>2, <4>3, Zenon
    <3> QED
      BY <2>2, <3>3, <3>4, <3>5, Zenon DEF upsert_profile
  <2> QED
    BY <1>5, <2>1, <2>2, Zenon DEF put_profile, update_profile
<1>6. ASSUME NEW Q \in SUBSET Questions, NEW answers \in [Q -> Texts], replace_my_answers(answers)
      PROVE  Reviewed'
  <2>1. CASE profile_error
    BY <1>1, <2>1, Zenon DEF profile_error, state, review_vars
  <2>2. CASE replace_answers_for_user(answers)
    <3>1. PICK ids \in Injection(Q, Fresh) : content' = insert_answers(answers, ids)
      <4>1. DOMAIN answers = Q
        BY Zenon
      <4> QED
        BY <2>2, <4>1, Zenon DEF replace_answers_for_user
    <3>2. ids \in [Q -> Fresh] /\ \A a, b \in Q : ids[a] = ids[b] => a = b
      BY <3>1, Zenon DEF Injection, IsInjective
    <3> DEFINE F == Fields \ {"bio"}
    <3>3. \A f \in Fields : content'[f] = IF f = "bio" THEN content[f]
                                          ELSE IF f \in Q THEN new_case(answers[f], ids[f])
                                          ELSE NoContent
      BY <3>1, Zenon DEF insert_answers
    <3>4. \A f \in F : f \in Q => /\ content'[f] \in CaseType /\ content'[f].id = ids[f]
                                  /\ content'[f].basis = content'[f].text /\ ids[f] \in Fresh
      BY <1>4, <3>2, <3>3
    <3>5. \A f \in F : f \notin Q => content'[f] = NoContent
      BY <3>3, Zenon
    <3>6. content' \in [Fields -> CaseType]
      <4>1. content' = [f \in Fields |-> content'[f]]
        BY <3>1, Zenon DEF insert_answers
      <4>2. \A f \in Fields : content'[f] \in CaseType
        BY <1>2, <1>3, <3>3, <3>4, <3>5, Zenon
      <4> QED
        BY <4>1, <4>2, Zenon
    <3>7. \A f, g \in F : f # g /\ content'[f].id # 0 => content'[f].id # content'[g].id
      <4>1. \A f \in F : f \in Q => content'[f].id # 0
        BY <3>4, Zenon DEF Fresh, IdsAreRows
      <4> QED
        BY <1>3, <3>2, <3>4, <3>5, <4>1
    <3>8. UNCHANGED seen /\ \A f \in Fields \ F : content'[f] = content[f]
      BY <2>2, <3>3, Zenon DEF replace_answers_for_user
    <3>9. \A f \in F : /\ content'[f].basis = content'[f].text
                       /\ content'[f] = NoContent \/ content'[f].id \in Fresh
      BY <1>3, <3>4, <3>5, Zenon
    <3> HIDE DEF F
    <3>10. F \in SUBSET Fields
      BY Zenon DEF F
    <3> QED
      BY <3>6, <3>7, <3>8, <3>9, <3>10, FieldChanges, Zenon
  <2> QED
    BY <1>6, <2>1, <2>2, Zenon DEF replace_my_answers, replace_answers
<1>7. ASSUME NEW q \in Questions, delete_question(q) PROVE Reviewed'
  <2>1. q \in Fields /\ UNCHANGED seen /\ content' = [content EXCEPT ![q] = NoContent]
    BY <1>7, Zenon DEF delete_question, Fields
  <2>2. /\ content' \in [Fields -> CaseType] /\ content'[q] = NoContent
        /\ \A f \in Fields \ {q} : content'[f] = content[f]
    BY <1>2, <1>3, <2>1, Zenon
  <2> DEFINE F == {q}
  <2>3. /\ F \in SUBSET Fields
        /\ \A f, g \in F : f # g /\ content'[f].id # 0 => content'[f].id # content'[g].id
        /\ \A f \in F : content'[f].basis = content'[f].text /\ content'[f] = NoContent
        /\ \A f \in Fields \ F : content'[f] = content[f]
    BY <1>3, <2>1, <2>2, Zenon
  <2> HIDE DEF F
  <2> QED
    BY <2>1, <2>2, <2>3, FieldChanges, Zenon
<1>8. ASSUME NEW r \in Reviewers, NEW f \in Fields, view_case(r, f) PROVE Reviewed'
  <2>1. /\ content[f].id # 0 /\ UNCHANGED content /\ seen' = [seen EXCEPT ![r] = content[f]]
    BY <1>8, Zenon DEF view_case, detail
  <2>2. seen' \in [Reviewers -> CaseType]
    BY <1>2, <2>1, Zenon
  <2>3. content[f].version \in Nat
    BY <1>2, Zenon DEF CaseType
  <2>4. VersionTells'
    BY <1>2, <2>1, <2>2, <2>3 DEF Reviewed, VersionTells, OneFieldPerCase
  <2> QED
    BY <2>1, <2>2, <2>4, Zenon DEF Reviewed, ContentTypes, OneFieldPerCase, DecisionOnSeen
<1>9. ASSUME NEW r \in Reviewers, NEW d \in ModerationDecision, review_case(r, d) PROVE Reviewed'
  <2>1. seen[r].id # 0 /\ seen' = [seen EXCEPT ![r] = NoContent]
    <3>1. seen[r].version >= 1
      BY <1>9, Zenon DEF review_case
    <3>2. seen[r].id = 0 => seen[r].version = 0
      BY Zenon DEF Reviewed, VersionTells
    <3> QED
      BY <1>9, <3>1, <3>2 DEF review_case, review
  <2>2. seen' \in [Reviewers -> CaseType] /\ seen'[r] = NoContent
        /\ \A q \in Reviewers \ {r} : seen'[q] = seen[q]
    BY <1>2, <1>3, <2>1, Zenon
  <2>3. CASE UNCHANGED content
    <3>1. VersionTells'
      <4>1. seen'[r].id = 0 /\ seen'[r].version = 0
        BY <2>2 DEF NoContent
      <4>2. ASSUME NEW q \in Reviewers, seen'[q].id # 0, NEW g \in Fields,
                   seen'[q].id = content'[g].id
            PROVE  /\ seen'[q].version <= content'[g].version
                   /\ seen'[q].version = content'[g].version => seen'[q].text = content'[g].text
        <5>1. q # r /\ seen'[q] = seen[q]
          BY <2>2, <4>1, <4>2
        <5> QED
          BY <2>3, <4>2, <5>1 DEF Reviewed, VersionTells
      <4>3. \A q \in Reviewers : seen'[q].id = 0 => seen'[q].version = 0
        BY <2>2, <4>1 DEF Reviewed, VersionTells
      <4> QED
        BY <4>2, <4>3 DEF VersionTells
    <3> QED
      BY <2>2, <2>3, <3>1, Zenon DEF Reviewed, ContentTypes, OneFieldPerCase, DecisionOnSeen
  <2>4. ASSUME NEW f \in current(r), content' = decide(f, d, seen[r].text) PROVE Reviewed'
    <3>1. f \in Fields /\ content[f].id = seen[r].id /\ content[f].version = seen[r].version
      BY <2>4, Zenon DEF current, Case
    <3>2. seen[r].text = content[f].text
      BY <2>1, <3>1, Zenon DEF Reviewed, VersionTells
    <3> DEFINE case == [content[f] EXCEPT !.version = content[f].version + 1, !.status = d, !.basis = seen[r].text]
    <3>3. content' = [content EXCEPT ![f] = case]
      BY <1>2, <2>4, <3>1, Zenon DEF decide
    <3>4. /\ case \in CaseType /\ case.id = content[f].id /\ case.text = content[f].text
          /\ case.basis = seen[r].text /\ case.version = content[f].version + 1
      <4>1. content[f] \in CaseType /\ seen[r].text \in Texts \cup {"none"}
        BY <1>2, <3>1, Zenon DEF CaseType
      <4>2. d \in ModerationStatus
        BY Zenon DEF ModerationDecision, ModerationStatus
      <4>3. content[f].version + 1 \in Nat
        BY <4>1 DEF CaseType
      <4>4. PICK c \in CaseType : c = content[f]
        BY <4>1, Zenon
      <4>5. PICK v \in Nat : v = content[f].version + 1
        BY <4>3, Zenon
      <4>6. PICK new : new = [c EXCEPT !.version = v, !.status = d, !.basis = seen[r].text]
        BY Zenon
      <4>7. case = new
        BY <4>4, <4>5, <4>6, Zenon
      <4> HIDE DEF case
      <4>8. /\ new \in CaseType /\ new.text = c.text /\ new.basis = seen[r].text /\ new.id = c.id
            /\ new.version = v
        BY <4>1, <4>2, <4>6, Zenon DEF CaseType
      <4> QED
        BY <4>4, <4>5, <4>7, <4>8, Zenon
    <3> HIDE DEF case
    <3>5. /\ content' \in [Fields -> CaseType] /\ content'[f] = case
          /\ \A g \in Fields : g # f => content'[g] = content[g]
      BY <1>2, <3>1, <3>3, <3>4, Zenon
    <3>6. OneFieldPerCase'
      <4>1. \A g \in Fields : content'[g].id = content[g].id
        BY <3>4, <3>5, Zenon
      <4> QED
        BY <4>1, Zenon DEF Reviewed, OneFieldPerCase
    <3>7. DecisionOnSeen'
      BY <3>2, <3>4, <3>5, Zenon DEF Reviewed, DecisionOnSeen
    <3>8. VersionTells'
      <4>1. ASSUME NEW q \in Reviewers, q # r, seen[q].id # 0, NEW g \in Fields,
                   seen[q].id = content'[g].id
            PROVE  /\ seen[q].version <= content'[g].version
                   /\ seen[q].version = content'[g].version => seen[q].text = content'[g].text
        <5>1. CASE g # f
          BY <3>5, <4>1, <5>1, ZenonT(90) DEF Reviewed, VersionTells
        <5>2. CASE g = f
          <6>1. seen[q].version <= content[f].version
            BY <3>1, <3>4, <3>5, <4>1, <5>2, Zenon DEF Reviewed, VersionTells
          <6>2. seen[q].version \in Nat /\ content[f].version \in Nat
            BY <1>2, <3>1, <4>1, Zenon DEF CaseType
          <6> QED
            BY <3>4, <3>5, <5>2, <6>1, <6>2
        <5> QED
          BY <5>1, <5>2, Zenon
      <4>2. seen'[r].id = 0 /\ seen'[r].version = 0
        BY <2>2 DEF NoContent
      <4>3. \A q \in Reviewers : q # r => seen'[q] = seen[q]
        BY <2>2, Zenon
      <4>4. \A q \in Reviewers : seen[q].id = 0 => seen[q].version = 0
        BY Zenon DEF Reviewed, VersionTells
      <4>5. ASSUME NEW q \in Reviewers, seen'[q].id # 0, NEW g \in Fields,
                   seen'[q].id = content'[g].id
            PROVE  /\ seen'[q].version <= content'[g].version
                   /\ seen'[q].version = content'[g].version => seen'[q].text = content'[g].text
        <5>1. q # r /\ seen'[q] = seen[q]
          BY <4>2, <4>3, <4>5
        <5> QED
          BY <4>1, <4>5, <5>1
      <4>6. \A q \in Reviewers : seen'[q].id = 0 => seen'[q].version = 0
        BY <4>2, <4>3, <4>4
      <4> QED
        BY <4>5, <4>6 DEF VersionTells
    <3> QED
      BY <2>2, <3>5, <3>6, <3>7, <3>8, Zenon DEF Reviewed, ContentTypes
  <2> QED
    BY <1>9, <2>3, <2>4, Zenon DEF review_case, review
<1>10. CASE Authenticate \/ UNCHANGED profileVars
  BY <1>1, <1>10, Zenon DEF Authenticate, profileVars, state, review_vars
<1>11. ASSUME NEW t \in ConsentType, NEW granted \in BOOLEAN, update_consents(t, granted) PROVE Reviewed'
  BY <1>1, <1>11, Zenon DEF update_consents, update_consents_in, record_consents, profile_error, state, review_vars
<1>12. CASE put_preferences
  BY <1>1, <1>12, Zenon DEF put_preferences, update_preferences, upsert_preferences, profile_error, state, review_vars
<1>13. ASSUME NEW cell \in Cells, put_presence(cell) PROVE Reviewed'
  BY <1>1, <1>13, Zenon DEF put_presence, update_presence, upsert_presence, profile_error, state, review_vars
<1>14. CASE Elapse \/ Redeploy \/ AccountDeleted
  BY <1>1, <1>14, Zenon DEF Elapse, Redeploy, AccountDeleted, review_vars
<1> QED
  BY Zenon, <1>5, <1>6, <1>7, <1>8, <1>9, <1>10, <1>11, <1>12, <1>13, <1>14
     DEF ProfileNext, ConsentNext, ContentNext

(* The status a text is served under is the automatic one or a decision of *)
(* a reviewer who saw exactly this text: review compares the version that  *)
(* upsert_profile and every decision increase, and a case replaced by      *)
(* replace_answers_for_user has another id.                                *)
THEOREM DecisionsFit == ASSUME IdsAreRows PROVE ProfileSpec => []DecisionOnSeen
<1>1. Reviewed => DecisionOnSeen
  BY Zenon DEF Reviewed
<1> QED
  BY ReviewedInit, ReviewedNext, <1>1, PTL DEF ProfileSpec

-----------------------------------------------------------------------------
(* Registration: from a verified code to the first session.                *)

\* The login holds an id that no row has yet.
Unstored(l) ==
    \/ stage[l] \in {"create", "insert"}
    \/ stage[l] = "review_finish" /\ mine[l] # None

\* Stages of the verification by a code that was sent, which a review phone has not.
ByCode == {"find", "create", "insert", "issue"}

\* Stages in which a login has no id yet.
Early == {"idle", "find", "review", "review_insert"}

RegistrationTypes ==
    /\ user_account = [u \in Users |-> user_account[u]]
    /\ stage = [l \in Logins |-> stage[l]]
    /\ mine \in [Logins -> Users \cup {None}]
    /\ session \subseteq Users /\ reviewer \subseteq Users /\ banned \subseteq Users

LoginsOK ==
    /\ \A l \in Logins : Unstored(l) => mine[l] \in Users /\ user_account[mine[l]] = "none"
    /\ \A l \in Logins : stage[l] = "issue" => mine[l] \in Users
    /\ \A l \in Logins : stage[l] \in Early => mine[l] = None
    /\ \A l, k \in Logins : Unstored(l) /\ Unstored(k) /\ mine[l] = mine[k] => l = k
    /\ reviewed => \A l \in Logins : stage[l] \notin ByCode

RegistrationInv ==
    /\ RegistrationTypes /\ LoginsOK /\ SessionsOfActive
    /\ \A u \in banned : user_account[u] # "none"

\* A step of one login: the id it holds afterwards is the one it held, or was
\* held by nobody, and the only row it may add is its own.
LEMMA LoginKept ==
    ASSUME RegistrationTypes, LoginsOK, NEW l \in Logins, NEW s, NEW m \in Users \cup {None},
           goto(l, s), mine' = [mine EXCEPT ![l] = m], UNCHANGED reviewed,
           Unstored(l)' => /\ m \in Users /\ user_account'[m] = "none"
                           /\ (Unstored(l) /\ m = mine[l]) \/ (\A k \in Logins : mine[k] # m),
           s = "issue" => m \in Users, s \in Early => m = None,
           reviewed => s \notin ByCode,
           \A u \in Users : user_account[u] = "none" /\ user_account'[u] # "none" =>
                               u = mine[l] /\ Unstored(l) /\ ~Unstored(l)'
    PROVE  /\ LoginsOK' /\ stage' = [k \in Logins |-> stage'[k]]
           /\ mine' \in [Logins -> Users \cup {None}]
<1>1. /\ stage' = [k \in Logins |-> stage'[k]] /\ mine' \in [Logins -> Users \cup {None}]
      /\ stage'[l] = s /\ mine'[l] = m
      /\ \A k \in Logins : k # l => stage'[k] = stage[k] /\ mine'[k] = mine[k]
  BY Zenon DEF RegistrationTypes, goto
<1>2. \A k \in Logins : k # l => (Unstored(k)' <=> Unstored(k))
  BY <1>1, Zenon DEF Unstored
<1>3. ASSUME NEW k \in Logins, Unstored(k)'
      PROVE  mine'[k] \in Users /\ user_account'[mine'[k]] = "none"
  <2>1. CASE k = l
    BY <1>1, <1>3, <2>1, Zenon
  <2>2. CASE k # l
    <3>1. /\ Unstored(k) /\ mine'[k] = mine[k] /\ mine[k] \in Users
          /\ user_account[mine[k]] = "none"
      BY <1>1, <1>2, <1>3, <2>2, Zenon DEF LoginsOK
    <3>2. Unstored(l) => mine[l] # mine[k]
      BY <2>2, <3>1, Zenon DEF LoginsOK
    <3> QED BY <3>1, <3>2, Zenon
  <2> QED BY <2>1, <2>2, Zenon
<1>4. ASSUME NEW k \in Logins, k # l, Unstored(k)', Unstored(l)' PROVE mine'[k] # m
  BY <1>1, <1>2, <1>4, Zenon DEF LoginsOK
<1>5. ASSUME NEW j \in Logins, NEW k \in Logins, Unstored(j)', Unstored(k)', mine'[j] = mine'[k]
      PROVE  j = k
  <2>1. CASE j # l /\ k # l
    BY <1>1, <1>2, <1>5, <2>1, Zenon DEF LoginsOK
  <2>2. CASE j = l \/ k = l
    BY <1>1, <1>4, <1>5, <2>2, Zenon
  <2> QED BY <2>1, <2>2, Zenon
<1>6. \A k \in Logins : stage'[k] = "issue" => mine'[k] \in Users
  BY <1>1, Zenon DEF LoginsOK
<1>7. reviewed' => \A k \in Logins : stage'[k] \notin ByCode
  BY <1>1, Zenon DEF LoginsOK
<1>8. \A k \in Logins : stage'[k] \in Early => mine'[k] = None
  BY <1>1, Zenon DEF LoginsOK
<1> QED BY <1>1, <1>3, <1>5, <1>6, <1>7, <1>8, Zenon DEF LoginsOK

\* A call that ends, or goes on to a stage without an id of its own.
LEMMA LoginEnds ==
    ASSUME RegistrationTypes, LoginsOK, NEW l \in Logins, done(l), UNCHANGED reviewed,
           \A u \in Users : user_account[u] = "none" /\ user_account'[u] # "none" =>
                               u = mine[l] /\ Unstored(l)
    PROVE  /\ LoginsOK' /\ stage' = [k \in Logins |-> stage'[k]]
           /\ mine' \in [Logins -> Users \cup {None}]
<1>1. goto(l, "idle") /\ mine' = [mine EXCEPT ![l] = None]
  BY Zenon DEF done
<1>2. stage'[l] = "idle"
  BY <1>1, Zenon DEF goto, RegistrationTypes
<1>3. ~Unstored(l)'
  BY <1>2 DEF Unstored
<1>4. "idle" # "issue" /\ "idle" \notin ByCode
  BY DEF ByCode
<1> QED BY <1>1, <1>3, <1>4, LoginKept, Zenon

LEMMA LoginMoves ==
    ASSUME RegistrationTypes, LoginsOK, NEW l \in Logins, NEW s, goto(l, s),
           UNCHANGED <<mine, reviewed>>, ~Unstored(l)', s # "issue", reviewed => s \notin ByCode,
           mine[l] = None,
           \A u \in Users : user_account[u] = "none" /\ user_account'[u] # "none" =>
                               u = mine[l] /\ Unstored(l)
    PROVE  /\ LoginsOK' /\ stage' = [k \in Logins |-> stage'[k]]
           /\ mine' \in [Logins -> Users \cup {None}]
<1>1. mine' = [mine EXCEPT ![l] = mine[l]] /\ mine[l] \in Users \cup {None}
  BY Zenon DEF RegistrationTypes
<1> QED BY <1>1, LoginKept, Zenon

\* Nobody's id is stored by others.
LEMMA LoginsRest ==
    ASSUME RegistrationTypes, LoginsOK, UNCHANGED <<stage, mine, reviewed>>,
           \A u \in Users : user_account[u] = "none" => user_account'[u] = "none"
    PROVE  /\ LoginsOK' /\ stage' = [k \in Logins |-> stage'[k]]
           /\ mine' \in [Logins -> Users \cup {None}]
<1>1. \A k \in Logins : Unstored(k)' <=> Unstored(k)
  BY Zenon DEF Unstored
<1> QED BY <1>1, Zenon DEF LoginsOK, RegistrationTypes

\* A step that leaves rows and sessions alone.
LEMMA RowsKept ==
    ASSUME RegistrationInv, UNCHANGED <<user_account, banned, reviewer, session>>,
           LoginsOK', stage' = [k \in Logins |-> stage'[k]], mine' \in [Logins -> Users \cup {None}]
    PROVE  RegistrationInv'
BY Zenon DEF RegistrationInv, RegistrationTypes, SessionsOfActive

LEMMA VerifyStep ==
    ASSUME RegistrationInv, NEW l \in Logins, verify_otp(l) \/ find_by_phone_hash(l) \/ create_checks(l)
    PROVE  RegistrationInv'
<1>0. RegistrationTypes /\ LoginsOK
  BY Zenon DEF RegistrationInv
<1>1. UNCHANGED <<reviewed, user_account, banned, reviewer, session>>
  BY Zenon DEF verify_otp, find_by_phone_hash, create_checks, env, rows
<1>2. CASE done(l)
  BY <1>0, <1>1, <1>2, LoginEnds, RowsKept, Zenon
<1>3. CASE verify_otp(l)
  <2>1. PICK s : s \in {"review", "find"} /\ goto(l, s) /\ (reviewed => s = "review")
    BY <1>3, Zenon DEF verify_otp, authorize, consume
  <2>2. s # "issue" /\ (reviewed => s \notin ByCode)
    BY <2>1 DEF ByCode
  <2>3. stage'[l] = s
    BY <1>0, <2>1, Zenon DEF goto, RegistrationTypes
  <2>4. ~Unstored(l)'
    BY <2>1, <2>3 DEF Unstored
  <2>5. stage[l] = "idle" /\ UNCHANGED mine
    BY <1>3, Zenon DEF verify_otp
  <2>6. stage[l] \in Early
    BY <2>5 DEF Early
  <2>7. mine[l] = None
    BY <1>0, <2>6, Zenon DEF LoginsOK
  <2> QED BY <2>7, <1>0, <1>1, <2>1, <2>2, <2>4, <2>5, LoginMoves, RowsKept, Zenon
<1>4. CASE find_by_phone_hash(l) /\ ~done(l)
  <2>1. PICK s \in {"issue", "create"}, u \in Users :
              /\ goto(l, s) /\ mine' = [mine EXCEPT ![l] = u]
              /\ s = "issue" \/ (s = "create" /\ FreshId(u))
    <3>1. \/ \E u \in Users : goto(l, "issue") /\ mine' = [mine EXCEPT ![l] = u]
          \/ \E u \in Users : goto(l, "create") /\ FreshId(u) /\ mine' = [mine EXCEPT ![l] = u]
      BY <1>4, Zenon DEF find_by_phone_hash, find_impl
    <3> QED BY <3>1, Zenon
  <2>2. stage'[l] = s /\ mine'[l] = u
    BY <1>0, <2>1, Zenon DEF goto, RegistrationTypes
  <2>3. stage[l] \in ByCode
    BY <1>4 DEF find_by_phone_hash, ByCode
  <2>4. ~reviewed /\ s \notin Early
    <3>1. s \notin Early
      BY <2>1 DEF Early
    <3> QED BY <1>0, <2>3, <3>1, Zenon DEF LoginsOK
  <2>5. ASSUME Unstored(l)'
        PROVE  user_account'[u] = "none" /\ \A k \in Logins : mine[k] # u
    <3>1. s # "issue"
      BY <2>2, <2>5 DEF Unstored
    <3> QED BY <1>1, <2>1, <3>1, Zenon DEF FreshId
  <2> QED BY <1>0, <1>1, <2>1, <2>4, <2>5, LoginKept, RowsKept, Zenon
<1>5. CASE create_checks(l) /\ ~done(l)
  <2>1. stage[l] = "create" /\ goto(l, "insert") /\ UNCHANGED mine
    BY <1>5, Zenon DEF create_checks
  <2>2. Unstored(l) /\ stage[l] \in ByCode /\ "insert" # "issue" /\ "insert" \notin Early
    BY <2>1 DEF Unstored, ByCode, Early
  <2>3. /\ ~reviewed /\ mine[l] \in Users /\ user_account'[mine[l]] = "none"
        /\ mine' = [mine EXCEPT ![l] = mine[l]]
    BY <1>0, <1>1, <2>1, <2>2, Zenon DEF LoginsOK, RegistrationTypes
  <2> QED BY <1>0, <1>1, <2>1, <2>2, <2>3, LoginKept, RowsKept, Zenon
<1> QED BY <1>2, <1>3, <1>4, <1>5, Zenon

LEMMA InsertStep ==
    ASSUME RegistrationInv, NEW l \in Logins, create_inserts(l)
    PROVE  RegistrationInv' /\ ~reviewed
<1>0. RegistrationTypes /\ LoginsOK /\ SessionsOfActive
  BY Zenon DEF RegistrationInv
<1>1. UNCHANGED <<reviewed, banned, reviewer, session>> /\ stage[l] = "insert"
  BY Zenon DEF create_inserts, env
<1>2. Unstored(l) /\ stage[l] \in ByCode
  BY <1>1 DEF Unstored, ByCode
<1>3. ~reviewed /\ mine[l] \in Users /\ user_account[mine[l]] = "none"
  BY <1>0, <1>2, Zenon DEF LoginsOK
<1>4. CASE done(l) /\ UNCHANGED user_account
  BY <1>0, <1>1, <1>3, <1>4, LoginEnds, RowsKept, Zenon
<1>5. CASE ~(done(l) /\ UNCHANGED user_account)
  <2>1. PICK m \in Users : m = mine[l]
    BY <1>3, Zenon
  <2>2. user_account' = [user_account EXCEPT ![m] = "live"] /\ goto(l, "issue") /\ UNCHANGED mine
    BY <1>5, <2>1, Zenon DEF create_inserts
  <2>3. /\ user_account' = [u \in Users |-> user_account'[u]] /\ user_account'[m] = "live"
        /\ \A u \in Users : u # m => user_account'[u] = user_account[u]
    BY <1>0, <2>2, Zenon DEF RegistrationTypes
  <2>4. stage'[l] = "issue" /\ mine' = [mine EXCEPT ![l] = m]
    BY <1>0, <2>1, <2>2, Zenon DEF goto, RegistrationTypes
  <2>5. ~Unstored(l)' /\ user_account'[m] # "none" /\ "issue" \notin Early
    BY <2>3, <2>4 DEF Unstored, Early
  <2>6. \A u \in Users : user_account[u] = "none" /\ user_account'[u] # "none" => u = mine[l]
    BY <2>1, <2>3, Zenon
  <2>7. LoginsOK' /\ stage' = [k \in Logins |-> stage'[k]] /\ mine' \in [Logins -> Users \cup {None}]
    BY <1>0, <1>1, <1>2, <1>3, <2>2, <2>4, <2>5, <2>6, LoginKept, Zenon
  <2>8. SessionsOfActive'
    BY <1>0, <1>1, <2>3, Zenon DEF SessionsOfActive, RegistrationTypes
  <2>9. \A u \in banned' : user_account'[u] # "none"
    <3> SUFFICES ASSUME NEW u \in banned' PROVE user_account'[u] # "none"
      OBVIOUS
    <3>1. u \in banned /\ user_account[u] # "none"
      BY <1>1, Zenon DEF RegistrationInv
    <3>2. user_account'[u] = user_account[u] \/ u = m
      BY <2>2, <2>3, <3>1, Zenon DEF RegistrationInv, RegistrationTypes
    <3> QED BY <2>5, <3>1, <3>2, Zenon
  <2> QED BY <1>1, <1>0, <1>3, <2>3, <2>7, <2>8, <2>9, Zenon DEF RegistrationInv, RegistrationTypes
<1> QED BY <1>3, <1>4, <1>5, Zenon

LEMMA TokenStep == ASSUME RegistrationInv, NEW l \in Logins, first_token_pair(l) PROVE RegistrationInv'
<1>0. RegistrationTypes /\ LoginsOK /\ SessionsOfActive
  BY Zenon DEF RegistrationInv
<1>1. /\ stage[l] = "issue" /\ done(l) /\ UNCHANGED <<reviewed, user_account, banned, reviewer>>
      /\ session' = IF account_open(mine[l]) THEN session \cup {mine[l]} ELSE session
  BY Zenon DEF first_token_pair, env, rows
<1>2. PICK m \in Users : m = mine[l]
  BY <1>0, <1>1, Zenon DEF LoginsOK
<1>3. session' \subseteq Users /\ SessionsOfActive'
  BY <1>0, <1>1, <1>2, Zenon DEF SessionsOfActive, account_open, RegistrationTypes
<1>4. LoginsOK' /\ stage' = [k \in Logins |-> stage'[k]] /\ mine' \in [Logins -> Users \cup {None}]
  BY <1>0, <1>1, LoginEnds, Zenon
<1> QED BY <1>1, <1>3, <1>4, Zenon DEF RegistrationInv, RegistrationTypes

LEMMA ReviewStep ==
    ASSUME RegistrationInv, NEW l \in Logins, review_checks(l) \/ review_inserts(l)
    PROVE  RegistrationInv'
<1>0. RegistrationTypes /\ LoginsOK
  BY Zenon DEF RegistrationInv
<1>1. UNCHANGED <<reviewed, user_account, banned, reviewer, session>>
  BY Zenon DEF review_checks, review_inserts, env, rows
<1>2. CASE done(l)
  BY <1>0, <1>1, <1>2, LoginEnds, RowsKept, Zenon
<1>3. CASE review_checks(l) /\ ~done(l)
  <2>1. PICK s : /\ s \in {"review_insert", "review_finish"} /\ goto(l, s)
                 /\ UNCHANGED mine /\ stage[l] = "review"
    BY <1>3, Zenon DEF review_checks
  <2>2. s # "issue" /\ s \notin ByCode
    BY <2>1 DEF ByCode
  <2>3. stage'[l] = s
    BY <1>0, <2>1, Zenon DEF goto, RegistrationTypes
  <2>4. stage[l] \in Early
    BY <2>1 DEF Early
  <2>5. mine[l] = None
    BY <1>0, <2>4, Zenon DEF LoginsOK
  <2>6. ~Unstored(l)'
    BY <2>1, <2>3, <2>5 DEF Unstored
  <2> QED BY <1>0, <1>1, <2>1, <2>2, <2>5, <2>6, LoginMoves, RowsKept, Zenon
<1>4. CASE review_inserts(l)
  <2>1. PICK u \in Users, m \in Users \cup {None} :
              /\ FreshId(u) /\ m \in {u, None}
              /\ mine' = [mine EXCEPT ![l] = m] /\ goto(l, "review_finish")
    <3>1. PICK u \in Users : /\ FreshId(u) /\ goto(l, "review_finish")
                             /\ mine' = [mine EXCEPT ![l] = IF Holders = {} THEN u ELSE None]
      BY <1>4, Zenon DEF review_inserts
    <3>2. PICK m : m = IF Holders = {} THEN u ELSE None
      BY Zenon
    <3> QED BY <3>1, <3>2, Zenon
  <2>2. stage'[l] = "review_finish" /\ mine'[l] = m
    BY <1>0, <2>1, Zenon DEF goto, RegistrationTypes
  <2>3. ASSUME Unstored(l)'
        PROVE  m \in Users /\ user_account'[m] = "none" /\ \A k \in Logins : mine[k] # m
    <3>1. m = u
      BY <2>1, <2>2, <2>3 DEF Unstored
    <3> QED BY <1>1, <2>1, <3>1, Zenon DEF FreshId
  <2>4. "review_finish" # "issue" /\ "review_finish" \notin ByCode /\ "review_finish" \notin Early
    BY DEF ByCode, Early
  <2> QED BY <1>0, <1>1, <2>1, <2>3, <2>4, LoginKept, RowsKept, Zenon
<1> QED BY <1>2, <1>3, <1>4, Zenon

LEMMA CommitStep ==
    ASSUME RegistrationInv, NEW l \in Logins, review_commits(l)
    PROVE  RegistrationInv' /\ (tombstone => UNCHANGED user_account)
<1>0. RegistrationTypes /\ LoginsOK /\ SessionsOfActive
  BY Zenon DEF RegistrationInv
<1>1. stage[l] = "review_finish" /\ done(l) /\ UNCHANGED <<reviewed, banned>>
  BY Zenon DEF review_commits, env
<1>2. CASE UNCHANGED <<user_account, reviewer, session>>
  BY <1>0, <1>1, <1>2, LoginEnds, RowsKept, Zenon
<1>3. CASE ~UNCHANGED <<user_account, reviewer, session>>
  <2>1. /\ ~tombstone
        /\ user_account' = [u \in Users |-> IF u = mine[l] THEN "live" ELSE user_account[u]]
        /\ reviewer' = reviewer \cup review_account(l)
        /\ session' = session \cup review_account(l)
    BY <1>3, Zenon DEF review_commits, blocked
  <2>2. ASSUME NEW u \in Users, u = mine[l] PROVE Unstored(l) /\ user_account[u] = "none" /\ u \notin banned
    <3>1. mine[l] # None
      BY <2>2, RegistrationAssumption, Zenon
    <3>2. Unstored(l)
      BY <1>1, <3>1, Zenon DEF Unstored
    <3> QED BY <1>0, <2>2, <3>2, Zenon DEF LoginsOK, RegistrationInv
  <2>3. \A u \in review_account(l) : u \in Users /\ u \notin banned /\ user_account'[u] = "live"
    <3>1. CASE mine[l] # None
      <4>1. review_account(l) = {mine[l]} /\ mine[l] \in Users
        BY <1>0, <3>1, Zenon DEF review_account, RegistrationTypes
      <4> QED BY <2>1, <2>2, <4>1, Zenon
    <3>2. CASE mine[l] = None
      <4>1. review_account(l) = {u \in reviewer : account_open(u)}
        BY <3>2, Zenon DEF review_account
      <4> QED BY <1>0, <2>1, <4>1, Zenon DEF account_open, RegistrationTypes
    <3> QED BY <3>1, <3>2, Zenon
  <2>4. \A u \in Users : user_account[u] # "none" => user_account'[u] = user_account[u]
    BY <2>1, <2>2, Zenon
  <2>5. \A u \in Users : user_account[u] = "none" /\ user_account'[u] # "none" => u = mine[l] /\ Unstored(l)
    BY <2>1, <2>2, Zenon
  <2>6. LoginsOK' /\ stage' = [k \in Logins |-> stage'[k]] /\ mine' \in [Logins -> Users \cup {None}]
    BY <1>0, <1>1, <2>5, LoginEnds, Zenon
  <2>7. SessionsOfActive'
    <3> SUFFICES ASSUME NEW u \in session' PROVE user_account'[u] = "live" /\ u \notin banned'
      BY Zenon DEF SessionsOfActive
    <3>1. CASE u \in session
      <4>1. u \in Users /\ user_account[u] = "live" /\ u \notin banned
        BY <1>0, <3>1, Zenon DEF SessionsOfActive, RegistrationTypes
      <4>2. user_account[u] # "none"
        BY <4>1
      <4> QED BY <1>1, <2>4, <4>1, <4>2, Zenon
    <3>2. CASE u \in review_account(l)
      BY <1>1, <2>3, <3>2, Zenon
    <3> QED BY <2>1, <3>1, <3>2, Zenon
  <2>8. \A u \in banned' : user_account'[u] # "none"
    BY <1>0, <1>1, <2>4, Zenon DEF RegistrationInv, RegistrationTypes
  <2>9. RegistrationTypes'
    BY <1>0, <1>1, <2>1, <2>3, <2>6, Zenon DEF RegistrationTypes
  <2> QED BY <2>1, <2>6, <2>7, <2>8, <2>9, Zenon DEF RegistrationInv
<1> QED BY <1>2, <1>3, Zenon

LEMMA OthersStep ==
    ASSUME RegistrationInv, NEW u \in Users, ban_changes(u) \/ enqueue_account_erasure(u) \/ anonymize_user(u)
    PROVE  RegistrationInv' /\ \A v \in Users : user_account[v] = "none" => user_account'[v] = "none"
<1>0. RegistrationTypes /\ LoginsOK /\ SessionsOfActive
  BY Zenon DEF RegistrationInv
<1>1. UNCHANGED <<reviewed, stage, mine, reviewer>>
  BY Zenon DEF ban_changes, enqueue_account_erasure, anonymize_user, Change, env
<1>2. user_account[u] \in {"live", "deleting"}
  BY Zenon DEF ban_changes, enqueue_account_erasure, anonymize_user
<1>3. user_account[u] # "none"
  BY <1>2
<1>4. /\ user_account' = [v \in Users |-> user_account'[v]]
      /\ user_account'[u] \in {"live", "deleting", "gone"}
      /\ \A v \in Users : v # u => user_account'[v] = user_account[v]
  BY <1>0, <1>2, Zenon DEF ban_changes, enqueue_account_erasure, anonymize_user, RegistrationTypes
<1>5. user_account'[u] # "none"
  BY <1>4
<1>6. \A v \in Users : user_account[v] = "none" <=> user_account'[v] = "none"
  BY <1>3, <1>4, <1>5, Zenon
<1>7. LoginsOK' /\ stage' = [k \in Logins |-> stage'[k]] /\ mine' \in [Logins -> Users \cup {None}]
  BY <1>0, <1>1, <1>6, LoginsRest, Zenon
<1>8. session' \subseteq session /\ banned' \subseteq Users
  BY <1>0, Zenon DEF ban_changes, enqueue_account_erasure, anonymize_user, RegistrationTypes
<1>9. SessionsOfActive'
  <2>1. CASE ban_changes(u)
    BY <1>0, <2>1, Zenon DEF ban_changes, SessionsOfActive
  <2>2. CASE enqueue_account_erasure(u)
    BY <1>0, <1>4, <2>2, Zenon DEF enqueue_account_erasure, SessionsOfActive, RegistrationTypes
  <2>3. CASE anonymize_user(u)
    <3>1. u \notin session
      <4>1. user_account[u] = "deleting"
        BY <2>3, Zenon DEF anonymize_user
      <4>2. user_account[u] # "live"
        BY <4>1
      <4> QED BY <1>0, <4>2, Zenon DEF SessionsOfActive
    <3> QED BY <1>0, <1>4, <2>3, <3>1, Zenon DEF anonymize_user, SessionsOfActive, RegistrationTypes
  <2> QED BY <2>1, <2>2, <2>3, Zenon
<1>10. \A v \in banned' : user_account'[v] # "none"
  BY <1>3, <1>6, <1>8, Zenon DEF ban_changes, enqueue_account_erasure, anonymize_user, RegistrationInv
<1>11. RegistrationTypes'
  BY <1>0, <1>1, <1>4, <1>7, <1>8, Zenon DEF RegistrationTypes
<1> QED BY <1>6, <1>7, <1>9, <1>10, <1>11, Zenon DEF RegistrationInv

\* One step: the invariant is kept, and a review phone's account is created while
\* nothing remembers the phone.
LEMMA RegistrationStep ==
    ASSUME RegistrationInv, RegistrationNext
    PROVE  RegistrationInv' /\ (reviewed => CreationNeedsNoTombstone)
<1>0. RegistrationTypes /\ LoginsOK
  BY Zenon DEF RegistrationInv
<1>1. ASSUME NEW l \in Logins, verify(l) PROVE RegistrationInv' /\ (reviewed => CreationNeedsNoTombstone)
  <2>1. CASE verify_otp(l) \/ find_by_phone_hash(l) \/ create_checks(l) \/ first_token_pair(l)
             \/ review_checks(l) \/ review_inserts(l)
    <3>1. UNCHANGED user_account
      BY <2>1, Zenon DEF verify_otp, find_by_phone_hash, create_checks, first_token_pair,
                         review_checks, review_inserts, rows
    <3>2. CreationNeedsNoTombstone
      BY <3>1 DEF CreationNeedsNoTombstone
    <3> QED BY <2>1, <3>2, VerifyStep, TokenStep, ReviewStep, Zenon
  <2>2. CASE create_inserts(l)
    BY <2>2, InsertStep, Zenon
  <2>3. CASE review_commits(l)
    <3>1. RegistrationInv' /\ (tombstone => UNCHANGED user_account)
      BY <2>3, CommitStep, Zenon
    <3>2. CreationNeedsNoTombstone
      BY <3>1 DEF CreationNeedsNoTombstone
    <3> QED BY <3>1, <3>2, Zenon
  <2> QED BY <1>1, <2>1, <2>2, <2>3, Zenon DEF verify, create_impl, create_review_session
<1>2. ASSUME NEW u \in Users, ban_changes(u) \/ enqueue_account_erasure(u) \/ anonymize_user(u)
      PROVE  RegistrationInv' /\ (reviewed => CreationNeedsNoTombstone)
  <2>1. RegistrationInv' /\ \A v \in Users : user_account[v] = "none" => user_account'[v] = "none"
    BY <1>2, OthersStep, Zenon
  <2>2. CreationNeedsNoTombstone
    BY <2>1 DEF CreationNeedsNoTombstone
  <2> QED BY <2>1, <2>2, Zenon
<1>3. CASE (\E kind \in {"registration", "login"} : send_otp(kind)) \/ dispatch \/ intent_expires
           \/ tombstone_expires
  <2>1. UNCHANGED <<user_account, banned, reviewer, session, stage, mine, reviewed>>
    BY <1>3, Zenon DEF send_otp, dispatch, intent_expires, tombstone_expires, Change, env, rows
  <2>2. LoginsOK' /\ stage' = [k \in Logins |-> stage'[k]] /\ mine' \in [Logins -> Users \cup {None}]
    BY <1>0, <2>1, LoginsRest, Zenon
  <2>3. CreationNeedsNoTombstone
    BY <2>1 DEF CreationNeedsNoTombstone
  <2> QED BY <2>1, <2>2, <2>3, RowsKept, Zenon
<1> QED BY <1>1, <1>2, <1>3, Zenon DEF RegistrationNext

\* For any phone's accounts, logins and order of changes: a session belongs to a live,
\* unbanned account, and a review account is created only while no tombstone remembers
\* the phone (identity/mobile/pg.rs, create; pg/review.rs, create_review_session).
THEOREM RegistrationIsSound == RegistrationSpec => RegistrationHolds
<1>1. RegistrationInit => RegistrationInv
  <2> SUFFICES ASSUME RegistrationInit PROVE RegistrationInv
    BY Zenon
  <2>1. RegistrationTypes
    <3>1. user_account = [u \in Users |-> user_account[u]]
      BY DEF RegistrationInit
    <3> QED BY <3>1, Zenon DEF RegistrationInit, RegistrationTypes
  <2>2. \A l \in Logins : stage[l] = "idle"
    BY Zenon DEF RegistrationInit
  <2>3. LoginsOK
    BY <2>2 DEF LoginsOK, Unstored, ByCode, RegistrationInit
  <2>4. SessionsOfActive /\ \A u \in banned : user_account[u] # "none"
    BY Zenon DEF RegistrationInit, SessionsOfActive
  <2> QED BY <2>1, <2>3, <2>4, Zenon DEF RegistrationInv
<1>2. RegistrationInv /\ [RegistrationNext]_registrationVars =>
        RegistrationInv' /\ [SessionsOfActive' /\ (reviewed => CreationNeedsNoTombstone)]_registrationVars
  <2>1. CASE RegistrationInv /\ RegistrationNext
    BY <2>1, RegistrationStep, Zenon DEF RegistrationInv
  <2>2. CASE RegistrationInv /\ UNCHANGED registrationVars
    <3>1. UNCHANGED <<user_account, banned, reviewer, session, stage, mine, reviewed>>
      BY <2>2, Zenon DEF registrationVars, env, rows
    <3>2. LoginsOK' /\ stage' = [k \in Logins |-> stage'[k]] /\ mine' \in [Logins -> Users \cup {None}]
      BY <2>2, <3>1, LoginsRest, Zenon DEF RegistrationInv
    <3> QED BY <2>2, <3>1, <3>2, RowsKept, Zenon
  <2> QED BY <2>1, <2>2, Zenon
<1> QED BY <1>1, <1>2, PTL DEF RegistrationSpec, RegistrationHolds
=============================================================================
