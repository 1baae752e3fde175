------------------------------ MODULE Profiles ------------------------------
(***************************************************************************)
(* One member's consents, profile, preferences, presence and answers       *)
(* (profiles/, catalog/ for the answers) and the moderation of what they   *)
(* write (moderation/).  Every write runs in one transaction that locks    *)
(* the account or the profile row, so a transaction is one action; a       *)
(* reviewer reads a case (detail) and decides on it (review) in two        *)
(* requests, between which the member may rewrite or remove the content.   *)
(*                                                                         *)
(* A text is a member of Texts; those in Clean match no rule of the        *)
(* automatic moderator.  A case remembers the text its status was decided  *)
(* on (basis), which the code does not store.  A case id is fresh: an id   *)
(* no row and no reviewer holds.                                           *)
(***************************************************************************)
EXTENDS Naturals, FiniteSets, Functions

CONSTANTS Texts, Clean,     \* what may be written; what no rule flags
          Questions,        \* the catalogue questions that ever exist
          Cells,            \* coarse location cells
          Reviewers,        \* administrators reviewing content
          MaxLegal,         \* bound on the versions of the legal documents
          MaxVersion,       \* bound on the version of a case
          Ids               \* case ids, recycled when nobody holds them

VARIABLES
    request,     \* the guards that requests in flight have passed, one each
    active,      \* user_account.deleted_at IS NULL
    legal,       \* the version of the documents the server is configured with
    latest,      \* [type -> newest user_consent row]
    live,        \* [type -> versions of the rows granted and not withdrawn]
    profile,     \* a user_profile row exists
    sex,         \* user_profile.sex IS NOT NULL
    preferences, \* a user_preferences row exists
    presence,    \* the user_presence row
    questions,   \* profile_question rows
    content,     \* [field -> text with its moderation case]
    seen         \* [reviewer -> the case as detail returned it]

choices == <<active, legal, latest, live>>
private == <<profile, sex, preferences, presence>>
review_vars == <<questions, content, seen>>
state == <<choices, private, review_vars>>
profileVars == <<request, state>>

ConsentType == {"terms_of_service_acceptance", "privacy_notice_acknowledgement",
                "sensitive_data_consent", "location_consent"}
ONBOARDING == {"terms_of_service_acceptance", "privacy_notice_acknowledgement"}
is_non_withdrawable(t) == t \in ONBOARDING

ModerationStatus == {"approved", "pending", "rejected"}
ModerationDecision == {"approved", "rejected"}

NoRow == [granted |-> FALSE, version |-> 0]
NoCell == [cell |-> "none", recent |-> FALSE]
NoContent == [text |-> "none", id |-> 0, version |-> 0, status |-> "none",
              basis |-> "none"]
Fields == {"bio"} \cup Questions

-----------------------------------------------------------------------------
(* The legal choices a write depends on, read under the account lock.      *)
required(t) == IF t = "none" THEN ONBOARDING ELSE ONBOARDING \cup {t}

lock_legal_choices(t) == active /\ \A r \in required(t) : legal \in live[r]

(* A refused request writes nothing: WriteOutcome other than Updated, a    *)
(* failed validation (adulthood, lengths, bounds of the numbers).          *)
WriteOutcome(t) ==
    IF ~ active THEN "AccountNotFound"
    ELSE IF lock_legal_choices(t) THEN "Updated" ELSE "RequiredConsentMissing"

apply_write(t) == WriteOutcome(t) = "Updated"
profile_error == UNCHANGED state

-----------------------------------------------------------------------------
(* Consents.  A change that repeats the newest row is skipped.             *)
unchanged(t, granted) == latest[t] = [granted |-> granted, version |-> legal]

\* Mutant: withdrawing the sensitive-data consent keeps the preferences.
withdraw_KeepPreferences(t) ==
    /\ UNCHANGED profile
    /\ sex' = (sex /\ t # "sensitive_data_consent")
    /\ UNCHANGED preferences
    /\ presence' = IF t = "location_consent" THEN NoCell ELSE presence

withdraw(t) ==
    /\ UNCHANGED profile
    /\ sex' = (sex /\ t # "sensitive_data_consent")
    /\ preferences' = (preferences /\ t # "sensitive_data_consent")
    /\ presence' = IF t = "location_consent" THEN NoCell ELSE presence

record_consents(t, granted) ==
    /\ active /\ ~ unchanged(t, granted)
    /\ latest' = [latest EXCEPT ![t] = [granted |-> granted, version |-> legal]]
    /\ live' = [live EXCEPT ![t] = IF granted THEN {legal} ELSE {}]
    /\ IF granted THEN UNCHANGED private ELSE withdraw(t)
    /\ UNCHANGED <<active, legal, review_vars>>

update_consents_in(t, granted) ==
    /\ granted \/ ~ is_non_withdrawable(t)
    /\ record_consents(t, granted)

\* The newest row of a choice, whichever version it was made for.
current_consents(t) == latest[t]

(* What consents_in reports and the guard of the onboarded routes reads.   *)
consents_in == {t \in ONBOARDING : current_consents(t) # [granted |-> TRUE, version |-> legal]}
OnboardedMobile == active /\ consents_in = {}

(* A request passes its guard, then runs its transaction: what the guard   *)
(* saw may have changed by then.  The consent routes need a session only.  *)
(* A change of consent and a write are in flight together.                 *)
Authenticate ==
    /\ \E guard \in {"session", "onboarded"} \ request :
          /\ IF guard = "session" THEN active ELSE OnboardedMobile
          /\ request' = request \cup {guard}
    /\ UNCHANGED state

Finish(guard) == guard \in request /\ request' = request \ {guard}

update_consents(t, granted) ==
    /\ Finish("session")
    /\ update_consents_in(t, granted) \/ profile_error

-----------------------------------------------------------------------------
(* Moderation cases.                                                       *)
analyze(text) == IF text \in Clean THEN "approved" ELSE "pending"

Held == {content[f].id : f \in Fields} \cup {seen[r].id : r \in Reviewers}
Fresh == Ids \ Held

new_case(text, id) ==
    [text |-> text, id |-> id, version |-> 1, status |-> analyze(text),
     basis |-> text]

bio_case(text, id) ==
    IF content["bio"].id = 0 THEN new_case(text, id)
    ELSE [content["bio"] EXCEPT !.version = @ + 1, !.text = text, !.basis = text,
                                !.status = analyze(text)]

(* upsert_profile: an empty bio deletes the case, a changed one renews it. *)
upsert_profile(withSex, text) ==
    /\ lock_legal_choices(IF withSex THEN "sensitive_data_consent" ELSE "none")
    /\ profile' = TRUE /\ sex' = withSex
    /\ \/ /\ text = "none"
          /\ content' = [content EXCEPT !["bio"] = NoContent]
       \/ /\ text # "none" /\ text # content["bio"].text
          /\ content["bio"].version < MaxVersion /\ Fresh # {}
          /\ \E id \in {CHOOSE i \in Fresh : TRUE} :
                content' = [content EXCEPT !["bio"] = bio_case(text, id)]
       \/ /\ text # "none" /\ text = content["bio"].text
          /\ UNCHANGED content
    /\ UNCHANGED <<choices, preferences, presence, questions, seen>>

update_profile(withSex, text) ==
    IF apply_write(IF withSex THEN "sensitive_data_consent" ELSE "none")
    THEN upsert_profile(withSex, text) ELSE profile_error

put_profile(withSex, text) == Finish("onboarded") /\ update_profile(withSex, text)

upsert_preferences ==
    /\ lock_legal_choices("sensitive_data_consent")
    /\ preferences' = TRUE
    /\ UNCHANGED <<choices, profile, sex, presence, review_vars>>

update_preferences ==
    IF apply_write("sensitive_data_consent") THEN upsert_preferences ELSE profile_error

put_preferences == Finish("onboarded") /\ update_preferences

(* Presence: another cell only once the change interval has passed.        *)
coarse_coordinates(cell) == [cell |-> cell, recent |-> TRUE]

upsert_presence(cell) ==
    /\ lock_legal_choices("location_consent")
    /\ \/ presence.cell = cell /\ UNCHANGED presence
       \/ presence.cell # cell /\ ~ presence.recent
            /\ presence' = coarse_coordinates(cell)
       \/ presence.cell # cell /\ presence.recent /\ UNCHANGED presence
    /\ UNCHANGED <<choices, profile, sex, preferences, review_vars>>

update_presence(cell) ==
    IF apply_write("location_consent") THEN upsert_presence(cell) ELSE profile_error

put_presence(cell) == Finish("onboarded") /\ update_presence(cell)

Elapse ==
    /\ UNCHANGED request
    /\ presence.recent
    /\ presence' = [presence EXCEPT !.recent = FALSE]
    /\ UNCHANGED <<choices, profile, sex, preferences, review_vars>>

-----------------------------------------------------------------------------
(* Answers: all are deleted, the given ones inserted with new cases.       *)
prepare_answers(answers) ==
    /\ Cardinality(DOMAIN answers) <= 3
    /\ \A q \in DOMAIN answers : answers[q] \in Texts

insert_answers(answers, ids) ==
    [f \in Fields |->
        IF f = "bio" THEN content[f]
        ELSE IF f \in DOMAIN answers THEN new_case(answers[f], ids[f])
        ELSE NoContent]

replace_answers_for_user(answers) ==
    /\ active /\ profile
    /\ DOMAIN answers \subseteq questions
    /\ Injection(DOMAIN answers, Fresh) # {}
    /\ \E ids \in {CHOOSE i \in Injection(DOMAIN answers, Fresh) : TRUE} :
          content' = insert_answers(answers, ids)
    /\ UNCHANGED <<choices, private, questions, seen>>

ReplaceAnswersOutcome(answers) ==
    IF ~ profile THEN "ProfileNotFound"
    ELSE IF DOMAIN answers \subseteq questions THEN "Updated" ELSE "QuestionNotFound"

replace_answers(answers) ==
    /\ prepare_answers(answers)
    /\ IF ReplaceAnswersOutcome(answers) = "Updated"
       THEN replace_answers_for_user(answers) ELSE profile_error

replace_my_answers(answers) == Finish("onboarded") /\ replace_answers(answers)

(* Deleting a question cascades to its answers and their cases.            *)
delete_question(q) ==
    /\ UNCHANGED request
    /\ q \in questions
    /\ questions' = questions \ {q}
    /\ content' = [content EXCEPT ![q] = NoContent]
    /\ UNCHANGED <<choices, private, seen>>

-----------------------------------------------------------------------------
(* Review.  detail returns one row: content, status and version together.  *)
detail(r, f) ==
    /\ content[f].id # 0
    /\ seen' = [seen EXCEPT ![r] = content[f]]
    /\ UNCHANGED <<choices, private, questions, content>>

view_case(r, f) == UNCHANGED request /\ seen[r].id = 0 /\ detail(r, f)

Case(id) == {f \in Fields : content[f].id = id}

\* Mutant: the version of the case is not compared.
current_NoVersion(r) == {f \in Case(seen[r].id) : content[f].id # 0}

current(r) == {f \in Case(seen[r].id) : content[f].version = seen[r].version}

decide(f, decision, text) ==
    [content EXCEPT ![f].version = @ + 1, ![f].status = decision, ![f].basis = text]

ModerationReviewResult(r) ==
    IF Case(seen[r].id) = {} THEN "NotFound"
    ELSE IF current(r) = {} THEN "Stale" ELSE "Updated"

review(r, decision) ==
    /\ IF ModerationReviewResult(r) = "Updated"
       THEN \E f \in current(r) : /\ content[f].version < MaxVersion
                                  /\ content' = decide(f, decision, seen[r].text)
       ELSE UNCHANGED content
    /\ seen' = [seen EXCEPT ![r] = NoContent]
    /\ UNCHANGED <<choices, private, questions>>

(* The request carries the id and the version of the case last viewed.     *)
review_case(r, decision) == UNCHANGED request /\ seen[r].version >= 1 /\ review(r, decision)

-----------------------------------------------------------------------------
(* A deployment with new documents; the start of the account's erasure.    *)
Redeploy ==
    /\ UNCHANGED request
    /\ legal < MaxLegal /\ legal' = legal + 1
    /\ UNCHANGED <<active, latest, live, private, review_vars>>

AccountDeleted ==
    /\ UNCHANGED request
    /\ active /\ active' = FALSE
    /\ UNCHANGED <<legal, latest, live, private, review_vars>>

EmptyProfile ==
    /\ request = {}
    /\ active = TRUE /\ legal = 1
    /\ profile = FALSE /\ sex = FALSE /\ preferences = FALSE /\ presence = NoCell
    /\ questions = Questions
    /\ content = [f \in Fields |-> NoContent]
    /\ seen = [r \in Reviewers |-> NoContent]

ProfileInit ==
    /\ EmptyProfile
    /\ latest = [t \in ConsentType |-> NoRow]
    /\ live = [t \in ConsentType |-> {}]

ConsentNext ==
    \/ Authenticate
    \/ \E t \in ConsentType, granted \in BOOLEAN : update_consents(t, granted)
    \/ put_preferences
    \/ \E cell \in Cells : put_presence(cell)
    \/ Elapse \/ Redeploy \/ AccountDeleted

ContentNext ==
    \/ \E withSex \in BOOLEAN, text \in Texts \cup {"none"} : put_profile(withSex, text)
    \/ \E Q \in SUBSET Questions : \E answers \in [Q -> Texts] : replace_my_answers(answers)
    \/ \E q \in Questions : delete_question(q)
    \/ \E r \in Reviewers : \/ \E f \in Fields : view_case(r, f)
                            \/ \E d \in ModerationDecision : review_case(r, d)

ProfileNext == ConsentNext \/ ContentNext

ProfileSpec == ProfileInit /\ [][ProfileNext]_profileVars

-----------------------------------------------------------------------------
(* The sex and the preferences are stored only while the sensitive-data    *)
(* consent stands, a location only while the location consent stands: a    *)
(* write checks the consent and a withdrawal erases the data under the     *)
(* same account lock (lock_legal_choices, record_consents), whatever the   *)
(* order of grants, withdrawals, new document versions and writes.         *)
ConsentBacksData ==
    /\ sex \/ preferences => /\ live["sensitive_data_consent"] # {}
                             /\ latest["sensitive_data_consent"].granted
    /\ presence # NoCell => /\ live["location_consent"] # {}
                            /\ latest["location_consent"].granted

(* The status other members are served a text under is the automatic one   *)
(* or a decision some reviewer took having seen exactly this text: a bio   *)
(* rewritten or answers replaced between detail and review make the        *)
(* review stale (version check of review, version + 1 of upsert_profile).  *)
DecisionOnSeen ==
    \A f \in Fields : content[f].basis = content[f].text
=============================================================================
