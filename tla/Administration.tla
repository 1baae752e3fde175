--------------------------- MODULE Administration ---------------------------
(***************************************************************************)
(* What administrators do to accounts and what they may read: bans, roles, *)
(* complimentary premium, the reports people make and the conversations    *)
(* that a report opens.  A request is authenticated first, with the role   *)
(* of that moment, and acts later in a transaction of its own, while other *)
(* requests promote, demote, ban or delete the people involved.            *)
(***************************************************************************)
EXTENDS Naturals, FiniteSets

CONSTANTS
    People,
    First,          \* role of each person at the start
    ReviewAccount,  \* the account of the store reviewers
    Matches,
    Parties,        \* the two people of a match
    Reports,        \* identifiers of reports
    Requests,       \* requests in progress together
    MaxRequests,    \* bound: requests that are begun
    MaxEvents,      \* bound: deletions of accounts and of matches
    None

VARIABLES
    role,       \* user, admin or superadmin
    banned, deleted,
    mobile,     \* people with a mobile session
    access,     \* people with an administrator's session, key or token
    grant,      \* complimentary_premium_grant
    present,    \* matches that are not purged
    report,     \* user_report
    req,        \* what a request was authenticated as, and what it asks for
    log,        \* data_access_log: accessed, accessor, action
    flagged,    \* ghost: matches a report was once made about
    opened,     \* ghost: matches whose messages an administrator has read
    begun, events

vars == <<role, banned, deleted, mobile, access, grant, present, report, req, log,
          flagged, opened, begun, events>>

accounts == <<role, banned, deleted, mobile, access, grant>>
cases == <<present, report, flagged>>

AdminUserRole == {"user", "admin", "superadmin"}
ReportStatus == {"pending", "reviewed", "dismissed"}

NoReport == [by |-> None, of |-> None, match |-> None, status |-> "none"]
Idle == [op |-> "idle", by |-> None, as |-> "user", on |-> None, arg |-> None]

Init ==
    /\ role = First
    /\ banned = {} /\ deleted = {} /\ grant = {}
    /\ mobile = People
    /\ access = {p \in People : First[p] # "user"}
    /\ present = Matches
    /\ report = [i \in Reports |-> NoReport]
    /\ req = [r \in Requests |-> Idle]
    /\ log = {} /\ flagged = {} /\ opened = {}
    /\ begun = 0 /\ events = 0

-----------------------------------------------------------------------------
(* Requests. *)

Live(p) == p \notin deleted

\* The guard of the administration: the session, its account and its role.
AdminIdentity(p) == p \in access /\ Live(p) /\ p \notin banned /\ role[p] # "user"

\* The guard of the application.
OnboardedMobile(p) == p \in mobile /\ Live(p) /\ p \notin banned

Free(r) == req[r] = Idle /\ begun < MaxRequests

begin(r, p, op, on, arg) ==
    /\ begun' = begun + 1
    /\ req' = [req EXCEPT ![r] = [op |-> op, by |-> p, as |-> role[p], on |-> on, arg |-> arg]]
    /\ UNCHANGED <<accounts, cases, log, opened, events>>

Finish(r) == req' = [req EXCEPT ![r] = Idle]

\* administration_error, report_error: the request ends and nothing changed.
administration_error(r) ==
    Finish(r) /\ UNCHANGED <<accounts, cases, log, opened, begun, events>>

record_audit(accessed, r, action) ==
    log' = log \cup {<<p, req[r].by, action>> : p \in accessed}

-----------------------------------------------------------------------------
(* Bans. *)

update_ban(r, p, t, ban) == begin(r, p, "ban", t, ban)

update_status(r, p, t, ban) == AdminIdentity(p) /\ update_ban(r, p, t, ban)

revoke_mobile_sessions(t) == mobile' = mobile \ {t}

\* Mutant: an administrator bans their like.
MayBan_Peers(r, t) == t # req[r].by /\ role[t] # "superadmin"

\* The target is locked; an administrator bans users, a superadmin both.
MayBan(r, t) ==
    /\ t # req[r].by
    /\ role[t] # "superadmin"
    /\ req[r].as = "admin" => role[t] = "user"

set_ban(r) ==
    LET t == req[r].on IN
    /\ req[r].op = "ban"
    /\ IF ~Live(t) \/ ~MayBan(r, t) THEN administration_error(r)
       ELSE /\ banned' = IF req[r].arg THEN banned \cup {t} ELSE banned \ {t}
            /\ IF req[r].arg THEN revoke_mobile_sessions(t) ELSE UNCHANGED mobile
            /\ record_audit({t}, r, IF req[r].arg THEN "admin_ban" ELSE "admin_unban")
            /\ Finish(r)
            /\ UNCHANGED <<role, deleted, access, grant, cases, opened, begun, events>>

-----------------------------------------------------------------------------
(* Roles. *)

\* The service refuses before it asks the database.
change_role(r, p, t, new) ==
    /\ role[p] = "superadmin" /\ t # p /\ new # "superadmin"
    /\ begin(r, p, "role", t, new)

update_role(r, p, t, new) == AdminIdentity(p) /\ change_role(r, p, t, new)

\* Mutant: the role of the session is taken for the role of the account.
Superadmin_Session(p) == TRUE

\* The actor's row is read again, and locked.
Superadmin(p) == role[p] = "superadmin" /\ Live(p) /\ p \notin banned

MayHold(t, new) ==
    /\ role[t] # "superadmin" /\ new # "superadmin"
    /\ ~(new = "admin" /\ t \in banned)
    /\ ~(new # "user" /\ t = ReviewAccount)

\* Sessions, keys, bootstrap tokens and challenges.
revoke_admin_access(t) == access' = access \ {t}

set_role(r) ==
    LET t == req[r].on
        new == req[r].arg
    IN
    /\ req[r].op = "role"
    /\ IF ~Superadmin(req[r].by) \/ ~Live(t) \/ ~MayHold(t, new) \/ role[t] = new
       THEN administration_error(r)
       ELSE /\ role' = [role EXCEPT ![t] = new]
            /\ IF new = "user" THEN revoke_admin_access(t) ELSE UNCHANGED access
            /\ record_audit({t}, r, IF new = "admin" THEN "admin_promote" ELSE "admin_demote")
            /\ Finish(r)
            /\ UNCHANGED <<banned, deleted, mobile, grant, cases, opened, begun, events>>

\* A person promoted is given a token and registers a key; AdminIdentity has
\* the steps of it.  The transaction requires the role.
enrol(p) ==
    /\ role[p] # "user" /\ Live(p) /\ p \notin banned /\ p \notin access
    /\ access' = access \cup {p}
    /\ UNCHANGED <<role, banned, deleted, mobile, grant, cases, req, log, opened, begun, events>>

-----------------------------------------------------------------------------
(* Complimentary premium. *)

change_premium(r, p, t, enabled) ==
    role[p] = "superadmin" /\ begin(r, p, "premium", t, enabled)

update_complimentary_premium(r, p, t, enabled) ==
    AdminIdentity(p) /\ change_premium(r, p, t, enabled)

\* Both wallets are locked in order, then the accounts.  A grant that exists
\* already, or does not exist, is left without an entry in the log.
set_premium_grant(r) ==
    LET t == req[r].on IN
    /\ req[r].op = "premium"
    /\ IF \/ ~Superadmin(req[r].by) \/ ~Live(t) \/ t = ReviewAccount
          \/ (req[r].arg /\ t \in banned) \/ (req[r].arg = (t \in grant))
       THEN administration_error(r)
       ELSE /\ grant' = IF req[r].arg THEN grant \cup {t} ELSE grant \ {t}
            /\ record_audit({t}, r,
                  IF req[r].arg THEN "admin_grant_premium" ELSE "admin_revoke_premium")
            /\ Finish(r)
            /\ UNCHANGED <<role, banned, deleted, mobile, access, cases, opened, begun, events>>

-----------------------------------------------------------------------------
(* Reports. *)

\* The handler of a report, about a person alone or about a match with them.
create_report(r, p, t, m) == p # t /\ begin(r, p, "report", t, m)

create(r, p, t, m) == OnboardedMobile(p) /\ create_report(r, p, t, m)

account_exists(r) == Live(req[r].on)

match_participants(r) ==
    req[r].arg \in present /\ Parties[req[r].arg] = {req[r].by, req[r].on}

\* Both are read before the insert.
check_report(r) ==
    /\ req[r].op = "report"
    /\ IF account_exists(r) /\ (req[r].arg = None \/ match_participants(r))
       THEN /\ req' = [req EXCEPT ![r].op = "insert"]
            /\ UNCHANGED <<accounts, cases, log, opened, begun, events>>
       ELSE administration_error(r)

\* idx_user_report_one_pending
Pending(p, t) == {i \in Reports : report[i].by = p /\ report[i].of = t /\ report[i].status = "pending"}

\* The insert: one pending report of a pair, and a match that still exists.
insert_report(r, i) ==
    LET q == req[r] IN
    /\ q.op = "insert"
    /\ report[i] = NoReport
    /\ IF Pending(q.by, q.on) # {} \/ (q.arg # None /\ q.arg \notin present)
       THEN administration_error(r)
       ELSE /\ report' = [report EXCEPT ![i] =
                  [by |-> q.by, of |-> q.on, match |-> q.arg, status |-> "pending"]]
            /\ flagged' = flagged \cup ({q.arg} \ {None})
            /\ Finish(r)
            /\ UNCHANGED <<accounts, present, log, opened, begun, events>>

update_report(r, p, i, s) == begin(r, p, "review", i, s)

update(r, p, i, s) == AdminIdentity(p) /\ update_report(r, p, i, s)

\* A report opened again must not be the second one pending of its pair.
update_report_status(r) ==
    LET i == req[r].on
        s == req[r].arg
    IN
    /\ req[r].op = "review"
    /\ IF report[i] = NoReport
          \/ (s = "pending" /\ Pending(report[i].by, report[i].of) \ {i} # {})
       THEN administration_error(r)
       ELSE /\ report' = [report EXCEPT ![i].status = s]
            /\ record_audit({report[i].of}, r, "admin_review_report")
            /\ Finish(r)
            /\ UNCHANGED <<accounts, present, flagged, opened, begun, events>>

-----------------------------------------------------------------------------
(* Reads that are audited. *)

\* Mutant: a report about the person opens every conversation with them.
Reported_Anywhere(m) ==
    \E i \in Reports : Parties[m] = {report[i].by, report[i].of}

\* MATCH_REPORT_EXISTS_SQL: a report about this match, between its people.
Reported(m) ==
    \E i \in Reports : report[i].match = m /\ Parties[m] = {report[i].by, report[i].of}

view_detail(r, p, t) == begin(r, p, "view_profile", t, None)

user_detail(r, p, t) == AdminIdentity(p) /\ view_detail(r, p, t)

view_matches(r, p, t) == begin(r, p, "view_matches", t, None)

matches(r, p, t) == AdminIdentity(p) /\ view_matches(r, p, t)

\* What is shown of an account is entered in its log in the same transaction.
view_account(r) ==
    IF Live(req[r].on)
    THEN /\ record_audit({req[r].on}, r, req[r].op)
         /\ Finish(r)
         /\ UNCHANGED <<accounts, cases, opened, begun, events>>
    ELSE administration_error(r)

read_detail(r) == req[r].op = "view_profile" /\ view_account(r)

list_conversations(r) == req[r].op = "view_matches" /\ view_account(r)

view_messages(r, p, m) == begin(r, p, "view_messages", m, None)

messages(r, p, m) == AdminIdentity(p) /\ view_messages(r, p, m)

\* Each page asks for the report again, and is entered for both people.
read_conversation(r) ==
    LET m == req[r].on IN
    /\ req[r].op = "view_messages"
    /\ IF m \in present /\ Reported(m)
       THEN /\ record_audit(Parties[m], r, "view_messages")
            /\ opened' = opened \cup {m}
            /\ Finish(r)
            /\ UNCHANGED <<accounts, cases, begun, events>>
       ELSE administration_error(r)

-----------------------------------------------------------------------------
(* The others. *)

\* A person who is neither banned nor deleted logs in.
login(p) ==
    /\ Live(p) /\ p \notin banned /\ p \notin mobile
    /\ mobile' = mobile \cup {p}
    /\ UNCHANGED <<role, banned, deleted, access, grant, cases, req, log, opened, begun, events>>

\* A person deletes their account.
account_deleted(p) ==
    /\ events < MaxEvents /\ events' = events + 1
    /\ OnboardedMobile(p)
    /\ deleted' = deleted \cup {p}
    /\ UNCHANGED <<role, banned, mobile, access, grant, cases, req, log, opened, begun>>

\* A match is purged; reports about it lose it (ON DELETE SET NULL).
purge(m) ==
    /\ events < MaxEvents /\ events' = events + 1
    /\ m \in present
    /\ present' = present \ {m}
    /\ report' = [i \in Reports |->
         IF report[i].match = m THEN [report[i] EXCEPT !.match = None] ELSE report[i]]
    /\ UNCHANGED <<accounts, req, log, flagged, opened, begun>>

Administer(r, p) ==
    \/ \E t \in People : \/ \E b \in BOOLEAN : \/ update_status(r, p, t, b)
                                               \/ update_complimentary_premium(r, p, t, b)
                         \/ \E new \in AdminUserRole : update_role(r, p, t, new)
                         \/ user_detail(r, p, t) \/ matches(r, p, t)
    \/ \E i \in Reports, s \in ReportStatus : update(r, p, i, s)
    \/ \E m \in Matches : messages(r, p, m)

Act(r) ==
    \/ set_ban(r) \/ set_role(r) \/ set_premium_grant(r)
    \/ check_report(r) \/ (\E i \in Reports : insert_report(r, i))
    \/ update_report_status(r) \/ read_detail(r) \/ list_conversations(r) \/ read_conversation(r)

Next ==
    \/ \E r \in Requests : \/ Act(r)
                           \/ /\ Free(r)
                              /\ \E p \in People :
                                   \/ Administer(r, p)
                                   \/ \E t \in People, m \in Matches \cup {None} :
                                         create(r, p, t, m)
    \/ \E p \in People : login(p) \/ enrol(p) \/ account_deleted(p)
    \/ \E m \in Matches : purge(m)

Spec == Init /\ [][Next]_vars
-----------------------------------------------------------------------------
(* Properties *)

\* A role or a grant changes only by the request of an account that is a
\* superadmin's, live and not banned at that moment, however long ago the
\* request was authenticated (set_role, set_premium_grant).  A ban is weaker:
\* set_ban goes by the role the request was authenticated with, even if its
\* author has been demoted, banned or deleted since.  But the target is read
\* at that moment: a superadmin is never reached, nobody bans themselves, and
\* a request authenticated as an admin's reaches only a user.
AuthorityStep ==
    /\ \A t \in People : (role'[t] # role[t] \/ (t \in grant) # (t \in grant')) =>
          \E r \in Requests : /\ req[r].on = t /\ req'[r] = Idle
                              /\ role[req[r].by] = "superadmin"
                              /\ req[r].by \notin deleted \cup banned
    /\ \A t \in People : (t \in banned) # (t \in banned') =>
          \E r \in Requests : /\ req[r].on = t /\ req'[r] = Idle
                              /\ req[r].op = "ban" /\ req[r].as # "user" /\ t # req[r].by
                              /\ role[t] # "superadmin"
                              /\ req[r].as = "admin" => role[t] = "user"

\* Messages are read by an administrator only in a match that a report was
\* made about, and both people find it in their log; a banned person has no
\* session and a user no access to the administration.
ReadsAreOpened ==
    /\ opened \subseteq flagged
    /\ \A m \in opened : \A p \in Parties[m] : \E a \in People : <<p, a, "view_messages">> \in log
    /\ banned \cap mobile = {}
    /\ \A p \in access : role[p] # "user"
=============================================================================
