----------------------------- MODULE AdminInvites -----------------------------
(***************************************************************************)
(* The invites of admins: issued, revoked and sent again from the invites  *)
(* page, opened and accepted on the page their link leads to.  Requests    *)
(* run side by side, each in one transaction under READ COMMITTED: a read  *)
(* sees what is committed, an UPDATE waits for the row and an INSERT of an *)
(* account for its email.  A client may give a request up; the request     *)
(* runs on.  Whether its answer leaves before or after its commit is the   *)
(* framework's choice: both are modelled, and the commit may fail.  A link *)
(* is the number of a token: those drawn for an invite are counted.        *)
(***************************************************************************)
EXTENDS Integers, FiniteSets

CONSTANTS
    Invite,     \* rows of admin_invites
    Console,    \* admins on the invites page
    Manager,    \* those of them who are tenant managers
    Visitor,    \* browsers an invite's link is opened in, each with a password
    Request,    \* requests that accept, revoke or send again: 1..n
    Email,      \* the email an invite is for
    Plans       \* bounds: the invites issued, those that expire, whose request is
                \* which, the consoles that are reloaded

VARIABLES
    invites,    \* the committed rows
    accounts,   \* committed admin_users: email, password and the invite used
    plan,       \* the plan of this behaviour
    req,        \* the requests
    recent,     \* a console's tm_recent_invites (fewer than its 25 rows)
    page,       \* the accept page of a visitor
    drawn,      \* tokens drawn for an invite
    answered,   \* requests answered before their commit, to a page still there
    late,       \* history: requests being served whose link was dead on arrival
    misled,     \* history: visitors whose accept failed after its answer
    holder      \* history: consoles whose page was given an invite's good link

asked == <<req, page, answered, late, misled>>
known == <<drawn, answered, misled, holder>>
inviteVars ==
    <<invites, accounts, plan, req, recent, page, drawn, answered, late, misled, holder>>

\* No row yet; a request not yet made, and one at its end.
None == [link |-> 0]
Unmade == [pc |-> "free"]
Done == [pc |-> "done"]

InvitesInit ==
    /\ invites = [i \in Invite |-> None]
    /\ accounts = {}
    /\ plan \in Plans
    /\ req = [r \in Request |-> Unmade]
    /\ recent = [c \in Console |-> {}]
    /\ page = [v \in Visitor |-> [screen |-> "none"]]
    /\ drawn = [i \in Invite |-> 0]
    /\ answered = {} /\ late = {} /\ misled = {}
    /\ holder = [i \in Invite |-> {}]

Live == {i \in Invite : invites[i] # None}
Found(i, k) == i \in Live /\ invites[i].link = k

Status(i) ==
    LET row == invites[i] IN
    IF row.used THEN "used" ELSE IF row.revoked THEN "revoked"
    ELSE IF row.expired THEN "expired" ELSE "pending"

\* _require_actor_scope: another tenant's invites are the managers' only.
InScope(c, i) == c \in Manager \/ invites[i].by = c

Entry(i, k, s) == [invite |-> i, link |-> k, status |-> s]
Remembered(c, i, k) == [recent EXCEPT ![c] = @ \cup {Entry(i, k, "pending")}]
Marked(c, i, k) ==
    [recent EXCEPT ![c] =
        {IF e.invite = i /\ e.link = k THEN Entry(i, k, "revoked") ELSE e : e \in @}]
\* The row of the token that was replaced keeps it.
Replaced_oldToken(c, i, k, fresh) ==
    [recent EXCEPT ![c] = {e \in @ : e.invite # i \/ e.link # k} \cup {Entry(i, k, "pending")}]
Replaced(c, i, k, fresh) ==
    [recent EXCEPT ![c] = {e \in @ : e.invite # i \/ e.link # k} \cup {Entry(i, fresh, "pending")}]

(* The invites page *)

\* One INSERT.  Nothing is asked of the email: it may have an account, or other
\* invites.  The answer is lost, or the commit fails after it, or neither.
Create(c, i) ==
    LET row == [link |-> 1, by |-> c, used |-> FALSE, revoked |-> FALSE, expired |-> FALSE]
    IN
    /\ i \in plan.invites /\ drawn[i] = 0 /\ drawn' = [drawn EXCEPT ![i] = 1]
    /\ \/ /\ invites' = [invites EXCEPT ![i] = row]
          /\ recent' = Remembered(c, i, 1) /\ holder' = [holder EXCEPT ![i] = {c}]
       \/ invites' = [invites EXCEPT ![i] = row] /\ UNCHANGED <<recent, holder>>
       \/ recent' = Remembered(c, i, 1) /\ UNCHANGED <<invites, holder>>
    /\ UNCHANGED <<accounts, plan, asked>>

Post(r, op, by, i, k) ==
    /\ req[r] = Unmade /\ by = plan.calls[r]
    /\ \A s \in Request : s < r /\ plan.calls[s] = by => req[s] # Unmade
    /\ req' = [req EXCEPT ![r] = [pc |-> "sent", op |-> op, by |-> by, invite |-> i,
                                  link |-> k, heard |-> TRUE]]

Served == {r \in Request : req[r] \notin {Unmade, Done}}
Busy(a) == \E r \in Served : req[r].by = a /\ req[r].heard

\* The token is typed or pasted: any the invite has had.
ActOn(c) ==
    /\ ~Busy(c)
    /\ \E r \in Request, i \in Live, op \in {"revoke", "resend"} :
         \E k \in 1..invites[i].link : Post(r, op, c, i, k)
    /\ UNCHANGED <<invites, accounts, plan, recent, page, late, known>>

\* The browser reloads the page: its session, and tm_recent_invites with it,
\* are gone, and nobody is there for the answer of a request.
Reload(c) ==
    LET theirs == {r \in Served : req[r].op # "accept" /\ req[r].by = c} IN
    /\ c \in plan.reload
    /\ recent' = [recent EXCEPT ![c] = {}]
    /\ req' = [r \in Request |->
                  IF r \in theirs THEN [req[r] EXCEPT !.heard = FALSE] ELSE req[r]]
    /\ answered' = answered \ theirs
    /\ holder' = [i \in Invite |-> holder[i] \ {c}]
    /\ UNCHANGED <<invites, accounts, plan, page, drawn, late, misled>>

(* The accept page *)

\* GET /admin/invites/{token}.  A revoked invite's status is not one the
\* response may have (domain/admin_invite.py:44): the request fails.
Details(i, k) ==
    IF ~Found(i, k) \/ Status(i) = "revoked" THEN "error"
    ELSE IF Status(i) = "pending" THEN "form" ELSE Status(i)

Show(v, screen, i, k) == page' = [page EXCEPT ![v] = [screen |-> screen, invite |-> i, link |-> k]]

Open(v) ==
    /\ page[v].screen = "none"
    /\ \E i \in Live : \E k \in 1..invites[i].link : Show(v, Details(i, k), i, k)
    /\ UNCHANGED <<invites, accounts, plan, req, recent, late, known>>

\* The script runs again from the top, details first, then posts the form.
Submit(v) ==
    /\ page[v].screen = "form"
    /\ LET i == page[v].invite
           k == page[v].link
       IN IF Details(i, k) = "form"
          THEN Show(v, "waiting", i, k) /\ \E r \in Request : Post(r, "accept", v, i, k)
          ELSE Show(v, Details(i, k), i, k) /\ UNCHANGED req
    /\ UNCHANGED <<invites, accounts, plan, recent, late, known>>

\* Told of a success, the browser signs in with what it has just sent: it may
\* find the account, or no server.
Mine(v) == \E a \in accounts : a.by = v /\ a.email = Email[page[v].invite]

EnterAccount(v) ==
    /\ page[v].screen = "signing"
    /\ \/ Mine(v) /\ Show(v, "in", page[v].invite, page[v].link)
       \/ Show(v, "created", page[v].invite, page[v].link)
    /\ UNCHANGED <<invites, accounts, plan, req, recent, late, known>>

(* The requests *)

Proceed(r, pc) ==
    req' = [req EXCEPT ![r].pc = pc] /\ UNCHANGED <<page, answered, late, misled>>

\* The client gives the request up (ten seconds): the form again, with an
\* error; on the invites page the rows stay as they were.
StopWaiting(r) ==
    /\ r \in Served /\ req[r].heard
    /\ req' = [req EXCEPT ![r].heard = FALSE]
    /\ IF req[r].op = "accept" THEN Show(req[r].by, "form", req[r].invite, req[r].link)
       ELSE UNCHANGED page
    /\ UNCHANGED <<invites, accounts, plan, recent, late, known>>

\* Refused or failed, at most in the commit: everything is rolled back.
EndRequest(r) ==
    /\ req' = [req EXCEPT ![r] = Done] /\ late' = late \ {r} /\ answered' = answered \ {r}
    /\ misled' = misled \cup
            (IF r \in answered /\ req[r].op = "accept" THEN {req[r].by} ELSE {})
    /\ IF req[r].op = "accept" /\ req[r].heard
       THEN Show(req[r].by, "form", req[r].invite, req[r].link) ELSE UNCHANGED page

Dead(op, i, k) ==
    \/ ~Found(i, k)
    \/ Status(i) \in {"used", "revoked"}
    \/ op = "accept" /\ Status(i) = "expired"

Arrive(r) ==
    /\ req[r].pc = "sent" /\ req' = [req EXCEPT ![r].pc = "read"]
    /\ late' = IF Dead(req[r].op, req[r].invite, req[r].link) THEN late \cup {r} ELSE late
    /\ UNCHANGED <<page, answered, misled>>

\* get_by_token, _require_actor_scope and the checks of the status.
ReadInvite(r) ==
    /\ req[r].pc = "read"
    /\ LET i == req[r].invite IN
       IF Dead(req[r].op, i, req[r].link) THEN EndRequest(r)
       ELSE IF req[r].op = "accept" THEN Proceed(r, "email")
       ELSE IF InScope(req[r].by, i) THEN Proceed(r, "again")
       ELSE EndRequest(r)

HasAccount(e) == \E a \in accounts : a.email = e

CheckEmail(r) ==
    /\ req[r].pc = "email"
    /\ IF HasAccount(Email[req[r].invite]) THEN EndRequest(r) ELSE Proceed(r, "insert")

\* Holding the unique key of an email, or the row of an invite, until the end.
HoldsEmail(s, e) ==
    /\ s \in Served /\ req[s].op = "accept" /\ req[s].pc \in {"mark", "commit"}
    /\ Email[req[s].invite] = e
HoldsRow(s, i) == s \in Served /\ req[s].pc = "commit" /\ req[s].invite = i

InsertUser(r) ==
    /\ req[r].pc = "insert"
    /\ \A s \in Request \ {r} : ~HoldsEmail(s, Email[req[r].invite])
    /\ IF HasAccount(Email[req[r].invite]) THEN EndRequest(r) ELSE Proceed(r, "mark")

\* mark_revoked and resend look the token up a second time; the assertion
\* after them fails when it has been replaced since the first.
Again(r) ==
    /\ req[r].pc = "again"
    /\ IF Found(req[r].invite, req[r].link) THEN Proceed(r, "write") ELSE EndRequest(r)

\* The UPDATE by primary key of what the request changes.
WriteInvite(r) ==
    /\ req[r].pc \in {"mark", "write"}
    /\ \A s \in Request \ {r} : ~HoldsRow(s, req[r].invite)
    /\ Proceed(r, "commit")

\* FastAPI 0.118 and later: the answer leaves before the commit of
\* get_session.  The token of a resend is drawn, the row still has the old one.
AnswerRequest(r) ==
    LET i == req[r].invite
        k == req[r].link
    IN
    /\ req[r].pc = "commit" /\ req[r].heard
    /\ req' = [req EXCEPT ![r].heard = FALSE] /\ answered' = answered \cup {r}
    /\ \/ /\ req[r].op = "accept" /\ Show(req[r].by, "signing", i, k)
          /\ UNCHANGED <<recent, drawn, holder>>
       \/ /\ req[r].op = "revoke" /\ recent' = Marked(req[r].by, i, k)
          /\ UNCHANGED <<page, drawn, holder>>
       \/ /\ req[r].op = "resend" /\ recent' = Replaced(req[r].by, i, k, drawn[i] + 1)
          /\ drawn' = [drawn EXCEPT ![i] = @ + 1]
          /\ holder' = [holder EXCEPT ![i] = IF k = invites[i].link THEN @ \ {req[r].by} ELSE @]
          /\ UNCHANGED page
    /\ UNCHANGED <<invites, accounts, plan, late, misled>>

\* Commit, and the answer if it has not left before; the audit row of a
\* revocation or a resend comes with it.
Accepted(r) ==
    /\ invites' = [invites EXCEPT ![req[r].invite].used = TRUE]
    /\ accounts' = accounts \cup
            {[email |-> Email[req[r].invite], by |-> req[r].by, invite |-> req[r].invite]}
    /\ IF req[r].heard THEN Show(req[r].by, "signing", req[r].invite, req[r].link)
       ELSE UNCHANGED page
    /\ UNCHANGED <<recent, drawn, holder>>

Revoked(r) ==
    /\ invites' = [invites EXCEPT ![req[r].invite].revoked = TRUE]
    /\ recent' = IF req[r].heard THEN Marked(req[r].by, req[r].invite, req[r].link) ELSE recent
    /\ UNCHANGED <<accounts, page, drawn, holder>>

\* The new token is the last one drawn: no other request holds the row.
Resent_sameToken(r) ==
    LET i == req[r].invite IN
    /\ invites' = [invites EXCEPT ![i].expired = FALSE]
    /\ recent' = IF req[r].heard THEN Replaced(req[r].by, i, req[r].link, req[r].link) ELSE recent
    /\ UNCHANGED <<accounts, page, drawn, holder>>
Resent(r) ==
    LET i == req[r].invite
        fresh == IF r \in answered THEN drawn[i] ELSE drawn[i] + 1
    IN
    /\ invites' = [invites EXCEPT ![i].link = fresh, ![i].expired = FALSE]
    /\ recent' = IF req[r].heard THEN Replaced(req[r].by, i, req[r].link, fresh) ELSE recent
    /\ drawn' = [drawn EXCEPT ![i] = fresh]
    /\ holder' = [holder EXCEPT ![i] = IF req[r].heard \/ r \in answered THEN {req[r].by} ELSE {}]
    /\ UNCHANGED <<accounts, page>>

CommitRequest(r) ==
    /\ req[r].pc = "commit" /\ req' = [req EXCEPT ![r] = Done]
    /\ late' = late \ {r} /\ answered' = answered \ {r}
    /\ \/ req[r].op = "accept" /\ Accepted(r)
       \/ req[r].op = "revoke" /\ Revoked(r)
       \/ req[r].op = "resend" /\ Resent(r)
    /\ UNCHANGED <<plan, misled>>

StepRequest(r) ==
    \/ /\ Arrive(r) \/ ReadInvite(r) \/ CheckEmail(r) \/ InsertUser(r) \/ Again(r) \/ WriteInvite(r)
       /\ UNCHANGED <<invites, accounts, plan, recent, drawn, holder>>
    \/ CommitRequest(r)

\* The database or the process fails the request.
FailRequest(r) ==
    r \in Served /\ EndRequest(r) /\ UNCHANGED <<invites, accounts, plan, recent, drawn, holder>>

\* ttl_seconds pass.
Expire(i) ==
    /\ i \in Live \cap plan.expire /\ ~invites[i].expired
    /\ invites' = [invites EXCEPT ![i].expired = TRUE]
    /\ UNCHANGED <<accounts, plan, req, recent, page, late, known>>

ServeInvites == \E r \in Served : StepRequest(r)

InvitesNext ==
    \/ \E c \in Console : ActOn(c) \/ Reload(c) \/ \E i \in Invite : Create(c, i)
    \/ \E v \in Visitor : Open(v) \/ Submit(v) \/ EnterAccount(v)
    \/ \E r \in Request : StopWaiting(r) \/ AnswerRequest(r) \/ FailRequest(r)
    \/ \E i \in Invite : Expire(i)
    \/ ServeInvites

\* A request that is being served goes on to its end.
InvitesSpec == InvitesInit /\ [][InvitesNext]_inviteVars /\ WF_inviteVars(ServeInvites)

----------------------------------------------------------------------------
(* Properties *)

InvitesTypeOK ==
    /\ \A i \in Live : invites[i] \in [link : Nat, by : Console, used : BOOLEAN,
                                       revoked : BOOLEAN, expired : BOOLEAN]
    /\ \A a \in accounts : a.by \in Visitor /\ a.invite \in Live
    /\ \A r \in Served : req[r].pc \in
            {"sent", "read", "email", "insert", "mark", "again", "write", "commit"}
    /\ \A v \in Visitor : page[v].screen \in
            {"none", "form", "waiting", "used", "expired", "error", "signing", "created", "in"}
    /\ \A c \in Console : \A e \in recent[c] : e.link \in 1..drawn[e.invite]
    /\ answered \subseteq Served /\ late \subseteq Served /\ misled \subseteq Visitor

\* However many browsers accept invites of one email at the same time, the
\* email gets one account, and the used invites are those of an account.
OneAccountPerEmail ==
    /\ \A a, b \in accounts : a.email = b.email => a = b
    /\ {i \in Live : invites[i].used} = {a.invite : a \in accounts}

\* A token that was used, revoked, replaced or (for its invitee) expired never
\* serves a request that arrives after; an invite both used and revoked had the
\* two requests overlap.
DeadLinksStayDead == \A r \in late : req[r].pc = "read"

\* admin_invite.py:127-243, models.py:110 "Single-use": an invite makes one
\* account at most, and its link is good for nothing more once it is dead.
InvitesAreSingleUse == OneAccountPerEmail /\ DeadLinksStayDead

\* No route lists invites, so a token is known from its answer only.  A page
\* that was given the token that is good now has it, until the browser reloads
\* the page or the admin has it replaced, by a resend that is answered.
LinksAreKnown ==
    \A i \in Live : \A c \in holder[i] :
        \E e \in recent[c] : e.invite = i /\ e.link = invites[i].link

\* Who is signed in has an account of his own.  Who is told that he has one has
\* it, or his accept was answered first and its commit is to come or has failed.
\* Who is told that the invite was used is told so of one that was.
ScreensTellTheTruth ==
    \A v \in Visitor :
        /\ page[v].screen = "in" => Mine(v)
        /\ page[v].screen \in {"signing", "created"} =>
              \/ Mine(v) \/ v \in misled
              \/ \E r \in answered : req[r].op = "accept" /\ req[r].by = v
        /\ page[v].screen = "used" => invites[page[v].invite].used

\* invites_page.py:46-67, accept_invite_page.py:116-209: whatever answers are
\* lost, late or before their commit, the two pages say what is so, but for an
\* accept that fails after its answer, and a page keeps the good link it has.
PagesTellTheTruth == LinksAreKnown /\ ScreensTellTheTruth
=============================================================================
