---------------------------- MODULE TenantLifecycle ----------------------------
(***************************************************************************)
(* One tenant: tenant managers suspend and erase it while visitors, with   *)
(* widget tokens minted before, chat, and its admins write CMS pages.      *)
(*                                                                         *)
(* Each request is one transaction (get_session), READ COMMITTED.  An      *)
(* erasure is a sequence of statements of one transaction; its UPDATEs     *)
(* of tenants.status lock the row until it ends, and other requests'       *)
(* foreign keys to the tenant do not wait for them.  Rows that reference   *)
(* a deleted row fail the DELETE: escalation_tickets a conversation,       *)
(* rag_chunks a page, neither with a cascade nor deleted by the erasure.   *)
(*                                                                         *)
(* What a chat turn writes besides is ChatData's subject (a conversation   *)
(* is committed with its ticket), what an edit of a page does CmsIndex's.  *)
(* The widget repository is the SQL one; the in-memory one is for tests.   *)
(***************************************************************************)
EXTENDS Naturals, FiniteSets

CONSTANTS
    Manager,    \* requests to suspend or erase the tenant
    Visitor,    \* browsers that ask for a token and chat
    Admin       \* tenant admins that log in and create a page

\* A row names who wrote it.
ASSUME TenantLifecycleAssumption == Visitor \cap Admin = {}

VARIABLES
    status,     \* committed tenants.status
    rows,       \* committed rows the erasure is meant to delete
    jobs,       \* committed erasure_jobs, completed
    mpc,        \* the statement each manager request is about to run
    op,         \* what it does: "suspend", "erase"
    firstRead,  \* tenants.status as it first read it
    written,    \* tenants.status as its open transaction has written it
    deleted,    \* rows its open transaction has deleted
    cause,      \* history: why it failed
    calm,       \* history: nobody could chat when it began to delete
    vpc,        \* where each visitor is
    token,      \* its widget token: "none", "valid", "expired"
    tenantRead, \* the tenant status its token request has read
    apc,        \* where each admin is
    session,    \* its admin token
    pending,    \* rows each visitor's or admin's open transaction inserted
    ever,       \* history: every row ever committed
    settled     \* history: an erasure has committed that began when nobody could

managerVars == <<mpc, op, firstRead, written, deleted, cause, calm>>
visitorVars == <<vpc, token, tenantRead>>
adminVars == <<apc, session>>
history == <<ever, settled>>
tenantVars == <<status, rows, jobs, managerVars, visitorVars, adminVars, pending,
          history>>

Actor == Visitor \cup Admin

\* A row is named after who inserted it; a conversation stands for its ticket
\* too, a page may be without chunks.
Row == [kind : {"lead", "conversation"}, by : Visitor, referenced : BOOLEAN]
        \cup [kind : {"page"}, by : Admin, referenced : BOOLEAN]

Lead(v) == [kind |-> "lead", by |-> v, referenced |-> FALSE]
Conversation(v) == [kind |-> "conversation", by |-> v, referenced |-> TRUE]
CmsPage(a, indexed) == [kind |-> "page", by |-> a, referenced |-> indexed]

Running == {"flush", "delete_leads", "delete_conversations", "delete_pages",
            "finish", "commit"}

TenantInit ==
    /\ status = "active"
    /\ rows = {}
    /\ jobs = {}
    /\ mpc = [m \in Manager |-> "idle"]
    /\ op \in [Manager -> {"suspend", "erase"}]
    /\ firstRead = [m \in Manager |-> "none"]
    /\ written = [m \in Manager |-> "none"]
    /\ deleted = [m \in Manager |-> {}]
    /\ cause = [m \in Manager |-> "none"]
    /\ calm = [m \in Manager |-> FALSE]
    /\ vpc = [v \in Visitor |-> "idle"]
    /\ token = [v \in Visitor |-> "none"]
    /\ tenantRead = [v \in Visitor |-> "none"]
    /\ apc = [a \in Admin |-> "idle"]
    /\ session = [a \in Admin |-> "none"]
    /\ pending = [x \in Actor |-> {}]
    /\ ever = {}
    /\ settled = FALSE

Advance(m, label) == mpc' = [mpc EXCEPT ![m] = label]

----------------------------------------------------------------------------
(* Tenant managers *)

Rollback_keepsLock(m, why) ==
    /\ Advance(m, "failed")
    /\ deleted' = [deleted EXCEPT ![m] = {}]
    /\ cause' = [cause EXCEPT ![m] = why]
    /\ UNCHANGED <<op, firstRead, written>>

\* get_session: an exception rolls the transaction back.
Rollback(m, why) ==
    /\ Advance(m, "failed")
    /\ written' = [written EXCEPT ![m] = "none"]
    /\ deleted' = [deleted EXCEPT ![m] = {}]
    /\ cause' = [cause EXCEPT ![m] = why]
    /\ UNCHANGED <<op, firstRead>>

others == <<visitorVars, adminVars, pending>>

\* set_status: the SELECT.  The value later compared with.
LoadTenant(m) ==
    /\ mpc[m] = "idle"
    /\ firstRead' = [firstRead EXCEPT ![m] = status]
    /\ Advance(m, "flush")
    /\ UNCHANGED <<status, rows, jobs, op, written, deleted, cause, calm,
                   others, history>>

FirstStatus(m) == IF op[m] = "erase" THEN "erasing" ELSE "suspended"

\* Another open transaction has updated the tenant's row.
RowLocked(m) == \E n \in Manager \ {m} : written[n] # "none"

\* set_status: the UPDATE, none if the status is the loaded one.  Nothing
\* depends on what the status is.
FlushStatus(m) ==
    /\ mpc[m] = "flush"
    /\ IF firstRead[m] = FirstStatus(m)
       THEN UNCHANGED written
       ELSE /\ ~RowLocked(m)
            /\ written' = [written EXCEPT ![m] = FirstStatus(m)]
    /\ Advance(m, IF op[m] = "erase" THEN "delete_leads" ELSE "commit")
    /\ UNCHANGED <<status, rows, jobs, op, firstRead, deleted, cause, calm,
                   others, history>>

Visible(m, kind) == {r \in rows \ deleted[m] : r.kind = kind}

\* _delete_tenant_rows: the DELETE, and the foreign keys to what it deletes.
Delete_autocommits(m, kind) ==
    IF \E r \in Visible(m, kind) : r.referenced
    THEN /\ Rollback(m, "foreign_key")
         /\ UNCHANGED rows
    ELSE /\ rows' = rows \ Visible(m, kind)
         /\ deleted' = [deleted EXCEPT ![m] = @ \cup Visible(m, kind)]
         /\ \/ mpc[m] = "delete_leads" /\ Advance(m, "delete_conversations")
            \/ mpc[m] = "delete_conversations" /\ Advance(m, "delete_pages")
            \/ mpc[m] = "delete_pages" /\ Advance(m, "finish")
         /\ UNCHANGED <<op, firstRead, written, cause>>

Delete(m, kind) ==
    IF \E r \in Visible(m, kind) : r.referenced
    THEN /\ Rollback(m, "foreign_key")
         /\ UNCHANGED rows
    ELSE /\ deleted' = [deleted EXCEPT ![m] = @ \cup Visible(m, kind)]
         /\ \/ mpc[m] = "delete_leads" /\ Advance(m, "delete_conversations")
            \/ mpc[m] = "delete_conversations" /\ Advance(m, "delete_pages")
            \/ mpc[m] = "delete_pages" /\ Advance(m, "finish")
         /\ UNCHANGED <<op, firstRead, written, cause, rows>>

\* No visitor holds a widget token, is about to be given one, or chats.
NobodyChats ==
    \A v \in Visitor : token[v] # "valid" /\ vpc[v] \notin {"asked", "chatting"}

\* erase_tenant_rows.
EraseRows(m) ==
    /\ \/ /\ mpc[m] = "delete_leads"
          /\ Delete(m, "lead")
          /\ calm' = [calm EXCEPT ![m] = status # "active" /\ NobodyChats]
       \/ /\ mpc[m] = "delete_conversations"
          /\ Delete(m, "conversation")
          /\ UNCHANGED calm
       \/ /\ mpc[m] = "delete_pages"
          /\ Delete(m, "page")
          /\ UNCHANGED calm
    /\ UNCHANGED <<status, jobs, others, history>>

\* The erasure job, and the second set_status.
Finish(m) ==
    /\ mpc[m] = "finish"
    /\ written' = [written EXCEPT ![m] = "erased"]
    /\ Advance(m, "commit")
    /\ UNCHANGED <<status, rows, jobs, op, firstRead, deleted, cause, calm,
                   others, history>>

CommitManager(m) ==
    /\ mpc[m] = "commit"
    /\ status' = IF written[m] = "none" THEN status ELSE written[m]
    /\ rows' = rows \ deleted[m]
    /\ IF op[m] = "erase"
       THEN /\ jobs' = jobs \cup {[by |-> m, deleted |-> deleted[m]]}
            /\ settled' = (settled \/ calm[m])
       ELSE UNCHANGED <<jobs, settled>>
    /\ written' = [written EXCEPT ![m] = "none"]
    /\ deleted' = [deleted EXCEPT ![m] = {}]
    /\ Advance(m, "done")
    /\ UNCHANGED <<op, firstRead, cause, calm, others, ever>>

ManagerFails(m) ==
    /\ mpc[m] \in Running
    /\ Rollback(m, "database")
    /\ UNCHANGED <<status, rows, jobs, calm, others, history>>

ManagerStep(m) ==
    LoadTenant(m) \/ FlushStatus(m) \/ EraseRows(m) \/ Finish(m) \/ CommitManager(m)

----------------------------------------------------------------------------
(* Visitors *)

VisitorAt(v, label) == vpc' = [vpc EXCEPT ![v] = label]

unmanaged == <<status, rows, jobs, managerVars>>

\* issue_token: the widget configuration joined with the tenant's status.
AskForToken(v) ==
    /\ vpc[v] \in {"idle", "ready"}
    /\ token[v] # "valid"
    /\ tenantRead' = [tenantRead EXCEPT ![v] = status]
    /\ VisitorAt(v, "asked")
    /\ UNCHANGED <<unmanaged, token, adminVars, pending, history>>

IssueToken_anyTenant(v) ==
    /\ vpc[v] = "asked"
    /\ token' = [token EXCEPT ![v] = "valid"]
    /\ VisitorAt(v, "ready")
    /\ UNCHANGED <<unmanaged, tenantRead, adminVars, pending, history>>

IssueToken(v) ==
    /\ vpc[v] = "asked"
    /\ tenantRead[v] = "active"
    /\ token' = [token EXCEPT ![v] = "valid"]
    /\ VisitorAt(v, "ready")
    /\ UNCHANGED <<unmanaged, tenantRead, adminVars, pending, history>>

\* Any of the gates: limiter, disabled widget, tenant not active, origin.
RefuseToken(v) ==
    /\ vpc[v] = "asked"
    /\ VisitorAt(v, "idle")
    /\ UNCHANGED <<unmanaged, token, tenantRead, adminVars, pending, history>>

TokenExpires(v) ==
    /\ token[v] = "valid"
    /\ token' = [token EXCEPT ![v] = "expired"]
    /\ UNCHANGED <<unmanaged, vpc, tenantRead, adminVars, pending, history>>

\* POST /chat: the token is decoded, the tenant is not looked at.
BeginTurn(v) ==
    /\ vpc[v] = "ready"
    /\ token[v] = "valid"
    /\ VisitorAt(v, "chatting")
    /\ UNCHANGED <<unmanaged, token, tenantRead, adminVars, pending, history>>

\* capture_lead, escalate.
WriteRow(v) ==
    /\ vpc[v] = "chatting"
    /\ \E r \in {Lead(v), Conversation(v)} :
          pending' = [pending EXCEPT ![v] = @ \cup {r}]
    /\ UNCHANGED <<unmanaged, visitorVars, adminVars, history>>

Publish(x) ==
    /\ rows' = rows \cup pending[x]
    /\ ever' = ever \cup pending[x]
    /\ pending' = [pending EXCEPT ![x] = {}]
    /\ UNCHANGED <<status, jobs, managerVars, settled>>

CommitTurn(v) ==
    /\ vpc[v] = "chatting"
    /\ Publish(v)
    /\ VisitorAt(v, "gone")
    /\ UNCHANGED <<token, tenantRead, adminVars>>

TurnFails(v) ==
    /\ vpc[v] = "chatting"
    /\ pending' = [pending EXCEPT ![v] = {}]
    /\ VisitorAt(v, "ready")
    /\ UNCHANGED <<unmanaged, token, tenantRead, adminVars, history>>

----------------------------------------------------------------------------
(* Tenant admins *)

\* authenticate: the user's own status and role are checked, not the tenant's.
Login(a) ==
    /\ session[a] # "valid"
    /\ session' = [session EXCEPT ![a] = "valid"]
    /\ UNCHANGED <<unmanaged, visitorVars, apc, pending, history>>

SessionExpires(a) ==
    /\ session[a] = "valid"
    /\ session' = [session EXCEPT ![a] = "expired"]
    /\ UNCHANGED <<unmanaged, visitorVars, apc, pending, history>>

\* POST /cms/pages: the page, and its chunks if the index writes succeed and
\* the page is published.
CreatePage(a) ==
    /\ apc[a] = "idle"
    /\ session[a] = "valid"
    /\ \E indexed \in BOOLEAN :
          pending' = [pending EXCEPT ![a] = {CmsPage(a, indexed)}]
    /\ apc' = [apc EXCEPT ![a] = "creating"]
    /\ UNCHANGED <<unmanaged, visitorVars, session, history>>

CommitPage(a) ==
    /\ apc[a] = "creating"
    /\ Publish(a)
    /\ apc' = [apc EXCEPT ![a] = "done"]
    /\ UNCHANGED <<visitorVars, session>>

PageFails(a) ==
    /\ apc[a] = "creating"
    /\ pending' = [pending EXCEPT ![a] = {}]
    /\ apc' = [apc EXCEPT ![a] = "idle"]
    /\ UNCHANGED <<unmanaged, visitorVars, session, history>>

----------------------------------------------------------------------------
VisitorStep(v) ==
    \/ AskForToken(v) \/ IssueToken(v) \/ RefuseToken(v) \/ TokenExpires(v)
    \/ BeginTurn(v) \/ WriteRow(v) \/ CommitTurn(v) \/ TurnFails(v)

AdminStep(a) ==
    \/ Login(a) \/ SessionExpires(a)
    \/ CreatePage(a) \/ CommitPage(a) \/ PageFails(a)

TenantNext ==
    \/ \E m \in Manager : ManagerStep(m) \/ ManagerFails(m)
    \/ \E v \in Visitor : VisitorStep(v)
    \/ \E a \in Admin : AdminStep(a)

\* A manager's request runs on, and Postgres grants a row lock when it is
\* free; visitors and admins need not do anything.
TenantFairness == \A m \in Manager : WF_tenantVars(ManagerStep(m))

TenantSpec == TenantInit /\ [][TenantNext]_tenantVars /\ TenantFairness

----------------------------------------------------------------------------
(* Properties *)

\* Every variable has its type.  "erasing" is never a committed status.
TenantTypeOK ==
    /\ status \in {"active", "suspended", "erased"}
    /\ rows \in SUBSET Row
    /\ jobs \in SUBSET [by : Manager, deleted : SUBSET Row]
    /\ mpc \in [Manager -> Running \cup {"idle", "done", "failed"}]
    /\ op \in [Manager -> {"suspend", "erase"}]
    /\ firstRead \in [Manager -> {"none", "active", "suspended", "erased"}]
    /\ written \in [Manager -> {"none", "suspended", "erasing", "erased"}]
    /\ deleted \in [Manager -> SUBSET Row]
    /\ cause \in [Manager -> {"none", "database", "foreign_key"}]
    /\ calm \in [Manager -> BOOLEAN]
    /\ vpc \in [Visitor -> {"idle", "asked", "ready", "chatting", "gone"}]
    /\ token \in [Visitor -> {"none", "valid", "expired"}]
    /\ tenantRead \in [Visitor -> {"none", "active", "suspended", "erased"}]
    /\ apc \in [Admin -> {"idle", "creating", "done"}]
    /\ session \in [Admin -> {"none", "valid", "expired"}]
    /\ pending \in [Actor -> SUBSET Row]
    /\ ever \in SUBSET Row
    /\ settled \in BOOLEAN

\* tenant_service.py:120-128: every row the tenant ever had is still there or
\* is counted in exactly one erasure job, whichever erasures ran together and
\* failed half-way.
RowsAreAccounted ==
    /\ ever = rows \cup UNION {j.deleted : j \in jobs}
    /\ \A j \in jobs : j.deleted \cap rows = {}
    /\ \A i, j \in jobs : i # j => i.deleted \cap j.deleted = {}

ChatRows == {r \in rows : r.kind # "page"}

\* widget_service.py:130-139: the tenant's status is looked at when a token is
\* minted and never again.  That is enough for a tenant suspended first: an
\* erasure that starts once its tokens have run out leaves no lead and no
\* conversation, and none is ever written again.
SettledErasureIsFinal == settled => ChatRows = {}

\* Every suspension and erasure ends, although they wait for one another: of
\* finitely many, none is left running.
Managing == {m \in Manager : mpc[m] \in Running}
EveryRequestEnds == Managing # {} ~> Managing = {}

\* Claimed by tenants.py:105, "Erase a tenant and tenant-owned rows.": an
\* erasure is not refused by the tenant's own rows.
ErasureIsNotRefused == \A m \in Manager : cause[m] # "foreign_key"

\* Claimed by constitution.md:52, "Tenant erasure MUST delete rows, vectors,
\* blobs, sessions, and traces": an erased tenant has no rows.
ErasedTenantIsEmpty == status = "erased" => rows = {}
=============================================================================
