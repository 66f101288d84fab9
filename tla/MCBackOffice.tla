----------------------------- MODULE MCBackOffice ------------------------------
(***************************************************************************)
(* The three kinds of work admins do by hand, which share no state: a      *)
(* behaviour follows the invites, or the widget page, or a record.         *)
(***************************************************************************)
EXTENDS AdminInvites, AdminConsole, TenantRecords, TLC

CONSTANTS i1, i2, m, a, v1, v2, ta, tb, a1, b1, s1, s2, d1, d2

(* The invites, both for one email: m is a manager, a an admin.  Two or    *)
(* three requests: visitors race on two invites, visitors or one visitor   *)
(* twice race with the manager, the manager, whose page may be reloaded,   *)
(* with the admin; with and without an expiry.                             *)
OneEmail == [i \in Invite |-> "e"]
Plan(issued, expire, c1, c2, c3, reload) ==
    [invites |-> issued, expire |-> expire, calls |-> <<c1, c2, c3>>, reload |-> reload]
SmallPlans ==
    {Plan({i1, i2}, {i2}, v1, v2, "nobody", {}),
     Plan({i1}, {}, v1, v2, m, {}),
     Plan({i1}, {}, "nobody", m, a, {m}),
     Plan({i1}, {}, v1, v1, m, {}),
     Plan({i1}, {i1}, v1, m, "nobody", {})}

(* The widget page: an admin in one session, or in two of them, or two     *)
(* admins of two tenants who share a browser.                              *)
Tenants == (a1 :> ta) @@ (b1 :> tb)
Budget(first, second, n) == [users |-> (s1 :> first) @@ (s2 :> second), signIns |-> 2, edits |-> n]
SmallBudgets == {Budget({a1}, {}, 2), Budget({a1}, {a1}, 1), Budget({a1, b1}, {}, 1)}

(* The records: the clients are alike, the first to send is d1.            *)
FirstSends == save'[1].pc = "sent" => save'[1].by = d1

VARIABLE office     \* bound: the part this behaviour follows
allVars == <<inviteVars, consoleVars, recordVars, office>>

\* A part that is not followed keeps one of its initial states.
MCInit ==
    /\ office \in {"invites", "console", "records"}
    /\ InvitesInit /\ ConsoleInit /\ RecordsInit
    /\ office # "invites" => plan = Plan({i1, i2}, {i2}, v1, v2, "nobody", {})
    /\ office # "console" =>
          /\ config = [t \in Tenant |-> [origins |-> {CHOOSE o \in Origin : TRUE},
                                         enabled |-> TRUE, theme |-> NoTheme]]
          /\ budget = Budget({a1}, {}, 2)
    /\ office # "records" => table = "ticket"

MCNext ==
    \/ office = "invites" /\ InvitesNext /\ UNCHANGED <<consoleVars, recordVars, office>>
    \/ office = "console" /\ ConsoleNext /\ UNCHANGED <<inviteVars, recordVars, office>>
    \/ /\ office = "records" /\ RecordsNext /\ FirstSends
       /\ UNCHANGED <<inviteVars, consoleVars, office>>

\* Some request in service goes on.
WorkGoesOn ==
    \/ office = "invites" /\ ServeInvites /\ UNCHANGED <<consoleVars, recordVars, office>>
    \/ office = "records" /\ ServeSaves /\ UNCHANGED <<inviteVars, consoleVars, office>>

MCSpec == MCInit /\ [][MCNext]_allVars /\ WF_allVars(WorkGoesOn)

\* Every variable has its type.
TypesOK == InvitesTypeOK /\ ConsoleTypeOK /\ RecordsTypeOK

\* widget_service.py:349-388, escalation.py:114-148: the audit rows replay to
\* what is stored: the origins a widget has, the status and assignee of a ticket.
AuditsReplay == TrailReplays /\ AuditsTellTheTicket

\* No request on an invite or a record waits for ever for another one: those
\* that wait for an email or a row wait for one that can go on.
WorkEnds == (Served \cup Saving # {}) ~> (Served \cup Saving = {})
=============================================================================
