------------------------------- MODULE ChatData -------------------------------
(***************************************************************************)
(* The rows that concurrent chat turns of one tenant write, and the lead   *)
(* limiter they share.  Each POST /chat runs in one database transaction   *)
(* (get_session): commit after the handler, rollback on any exception.     *)
(* Postgres runs READ COMMITTED, so a statement sees what is committed     *)
(* when it runs and what its own transaction wrote, and an insert that     *)
(* meets an uncommitted row with the same unique key waits for it.         *)
(*                                                                         *)
(* Which tools a turn calls is AgentTurn's subject; here a turn captures   *)
(* leads and escalates in any order, one escalation being the last thing   *)
(* it does.  Conversations are created by escalate alone (tools.py:441).   *)
(***************************************************************************)
EXTENDS Naturals, FiniteSets, FiniteSetsExt

CONSTANTS
    Turn,       \* requests to POST /chat
    Session,    \* visitor sessions of the tenant
    None,       \* no row
    LeadCap,    \* rate_limit_lead_per_session
    MaxLeads,       \* bound: capture_lead calls in one turn
    MaxRestarts     \* bound: restarts of the server

ASSUME ChatDataAssumption ==
    /\ None \notin Turn
    /\ LeadCap \in Nat
    /\ MaxLeads \in Nat
    /\ MaxRestarts \in Nat

VARIABLES
    pc,             \* the statement each turn is about to run
    session,        \* session_id of each turn
    conversation,   \* conversation.id held by each turn
    ticket,         \* the ticket each turn's escalate returned
    calls,          \* capture_lead calls made by each turn
    txn,            \* "none", "active", "broken" after a failed flush
    cause,          \* history: why a turn failed
    conversations,  \* committed conversations
    tickets,        \* committed escalation_tickets
    leads,          \* committed leads of each session
    newConv,        \* conversations inserted by each open transaction
    newTickets,     \* tickets inserted by each open transaction
    newLeads,       \* leads inserted by each open transaction
    count,          \* the limiter's count per session, in process memory
    restarts        \* restarts of the server so far

turnVars == <<session, conversation, ticket, calls, cause>>
committed == <<conversations, tickets, leads>>
uncommitted == <<newConv, newTickets, newLeads>>
limiter == <<count, restarts>>
vars == <<pc, txn, turnVars, committed, uncommitted, limiter>>

\* A conversation and a ticket are named after the turn that inserted them:
\* a turn inserts at most one of each.
ConversationRow == [id : Turn, session : Session]
TicketRow == [id : Turn, conversation : Turn]

Running == {"ready", "insert_lead", "insert_conversation", "select_ticket",
            "insert_ticket", "commit"}

Init ==
    /\ pc = [t \in Turn |-> "idle"]
    /\ session \in [Turn -> Session]
    /\ conversation = [t \in Turn |-> None]
    /\ ticket = [t \in Turn |-> None]
    /\ calls = [t \in Turn |-> 0]
    /\ txn = [t \in Turn |-> "none"]
    /\ cause = [t \in Turn |-> "none"]
    /\ conversations = {}
    /\ tickets = {}
    /\ leads = [s \in Session |-> 0]
    /\ newConv = [t \in Turn |-> {}]
    /\ newTickets = [t \in Turn |-> {}]
    /\ newLeads = [t \in Turn |-> 0]
    /\ count = [s \in Session |-> 0]
    /\ restarts = 0

Goto(t, label) == pc' = [pc EXCEPT ![t] = label]

\* get_session: the exception of the handler rolls the transaction back.
Rollback(t, why) ==
    /\ Goto(t, "failed")
    /\ txn' = [txn EXCEPT ![t] = "none"]
    /\ cause' = [cause EXCEPT ![t] = why]
    /\ newConv' = [newConv EXCEPT ![t] = {}]
    /\ newTickets' = [newTickets EXCEPT ![t] = {}]
    /\ newLeads' = [newLeads EXCEPT ![t] = 0]
    /\ UNCHANGED <<session, conversation, ticket, calls, committed, limiter>>

Begin(t) ==
    /\ pc[t] = "idle"
    /\ Goto(t, "ready")
    /\ txn' = [txn EXCEPT ![t] = "active"]
    /\ UNCHANGED <<turnVars, committed, uncommitted, limiter>>

\* A statement fails, or the request is cancelled: nothing catches it.
DatabaseError(t) ==
    /\ pc[t] \in Running
    /\ Rollback(t, "database")

\* Every statement on a broken transaction raises PendingRollbackError.
PendingRollback(t) ==
    /\ pc[t] \in {"ready", "insert_lead", "commit"}
    /\ txn[t] = "broken"
    /\ Rollback(t, "audit")

\* The server goes away: Postgres drops the open transactions, the limiter's
\* counts were in its memory.
Restart ==
    /\ restarts < MaxRestarts
    /\ restarts' = restarts + 1
    /\ LET open == {t \in Turn : pc[t] \in Running}
       IN  /\ pc' = [t \in Turn |-> IF t \in open THEN "failed" ELSE pc[t]]
           /\ cause' = [t \in Turn |-> IF t \in open THEN "restart" ELSE cause[t]]
    /\ txn' = [t \in Turn |-> "none"]
    /\ newConv' = [t \in Turn |-> {}]
    /\ newTickets' = [t \in Turn |-> {}]
    /\ newLeads' = [t \in Turn |-> 0]
    /\ count' = [s \in Session |-> 0]
    /\ UNCHANGED <<session, conversation, ticket, calls, committed>>

\* _emit_audit_safe swallows the error of a failed audit insert, but the failed
\* flush has already rolled the session's transaction back.
AuditFails(t) ==
    /\ pc[t] \in {"ready", "commit"}
    /\ txn[t] = "active"
    /\ txn' = [txn EXCEPT ![t] = "broken"]
    /\ newConv' = [newConv EXCEPT ![t] = {}]
    /\ newTickets' = [newTickets EXCEPT ![t] = {}]
    /\ newLeads' = [newLeads EXCEPT ![t] = 0]
    /\ UNCHANGED <<pc, turnVars, committed, limiter>>

----------------------------------------------------------------------------
(* capture_lead *)

UnderCap_inclusive(s) == count[s] <= LeadCap

UnderCap(s) == count[s] < LeadCap

\* check_and_increment has no await between the check and the increment.  A
\* turn whose transaction is broken still gets here: the failed read of the
\* cap falls back to the default (tools.py:396-398).
CheckAndIncrement(t) ==
    /\ pc[t] = "ready"
    /\ calls[t] < MaxLeads
    /\ calls' = [calls EXCEPT ![t] = @ + 1]
    /\ IF UnderCap(session[t])
       THEN /\ count' = [count EXCEPT ![session[t]] = @ + 1]
            /\ Goto(t, "insert_lead")
       ELSE UNCHANGED <<pc, count>>
    /\ UNCHANGED <<session, conversation, ticket, cause, txn, committed,
                   uncommitted, restarts>>

InsertLead(t) ==
    /\ pc[t] = "insert_lead"
    /\ txn[t] = "active"
    /\ newLeads' = [newLeads EXCEPT ![t] = @ + 1]
    /\ Goto(t, "ready")
    /\ UNCHANGED <<turnVars, txn, committed, newConv, newTickets, limiter>>

----------------------------------------------------------------------------
(* escalate *)

VisibleConversations(t) == conversations \cup newConv[t]
VisibleTickets(t) == tickets \cup newTickets[t]

SameSession(rows, s) == {r \in rows : r.session = s}
SameConversation(rows, c) == {r \in rows : r.conversation = c}

\* _ensure_conversation: the SELECT.  Rows are unique per session, so the
\* LIMIT 1 never chooses.
SelectConversation(t) ==
    /\ pc[t] = "ready"
    /\ txn[t] = "active"
    /\ LET found == SameSession(VisibleConversations(t), session[t])
       IN  IF found = {}
           THEN /\ Goto(t, "insert_conversation")
                /\ UNCHANGED conversation
           ELSE /\ \E row \in found :
                      conversation' = [conversation EXCEPT ![t] = row.id]
                /\ Goto(t, "select_ticket")
    /\ UNCHANGED <<session, ticket, calls, cause, txn, committed,
                   uncommitted, limiter>>

\* Another open transaction holds the key of uq_conversations_tenant_session.
KeyHeld(t) ==
    \E u \in Turn \ {t} : SameSession(newConv[u], session[t]) # {}

KeyTaken_never(t) == FALSE

KeyTaken(t) == SameSession(conversations, session[t]) # {}

KeyFree_polls(t) == ~KeyHeld(t) /\ SameSession(conversations, session[t]) = {}

\* The insert can go on: it does not wait for another transaction.
KeyFree(t) == ~KeyHeld(t)

\* _ensure_conversation: the INSERT, once no open transaction holds the key.
InsertConversation(t) ==
    /\ pc[t] = "insert_conversation"
    /\ txn[t] = "active"
    /\ KeyFree(t)
    /\ ~KeyTaken(t)
    /\ newConv' = [newConv EXCEPT
                     ![t] = {[id |-> t, session |-> session[t]]}]
    /\ conversation' = [conversation EXCEPT ![t] = t]
    /\ Goto(t, "select_ticket")
    /\ UNCHANGED <<session, ticket, calls, cause, txn, committed, newTickets,
                   newLeads, limiter>>

\* The turn that waited for the key finds it taken: IntegrityError.
UniqueViolation(t) ==
    /\ pc[t] = "insert_conversation"
    /\ txn[t] = "active"
    /\ KeyFree(t)
    /\ KeyTaken(t)
    /\ Rollback(t, "conflict")

\* _find_existing_escalation.
SelectTicket(t) ==
    /\ pc[t] = "select_ticket"
    /\ txn[t] = "active"
    /\ LET found == SameConversation(VisibleTickets(t), conversation[t])
       IN  IF found = {}
           THEN /\ Goto(t, "insert_ticket")
                /\ UNCHANGED ticket
           ELSE /\ \E row \in found : ticket' = [ticket EXCEPT ![t] = row.id]
                /\ Goto(t, "commit")
    /\ UNCHANGED <<session, conversation, calls, cause, txn, committed,
                   uncommitted, limiter>>

\* _ensure_conversation commits what it inserted before it returns.
InsertTicket_committedConversation(t) ==
    /\ pc[t] = "insert_ticket"
    /\ txn[t] = "active"
    /\ conversations' = conversations \cup newConv[t]
    /\ newConv' = [newConv EXCEPT ![t] = {}]
    /\ newTickets' = [newTickets EXCEPT
                        ![t] = {[id |-> t, conversation |-> conversation[t]]}]
    /\ ticket' = [ticket EXCEPT ![t] = t]
    /\ Goto(t, "commit")
    /\ UNCHANGED <<session, conversation, calls, cause, txn, tickets, leads,
                   newLeads, limiter>>

\* EscalationRepository.create.
InsertTicket(t) ==
    /\ pc[t] = "insert_ticket"
    /\ txn[t] = "active"
    /\ newTickets' = [newTickets EXCEPT
                        ![t] = {[id |-> t, conversation |-> conversation[t]]}]
    /\ ticket' = [ticket EXCEPT ![t] = t]
    /\ Goto(t, "commit")
    /\ UNCHANGED <<session, conversation, calls, cause, txn, committed,
                   newConv, newLeads, limiter>>

----------------------------------------------------------------------------
(* End of the request *)

\* A turn may answer without escalating.
Answer(t) ==
    /\ pc[t] = "ready"
    /\ Goto(t, "commit")
    /\ UNCHANGED <<turnVars, txn, committed, uncommitted, limiter>>

\* The rows of the transaction become visible and the turn is answered.
Publish(t) ==
    /\ conversations' = conversations \cup newConv[t]
    /\ tickets' = tickets \cup newTickets[t]
    /\ leads' = [leads EXCEPT ![session[t]] = @ + newLeads[t]]
    /\ newConv' = [newConv EXCEPT ![t] = {}]
    /\ newTickets' = [newTickets EXCEPT ![t] = {}]
    /\ newLeads' = [newLeads EXCEPT ![t] = 0]
    /\ txn' = [txn EXCEPT ![t] = "none"]
    /\ Goto(t, "answered")
    /\ UNCHANGED turnVars

\* A transaction that was rolled back under the turn is answered all the same.
Commit_ignoresBroken(t) ==
    /\ pc[t] = "commit"
    /\ Publish(t)
    /\ UNCHANGED limiter

\* The limiter's bucket is dropped at the end of the turn.
Commit_resetsBucket(t) ==
    /\ pc[t] = "commit"
    /\ txn[t] = "active"
    /\ Publish(t)
    /\ count' = [count EXCEPT ![session[t]] = 0]
    /\ UNCHANGED restarts

Commit(t) ==
    /\ pc[t] = "commit"
    /\ txn[t] = "active"
    /\ Publish(t)
    /\ UNCHANGED limiter

\* What the handler and its session do when nothing goes wrong around them.
TurnStep(t) ==
    \/ Begin(t) \/ CheckAndIncrement(t) \/ InsertLead(t)
    \/ SelectConversation(t) \/ InsertConversation(t) \/ UniqueViolation(t)
    \/ SelectTicket(t) \/ InsertTicket(t) \/ Answer(t) \/ Commit(t)
    \/ PendingRollback(t)

Next ==
    \/ \E t \in Turn : TurnStep(t) \/ AuditFails(t) \/ DatabaseError(t)
    \/ Restart

\* A turn that can go on does: the event loop is fair, and Postgres wakes a
\* waiting insert when the transaction it waits for ends.  Statements and
\* audits need not fail and the server need not restart.
Fairness == \A t \in Turn : WF_vars(TurnStep(t))

Spec == Init /\ [][Next]_vars /\ Fairness

----------------------------------------------------------------------------
(* Properties *)

States == Running \cup {"idle", "answered", "failed"}

\* Every variable has its type.
TypeOK ==
    /\ pc \in [Turn -> States]
    /\ session \in [Turn -> Session]
    /\ conversation \in [Turn -> Turn \cup {None}]
    /\ ticket \in [Turn -> Turn \cup {None}]
    /\ calls \in [Turn -> 0..MaxLeads]
    /\ txn \in [Turn -> {"none", "active", "broken"}]
    /\ cause \in [Turn -> {"none", "database", "audit", "conflict", "restart"}]
    /\ conversations \in SUBSET ConversationRow
    /\ tickets \in SUBSET TicketRow
    /\ leads \in [Session -> Nat]
    /\ newConv \in [Turn -> SUBSET ConversationRow]
    /\ newTickets \in [Turn -> SUBSET TicketRow]
    /\ newLeads \in [Turn -> Nat]
    /\ count \in [Session -> 0..LeadCap]
    /\ restarts \in 0..MaxRestarts

\* FR-026 and tools.py:246-248: a session never has two conversations, and a
\* conversation, hence a session, never has two tickets, although no
\* constraint of escalation_tickets says so.
OneTicketPerSession ==
    /\ \A a, b \in conversations : a.session = b.session => a = b
    /\ \A a, b \in tickets : a.conversation = b.conversation => a = b

\* The reason OneTicketPerSession holds: a committed conversation is never
\* without its ticket, so no turn can find one to open a second ticket for.
ConversationHasTicket ==
    \A c \in conversations : SameConversation(tickets, c.id) # {}

\* tools.py:190-217: the leads stored for a session, in one window of the
\* limiter, were all admitted by it, over every interleaving of its turns; a
\* restart of the server gives the session a new window.
LeadsAdmitted ==
    \A s \in Session :
        LET open == {t \in Turn : session[t] = s}
            inserted == MapThenSumSet(LAMBDA t : newLeads[t], open)
        IN  leads[s] + inserted <= count[s] + restarts * LeadCap

\* Every request ends: a turn that waits for another turn's conversation is
\* let go whatever becomes of that turn (no two turns wait for each other).
EveryTurnEnds ==
    \A t \in Turn : pc[t] # "idle" ~> pc[t] \in {"answered", "failed"}

\* The registry a tenant's team sees: committed tickets, and what the turns
\* whose transaction committed told their visitors, each against the session it
\* was posted for.
TicketOf ==
    [s \in Session |->
        LET rows == {r \in tickets :
                        \E c \in conversations :
                            c.session = s /\ c.id = r.conversation}
        IN  IF rows = {} THEN None ELSE (CHOOSE r \in rows : TRUE).id]

Reported ==
    [t \in Turn |-> IF pc[t] = "answered" THEN ticket[t] ELSE None]

Registry == INSTANCE TicketRegistry WITH sessionOf <- session,
                                         ticketOf <- TicketOf,
                                         reported <- Reported

RegistrySpec == Registry!Spec

\* Claimed by tools.py:408, "swallow errors so a failed audit never breaks a
\* tool": no turn fails because of an audit that could not be written.
FailedAuditIsHarmless == \A t \in Turn : cause[t] # "audit"
=============================================================================
