---------------------------- MODULE TenantRecords -----------------------------
(***************************************************************************)
(* A tenant's records that admins edit as a whole form and the server      *)
(* writes back column by column: an escalation ticket, the platform        *)
(* defaults ("settings") and the agent's configuration ("agent").  One     *)
(* behaviour follows one of the tables.  A record has two fields: a        *)
(* ticket's status and assignee, two of the defaults, what the Agent page  *)
(* and what the Guardrails page edits.  Requests overlap under READ        *)
(* COMMITTED; a committed row is in rows.                                  *)
(***************************************************************************)
EXTENDS Integers, Sequences

CONSTANTS
    Client,     \* admins, each with the page open
    SaveId,     \* requests: 1..n
    Early,      \* bound: those that may be answered before their commit
    Value,      \* of a field
    Default,    \* the value without a row
    Unfit       \* a value the server does not take

\* What stands for no row is a value the server takes.
ASSUME RecordsAssumption == Default \in Value \ {Unfit}

Field == {"x", "y"}
Record == [x : Value, y : Value]
Changed(r, q) == {f \in Field : r[f] # q[f]}
Defaults == [x |-> Default, y |-> Default]
NoRecord == [x |-> "none"]

VARIABLES
    table,      \* which of the three
    rows,       \* its committed rows for the tenant (or the ticket)
    told,       \* what the last committed audit row of each field tells
    form,       \* what a client's page holds
    save,       \* the requests
    last,       \* history: the values last chosen by an admin and committed
    overlapped  \* history: a save was committed over one it had not seen

recordVars == <<table, rows, told, form, save, last, overlapped>>

RecordsInit ==
    /\ table \in {"ticket", "settings", "agent"}
    /\ rows \in (IF table = "ticket" THEN {<<Defaults>>} ELSE {<< >>, <<Defaults>>})
    /\ told = Defaults /\ last = Defaults
    /\ form = [c \in Client |-> IF table = "settings" THEN Defaults ELSE NoRecord]
    /\ save = [s \in SaveId |-> [pc |-> "free"]]
    /\ overlapped = FALSE

(* The pages *)

\* The answer of a GET; two rows make it fail (scalar_one_or_none).  A
\* settings form is never fetched: it starts from the page's own defaults.
Shown == IF rows = << >> THEN Defaults ELSE rows[1]
Fetch(c) ==
    /\ table # "settings" /\ Len(rows) <= 1
    /\ form' = [form EXCEPT ![c] = Shown]
    /\ UNCHANGED <<table, rows, told, save, last, overlapped>>

\* What a page lets its admin change: all of it, or its own field.
Edits(c, own) ==
    IF table # "agent" THEN Record
    ELSE IF own = "x" THEN {[form[c] EXCEPT !.x = v] : v \in Value}
    ELSE {[form[c] EXCEPT !.y = v] : v \in Value}

Saving == {s \in SaveId : save[s].pc \in {"sent", "read", "written", "answering", "answered"}}
Waits(c) == \E s \in Saving : save[s].by = c /\ save[s].pc # "answered"
NextSave(s) == save[s].pc = "free" /\ \A t \in SaveId : t < s => save[t].pc # "free"

\* The whole form is sent, whatever was edited.  The Agent and the Guardrails
\* page fetch the rest of the document for each save.
Send_defaults(c) ==
    /\ form[c] # NoRecord /\ ~Waits(c)
    /\ \E s \in SaveId, own \in Field : \E wanted \in Edits(c, own) :
        /\ NextSave(s)
        /\ save' = [save EXCEPT ![s] =
                [pc |-> "sent", by |-> c, base |-> form[c], chosen |-> Changed(wanted, form[c]),
                 wanted |-> IF table = "agent" THEN [Defaults EXCEPT ![own] = wanted[own]]
                            ELSE wanted]]
    /\ form' = IF table = "agent" THEN [form EXCEPT ![c] = NoRecord] ELSE form
    /\ UNCHANGED <<table, rows, told, last, overlapped>>
Send(c) ==
    /\ form[c] # NoRecord /\ ~Waits(c)
    /\ \E s \in SaveId, own \in Field : \E wanted \in Edits(c, own) :
        /\ NextSave(s)
        /\ save' = [save EXCEPT ![s] =
                [pc |-> "sent", by |-> c, base |-> form[c], chosen |-> Changed(wanted, form[c]),
                 wanted |-> wanted]]
    /\ form' = IF table = "agent" THEN [form EXCEPT ![c] = NoRecord] ELSE form
    /\ UNCHANGED <<table, rows, told, last, overlapped>>

(* The server *)

NextPc(s, pc) == save' = [save EXCEPT ![s].pc = pc]
Finished == [pc |-> "done"]

\* Refused, failed or rolled back.
EndSave(s) ==
    /\ save' = [save EXCEPT ![s] = Finished]
    /\ UNCHANGED <<table, rows, told, form, last, overlapped>>

\* Settings and configuration are validated first; the row is read.
Takes(r) == Unfit \notin {r.x, r.y}
ReadRecord(s) ==
    /\ save[s].pc = "sent"
    /\ IF Len(rows) > 1 \/ (table # "ticket" /\ ~Takes(save[s].wanted)) THEN EndSave(s)
       ELSE /\ save' = [save EXCEPT ![s] = 
                    [pc |-> "read", by |-> @.by, base |-> @.base, chosen |-> @.chosen,
                     wanted |-> @.wanted,
                     loaded |-> IF rows = << >> THEN NoRecord ELSE rows[1]]]
            /\ UNCHANGED <<table, rows, told, form, last, overlapped>>

Inserts(s) == save[s].loaded = NoRecord

\* The columns an UPDATE names: those whose value is not the loaded one.  The
\* agent's fields are in one JSON column, rewritten when either differs.
Columns(s) ==
    LET loaded == save[s].loaded
        wanted == save[s].wanted
        differ == Changed(wanted, loaded)
    IN IF table = "agent" /\ differ # {} THEN Field ELSE differ

\* A new row of settings waits for another uncommitted one, and is refused
\* once that is committed; the agent's table has no unique key on its tenant.
Unique == {"settings"}
Held_shared(s) ==
    \E t \in SaveId \ {s} : save[t].pc \in {"read", "written", "answering", "answered"} /\
        IF Inserts(s) THEN Inserts(t) /\ table \in Unique
        ELSE ~Inserts(t) /\ Columns(t) # {} /\ Columns(s) # {}
Held(s) ==
    \E t \in SaveId \ {s} : save[t].pc \in {"written", "answering", "answered"} /\
        IF Inserts(s) THEN Inserts(t) /\ table \in Unique
        ELSE ~Inserts(t) /\ Columns(t) # {} /\ Columns(s) # {}

\* The flush.  A status the table's CHECK does not name is refused by it.
Storable(r) == Takes(r)
WriteFields(s) ==
    /\ save[s].pc = "read" /\ ~Held(s)
    /\ IF ~Storable(save[s].wanted) \/ (Inserts(s) /\ table \in Unique /\ rows # << >>)
       THEN EndSave(s)
       ELSE NextPc(s, "written") /\ UNCHANGED <<table, rows, told, form, last, overlapped>>

Stored(s) ==
    IF Inserts(s) THEN Append(rows, save[s].wanted)
    ELSE [rows EXCEPT ![1] = [f \in Field |-> IF f \in Columns(s) THEN save[s].wanted[f] ELSE @[f]]]

\* What the audit rows tell: a ticket's name the fields that differ from those
\* loaded, the others the whole record (the agent's, its tone and language).
Told(s) ==
    IF table = "ticket"
    THEN [f \in Field |-> IF f \in Columns(s) THEN save[s].wanted[f] ELSE told[f]]
    ELSE save[s].wanted

\* The agent's route reads its own row again to answer, and fails if another
\* one has been committed by then.
Answer(s) ==
    /\ save[s].pc = "written"
    /\ IF table = "agent" /\ Len(Stored(s)) > 1 THEN EndSave(s)
       ELSE NextPc(s, "answering") /\ UNCHANGED <<table, rows, told, form, last, overlapped>>

\* The settings page shows what it sent; the other pages fetch, or the answer
\* is lost.
TakesAnswer(s) ==
    \/ UNCHANGED form
    \/ table = "settings" /\ form' = [form EXCEPT ![save[s].by] = save[s].wanted]

\* The answer leaves before the commit of get_session, which may yet fail.
AnswerSave(s) ==
    /\ s \in Early /\ save[s].pc = "answering"
    /\ NextPc(s, "answered") /\ TakesAnswer(s)
    /\ UNCHANGED <<table, rows, told, last, overlapped>>

CommitSave(s) ==
    /\ save[s].pc \in {"answering", "answered"}
    /\ save' = [save EXCEPT ![s] = Finished]
    /\ rows' = Stored(s) /\ told' = Told(s)
    /\ last' = [f \in Field |->
            IF f \in save[s].chosen THEN save[s].wanted[f] ELSE last[f]]
    /\ overlapped' = (overlapped \/ save[s].base # Shown
                           \/ save[s].loaded # (IF rows = << >> THEN NoRecord ELSE rows[1]))
    /\ IF save[s].pc = "answering" THEN TakesAnswer(s) ELSE UNCHANGED form
    /\ UNCHANGED table

FailSave(s) == s \in Saving /\ EndSave(s)

ServeSaves == \E s \in SaveId : ReadRecord(s) \/ WriteFields(s) \/ Answer(s) \/ CommitSave(s)

RecordsNext ==
    \/ \E c \in Client : Fetch(c) \/ Send(c)
    \/ \E s \in SaveId : AnswerSave(s) \/ FailSave(s)
    \/ ServeSaves

\* A request in service goes on to its end.
RecordsSpec == RecordsInit /\ [][RecordsNext]_recordVars /\ WF_recordVars(ServeSaves)

----------------------------------------------------------------------------
(* Properties *)

RecordsTypeOK ==
    /\ \A i \in DOMAIN rows : rows[i] \in Record /\ Takes(rows[i])
    /\ told \in Record /\ last \in Record
    /\ \A c \in Client : form[c] # NoRecord => form[c] \in Record
    /\ \A s \in Saving : save[s].wanted \in Record

\* escalation.py:114-148: patches may overlap and their forms be stale, yet
\* the last status and the last assignee an audit row tells, in the order of
\* the commits, are the ticket's: a patch writes what it audits.
AuditsTellTheTicket == table = "ticket" => rows[1] = told

\* agent_config_repo.py:35-55, tenant_settings_repo.py:24-34: a tenant has one
\* row of each kind; only first saves of its agent that overlap make another
\* one (which no request can read past).
OneRow == Len(rows) > 1 => table = "agent" /\ overlapped

\* agent_settings_page.py:170-181, guardrails_page.py:184-190,
\* escalations_page.py:237-241: a save sends fields its admin did not touch.
\* Unless it was sent or served over a save it had not seen, it leaves them
\* as they were last chosen, in the record's one row.
UntouchedFieldsStay == OneRow /\ (rows # << >> /\ ~overlapped => rows[1] = last)
=============================================================================
