---------------------------- MODULE TurnContract ----------------------------
(***************************************************************************)
(* What one chat turn promises to the rest of the platform, whatever the   *)
(* router, the language model and the tools decide:                        *)
(*   - leads are captured one at a time and only while the turn is open;   *)
(*   - a hand-over to a human happens at most once, and it is the last     *)
(*     thing the turn does to the tenant's data;                           *)
(*   - the turn closes once, either with an answer or with an error; an    *)
(*     answer that says the conversation was handed over is given exactly  *)
(*     when it was.                                                        *)
(* An answer may also announce that the team will reach out or follow up   *)
(* although nothing was handed over (agent.py:504-505, agent.py:585,       *)
(* agent.py:594, chat_service.py:147).  That promise is a closing of its   *)
(* own: it rests on a lead of this turn, on a lead of an earlier one, or   *)
(* on no row at all, and never on a ticket.                                *)
(***************************************************************************)
EXTENDS Naturals

VARIABLES
    leads,     \* lead rows written by the turn
    tickets,   \* escalation tickets obtained by the turn
    outcome    \* "open", "answered", "promised", "handed_over" or "failed"

vars == <<leads, tickets, outcome>>

Init ==
    /\ leads = 0
    /\ tickets = 0
    /\ outcome = "open"

Open == outcome = "open"

\* capture_lead stored a row.
CaptureLead ==
    /\ Open
    /\ tickets = 0
    /\ leads' = leads + 1
    /\ UNCHANGED <<tickets, outcome>>

\* escalate returned a ticket and the plan has not closed the turn yet.
HandOver ==
    /\ Open
    /\ tickets = 0
    /\ tickets' = 1
    /\ UNCHANGED <<leads, outcome>>

\* escalate returned a ticket and the turn answers in the same step.
HandOverAndClose ==
    /\ Open
    /\ tickets = 0
    /\ tickets' = 1
    /\ outcome' = "handed_over"
    /\ UNCHANGED leads

\* The answer after an earlier hand-over announces it.
CloseHandedOver ==
    /\ Open
    /\ tickets = 1
    /\ outcome' = "handed_over"
    /\ UNCHANGED <<leads, tickets>>

\* An answer that announces neither a hand-over nor a follow-up.
Answer ==
    /\ Open
    /\ tickets = 0
    /\ outcome' = "answered"
    /\ UNCHANGED <<leads, tickets>>

\* An answer that announces a follow-up by the team without a ticket.
Promise ==
    /\ Open
    /\ tickets = 0
    /\ outcome' = "promised"
    /\ UNCHANGED <<leads, tickets>>

\* The workflow path of capture_lead writes its row and answers at once.
CaptureAndAnswer ==
    /\ Open
    /\ tickets = 0
    /\ leads' = leads + 1
    /\ outcome' = "answered"
    /\ UNCHANGED tickets

Fail ==
    /\ Open
    /\ outcome' = "failed"
    /\ UNCHANGED <<leads, tickets>>

Next ==
    \/ CaptureLead
    \/ CaptureAndAnswer
    \/ HandOver
    \/ HandOverAndClose
    \/ CloseHandedOver
    \/ Answer
    \/ Promise
    \/ Fail

Spec == Init /\ [][Next]_vars
=============================================================================
