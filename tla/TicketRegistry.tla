--------------------------- MODULE TicketRegistry ---------------------------
(***************************************************************************)
(* What escalation promises to a tenant's team: a visitor session has at   *)
(* most one ticket, a session's ticket never changes, and a turn whose     *)
(* transaction commits names the ticket of its own session, or none.  A    *)
(* turn belongs to one session from the start.                             *)
(***************************************************************************)
CONSTANTS
    Turn,       \* chat turns; a ticket is named after the turn that opened it
    Session,    \* visitor sessions
    None        \* no ticket

VARIABLES
    sessionOf,  \* the session of each turn
    ticketOf,   \* the ticket of each session
    reported    \* the ticket each committed turn named

vars == <<sessionOf, ticketOf, reported>>

Init ==
    /\ sessionOf \in [Turn -> Session]
    /\ ticketOf = [s \in Session |-> None]
    /\ reported = [t \in Turn |-> None]

\* The first escalation of a session opens its ticket and reports it.
OpenTicket(t) ==
    /\ ticketOf[sessionOf[t]] = None
    /\ reported[t] = None
    /\ ticketOf' = [ticketOf EXCEPT ![sessionOf[t]] = t]
    /\ reported' = [reported EXCEPT ![t] = t]
    /\ UNCHANGED sessionOf

\* A later escalation reports the ticket that is there.
JoinTicket(t) ==
    /\ ticketOf[sessionOf[t]] # None
    /\ reported[t] = None
    /\ reported' = [reported EXCEPT ![t] = ticketOf[sessionOf[t]]]
    /\ UNCHANGED <<sessionOf, ticketOf>>

Next == \E t \in Turn : OpenTicket(t) \/ JoinTicket(t)

Spec == Init /\ [][Next]_vars
=============================================================================
