--------------------------- MODULE ChatDataProofs ---------------------------
(***************************************************************************)
(* One ticket per session, for any number of turns, sessions, leads and    *)
(* restarts; and the refinement of TicketRegistry.                         *)
(*                                                                         *)
(* No constraint of escalation_tickets says so: the argument is that the   *)
(* transaction that inserts a conversation inserts its ticket too, before  *)
(* any other transaction can see the conversation, and that the unique key *)
(* of conversations lets one such transaction through.                     *)
(***************************************************************************)
EXTENDS ChatData, FiniteSums

Conv(t) == [id |-> t, session |-> session[t]]
Tick(t) == [id |-> t, conversation |-> t]

\* What an open transaction can have inserted when its turn is at a statement.
InsertedBy(t) ==
    /\ newConv[t] \in {{}, {Conv(t)}}
    /\ newTickets[t] \in {{}, {Tick(t)}}
    /\ pc[t] \notin {"select_ticket", "insert_ticket", "commit"}
          => newConv[t] = {} /\ newTickets[t] = {}
    /\ pc[t] = "select_ticket" =>
          /\ newTickets[t] = {}
          /\ \/ newConv[t] = {Conv(t)} /\ conversation[t] = t
             \/ newConv[t] = {} /\ \E c \in conversations : c.id = conversation[t]
    /\ pc[t] = "insert_ticket" =>
          newTickets[t] = {} /\ newConv[t] = {Conv(t)} /\ conversation[t] = t
    /\ pc[t] = "commit" => (newConv[t] = {} <=> newTickets[t] = {})

Inserted == \A t \in Turn : InsertedBy(t)

\* uq_conversations_tenant_session, committed and uncommitted rows together.
KeyUnique ==
    /\ \A c, d \in conversations : c.session = d.session => c = d
    /\ \A t \in Turn, c \in conversations :
          newConv[t] # {} => c.session # session[t]
    /\ \A t, u \in Turn :
          newConv[t] # {} /\ newConv[u] # {} /\ session[t] = session[u] => t = u

\* Every ticket was inserted by the turn that inserted its conversation.
TicketWithConversation ==
    /\ \A r \in tickets : r = Tick(r.id) /\ pc[r.id] = "answered"
    /\ \A c \in conversations : Tick(c.id) \in tickets

IInv ==
    /\ TypeOK
    /\ Inserted
    /\ KeyUnique
    /\ TicketWithConversation

LEMMA InitIInv == Init => IInv
<1> SUFFICES ASSUME Init PROVE IInv
  OBVIOUS
<1>1. TypeOK
  BY ChatDataAssumption DEF ChatDataAssumption, Init, TypeOK, States
<1>2. Inserted
  BY DEF Init, Inserted, InsertedBy
<1>3. KeyUnique /\ TicketWithConversation
  BY DEF Init, KeyUnique, TicketWithConversation
<1> QED
  BY <1>1, <1>2, <1>3 DEF IInv
\* Only Commit adds rows that others can see, and a turn that answered is done.
LEMMA RowsStay ==
    ASSUME IInv, UNCHANGED <<tickets, conversations>>,
           \A u \in Turn : pc[u] = "answered" => pc'[u] = "answered"
    PROVE  TicketWithConversation'
BY DEF IInv, TicketWithConversation, TypeOK, TicketRow, Tick

LEMMA RollbackStep ==
    ASSUME IInv, NEW t \in Turn, pc[t] \in Running,
           NEW why \in {"database", "audit", "conflict"}, Rollback(t, why)
    PROVE  IInv'
<1> USE DEF IInv
<1>1. TypeOK'
  BY DEF TypeOK, States, Running, ConversationRow, TicketRow, limiter, turnVars,
     committed, uncommitted, Goto, Rollback, Running
<1>2. Inserted'
  BY DEF Inserted, InsertedBy, TypeOK, Conv, Tick, limiter, turnVars, committed, uncommitted,
     Goto, Rollback, Running
<1>3. KeyUnique'
  BY DEF KeyUnique, Inserted, InsertedBy, TypeOK, Conv, limiter, turnVars, committed,
     uncommitted, Goto, Rollback, Running
<1>4. TicketWithConversation'
  BY ChatDataAssumption, RowsStay DEF TypeOK, Running, limiter, turnVars, committed,
     uncommitted, Goto, Rollback, Running
<1> QED
  BY <1>1, <1>2, <1>3, <1>4 DEF IInv

LEMMA StepIInv == IInv /\ [Next]_vars => IInv'
<1> SUFFICES ASSUME IInv, [Next]_vars PROVE IInv'
  OBVIOUS
<1> USE ChatDataAssumption DEF ChatDataAssumption, IInv
<1>1. ASSUME NEW t \in Turn, Begin(t) PROVE IInv'
  <2>1. TypeOK'
    BY <1>1 DEF TypeOK, States, Running, ConversationRow, TicketRow, limiter,
       turnVars, committed, uncommitted, Goto, Begin
  <2>2. Inserted'
    BY <1>1 DEF Inserted, InsertedBy, TypeOK, Conv, Tick, limiter, turnVars, committed,
       uncommitted, Goto, Begin
  <2>3. KeyUnique'
    BY <1>1 DEF KeyUnique, Inserted, InsertedBy, TypeOK, Conv, limiter, turnVars, committed,
       uncommitted, Goto, Begin
  <2>4. TicketWithConversation'
    BY <1>1, RowsStay DEF TypeOK, Running, limiter, turnVars, committed,
       uncommitted, Goto, Begin
  <2> QED
    BY <2>1, <2>2, <2>3, <2>4 DEF IInv
<1>2. ASSUME NEW t \in Turn, CheckAndIncrement(t) PROVE IInv'
  <2>1. TypeOK'
    BY <1>2 DEF TypeOK, States, Running, ConversationRow, TicketRow, limiter,
       turnVars, committed, uncommitted, Goto, CheckAndIncrement, UnderCap
  <2>2. Inserted'
    BY <1>2 DEF Inserted, InsertedBy, TypeOK, Conv, Tick, limiter, turnVars, committed,
       uncommitted, Goto, CheckAndIncrement, UnderCap
  <2>3. KeyUnique'
    BY <1>2 DEF KeyUnique, Inserted, InsertedBy, TypeOK, Conv, limiter, turnVars, committed,
       uncommitted, Goto, CheckAndIncrement, UnderCap
  <2>4. TicketWithConversation'
    BY <1>2, RowsStay DEF TypeOK, Running, limiter, turnVars, committed,
       uncommitted, Goto, CheckAndIncrement, UnderCap
  <2> QED
    BY <2>1, <2>2, <2>3, <2>4 DEF IInv
<1>3. ASSUME NEW t \in Turn, InsertLead(t) PROVE IInv'
  <2>1. TypeOK'
    BY <1>3 DEF TypeOK, States, Running, ConversationRow, TicketRow, limiter,
       turnVars, committed, uncommitted, Goto, InsertLead
  <2>2. Inserted'
    BY <1>3 DEF Inserted, InsertedBy, TypeOK, Conv, Tick, limiter, turnVars, committed,
       uncommitted, Goto, InsertLead
  <2>3. KeyUnique'
    BY <1>3 DEF KeyUnique, Inserted, InsertedBy, TypeOK, Conv, limiter, turnVars, committed,
       uncommitted, Goto, InsertLead
  <2>4. TicketWithConversation'
    BY <1>3, RowsStay DEF TypeOK, Running, limiter, turnVars, committed,
       uncommitted, Goto, InsertLead
  <2> QED
    BY <2>1, <2>2, <2>3, <2>4 DEF IInv
<1>4. ASSUME NEW t \in Turn, SelectConversation(t) PROVE IInv'
  <2>1. TypeOK'
    BY <1>4 DEF TypeOK, States, Running, ConversationRow, TicketRow, limiter,
       turnVars, committed, uncommitted, Goto, SelectConversation,
       VisibleConversations, SameSession
  <2>2. Inserted'
    BY <1>4 DEF Inserted, InsertedBy, TypeOK, Conv, Tick, limiter, turnVars, committed,
       uncommitted, Goto, SelectConversation, VisibleConversations, SameSession
  <2>3. KeyUnique'
    BY <1>4 DEF KeyUnique, Inserted, InsertedBy, TypeOK, Conv, limiter, turnVars, committed,
       uncommitted, Goto, SelectConversation, VisibleConversations, SameSession
  <2>4. TicketWithConversation'
    BY <1>4, RowsStay DEF TypeOK, Running, limiter, turnVars, committed,
       uncommitted, Goto, SelectConversation, VisibleConversations, SameSession
  <2> QED
    BY <2>1, <2>2, <2>3, <2>4 DEF IInv
<1>5. ASSUME NEW t \in Turn, InsertConversation(t) PROVE IInv'
  <2>1. TypeOK'
    BY <1>5 DEF TypeOK, States, Running, ConversationRow, TicketRow, limiter,
       turnVars, committed, uncommitted, Goto, InsertConversation, KeyFree, KeyHeld,
       KeyTaken, SameSession
  <2>2. Inserted'
    BY <1>5 DEF Inserted, InsertedBy, TypeOK, Conv, Tick, limiter, turnVars, committed,
       uncommitted, Goto, InsertConversation, KeyFree, KeyHeld, KeyTaken,
       SameSession
  <2>3. KeyUnique'
    BY <1>5 DEF KeyUnique, Inserted, InsertedBy, TypeOK, Conv, limiter, turnVars, committed,
       uncommitted, Goto, InsertConversation, KeyFree, KeyHeld, KeyTaken,
       SameSession
  <2>4. TicketWithConversation'
    BY <1>5, RowsStay DEF TypeOK, Running, limiter, turnVars, committed,
       uncommitted, Goto, InsertConversation, KeyFree, KeyHeld, KeyTaken,
       SameSession
  <2> QED
    BY <2>1, <2>2, <2>3, <2>4 DEF IInv
<1>6. ASSUME NEW t \in Turn, SelectTicket(t) PROVE IInv'
  <2>1. TypeOK'
    BY <1>6 DEF TypeOK, States, Running, ConversationRow, TicketRow, limiter,
       turnVars, committed, uncommitted, Goto, SelectTicket, VisibleTickets,
       SameConversation
  <2>2. Inserted'
    <3>1. CASE newConv[t] = {Conv(t)} /\ conversation[t] = t
      <4>1. SameConversation(VisibleTickets(t), conversation[t]) = {}
        BY <1>6, <3>1 DEF SelectTicket, SameConversation, VisibleTickets, Inserted, InsertedBy,
           TicketWithConversation, TypeOK, TicketRow, Tick
      <4> QED
        BY <1>6, <3>1, <4>1 DEF SelectTicket, Goto, committed, uncommitted,
           Inserted, InsertedBy, TypeOK, Conv, Tick
    <3>2. CASE newConv[t] = {} /\ \E c \in conversations : c.id = conversation[t]
      <4>1. Tick(conversation[t]) \in SameConversation(VisibleTickets(t), conversation[t])
        BY <3>2 DEF SameConversation, VisibleTickets, TicketWithConversation, Tick
      <4> QED
        BY <1>6, <3>2, <4>1 DEF SelectTicket, Goto, committed, uncommitted,
           Inserted, InsertedBy, TypeOK, Conv, Tick
    <3> QED
      BY <1>6, <3>1, <3>2 DEF SelectTicket, Inserted, InsertedBy
  <2>3. KeyUnique'
    BY <1>6 DEF KeyUnique, Inserted, InsertedBy, TypeOK, Conv, limiter, turnVars, committed,
       uncommitted, Goto, SelectTicket, VisibleTickets, SameConversation
  <2>4. TicketWithConversation'
    BY <1>6, RowsStay DEF TypeOK, Running, limiter, turnVars, committed,
       uncommitted, Goto, SelectTicket, VisibleTickets, SameConversation
  <2> QED
    BY <2>1, <2>2, <2>3, <2>4 DEF IInv
<1>7. ASSUME NEW t \in Turn, InsertTicket(t) PROVE IInv'
  <2>1. TypeOK'
    <3>1. conversation[t] = t
      BY <1>7 DEF InsertTicket, Inserted, InsertedBy
    <3>2. [id |-> t, conversation |-> conversation[t]] \in TicketRow
      BY <3>1 DEF TicketRow
    <3>3. newTickets' \in [Turn -> SUBSET TicketRow]
      BY <1>7, <3>2 DEF InsertTicket, TypeOK
    <3>4. pc' \in [Turn -> States] /\ ticket' \in [Turn -> Turn \cup {None}]
      BY <1>7 DEF InsertTicket, Goto, TypeOK, States, Running
    <3>5. UNCHANGED <<session, conversation, calls, txn, cause, conversations,
                      tickets, leads, newConv, newLeads, count, restarts>>
      BY <1>7 DEF InsertTicket, limiter, committed
    <3> QED
      BY <3>3, <3>4, <3>5 DEF TypeOK
  <2>2. Inserted'
    <3>1. /\ conversation[t] = t
          /\ newConv[t] = {Conv(t)}
          /\ newTickets' = [newTickets EXCEPT ![t] = {Tick(t)}]
      BY <1>7 DEF InsertTicket, Inserted, InsertedBy, Tick
    <3>2. pc' = [pc EXCEPT ![t] = "commit"]
          /\ UNCHANGED <<session, conversation, conversations, newConv>>
      BY <1>7 DEF InsertTicket, Goto, committed
    <3>3. InsertedBy(t)'
      BY <3>1, <3>2 DEF InsertedBy, TypeOK, Conv, Tick
    <3>4. ASSUME NEW u \in Turn \ {t} PROVE InsertedBy(u)'
      BY <3>1, <3>2 DEF Inserted, InsertedBy, TypeOK, Conv, Tick
    <3> QED
      BY <3>3, <3>4 DEF Inserted
  <2>3. KeyUnique'
    BY <1>7 DEF KeyUnique, Inserted, InsertedBy, TypeOK, Conv, limiter, turnVars, committed,
       uncommitted, Goto, InsertTicket
  <2>4. TicketWithConversation'
    BY <1>7, RowsStay DEF TypeOK, Running, limiter, turnVars, committed,
       uncommitted, Goto, InsertTicket
  <2> QED
    BY <2>1, <2>2, <2>3, <2>4 DEF IInv
<1>8. ASSUME NEW t \in Turn, Answer(t) PROVE IInv'
  <2>1. TypeOK'
    BY <1>8 DEF TypeOK, States, Running, ConversationRow, TicketRow, limiter,
       turnVars, committed, uncommitted, Goto, Answer
  <2>2. Inserted'
    BY <1>8 DEF Inserted, InsertedBy, TypeOK, Conv, Tick, limiter, turnVars, committed,
       uncommitted, Goto, Answer
  <2>3. KeyUnique'
    BY <1>8 DEF KeyUnique, Inserted, InsertedBy, TypeOK, Conv, limiter, turnVars, committed,
       uncommitted, Goto, Answer
  <2>4. TicketWithConversation'
    BY <1>8, RowsStay DEF TypeOK, Running, limiter, turnVars, committed,
       uncommitted, Goto, Answer
  <2> QED
    BY <2>1, <2>2, <2>3, <2>4 DEF IInv
<1>9. ASSUME NEW t \in Turn, Commit(t) PROVE IInv'
  <2>1. TypeOK'
    BY <1>9 DEF TypeOK, States, Running, ConversationRow, TicketRow, limiter,
       turnVars, committed, uncommitted, Goto, Commit, Publish
  <2>2. Inserted'
    BY <1>9 DEF Inserted, InsertedBy, TypeOK, Conv, Tick, limiter, turnVars, committed,
       uncommitted, Goto, Commit, Publish
  <2>3. KeyUnique'
    <3>1. /\ conversations' = conversations \cup newConv[t]
          /\ newConv' = [newConv EXCEPT ![t] = {}]
          /\ session' = session
      BY <1>9 DEF Commit, Publish, turnVars
    <3>2. newConv[t] = {} \/ newConv[t] = {Conv(t)}
      BY DEF Inserted, InsertedBy
    <3>3. Conv(t).session = session[t]
      BY DEF Conv
    <3> QED
      BY <3>1, <3>2, <3>3 DEF KeyUnique, TypeOK
  <2>4. TicketWithConversation'
    BY <1>9 DEF TicketWithConversation, Inserted, InsertedBy, TypeOK, Tick, Conv, limiter,
       turnVars, committed, uncommitted, Goto, Commit, Publish
  <2> QED
    BY <2>1, <2>2, <2>3, <2>4 DEF IInv
<1>10. ASSUME NEW t \in Turn, AuditFails(t) PROVE IInv'
  <2>1. TypeOK'
    BY <1>10 DEF TypeOK, States, Running, ConversationRow, TicketRow, limiter,
       turnVars, committed, uncommitted, Goto, AuditFails
  <2>2. Inserted'
    BY <1>10 DEF Inserted, InsertedBy, TypeOK, Conv, Tick, limiter, turnVars, committed,
       uncommitted, Goto, AuditFails
  <2>3. KeyUnique'
    BY <1>10 DEF KeyUnique, Inserted, InsertedBy, TypeOK, Conv, limiter, turnVars, committed,
       uncommitted, Goto, AuditFails
  <2>4. TicketWithConversation'
    BY <1>10, RowsStay DEF TypeOK, Running, limiter, turnVars, committed,
       uncommitted, Goto, AuditFails
  <2> QED
    BY <2>1, <2>2, <2>3, <2>4 DEF IInv
<1>11. ASSUME NEW t \in Turn, UniqueViolation(t) PROVE IInv'
  BY <1>11, RollbackStep DEF UniqueViolation, Running
<1>12. ASSUME NEW t \in Turn, PendingRollback(t) PROVE IInv'
  BY <1>12, RollbackStep DEF PendingRollback, Running
<1>13. ASSUME NEW t \in Turn, DatabaseError(t) PROVE IInv'
  BY <1>13, RollbackStep DEF DatabaseError, Running
<1>14. CASE Restart
  <2>1. TypeOK'
    BY <1>14 DEF TypeOK, States, Running, ConversationRow, TicketRow, limiter,
       turnVars, committed, uncommitted, Goto, Restart, States
  <2>2. Inserted'
    BY <1>14 DEF Inserted, InsertedBy, TypeOK, Conv, Tick, limiter, turnVars, committed,
       uncommitted, Goto, Restart, States
  <2>3. KeyUnique'
    BY <1>14 DEF KeyUnique, Inserted, InsertedBy, TypeOK, Conv, limiter, turnVars, committed,
       uncommitted, Goto, Restart, States
  <2>4. TicketWithConversation'
    BY <1>14, RowsStay DEF TypeOK, Running, limiter, turnVars, committed,
       uncommitted, Goto, Restart, States
  <2> QED
    BY <2>1, <2>2, <2>3, <2>4 DEF IInv
<1>15. CASE UNCHANGED vars
  <2>1. TypeOK'
    BY <1>15 DEF TypeOK, States, Running, ConversationRow, TicketRow, limiter,
       turnVars, committed, uncommitted, Goto, vars
  <2>2. Inserted'
    BY <1>15 DEF Inserted, InsertedBy, TypeOK, Conv, Tick, limiter, turnVars, committed,
       uncommitted, Goto, vars
  <2>3. KeyUnique'
    BY <1>15 DEF KeyUnique, Inserted, InsertedBy, TypeOK, Conv, limiter, turnVars, committed,
       uncommitted, Goto, vars
  <2>4. TicketWithConversation'
    BY <1>15, RowsStay DEF TypeOK, Running, limiter, turnVars, committed,
       uncommitted, Goto, vars
  <2> QED
    BY <2>1, <2>2, <2>3, <2>4 DEF IInv
<1> QED
  BY <1>1, <1>2, <1>3, <1>4, <1>5, <1>6, <1>7, <1>8, <1>9, <1>10, <1>11, <1>12,
     <1>13, <1>14, <1>15 DEF Next, TurnStep

\* The strengthening is invariant.
THEOREM Invariance == Spec => []IInv
BY InitIInv, StepIInv, PTL DEF Spec

\* Every variable keeps its type.
THEOREM TypeCorrect == Spec => []TypeOK
BY Invariance, PTL DEF IInv

\* FR-026: a session never has two conversations, nor a conversation two
\* tickets.
THEOREM OneTicket == Spec => []OneTicketPerSession
<1>1. IInv => OneTicketPerSession
  BY DEF IInv, KeyUnique, TicketWithConversation, Tick, OneTicketPerSession
<1> QED
  BY <1>1, Invariance, PTL

\* A committed conversation has its ticket: nobody can find it without one.
THEOREM TicketIsThere == Spec => []ConversationHasTicket
<1>1. IInv => ConversationHasTicket
  <2> SUFFICES ASSUME IInv, NEW c \in conversations
               PROVE  Tick(c.id) \in SameConversation(tickets, c.id)
    BY DEF ConversationHasTicket
  <2> QED
    BY DEF IInv, TicketWithConversation, Tick, SameConversation
<1> QED
  BY <1>1, Invariance, PTL

----------------------------------------------------------------------------
(* Refinement *)

\* The ticket a turn holds is its session's.
HeldBy(t) ==
    /\ pc[t] = "select_ticket" /\ newConv[t] = {} =>
          \E c \in conversations : c.id = conversation[t] /\ c.session = session[t]
    /\ pc[t] \notin {"commit", "answered", "failed"} => ticket[t] = None
    /\ pc[t] = "commit" /\ txn[t] = "active" =>
          IF newConv[t] = {}
          THEN \/ ticket[t] = None
               \/ \E c \in conversations : c.id = ticket[t] /\ c.session = session[t]
          ELSE ticket[t] = t

Held == \A t \in Turn : HeldBy(t)

LEMMA InitHeld == Init => Held
BY DEF Init, Held, HeldBy

\* Conversations stay, and a turn's session is fixed.
LEMMA ConversationsStay ==
    ASSUME [Next]_vars
    PROVE  conversations \subseteq conversations' /\ session' = session
<1> USE DEF turnVars, committed, Rollback
<1>1. CASE UNCHANGED vars
  BY <1>1 DEF vars
<1>2. CASE Restart
  BY <1>2 DEF Restart
<1>3. ASSUME NEW t \in Turn, TurnStep(t) \/ AuditFails(t) \/ DatabaseError(t)
      PROVE  conversations \subseteq conversations' /\ session' = session
  BY <1>3 DEF TurnStep, AuditFails, DatabaseError, Begin, CheckAndIncrement, InsertLead,
     SelectConversation, InsertConversation, UniqueViolation, SelectTicket, InsertTicket,
     Answer, Commit, Publish, PendingRollback
<1> QED
  BY <1>1, <1>2, <1>3 DEF Next

\* A turn that another one's step leaves alone holds what it held.
LEMMA HeldFrame ==
    ASSUME NEW t \in Turn, HeldBy(t), conversations \subseteq conversations',
           session' = session, pc'[t] = pc[t], ticket'[t] = ticket[t],
           conversation'[t] = conversation[t], newConv'[t] = newConv[t],
           txn'[t] = txn[t]
    PROVE  HeldBy(t)'
BY DEF HeldBy

LEMMA StepHeld == IInv /\ Held /\ [Next]_vars => Held'
<1> SUFFICES ASSUME IInv, Held, [Next]_vars PROVE Held'
  OBVIOUS
<1> USE DEF IInv
<1>0. conversations \subseteq conversations' /\ session' = session
  BY ConversationsStay
<1>1. ASSUME NEW t \in Turn, Begin(t) PROVE Held'
  <2>1. HeldBy(t)'
    BY <1>0, <1>1 DEF Held, HeldBy, Inserted, InsertedBy, TypeOK, Begin, Goto,
       turnVars, committed, uncommitted
  <2>2. ASSUME NEW u \in Turn \ {t} PROVE HeldBy(u)'
    BY <1>0, <1>1, HeldFrame DEF Held, TypeOK, Begin, Goto, turnVars, committed,
       uncommitted
  <2> QED
    BY <2>1, <2>2 DEF Held
<1>2. ASSUME NEW t \in Turn, CheckAndIncrement(t) PROVE Held'
  <2>1. HeldBy(t)'
    BY <1>0, <1>2 DEF Held, HeldBy, Inserted, InsertedBy, TypeOK, CheckAndIncrement,
       Goto, turnVars, committed, uncommitted
  <2>2. ASSUME NEW u \in Turn \ {t} PROVE HeldBy(u)'
    BY <1>0, <1>2, HeldFrame DEF Held, TypeOK, CheckAndIncrement, Goto, turnVars,
       committed, uncommitted
  <2> QED
    BY <2>1, <2>2 DEF Held
<1>3. ASSUME NEW t \in Turn, InsertLead(t) PROVE Held'
  <2>1. HeldBy(t)'
    BY <1>0, <1>3 DEF Held, HeldBy, Inserted, InsertedBy, TypeOK, InsertLead, Goto,
       turnVars, committed, uncommitted
  <2>2. ASSUME NEW u \in Turn \ {t} PROVE HeldBy(u)'
    BY <1>0, <1>3, HeldFrame DEF Held, TypeOK, InsertLead, Goto, turnVars,
       committed, uncommitted
  <2> QED
    BY <2>1, <2>2 DEF Held
<1>4. ASSUME NEW t \in Turn, SelectConversation(t) PROVE Held'
  <2>1. HeldBy(t)'
    BY <1>0, <1>4 DEF Held, HeldBy, Inserted, InsertedBy, TypeOK,
       SelectConversation, VisibleConversations, SameSession, Goto, turnVars,
       committed, uncommitted
  <2>2. ASSUME NEW u \in Turn \ {t} PROVE HeldBy(u)'
    BY <1>0, <1>4, HeldFrame DEF Held, TypeOK, SelectConversation,
       VisibleConversations, SameSession, Goto, turnVars, committed, uncommitted
  <2> QED
    BY <2>1, <2>2 DEF Held
<1>5. ASSUME NEW t \in Turn, InsertConversation(t) PROVE Held'
  <2>1. HeldBy(t)'
    BY <1>0, <1>5 DEF Held, HeldBy, Inserted, InsertedBy, TypeOK,
       InsertConversation, Goto, turnVars, committed, uncommitted
  <2>2. ASSUME NEW u \in Turn \ {t} PROVE HeldBy(u)'
    BY <1>0, <1>5, HeldFrame DEF Held, TypeOK, InsertConversation, Goto, turnVars,
       committed, uncommitted
  <2> QED
    BY <2>1, <2>2 DEF Held
<1>6. ASSUME NEW t \in Turn, SelectTicket(t) PROVE Held'
  <2>1. HeldBy(t)'
    <3>1. CASE newConv[t] = {Conv(t)} /\ conversation[t] = t
      <4>1. SameConversation(VisibleTickets(t), conversation[t]) = {}
        BY <1>6, <3>1 DEF SelectTicket, SameConversation, VisibleTickets, Inserted,
           InsertedBy, TicketWithConversation, TypeOK, TicketRow, Tick
      <4> QED
        BY <1>6, <4>1 DEF SelectTicket, Goto, committed, uncommitted, Held, HeldBy,
           TypeOK
    <3>2. CASE newConv[t] = {}
      <4>1. Tick(conversation[t]) \in SameConversation(VisibleTickets(t), conversation[t])
        BY <1>6, <3>2 DEF SelectTicket, Held, HeldBy, SameConversation, VisibleTickets,
           TicketWithConversation, Tick
      <4>2. PICK row \in SameConversation(VisibleTickets(t), conversation[t]) :
               ticket' = [ticket EXCEPT ![t] = row.id]
        BY <1>6, <4>1 DEF SelectTicket
      <4>3. row.id = conversation[t]
        BY <1>6 DEF SelectTicket, SameConversation, VisibleTickets, Inserted, InsertedBy,
           TicketWithConversation, Tick
      <4> QED
        BY <1>6, <3>2, <4>1, <4>2, <4>3 DEF SelectTicket, Goto, committed, uncommitted,
           Held, HeldBy, TypeOK
    <3> QED
      BY <1>6, <3>1, <3>2 DEF SelectTicket, Inserted, InsertedBy
  <2>2. ASSUME NEW u \in Turn \ {t} PROVE HeldBy(u)'
    BY <1>0, <1>6, HeldFrame DEF Held, TypeOK, SelectTicket, SameConversation, Goto,
       turnVars, committed, uncommitted
  <2> QED
    BY <2>1, <2>2 DEF Held
<1>7. ASSUME NEW t \in Turn, InsertTicket(t) PROVE Held'
  <2>1. HeldBy(t)'
    BY <1>0, <1>7 DEF Held, HeldBy, Inserted, InsertedBy, TypeOK, InsertTicket,
       Goto, turnVars, committed, uncommitted
  <2>2. ASSUME NEW u \in Turn \ {t} PROVE HeldBy(u)'
    BY <1>0, <1>7, HeldFrame DEF Held, TypeOK, InsertTicket, Goto, turnVars,
       committed, uncommitted
  <2> QED
    BY <2>1, <2>2 DEF Held
<1>8. ASSUME NEW t \in Turn, Answer(t) PROVE Held'
  <2>1. HeldBy(t)'
    BY <1>0, <1>8 DEF Held, HeldBy, Inserted, InsertedBy, TypeOK, Answer, Goto,
       turnVars, committed, uncommitted
  <2>2. ASSUME NEW u \in Turn \ {t} PROVE HeldBy(u)'
    BY <1>0, <1>8, HeldFrame DEF Held, TypeOK, Answer, Goto, turnVars, committed,
       uncommitted
  <2> QED
    BY <2>1, <2>2 DEF Held
<1>9. ASSUME NEW t \in Turn, Commit(t) PROVE Held'
  <2>1. HeldBy(t)'
    BY <1>0, <1>9 DEF Held, HeldBy, Inserted, InsertedBy, TypeOK, Commit, Publish,
       Goto, turnVars, committed, uncommitted
  <2>2. ASSUME NEW u \in Turn \ {t} PROVE HeldBy(u)'
    BY <1>0, <1>9, HeldFrame DEF Held, TypeOK, Commit, Publish, Goto, turnVars,
       committed, uncommitted
  <2> QED
    BY <2>1, <2>2 DEF Held
<1>10. ASSUME NEW t \in Turn, AuditFails(t) PROVE Held'
  <2>1. HeldBy(t)'
    BY <1>0, <1>10 DEF Held, HeldBy, Inserted, InsertedBy, TypeOK, AuditFails, Goto,
       turnVars, committed, uncommitted
  <2>2. ASSUME NEW u \in Turn \ {t} PROVE HeldBy(u)'
    BY <1>0, <1>10, HeldFrame DEF Held, TypeOK, AuditFails, Goto, turnVars,
       committed, uncommitted
  <2> QED
    BY <2>1, <2>2 DEF Held
<1>11. ASSUME NEW t \in Turn, UniqueViolation(t) PROVE Held'
  <2>1. HeldBy(t)'
    BY <1>0, <1>11 DEF Held, HeldBy, Inserted, InsertedBy, TypeOK, UniqueViolation,
       Rollback, Goto, turnVars, committed, uncommitted
  <2>2. ASSUME NEW u \in Turn \ {t} PROVE HeldBy(u)'
    BY <1>0, <1>11, HeldFrame DEF Held, TypeOK, UniqueViolation, Rollback, Goto,
       turnVars, committed, uncommitted
  <2> QED
    BY <2>1, <2>2 DEF Held
<1>12. ASSUME NEW t \in Turn, PendingRollback(t) PROVE Held'
  <2>1. HeldBy(t)'
    BY <1>0, <1>12 DEF Held, HeldBy, Inserted, InsertedBy, TypeOK, PendingRollback,
       Rollback, Goto, turnVars, committed, uncommitted
  <2>2. ASSUME NEW u \in Turn \ {t} PROVE HeldBy(u)'
    BY <1>0, <1>12, HeldFrame DEF Held, TypeOK, PendingRollback, Rollback, Goto,
       turnVars, committed, uncommitted
  <2> QED
    BY <2>1, <2>2 DEF Held
<1>13. ASSUME NEW t \in Turn, DatabaseError(t) PROVE Held'
  <2>1. HeldBy(t)'
    BY <1>0, <1>13 DEF Held, HeldBy, Inserted, InsertedBy, TypeOK, DatabaseError,
       Rollback, Goto, turnVars, committed, uncommitted
  <2>2. ASSUME NEW u \in Turn \ {t} PROVE HeldBy(u)'
    BY <1>0, <1>13, HeldFrame DEF Held, TypeOK, DatabaseError, Rollback, Goto,
       turnVars, committed, uncommitted
  <2> QED
    BY <2>1, <2>2 DEF Held
<1>14. CASE Restart
  BY <1>0, <1>14 DEF Held, HeldBy, TypeOK, States, Running, Restart, committed
<1>15. CASE UNCHANGED vars
  BY <1>15 DEF Held, HeldBy, vars, turnVars, committed, uncommitted
<1> QED
  BY <1>1, <1>2, <1>3, <1>4, <1>5, <1>6, <1>7, <1>8, <1>9, <1>10, <1>11, <1>12, <1>13,
     <1>14, <1>15 DEF Next, TurnStep

LEMMA HeldInvariance == Spec => [](IInv /\ Held)
<1>1. Init => IInv /\ Held
  BY InitIInv, InitHeld
<1>2. IInv /\ Held /\ [Next]_vars => (IInv /\ Held)'
  BY StepIInv, StepHeld
<1> QED
  BY <1>1, <1>2, PTL DEF Spec

\* A session's ticket is named after its conversation.
LEMMA TicketOfSession ==
    ASSUME IInv, NEW s \in Session
    PROVE  /\ \A c \in conversations : c.session = s => TicketOf[s] = c.id
           /\ (\A c \in conversations : c.session # s) => TicketOf[s] = None
<1> USE DEF IInv
<1> DEFINE of == {r \in tickets : \E c \in conversations :
                                     c.session = s /\ c.id = r.conversation}
<1>1. TicketOf[s] = IF of = {} THEN None ELSE (CHOOSE r \in of : TRUE).id
  BY DEF TicketOf
<1>2. ASSUME NEW c \in conversations, c.session = s PROVE TicketOf[s] = c.id
  <2>1. Tick(c.id) \in of
    BY <1>2 DEF TicketWithConversation, Tick
  <2>2. \A r \in of : r.id = c.id
    BY <1>2 DEF KeyUnique, TicketWithConversation, Tick
  <2> QED
    BY <1>1, <2>1, <2>2
<1>3. ASSUME \A c \in conversations : c.session # s PROVE TicketOf[s] = None
  BY <1>1, <1>3
<1> QED
  BY <1>2, <1>3

LEMMA InitRegistry == Init => Registry!Init
BY DEF Init, Registry!Init, TicketOf, Reported

\* A step that neither opens a ticket nor answers a turn.
LEMMA Unregistered ==
    ASSUME UNCHANGED <<session, tickets, conversations>>,
           \A t \in Turn : (pc[t] = "answered" <=> pc'[t] = "answered")
                              /\ (pc[t] = "answered" => ticket'[t] = ticket[t])
    PROVE  UNCHANGED Registry!vars
BY DEF Registry!vars, TicketOf, Reported

\* The commit opens the session's ticket, reports the one that is there, or
\* answers a turn that did not escalate.
LEMMA CommitRegistry ==
    ASSUME IInv, IInv', Held, NEW t \in Turn, Commit(t)
    PROVE  [Registry!Next]_Registry!vars
<1> USE DEF IInv
<1> DEFINE s == session[t]
<1>1. /\ pc[t] = "commit" /\ txn[t] = "active" /\ s \in Session
      /\ pc' = [pc EXCEPT ![t] = "answered"]
      /\ conversations' = conversations \cup newConv[t]
      /\ tickets' = tickets \cup newTickets[t]
      /\ ticket' = ticket /\ session' = session
  BY DEF Commit, Publish, Goto, turnVars, TypeOK
<1>2. Reported[t] = None /\ Reported' = [Reported EXCEPT ![t] = ticket[t]]
  BY <1>1 DEF Reported, TypeOK
<1>3. CASE newConv[t] = {}
  <2>1. newTickets[t] = {} /\ TicketOf' = TicketOf
    <3>1. newTickets[t] = {}
      BY <1>1, <1>3 DEF Inserted, InsertedBy
    <3>2. UNCHANGED <<tickets, conversations>>
      BY <1>1, <1>3, <3>1
    <3> QED
      BY <3>1, <3>2 DEF TicketOf
  <2>2. CASE ticket[t] = None
    <3>1. Reported' = Reported
      BY <1>2, <2>2 DEF Reported
    <3> QED
      BY <1>1, <2>1, <3>1 DEF Registry!vars
  <2>3. CASE ticket[t] # None
    <3>1. PICK c \in conversations : c.id = ticket[t] /\ c.session = s
      BY <1>1, <1>3, <2>3 DEF Held, HeldBy
    <3>2. TicketOf[s] = ticket[t]
      BY <1>1, <3>1, TicketOfSession
    <3>3. Registry!JoinTicket(t)
      BY <1>1, <1>2, <2>1, <2>3, <3>2 DEF Registry!JoinTicket
    <3> QED
      BY <1>1, <3>3 DEF Registry!Next
  <2> QED
    BY <2>2, <2>3
<1>4. CASE newConv[t] # {}
  <2>1. newConv[t] = {Conv(t)} /\ ticket[t] = t
    BY <1>1, <1>4 DEF Inserted, InsertedBy, Held, HeldBy
  <2>2. TicketOf[s] = None
    BY <1>1, <1>4, TicketOfSession DEF KeyUnique
  <2>3. Conv(t) \in conversations' /\ Conv(t).session = s /\ Conv(t).id = t
    BY <1>1, <2>1 DEF Conv
  <2>4. TicketOf' = [TicketOf EXCEPT ![s] = t]
    <3> DEFINE of(z) == {r \in tickets : \E c \in conversations :
                                            c.session = z /\ c.id = r.conversation}
               new(z) == {r \in tickets' : \E c \in conversations' :
                                            c.session = z /\ c.id = r.conversation}
    <3>1. newTickets[t] = {Tick(t)}
      BY <1>1, <1>4 DEF Inserted, InsertedBy
    <3>2. ASSUME NEW z \in Session, z # s PROVE new(z) = of(z)
      <4>1. \A c \in conversations' : c.session = z => c \in conversations
        BY <1>1, <2>1, <2>3, <3>2
      <4>2. \A c \in conversations : c.id # t
        BY <1>1 DEF TicketWithConversation, Tick
      <4>3. \A r \in tickets' : r \in tickets \/ r.conversation = t
        BY <1>1, <3>1 DEF Tick
      <4> QED
        BY <1>1, <4>1, <4>2, <4>3
    <3>3. \A r \in new(s) : r.id = t
      <4>1. \A c \in conversations' : c.session = s => c.id = t
        BY <1>1, <1>4, <2>1, <2>3 DEF KeyUnique
      <4>2. \A r \in tickets' : r.conversation = t => r.id = t
        BY <1>1, <3>1 DEF TicketWithConversation, Tick
      <4> QED
        BY <4>1, <4>2
    <3>4. Tick(t) \in new(s)
      BY <1>1, <2>3, <3>1 DEF Tick
    <3>5. /\ TicketOf = [z \in Session |-> IF of(z) = {} THEN None
                                           ELSE (CHOOSE r \in of(z) : TRUE).id]
          /\ TicketOf' = [z \in Session |-> IF new(z) = {} THEN None
                                            ELSE (CHOOSE r \in new(z) : TRUE).id]
      BY DEF TicketOf
    <3>6. (CHOOSE r \in new(s) : TRUE) \in new(s)
      BY <3>4
    <3>7. TicketOf'[s] = t
      BY <1>1, <3>3, <3>4, <3>5, <3>6
    <3>8. ASSUME NEW z \in Session, z # s PROVE TicketOf'[z] = TicketOf[z]
      BY <3>2, <3>5, <3>8
    <3>9. /\ TicketOf = [z \in Session |-> TicketOf[z]]
          /\ TicketOf' = [z \in Session |-> TicketOf'[z]]
      BY <3>5
    <3> QED
      BY <1>1, <3>7, <3>8, <3>9
  <2>5. Registry!OpenTicket(t)
    BY <1>1, <1>2, <2>1, <2>2, <2>4 DEF Registry!OpenTicket
  <2> QED
    BY <1>1, <2>5 DEF Registry!Next
<1> QED
  BY <1>3, <1>4

LEMMA StepRegistry ==
    IInv /\ IInv' /\ Held /\ [Next]_vars => [Registry!Next]_Registry!vars
<1> SUFFICES ASSUME IInv, IInv', Held, [Next]_vars
             PROVE  [Registry!Next]_Registry!vars
  OBVIOUS
<1> USE DEF IInv
<1>1. ASSUME NEW t \in Turn, Commit(t) PROVE [Registry!Next]_Registry!vars
  BY <1>1, CommitRegistry
<1>2. ASSUME NEW t \in Turn, TurnStep(t) \/ AuditFails(t) \/ DatabaseError(t), ~Commit(t)
      PROVE  [Registry!Next]_Registry!vars
  <2>1. CASE Begin(t) \/ CheckAndIncrement(t) \/ InsertLead(t) \/ SelectConversation(t)
    BY <2>1, Unregistered DEF Begin, CheckAndIncrement, InsertLead, SelectConversation,
       Goto, turnVars, committed, TypeOK
  <2>2. CASE SelectTicket(t)
    BY <2>2, Unregistered DEF SelectTicket, Goto, committed, TypeOK
  <2>3. CASE InsertConversation(t) \/ InsertTicket(t) \/ Answer(t) \/ AuditFails(t)
    BY <2>3, Unregistered DEF InsertConversation, InsertTicket, Answer, AuditFails, Goto,
       turnVars, committed, TypeOK
  <2>4. CASE UniqueViolation(t) \/ PendingRollback(t) \/ DatabaseError(t)
    BY <2>4, Unregistered DEF UniqueViolation, PendingRollback, DatabaseError, Rollback,
       Running, Goto, committed, TypeOK
  <2> QED
    BY <1>2, <2>1, <2>2, <2>3, <2>4 DEF TurnStep
<1>3. CASE Restart
  BY <1>3, Unregistered DEF Restart, Running, committed, TypeOK
<1>4. CASE UNCHANGED vars
  BY <1>4, Unregistered DEF vars, turnVars, committed
<1> QED
  BY <1>1, <1>2, <1>3, <1>4 DEF Next

\* What escalation promises a tenant's team: a session's ticket is opened once
\* and never changes, and a committed turn names the ticket of its own session.
THEOREM RefinesRegistry == Spec => RegistrySpec
<1>1. IInv /\ Held /\ [Next]_vars => [Registry!Next]_Registry!vars
  BY StepIInv, StepRegistry
<1> QED
  BY <1>1, InitRegistry, HeldInvariance, PTL DEF Spec, RegistrySpec, Registry!Spec
----------------------------------------------------------------------------
(* The lead limiter *)

\* A turn's leads in its open transaction, and the one it was just admitted for.
Weight == [t \in Turn |-> newLeads[t] + (IF pc[t] = "insert_lead" THEN 1 ELSE 0)]

Of(s) == {t \in Turn : session[t] = s}

\* LeadsAdmitted, with what was admitted and is not inserted yet.
Admitted ==
    \A s \in Session : leads[s] + Total(Weight, Of(s)) <= count[s] + restarts * LeadCap

LEMMA WeightType ==
    ASSUME TypeOK
    PROVE  Weight \in [Turn -> Nat]
BY DEF TypeOK, Weight

LEMMA InitAdmitted ==
    ASSUME IsFiniteSet(Turn), Init
    PROVE  Admitted
<1> SUFFICES ASSUME NEW s \in Session
             PROVE  leads[s] + Total(Weight, Of(s)) <= count[s] + restarts * LeadCap
  BY DEF Admitted
<1>1. IsFiniteSet(Of(s)) /\ \A t \in Of(s) : Weight[t] = 0
  BY FS_Subset DEF Of, Weight, Init
<1>2. Total(Weight, Of(s)) = 0
  BY <1>1, TotalOfZeros
<1> QED
  BY <1>2, ChatDataAssumption DEF ChatDataAssumption, Init

\* A step after which no turn weighs more.
LEMMA NoHeavier ==
    ASSUME IsFiniteSet(Turn), TypeOK, TypeOK', Admitted,
           session' = session, leads' = leads, count' = count, restarts' = restarts,
           \A t \in Turn : Weight'[t] <= Weight[t]
    PROVE  Admitted'
<1> SUFFICES ASSUME NEW s \in Session
             PROVE  leads[s] + Total(Weight', Of(s)) <= count[s] + restarts * LeadCap
  BY DEF Admitted, Of
<1>1. IsFiniteSet(Of(s)) /\ Of(s) \subseteq Turn
  BY FS_Subset DEF Of
<1>2. Weight \in [Turn -> Nat] /\ Weight' \in [Turn -> Nat]
  BY WeightType DEF TypeOK, Weight
<1>3. Total(Weight', Of(s)) <= Total(Weight, Of(s))
  BY <1>1, <1>2, TotalGrows
<1>4. Total(Weight', Of(s)) \in Int /\ Total(Weight, Of(s)) \in Int
  BY <1>1, <1>2, TotalWithout
<1>5. leads[s] + Total(Weight, Of(s)) <= count[s] + restarts * LeadCap
  BY DEF Admitted
<1>6. leads[s] \in Nat /\ count[s] \in Nat /\ restarts * LeadCap \in Nat
  BY ChatDataAssumption DEF ChatDataAssumption, TypeOK
<1> QED
  BY <1>3, <1>4, <1>5, <1>6

\* A step that changes what one turn weighs, and the counts of its session.
LEMMA OneWeighs ==
    ASSUME IsFiniteSet(Turn), TypeOK, TypeOK', Admitted, NEW t \in Turn,
           session' = session, restarts' = restarts,
           \A u \in Turn \ {t} : Weight'[u] = Weight[u],
           \A s \in Session \ {session[t]} : leads'[s] = leads[s] /\ count'[s] = count[s],
           (leads'[session[t]] - leads[session[t]]) + (Weight'[t] - Weight[t])
                <= count'[session[t]] - count[session[t]]
    PROVE  Admitted'
<1> SUFFICES ASSUME NEW s \in Session
             PROVE  leads'[s] + Total(Weight', Of(s)) <= count'[s] + restarts * LeadCap
  BY DEF Admitted, Of
<1>1. IsFiniteSet(Of(s)) /\ Of(s) \subseteq Turn
  BY FS_Subset DEF Of
<1>2. Weight \in [Turn -> Nat] /\ Weight' \in [Turn -> Nat]
  BY WeightType DEF TypeOK, Weight
<1>3. Total(Weight, Of(s)) \in Int
  BY <1>1, <1>2, TotalWithout
<1>4. leads[s] + Total(Weight, Of(s)) <= count[s] + restarts * LeadCap
  BY DEF Admitted
<1>5. /\ leads[s] \in Nat /\ count[s] \in Nat /\ leads'[s] \in Nat /\ count'[s] \in Nat
      /\ restarts * LeadCap \in Nat /\ Weight[t] \in Nat /\ Weight'[t] \in Nat
  BY <1>2, ChatDataAssumption DEF ChatDataAssumption, TypeOK
<1>6. CASE s = session[t]
  <2>1. t \in Of(s) /\ \A u \in Of(s) \ {t} : Weight'[u] = Weight[u]
    BY <1>6 DEF Of
  <2>2. Total(Weight', Of(s)) = Total(Weight, Of(s)) + (Weight'[t] - Weight[t])
    BY <1>1, <1>2, <2>1, TotalChange
  <2>3. (leads'[s] - leads[s]) + (Weight'[t] - Weight[t]) <= count'[s] - count[s]
    BY <1>6
  <2> QED
    BY <1>3, <1>4, <1>5, <2>2, <2>3
<1>7. CASE s # session[t]
  <2>1. \A u \in Of(s) : Weight'[u] = Weight[u]
    BY <1>7 DEF Of
  <2>2. Total(Weight', Of(s)) = Total(Weight, Of(s))
    BY <1>1, <1>2, <2>1, TotalSame
  <2> QED
    BY <1>4, <1>7, <2>2
<1> QED
  BY <1>6, <1>7

LEMMA StepAdmitted ==
    ASSUME IsFiniteSet(Turn), TypeOK, TypeOK', Admitted, [Next]_vars
    PROVE  Admitted'
<1>1. ASSUME NEW t \in Turn, CheckAndIncrement(t) PROVE Admitted'
  <2>1. CASE UnderCap(session[t])
    <3>1. /\ pc[t] = "ready" /\ pc' = [pc EXCEPT ![t] = "insert_lead"]
          /\ count' = [count EXCEPT ![session[t]] = @ + 1]
          /\ UNCHANGED <<session, leads, newLeads, restarts>>
      BY <1>1, <2>1 DEF CheckAndIncrement, Goto, committed, uncommitted
    <3>2. /\ \A u \in Turn \ {t} : Weight'[u] = Weight[u]
          /\ Weight'[t] - Weight[t] = 1
      BY <3>1 DEF Weight, TypeOK
    <3>3. /\ \A s \in Session \ {session[t]} : leads'[s] = leads[s] /\ count'[s] = count[s]
          /\ leads'[session[t]] - leads[session[t]] = 0
          /\ count'[session[t]] - count[session[t]] = 1
      BY <3>1 DEF TypeOK
    <3> QED
      BY <3>1, <3>2, <3>3, OneWeighs
  <2>2. CASE ~UnderCap(session[t])
    <3>1. UNCHANGED <<session, leads, count, restarts, pc, newLeads>>
      BY <1>1, <2>2 DEF CheckAndIncrement, committed, uncommitted
    <3>2. Weight' = Weight /\ Weight \in [Turn -> Nat]
      BY <3>1, WeightType DEF Weight
    <3> QED
      BY <3>1, <3>2, NoHeavier
  <2> QED
    BY <2>1, <2>2
<1>2. ASSUME NEW t \in Turn, Commit(t) PROVE Admitted'
  <2>1. /\ pc[t] = "commit" /\ pc' = [pc EXCEPT ![t] = "answered"]
        /\ leads' = [leads EXCEPT ![session[t]] = @ + newLeads[t]]
        /\ newLeads' = [newLeads EXCEPT ![t] = 0]
        /\ UNCHANGED <<session, count, restarts>>
    BY <1>2 DEF Commit, Publish, Goto, turnVars, limiter
  <2>2. /\ \A u \in Turn \ {t} : Weight'[u] = Weight[u]
        /\ Weight'[t] = 0 /\ Weight[t] = newLeads[t]
    BY <2>1 DEF Weight, TypeOK
  <2>3. /\ \A s \in Session \ {session[t]} : leads'[s] = leads[s] /\ count'[s] = count[s]
        /\ leads'[session[t]] = leads[session[t]] + newLeads[t]
        /\ leads[session[t]] \in Nat /\ newLeads[t] \in Nat /\ count[session[t]] \in Nat
    BY <2>1 DEF TypeOK
  <2>4. (leads'[session[t]] - leads[session[t]]) + (Weight'[t] - Weight[t])
                <= count'[session[t]] - count[session[t]]
    BY <2>1, <2>2, <2>3
  <2>5. /\ session' = session /\ restarts' = restarts
        /\ \A s \in Session \ {session[t]} : leads'[s] = leads[s] /\ count'[s] = count[s]
    BY <2>1, <2>3
  <2>6. \A u \in Turn \ {t} : Weight'[u] = Weight[u]
    BY <2>2
  <2> QED
    BY <2>4, <2>5, <2>6, OneWeighs
<1>3. ASSUME NEW t \in Turn, InsertLead(t) PROVE Admitted'
  <2>1. /\ pc[t] = "insert_lead" /\ pc' = [pc EXCEPT ![t] = "ready"]
        /\ newLeads' = [newLeads EXCEPT ![t] = @ + 1]
        /\ UNCHANGED <<session, leads, count, restarts>>
    BY <1>3 DEF InsertLead, Goto, turnVars, committed, limiter
  <2>2. \A u \in Turn : Weight'[u] <= Weight[u]
    BY <2>1 DEF Weight, TypeOK
  <2> QED
    BY <2>1, <2>2, NoHeavier
<1>4. ASSUME NEW t \in Turn,
             \/ Begin(t) \/ SelectConversation(t) \/ InsertConversation(t)
             \/ UniqueViolation(t) \/ SelectTicket(t) \/ InsertTicket(t) \/ Answer(t)
             \/ PendingRollback(t) \/ AuditFails(t) \/ DatabaseError(t)
      PROVE  Admitted'
  <2>1. UNCHANGED <<session, leads, count, restarts>>
    BY <1>4 DEF Begin, SelectConversation, InsertConversation, UniqueViolation,
       SelectTicket, InsertTicket, Answer, PendingRollback, AuditFails, DatabaseError,
       Rollback, turnVars, committed, limiter
  <2>2. /\ \A u \in Turn : newLeads'[u] = newLeads[u] \/ newLeads'[u] = 0
        /\ \A u \in Turn : pc'[u] = "insert_lead" => pc[u] = "insert_lead"
    BY <1>4 DEF Begin, SelectConversation, InsertConversation, UniqueViolation,
       SelectTicket, InsertTicket, Answer, PendingRollback, AuditFails, DatabaseError,
       Rollback, Goto, uncommitted, TypeOK
  <2>3. \A u \in Turn : Weight'[u] <= Weight[u]
    BY <2>2 DEF Weight, TypeOK
  <2> QED
    BY <2>1, <2>3, NoHeavier
<1>5. CASE Restart
  <2> SUFFICES ASSUME NEW s \in Session
               PROVE  leads'[s] + Total(Weight', Of(s)) <= count'[s] + restarts' * LeadCap
    BY <1>5 DEF Admitted, Of, Restart
  <2>1. /\ leads' = leads /\ restarts' = restarts + 1 /\ count'[s] = 0
        /\ \A t \in Turn : newLeads'[t] = 0 /\ pc'[t] # "insert_lead"
    BY <1>5 DEF Restart, Running, committed, TypeOK
  <2>2. IsFiniteSet(Of(s)) /\ Of(s) \subseteq Turn
    BY FS_Subset DEF Of
  <2>3. \A t \in Of(s) : Weight'[t] = 0
    BY <2>1, <2>2 DEF Weight
  <2>4. Total(Weight', Of(s)) = 0
    BY <2>2, <2>3, TotalOfZeros
  <2>5. Total(Weight, Of(s)) \in Nat
    BY <2>2, WeightType, TotalOfMore
  <2>6. leads[s] + Total(Weight, Of(s)) <= count[s] + restarts * LeadCap
    BY DEF Admitted
  <2>7. leads[s] \in Nat /\ count[s] \in 0..LeadCap /\ restarts \in Nat /\ LeadCap \in Nat
    BY ChatDataAssumption DEF ChatDataAssumption, TypeOK
  <2>8. (restarts + 1) * LeadCap = restarts * LeadCap + LeadCap /\ restarts * LeadCap \in Nat
    BY <2>7
  <2> QED
    BY <2>1, <2>4, <2>5, <2>6, <2>7, <2>8
<1>6. CASE UNCHANGED vars
  <2>1. UNCHANGED <<session, leads, count, restarts, pc, newLeads>>
    BY <1>6 DEF vars, turnVars, committed, uncommitted, limiter
  <2>2. Weight' = Weight /\ Weight \in [Turn -> Nat]
    BY <2>1, WeightType DEF Weight
  <2> QED
    BY <2>1, <2>2, NoHeavier
<1> QED
  BY <1>1, <1>2, <1>3, <1>4, <1>5, <1>6 DEF Next, TurnStep

\* Over every interleaving of a session's turns, its stored and uncommitted leads
\* were all admitted by the limiter, whose count starts again with the server.
THEOREM LeadsWithinCap == ASSUME IsFiniteSet(Turn) PROVE Spec => []LeadsAdmitted
<1>1. Init => IInv /\ Admitted
  BY InitIInv, InitAdmitted
<1>2. IInv /\ Admitted /\ [Next]_vars => (IInv /\ Admitted)'
  BY StepIInv, StepAdmitted DEF IInv
<1>3. IInv /\ Admitted => LeadsAdmitted
  <2> SUFFICES ASSUME TypeOK, Admitted, NEW s \in Session
               PROVE  leads[s] + MapThenSumSet(LAMBDA t : newLeads[t], Of(s))
                          <= count[s] + restarts * LeadCap
    BY DEF IInv, LeadsAdmitted, Of
  <2>1. MapThenSumSet(LAMBDA t : newLeads[t], Of(s)) = Total(newLeads, Of(s))
    BY DEF MapThenSumSet, Total
  <2>2. /\ IsFiniteSet(Of(s))
        /\ \A t \in Of(s) : newLeads[t] \in Int /\ Weight[t] \in Int
                              /\ newLeads[t] <= Weight[t]
    BY FS_Subset DEF Of, Weight, TypeOK
  <2>3. Total(newLeads, Of(s)) <= Total(Weight, Of(s))
    BY <2>2, TotalGrows
  <2>4. Total(newLeads, Of(s)) \in Int /\ Total(Weight, Of(s)) \in Int
    BY <2>2, TotalWithout
  <2>5. leads[s] + Total(Weight, Of(s)) <= count[s] + restarts * LeadCap
    BY DEF Admitted
  <2>6. leads[s] \in Nat /\ count[s] \in Nat /\ restarts * LeadCap \in Nat
    BY ChatDataAssumption DEF ChatDataAssumption, TypeOK
  <2> QED
    BY <2>1, <2>3, <2>4, <2>5, <2>6
<1> QED
  BY <1>1, <1>2, <1>3, PTL DEF Spec
=============================================================================
