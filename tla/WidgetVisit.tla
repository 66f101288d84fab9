----------------------------- MODULE WidgetVisit ------------------------------
(***************************************************************************)
(* A visit: the host page and its widget (WidgetClient) with the turns     *)
(* that its calls start on the server (SessionMemory), over a network that *)
(* may lose a request or its answer.  The widget token may run out.        *)
(***************************************************************************)
EXTENDS WidgetClient, SessionMemory

VARIABLES
    live,       \* the widget token the frame holds has not expired
    open        \* history: for each question, the turns the server began less
                \* the failures the widget was told

vars == <<clientVars, memoryVars, live, open>>

ASSUME VisitAssumption == \A b \in Budgets : 1..b.calls \subseteq Turn

Question == UNION {1..b.asked : b \in Budgets}

Init ==
    /\ ClientInit /\ MemoryInit
    /\ live = TRUE
    /\ open = [q \in Question |-> 0]

\* The client's own steps; the server is not concerned.
AtPage == PageStep /\ UNCHANGED <<memoryVars, live, open>>
AtVisitor == VisitorStep /\ UNCHANGED <<memoryVars, live, open>>

Told(c, outcome) ==
    /\ Settle(c, outcome)
    /\ open' = IF outcome = "ok" THEN open ELSE [open EXCEPT ![c.question] = @ - 1]

\* get_tenant_id_from_widget_token: 401, or the turn begins.
Arrive(c) ==
    /\ c \in calls /\ pc[c.id] = "new"
    /\ IF live
       THEN /\ Begin(c.id)
            /\ open' = [open EXCEPT ![c.question] = @ + 1]
            /\ UNCHANGED clientVars
       ELSE Told(c, "expired") /\ UNCHANGED memoryVars
    /\ UNCHANGED live

LoseRequest(c) ==
    /\ c \in calls /\ pc[c.id] = "new"
    /\ Told(c, "network")
    /\ UNCHANGED <<memoryVars, live>>

\* The answer is sent before the session commits (FastAPI from 0.118 on) or
\* after it (before): pyproject.toml:7 allows either.
Reply(c) ==
    /\ c \in calls /\ pc[c.id] \in {"commit", "replied", "failed"}
    /\ Told(c, IF pc[c.id] = "failed" THEN "server" ELSE "ok")
    /\ UNCHANGED <<memoryVars, live>>

\* The connection ends; the turn goes on.
LoseReply(c) ==
    /\ c \in calls /\ pc[c.id] # "new"
    /\ Told(c, "network")
    /\ UNCHANGED <<memoryVars, live>>

RunTurn(t) ==
    /\ TurnStep(t) /\ losses' <= budget.losses
    /\ UNCHANGED <<clientVars, live, open>>

TokenExpires ==
    /\ live /\ session = "held"
    /\ live' = FALSE
    /\ UNCHANGED <<clientVars, memoryVars, open>>

MemoryExpires == Forget /\ UNCHANGED <<clientVars, live, open>>

Next ==
    \/ AtPage \/ AtVisitor
    \/ \E c \in calls : Arrive(c) \/ LoseRequest(c) \/ Reply(c) \/ LoseReply(c)
    \/ \E t \in Turn : RunTurn(t)
    \/ TokenExpires \/ MemoryExpires

\* A message that was posted is delivered, fetch ends, the server's turns go
\* on: something of this happens while it can.  (One fairness for all of it is
\* enough where, as within the bounds here, no step can be taken for ever.)
Proceed == AtPage \/ (\E c \in calls : Arrive(c) \/ Reply(c)) \/ (\E t \in Turn : RunTurn(t))
Fairness == WF_vars(Proceed)

Spec == Init /\ [][Next]_vars /\ Fairness

----------------------------------------------------------------------------
(* Properties *)

Statuses == {"idle", "sending", "error", "expired"}

\* Every variable has its type.
TypeOK ==
    /\ script \in [Script -> {"new", "waiting", "done"}]
    /\ greeted \in {"no", "posted", "got", "missed"}
    /\ app \in {"waiting_for_host_origin", "exchanging", "ready", "unavailable"}
    /\ chat.status \in Statuses /\ chat.pendingPrompt \in 0..asked
    /\ \A i \in DOMAIN chat.messages : chat.messages[i].question \in 1..asked
    /\ \A c \in calls : c.id \in 1..made /\ c.question \in 1..asked
    /\ orphans \subseteq Question
    /\ \A i \in DOMAIN list : list[i] \in [turn : Turn, role : {"user", "assistant"}]
    /\ notice \subseteq Turn /\ seen \subseteq Turn /\ broken \subseteq Turn

\* widget.js:10, "Idempotent: at most one iframe per data-widget-id per
\* page": however many tags load the script, before or after the body.
OneFrame == frames <= 1

\* The spinner shows exactly while a question is out, whatever the call comes
\* to; after the page was hidden it may be out without the spinner, never the
\* other way round.
SpinnerTellsTheCall ==
    /\ chat.status = "sending" => calls # {}
    /\ hides = 0 => Cardinality(calls) = (IF chat.status = "sending" THEN 1 ELSE 0)

\* An answer is shown below its question, but for one whose question was wiped
\* while it was out, and once.  (After a hide the retry of another question may
\* have it answered twice.)
AnswersFollowQuestions ==
    LET shown == chat.messages
        answers == {i \in DOMAIN shown : shown[i].role = "assistant"}
    IN \A i \in answers :
        /\ \/ shown[i].question \in orphans
           \/ \E j \in 1..(i - 1) : shown[j] = User(shown[i].question)
        /\ hides = 0 => \A j \in answers : shown[j] = shown[i] => j = i

\* Only after a failure is a question sent again, and once for each: the server
\* runs a question at most once more than the widget was told of a failure of
\* it.  (After a hide the failure of a wiped question can make the next one be
\* sent again.)
QuestionsRepeatOnlyFailures ==
    hides = 0 => \A q \in Question : open[q] <= 1

\* useChatReducer.ts:53-93, 154-189: what the visitor sees and what the server
\* is asked stay in step, through failures, retries, lost replies and resets.
ConversationInStep ==
    SpinnerTellsTheCall /\ AnswersFollowQuestions /\ QuestionsRepeatOnlyFailures

\* chat_service.py:70-79: a history that was read has the visitor's message it
\* is to answer, unless the turn's own append of it lost Redis or newer messages
\* have pushed it out; what other turns lose takes nothing from it.
MemoryServesTheTurn ==
    [][\A t \in Turn :
        /\ pc[t] = "lrange" /\ pc'[t] # "lrange"
        /\ losses' = losses /\ Message(t, "user.rpush") \notin cut
        => \/ Message(t, "user.rpush") \in {list[i] : i \in DOMAIN list}
           \/ newer[t] >= MaxMessages]_vars

\* The message's append has calls to make.
UnderWay(m) ==
    \E s \in Trims \cup Expires : pc[m.turn] = s /\ m = Message(m.turn, s)

\* Between appends the session's list holds its last max_messages, and an append
\* that lost Redis can only add its own message to that.  A list without an
\* expiry is made of nothing but messages whose append lost Redis or still goes
\* on: one complete append is enough for the list to expire.
MemoryBounded ==
    /\ Len(list) <= MaxMessages + losses + Cardinality({t \in Turn : pc[t] \in Trims})
    /\ ~ttl => \A i \in DOMAIN list : list[i] \in cut \/ UnderWay(list[i])

\* The loss of Redis has exactly one memory.unavailable row in a session, that of
\* the turn that met it first, however many turns meet it at the same time; it
\* has none for ever once that turn fails or cannot write it.
OneNotice ==
    /\ seen = {} <=> losses = 0
    /\ seen = {} => notices = 0 /\ notice = {}
    /\ \A t \in seen :
          notices + Cardinality(notice) =
              IF pc[t] = "failed" \/ t \in broken THEN 0 ELSE 1

\* cache.py:87-89, chat_service.py:231-234: what concurrent turns, losing Redis
\* or not, leave of the session's list and of the report of the loss.
MemoryIsTidy == MemoryBounded /\ OneNotice

\* main.tsx:45-63, useChatReducer.ts:142-167: a frame that was told its host
\* becomes ready or unavailable, and no question spins for ever: it ends in an
\* answer, the retry banner or the reload prompt.
Waiting == app = "exchanging" \/ chat.status = "sending"
WaitsEnd == Waiting ~> ~Waiting
=============================================================================
