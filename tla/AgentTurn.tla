------------------------------ MODULE AgentTurn ------------------------------
(***************************************************************************)
(* One visitor turn: ChatService.handle_message picks a route, the         *)
(* workflow paths call one tool, and the agent path runs the bounded       *)
(* tool-calling loop, or the deterministic plan when there is no language  *)
(* model or when a call to it raises.                                      *)
(*                                                                         *)
(* The environment is free: the classifier's verdict, what the model asks  *)
(* for, the tokens it consumes, whether its call raises, and what a tool   *)
(* returns or raises.  Text is abstracted to the claim it makes to the     *)
(* visitor; tool arguments to whether they pass their schema.  The rows    *)
(* the tools write are modelled, with concurrent turns, in ChatData.       *)
(***************************************************************************)
EXTENDS Integers, Sequences

CONSTANTS
    MAX_AGENT_ITERATIONS,       \* calls to the model per turn
    MAX_AGENT_TOKENS_PER_TURN,  \* token cap, scaled down for model checking
    TokenUsage,                 \* tokens one completion may report
    WordCounts,                 \* sizes the deterministic budget may find
    MaxToolCalls                \* bound: tool calls in one completion

\* The deterministic plan never has more than two tools, so a cap of two
\* already makes its own iteration check unreachable (agent.py:542).
ASSUME CapsAssumption ==
    /\ MAX_AGENT_ITERATIONS \in Nat /\ MAX_AGENT_ITERATIONS >= 2
    /\ MAX_AGENT_TOKENS_PER_TURN \in Nat \ {0}
    /\ TokenUsage \subseteq Nat
    /\ WordCounts \subseteq Nat \ {0}
    /\ MaxToolCalls \in Nat \ {0}

VARIABLES
    pc,         \* where the turn is
    verdict,    \* what the router learnt about the message
    iterations, \* of the loop, counted before each call
    tokens,     \* cumulative_tokens
    pending,    \* tool calls still to execute
    lastLead,   \* status of the loop's last capture_lead, or "none"
    used,       \* used_tools of the result under construction, as a set
    leads,      \* history: leads this turn stored
    tickets,    \* history: escalate calls that returned "escalated"
    audits,     \* exit audits emitted: turn_completed and *_cap_hit
    answer,     \* the claims the answer makes
    escalated   \* AgentResult.escalated

vars == <<pc, verdict, iterations, tokens, pending, lastLead, used, leads, tickets, audits,
          answer, escalated>>

----------------------------------------------------------------------------
(* Routing *)

Labels == {"spam", "faq", "sales_or_contact", "human_request", "ambiguous"}

\* What the router can learn about a message: it is blank, the classifier is
\* unreachable, or a label whose confidence reaches the threshold or not.  The
\* keyword rules used without a classifier yield the confident verdicts.
Verdicts ==
    [source : {"blank", "unavailable"}] \cup
    [source : {"classifier"}, label : Labels, confident : BOOLEAN]

LABEL_TO_ROUTE ==
    [spam |-> "blocked", faq |-> "rag_search",
     sales_or_contact |-> "capture_lead", human_request |-> "escalate",
     ambiguous |-> "agent"]

Unclassified == [source |-> "none"]

\* An uncertain label is trusted like a confident one.
RouteOf_trusting(v) ==
    CASE v.source = "blank" -> "blocked"
      [] v.source = "unavailable" -> "agent"
      [] v.source = "classifier" -> LABEL_TO_ROUTE[v.label]

RouteOf(v) ==
    CASE v.source = "blank" -> "blocked"
      [] v.source = "unavailable" -> "agent"
      [] v.source = "classifier" ->
            IF v.label \notin {"spam", "ambiguous"} /\ ~v.confident
            THEN "agent"
            ELSE LABEL_TO_ROUTE[v.label]

----------------------------------------------------------------------------
(* Tools *)

Tools == {"rag_search", "capture_lead", "escalate"}

\* Anything else the model names is answered with "tool_not_allowed".
Requests == Tools \cup {"unknown"}

Statuses ==
    {"ok", "captured", "rate_limited", "escalated", "invalid_args",
     "tool_not_allowed"}

\* What a call requested by the model may return: its arguments may fail the
\* schema of any tool.
StatusOf(tool) ==
    CASE tool = "rag_search" -> {"ok", "invalid_args"}
      [] tool = "capture_lead" -> {"captured", "rate_limited", "invalid_args"}
      [] tool = "escalate" -> {"escalated", "invalid_args"}
      [] OTHER -> {"tool_not_allowed"}

\* A call the program makes itself: the reasons it gives to escalate always
\* pass the schema, but a message of more than 500 characters does not pass
\* RagSearchArgs and an extracted phone number such as 555.123.4567 does not
\* pass CaptureLeadArgs.
ProgramStatusOf(tool) ==
    IF tool = "escalate" THEN {"escalated"} ELSE StatusOf(tool)

\* The claims an answer can make.  "follow_up" is the announcement that the
\* team will reach out or follow up; a text of the model, whatever it says, is
\* "free_text".
Claims ==
    {"refused", "grounded", "captured", "already_captured", "share_contact",
     "handed_over", "follow_up", "free_text", "recorded"}

Stored(status) == IF status = "captured" THEN 1 ELSE 0

\* What a call leaves behind: a lead, and the loop's memory of capture_lead.
Record(tool, status) ==
    /\ lastLead' = IF tool = "capture_lead" THEN status ELSE lastLead
    /\ leads' = leads + Stored(status)

----------------------------------------------------------------------------
Init ==
    /\ pc = "route"
    /\ verdict = Unclassified
    /\ iterations = 0
    /\ tokens = 0
    /\ pending = <<>>
    /\ lastLead = "none"
    /\ used = {}
    /\ leads = 0
    /\ tickets = 0
    /\ audits = [completed |-> 0, cap_hit |-> 0]
    /\ answer = {}
    /\ escalated = FALSE

\* Only the answer and the end of the turn change.
Reply(claims) ==
    /\ pc' = "done"
    /\ answer' = claims

\* An exception leaves the handler: the visitor gets an error response.
Raise ==
    /\ pc' = "failed"
    /\ UNCHANGED <<verdict, iterations, tokens, pending, lastLead, used, leads, tickets,
                   audits, answer, escalated>>

RouteMessage ==
    /\ pc = "route"
    /\ verdict' \in Verdicts
    /\ pc' = RouteOf(verdict')
    /\ UNCHANGED <<iterations, tokens, pending, lastLead, used, leads, tickets,
                   audits, answer, escalated>>

\* _execute_decision, the four routes that need no agent.
Blocked ==
    /\ pc = "blocked"
    /\ Reply({"refused"})
    /\ UNCHANGED <<verdict, iterations, tokens, pending, lastLead, used, leads, tickets,
                   audits, escalated>>

WorkflowRag ==
    /\ pc = "rag_search"
    /\ Record("rag_search", "ok")
    /\ used' = {"rag_search"}
    /\ Reply({"grounded"})
    /\ UNCHANGED <<verdict, iterations, tokens, pending, tickets, audits, escalated>>

\* The payload of a refused rag_search has no "answer" (tools.py:131-135), and
\* chat_service.py:128 indexes it: that turn raises, as does a turn whose tool
\* meets a database error.
WorkflowRaises ==
    /\ pc \in {"rag_search", "capture_lead", "escalate"}
    /\ Raise

WorkflowCapture ==
    /\ pc = "capture_lead"
    /\ \E status \in ProgramStatusOf("capture_lead"), contact \in BOOLEAN :
        /\ status = "invalid_args" => contact
        /\ Record("capture_lead", status)
        /\ Reply(CASE status = "rate_limited" -> {"already_captured", "follow_up"}
                   [] status # "rate_limited" /\ contact -> {"captured"}
                   [] OTHER -> {"share_contact"})
    /\ used' = {"capture_lead"}
    /\ UNCHANGED <<verdict, iterations, tokens, pending, tickets, audits, escalated>>

WorkflowEscalate ==
    /\ pc = "escalate"
    /\ Record("escalate", "escalated")
    /\ tickets' = tickets + 1
    /\ used' = {"escalate"}
    /\ Reply({"handed_over"})
    /\ UNCHANGED <<verdict, iterations, tokens, pending, audits, escalated>>

----------------------------------------------------------------------------
(* run_agent *)

\* The turn enters the loop when a Groq client exists, else the plan.
StartAgent ==
    /\ pc = "agent"
    /\ pc' \in {"llm", "plan"}
    /\ UNCHANGED <<verdict, iterations, tokens, pending, lastLead, used, leads, tickets,
                   audits, answer, escalated>>

\* while iterations < MAX_AGENT_ITERATIONS
IterationsLeft_lenient == iterations <= MAX_AGENT_ITERATIONS

IterationsLeft == iterations < MAX_AGENT_ITERATIONS

TokenCapReached_never == FALSE

TokenCapReached == tokens >= MAX_AGENT_TOKENS_PER_TURN

CountIteration_forgotten == UNCHANGED iterations

CountIteration == iterations' = iterations + 1

\* The completion starts one more iteration and adds its tokens.
Completion ==
    /\ pc = "llm"
    /\ IterationsLeft
    /\ CountIteration
    /\ \E usage \in TokenUsage : tokens' = tokens + usage

\* The call raises: the deterministic plan starts over with its own budget
\* and empty lists, whatever tools already ran.
LlmRaises ==
    /\ pc = "llm"
    /\ IterationsLeft
    /\ CountIteration
    /\ pc' = "plan"
    /\ used' = {}
    /\ UNCHANGED <<verdict, tokens, pending, lastLead, leads, tickets, audits, answer,
                   escalated>>

\* _fallback_text_answer: a blank reply claims a captured lead only if the
\* last capture_lead of the loop was stored, and announces the team either way.
LastLeadStored_anyStatus == lastLead # "none"

LastLeadStored == lastLead = "captured"

FallbackClaims ==
    {"follow_up", IF LastLeadStored THEN "captured" ELSE "recorded"}

\* A completion without tool calls ends the turn; no cap is consulted.
LlmText ==
    /\ Completion
    /\ \E claims \in {{"free_text"}, FallbackClaims} : Reply(claims)
    /\ audits' = [audits EXCEPT !.completed = @ + 1]
    /\ escalated' = ("escalate" \in used)
    /\ UNCHANGED <<verdict, pending, lastLead, used, leads, tickets>>

Batches == UNION {[1..n -> Requests] : n \in 1..MaxToolCalls}

LlmToolCalls ==
    /\ Completion
    /\ pending' \in Batches
    /\ pc' = "tools"
    /\ UNCHANGED <<verdict, lastLead, used, leads, tickets, audits, answer, escalated>>

\* One tool call that does not hand the conversation over.
RunTool ==
    /\ pc = "tools"
    /\ pending # <<>>
    /\ \E status \in StatusOf(Head(pending)) \ {"escalated"} :
          Record(Head(pending), status)
    /\ used' = used \cup {Head(pending)}
    /\ pending' = Tail(pending)
    /\ UNCHANGED <<pc, verdict, iterations, tokens, tickets, audits, answer, escalated>>

\* The loop goes on as if the hand-over were any other tool result.
EscalateByModel_continues ==
    /\ pc = "tools"
    /\ pending # <<>> /\ Head(pending) = "escalate"
    /\ Record("escalate", "escalated")
    /\ tickets' = tickets + 1
    /\ used' = used \cup {"escalate"}
    /\ pending' = Tail(pending)
    /\ UNCHANGED <<pc, verdict, iterations, tokens, audits, answer, escalated>>

\* escalate returned a ticket: the calls after it in the batch are dropped.
EscalateByModel ==
    /\ pc = "tools"
    /\ pending # <<>> /\ Head(pending) = "escalate"
    /\ Record("escalate", "escalated")
    /\ tickets' = tickets + 1
    /\ used' = used \cup {"escalate"}
    /\ pending' = <<>>
    /\ audits' = [audits EXCEPT !.completed = @ + 1]
    /\ escalated' = TRUE
    /\ Reply({"handed_over"})
    /\ UNCHANGED <<verdict, iterations, tokens>>

\* The exception of a tool is not caught by the loop.
AgentToolRaises ==
    /\ pc \in {"tools", "planned"}
    /\ pending # <<>>
    /\ Raise

NextIteration ==
    /\ pc = "tools"
    /\ pending = <<>>
    /\ ~TokenCapReached
    /\ pc' = "llm"
    /\ UNCHANGED <<verdict, iterations, tokens, pending, lastLead, used, leads, tickets,
                   audits, answer, escalated>>

\* _cap_hit_path: one escalate with a fixed reason, whose ticket ends the turn.
CapHitPath ==
    /\ Record("escalate", "escalated")
    /\ tickets' = tickets + 1
    /\ used' = used \cup {"escalate"}
    /\ audits' = [audits EXCEPT !.cap_hit = @ + 1]
    /\ escalated' = TRUE
    /\ Reply({"handed_over"})
    /\ UNCHANGED <<verdict, iterations, tokens, pending>>

TokenCapHit ==
    /\ pc = "tools"
    /\ pending = <<>>
    /\ TokenCapReached
    /\ CapHitPath

IterationCapHit ==
    /\ pc = "llm"
    /\ ~IterationsLeft
    /\ CapHitPath

\* The budget of the deterministic plan is its own word count.
PlanCapHit ==
    /\ pc = "plan"
    /\ \E words \in WordCounts : words >= MAX_AGENT_TOKENS_PER_TURN
    /\ CapHitPath

CapHitRaises ==
    /\ \/ pc = "tools" /\ pending = <<>> /\ TokenCapReached
       \/ pc = "llm" /\ ~IterationsLeft
       \/ pc = "plan" /\ \E words \in WordCounts :
                            words >= MAX_AGENT_TOKENS_PER_TURN
    /\ Raise

----------------------------------------------------------------------------
(* _run_deterministic *)

Plans ==
    {<<"escalate">>, <<"rag_search", "capture_lead">>, <<"capture_lead">>,
     <<"rag_search">>}

MakePlan ==
    /\ pc = "plan"
    /\ \E words \in WordCounts : words < MAX_AGENT_TOKENS_PER_TURN
    /\ pending' \in Plans
    /\ pc' = "planned"
    /\ UNCHANGED <<verdict, iterations, tokens, lastLead, used, leads, tickets, audits, answer,
                   escalated>>

\* rag_search adds its answer (nothing when its arguments were refused).
PlannedRag ==
    /\ pc = "planned"
    /\ pending # <<>> /\ Head(pending) = "rag_search"
    /\ \E status \in ProgramStatusOf("rag_search") :
        /\ Record("rag_search", status)
        /\ answer' = answer \cup (IF status = "ok" THEN {"grounded"} ELSE {})
    /\ used' = used \cup {"rag_search"}
    /\ pending' = Tail(pending)
    /\ UNCHANGED <<pc, verdict, iterations, tokens, tickets, audits, escalated>>

\* has_contact is part of a stored lead's payload only, so a refused call
\* falls through to the answer that announces a captured follow-up request.
PlannedCapture ==
    /\ pc = "planned"
    /\ pending # <<>> /\ Head(pending) = "capture_lead"
    /\ \E status \in ProgramStatusOf("capture_lead"), contact \in BOOLEAN :
        /\ status = "invalid_args" => contact
        /\ Record("capture_lead", status)
        /\ answer' = answer \cup
              CASE status = "rate_limited" -> {"already_captured", "follow_up"}
                [] status = "captured" /\ ~contact -> {"share_contact"}
                [] OTHER -> {"captured", "follow_up"}
    /\ used' = used \cup {"capture_lead"}
    /\ pending' = Tail(pending)
    /\ UNCHANGED <<pc, verdict, iterations, tokens, tickets, audits, escalated>>

\* escalate ends the plan.
PlannedEscalate ==
    /\ pc = "planned"
    /\ pending # <<>> /\ Head(pending) = "escalate"
    /\ Record("escalate", "escalated")
    /\ tickets' = tickets + 1
    /\ answer' = answer \cup {"handed_over"}
    /\ used' = used \cup {"escalate"}
    /\ escalated' = TRUE
    /\ pending' = <<>>
    /\ UNCHANGED <<pc, verdict, iterations, tokens, audits>>

\* A plan without an answer takes the cap-hit path after turn_completed.
FinishPlan_emptyAnswer ==
    /\ pc = "planned"
    /\ pending = <<>>
    /\ audits' = [completed |-> audits.completed + 1,
                  cap_hit |-> IF answer = {} THEN audits.cap_hit + 1
                                             ELSE audits.cap_hit]
    /\ pc' = "done"
    /\ UNCHANGED <<verdict, iterations, tokens, pending, lastLead, used, leads, tickets,
                   answer, escalated>>

\* Every tool of a plan appends an answer part, so the cap-hit path after the
\* plan (agent.py:614) is never taken.
FinishPlan ==
    /\ pc = "planned"
    /\ pending = <<>>
    /\ audits' = [audits EXCEPT !.completed = @ + 1]
    /\ pc' = "done"
    /\ UNCHANGED <<verdict, iterations, tokens, pending, lastLead, used, leads, tickets,
                   answer, escalated>>

----------------------------------------------------------------------------
Workflow ==
    \/ RouteMessage \/ Blocked \/ WorkflowRag \/ WorkflowCapture
    \/ WorkflowEscalate \/ WorkflowRaises

Loop ==
    \/ StartAgent \/ LlmRaises \/ LlmText \/ LlmToolCalls \/ RunTool
    \/ EscalateByModel \/ AgentToolRaises \/ NextIteration \/ TokenCapHit
    \/ IterationCapHit \/ CapHitRaises

Plan ==
    \/ PlanCapHit \/ MakePlan \/ PlannedRag \/ PlannedCapture
    \/ PlannedEscalate \/ FinishPlan

Next == Workflow \/ Loop \/ Plan

\* The coroutine is always resumed: the model's call and every query either
\* return or raise (the client and the driver carry timeouts).
Spec == Init /\ [][Next]_vars /\ WF_vars(Next)

----------------------------------------------------------------------------
(* Properties *)

PcValues ==
    {"route", "blocked", "rag_search", "capture_lead", "escalate", "agent",
     "llm", "tools", "plan", "planned", "done", "failed"}

Finished == pc \in {"done", "failed"}

\* Every variable has its type; the loop counter stays within its cap.
TypeOK ==
    /\ pc \in PcValues
    /\ verdict \in Verdicts \cup {Unclassified}
    /\ iterations \in 0..MAX_AGENT_ITERATIONS
    /\ tokens \in Nat
    /\ pending \in Seq(Requests)
    /\ lastLead \in Statuses \cup {"none"}
    /\ used \in SUBSET Requests
    /\ leads \in Nat
    /\ tickets \in Nat
    /\ audits \in [completed : Nat, cap_hit : Nat]
    /\ answer \in SUBSET Claims
    /\ escalated \in BOOLEAN

\* agent.py:18-24: a turn of the agent that answers has emitted exactly one of
\* turn_completed and cap_hit, on every way out of the loop and of the plan it
\* may fall back to; a turn that is open, raised or never met the agent, none.
OneExitAudit ==
    audits.completed + audits.cap_hit =
        IF pc = "done" /\ RouteOf(verdict) = "agent" THEN 1 ELSE 0

\* agent.py:60-61: the model is not consulted again once the loop has used its
\* iterations or a batch of tool calls has ended over the token cap.
NoCallPastACap ==
    [][iterations' > iterations => /\ iterations < MAX_AGENT_ITERATIONS
                       /\ pc = "llm" /\ tokens < MAX_AGENT_TOKENS_PER_TURN]_vars

\* agent.py:502-505: a reply of the loop that announces captured details comes
\* after this turn stored a lead.
LoopLeadClaimIsTrue ==
    [][pc = "llm" /\ pc' = "done" /\ "captured" \in answer' => leads > 0]_vars

\* FR-017 of specs/010 (router.py:75): when the classifier is unreachable or
\* not confident, a turn writes a lead or a ticket only through the agent's
\* tools, never because the router sent it to a writing workflow.
UncertainNeverWrites ==
    [][leads + tickets < leads' + tickets'
          => \/ pc \in {"llm", "tools", "plan", "planned"}
             \/ verdict.source = "classifier" /\ verdict.confident]_vars

\* Every turn ends, with an answer or with an error.
Termination == <>Finished

\* The abstract contract of a turn: a hand-over is announced exactly when it
\* happened, and an answer that announces the team without one is a promise.
Outcome ==
    CASE pc = "failed" -> "failed"
      [] pc = "done" /\ "handed_over" \in answer -> "handed_over"
      [] pc = "done" /\ "handed_over" \notin answer ->
            IF "follow_up" \in answer THEN "promised" ELSE "answered"
      [] OTHER -> "open"

Contract == INSTANCE TurnContract WITH outcome <- Outcome

ContractSpec == Contract!Spec

\* Claimed by the answers of chat_service.py:159 and agent.py:594: a visitor
\* who reads that the request was captured has a stored lead.
CapturedClaimIsTrue ==
    pc = "done" /\ "captured" \in answer => leads > 0
=============================================================================
