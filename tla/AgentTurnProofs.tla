-------------------------- MODULE AgentTurnProofs --------------------------
(***************************************************************************)
(* Safety of AgentTurn for every value of its constants: the inductive     *)
(* invariant, the exit audits, the caps of the loop, the caution of the    *)
(* router, and that every behaviour of a turn is one that TurnContract     *)
(* allows.                                                                 *)
(***************************************************************************)
EXTENDS AgentTurn, TLAPS

WorkflowPcs == {"blocked", "rag_search", "capture_lead", "escalate"}
AgentPcs == {"agent", "llm", "tools", "plan", "planned"}

\* The turn is where its verdict sent it.
RouteFollowed ==
    /\ pc \in WorkflowPcs => RouteOf(verdict) = pc
    /\ pc \in AgentPcs => RouteOf(verdict) = "agent"
    /\ pc # "route" => verdict \in Verdicts

\* Until the turn closes, only the plan has something to answer or a ticket,
\* and a ticket is the last thing the plan obtains.
HandOverIsLast ==
    /\ pc \in {"route"} \cup WorkflowPcs \cup (AgentPcs \ {"planned"})
          => answer = {} /\ tickets = 0
    /\ tickets \in {0, 1}
    /\ pc \in {"planned", "done"} => (tickets = 1 <=> "handed_over" \in answer)
    /\ pc = "planned" /\ tickets = 1 => pending = <<>>

\* TypeOK without the flag: a Boolean variable is kept away from arithmetic.
DataTypeOK ==
    /\ pc \in PcValues
    /\ verdict \in Verdicts \cup {Unclassified}
    /\ iterations \in 0..MAX_AGENT_ITERATIONS
    /\ tokens \in Nat
    /\ pending \in Seq(Requests)
    /\ lastLead \in Statuses \cup {"none"}
    /\ used \in SUBSET Requests
    /\ leads \in Nat
    /\ tickets \in Nat
    /\ audits \in [completed : Nat, cap_hit : Nat]
    /\ answer \in SUBSET Claims

\* The model is consulted under the token cap only.
LoopUnderTokenCap ==
    /\ pc \in {"route"} \cup WorkflowPcs \cup {"agent"} => tokens = 0
    /\ pc = "llm" => tokens < MAX_AGENT_TOKENS_PER_TURN

\* What the loop remembers of capture_lead is backed by a stored lead.
LeadRemembered == lastLead = "captured" => leads > 0

\* The inductive invariant.
IInv ==
    /\ DataTypeOK
    /\ escalated \in BOOLEAN
    /\ OneExitAudit
    /\ RouteFollowed
    /\ HandOverIsLast
    /\ LoopUnderTokenCap
    /\ LeadRemembered

LEMMA RouteOfVerdict ==
    ASSUME NEW v \in Verdicts
    PROVE  /\ RouteOf(v) \in WorkflowPcs \cup {"agent"}
           /\ RouteOf(v) \in WorkflowPcs \ {"blocked"}
                 => v.source = "classifier" /\ v.confident
BY DEF Verdicts, RouteOf, LABEL_TO_ROUTE, Labels, WorkflowPcs

LEMMA AuditsCounted ==
    ASSUME audits \in [completed : Nat, cap_hit : Nat]
    PROVE  /\ [audits EXCEPT !.completed = @ + 1] \in [completed : Nat, cap_hit : Nat]
           /\ [audits EXCEPT !.cap_hit = @ + 1] \in [completed : Nat, cap_hit : Nat]
OBVIOUS

LEMMA PlansAreRequests == Plans \subseteq Seq(Requests)
<1>1. /\ <<"escalate">> \in Seq(Requests)
      /\ <<"rag_search", "capture_lead">> \in Seq(Requests)
  BY DEF Requests, Tools
<1>2. /\ <<"capture_lead">> \in Seq(Requests)
      /\ <<"rag_search">> \in Seq(Requests)
  BY DEF Requests, Tools
<1> QED
  BY <1>1, <1>2 DEF Plans

LEMMA InitIInv == Init => IInv
<1> SUFFICES ASSUME Init PROVE IInv
  OBVIOUS
<1>1. DataTypeOK
  BY CapsAssumption DEF CapsAssumption, Init, DataTypeOK, PcValues
<1>2. escalated \in BOOLEAN
  BY DEF Init
<1>3. OneExitAudit
  BY DEF Init, OneExitAudit
<1>4. RouteFollowed
  BY DEF Init, RouteFollowed, WorkflowPcs, AgentPcs
<1>5. HandOverIsLast
  BY DEF Init, HandOverIsLast
<1>6. LoopUnderTokenCap
  BY CapsAssumption DEF CapsAssumption, Init, LoopUnderTokenCap
<1>7. LeadRemembered
  BY DEF Init, LeadRemembered
<1> QED
  BY <1>1, <1>2, <1>3, <1>4, <1>5, <1>6, <1>7 DEF IInv

\* Record changes what the loop remembers and what it stored together.
LEMMA LeadStep == ASSUME IInv, [Next]_vars PROVE LeadRemembered'
<1> USE DEF IInv
<1>1. CASE Workflow
  BY <1>1 DEF Workflow, LeadRemembered, DataTypeOK, RouteMessage, Blocked,
     WorkflowRag, WorkflowCapture, WorkflowEscalate, WorkflowRaises, Reply, Record,
     Stored, Raise
<1>2. CASE Loop
  BY <1>2 DEF Loop, LeadRemembered, DataTypeOK, StartAgent, LlmRaises, LlmText,
     LlmToolCalls, RunTool, EscalateByModel, AgentToolRaises, NextIteration,
     TokenCapHit, IterationCapHit, CapHitRaises, Completion, CapHitPath, Reply,
     FallbackClaims, Record, Stored, Raise
<1>3. CASE Plan
  BY <1>3 DEF Plan, LeadRemembered, DataTypeOK, PlanCapHit, MakePlan, PlannedRag,
     PlannedCapture, PlannedEscalate, FinishPlan, CapHitPath, Reply, Record, Stored
<1>4. CASE UNCHANGED vars
  BY <1>4 DEF vars, LeadRemembered, DataTypeOK
<1> QED
  BY <1>1, <1>2, <1>3, <1>4 DEF Next

\* Only NextIteration and StartAgent lead to the model, both under the cap.
LEMMA TokenStep == ASSUME IInv, [Next]_vars PROVE LoopUnderTokenCap'
<1> USE DEF IInv
<1>1. CASE RouteMessage
  BY <1>1, RouteOfVerdict DEF RouteMessage, LoopUnderTokenCap, WorkflowPcs
<1>2. CASE Workflow /\ ~RouteMessage
  <2>1. pc' \in {"done", "failed"}
    BY <1>2 DEF Workflow, Blocked, WorkflowRag, WorkflowCapture, WorkflowEscalate,
       WorkflowRaises, Reply, Raise
  <2> QED
    BY <2>1 DEF LoopUnderTokenCap, WorkflowPcs
<1>3. CASE StartAgent
  BY <1>3, CapsAssumption DEF CapsAssumption, StartAgent, LoopUnderTokenCap,
     WorkflowPcs
<1>4. CASE NextIteration
  BY <1>4, CapsAssumption DEF CapsAssumption, NextIteration, TokenCapReached,
     LoopUnderTokenCap, WorkflowPcs, DataTypeOK
<1>5. CASE Loop /\ ~StartAgent /\ ~NextIteration
  <2>1. pc' \in {"tools", "plan", "done", "failed"}
    BY <1>5 DEF Loop, LlmRaises, LlmText, LlmToolCalls, RunTool, EscalateByModel,
       AgentToolRaises, TokenCapHit, IterationCapHit, CapHitRaises, CapHitPath,
       Reply, Raise
  <2> QED
    BY <2>1 DEF LoopUnderTokenCap, WorkflowPcs
<1>6. CASE Plan
  <2>1. pc' \in {"planned", "done"}
    BY <1>6 DEF Plan, PlanCapHit, MakePlan, PlannedRag, PlannedCapture,
       PlannedEscalate, FinishPlan, CapHitPath, Reply
  <2> QED
    BY <2>1 DEF LoopUnderTokenCap, WorkflowPcs
<1>7. CASE UNCHANGED vars
  BY <1>7 DEF vars, LoopUnderTokenCap
<1> QED
  BY <1>1, <1>2, <1>3, <1>4, <1>5, <1>6, <1>7 DEF Next

\* A hand-over is answered at once, or empties what is left of the plan.
LEMMA HandOverStep == ASSUME IInv, [Next]_vars PROVE HandOverIsLast'
<1> USE DEF IInv
<1>1. CASE Workflow
  BY <1>1, RouteOfVerdict DEF Workflow, HandOverIsLast, WorkflowPcs, AgentPcs,
     DataTypeOK, RouteMessage, Blocked, WorkflowRag, WorkflowCapture,
     WorkflowEscalate, WorkflowRaises, Reply, Record, Stored, Raise
<1>2. CASE Loop
  BY <1>2 DEF Loop, HandOverIsLast, WorkflowPcs, AgentPcs, DataTypeOK, StartAgent,
     LlmRaises, LlmText, LlmToolCalls, RunTool, EscalateByModel, AgentToolRaises,
     NextIteration, TokenCapHit, IterationCapHit, CapHitRaises, Completion,
     CapHitPath, Reply, FallbackClaims, Record, Stored, Raise
<1>3. CASE Plan
  BY <1>3 DEF Plan, HandOverIsLast, WorkflowPcs, AgentPcs, DataTypeOK, PlanCapHit,
     MakePlan, PlannedRag, PlannedCapture, PlannedEscalate, FinishPlan, CapHitPath,
     Reply, Record, Stored
<1>4. CASE UNCHANGED vars
  BY <1>4 DEF vars, HandOverIsLast, DataTypeOK
<1> QED
  BY <1>1, <1>2, <1>3, <1>4 DEF Next

\* Every answer of the agent comes with its audit.
LEMMA AuditStep == ASSUME IInv, [Next]_vars PROVE OneExitAudit'
<1> USE DEF IInv
<1>1. CASE Workflow
  BY <1>1, RouteOfVerdict DEF Workflow, OneExitAudit, RouteFollowed, WorkflowPcs,
     AgentPcs, DataTypeOK, RouteMessage, Blocked, WorkflowRag, WorkflowCapture,
     WorkflowEscalate, WorkflowRaises, Reply, Record, Stored, Raise
<1>2. CASE Loop
  BY <1>2 DEF Loop, OneExitAudit, RouteFollowed, WorkflowPcs, AgentPcs, DataTypeOK,
     StartAgent, LlmRaises, LlmText, LlmToolCalls, RunTool, EscalateByModel,
     AgentToolRaises, NextIteration, TokenCapHit, IterationCapHit, CapHitRaises,
     Completion, CapHitPath, Reply, FallbackClaims, Record, Stored, Raise
<1>3. CASE Plan
  BY <1>3 DEF Plan, OneExitAudit, RouteFollowed, WorkflowPcs, AgentPcs, DataTypeOK,
     PlanCapHit, MakePlan, PlannedRag, PlannedCapture, PlannedEscalate, FinishPlan,
     CapHitPath, Reply, Record, Stored
<1>4. CASE UNCHANGED vars
  BY <1>4 DEF vars, OneExitAudit, RouteFollowed, DataTypeOK
<1> QED
  BY <1>1, <1>2, <1>3, <1>4 DEF Next

\* Only RouteMessage leaves the start, to where the verdict sends it.
LEMMA RouteStep == ASSUME IInv, [Next]_vars PROVE RouteFollowed'
<1> USE DEF IInv
<1>1. CASE Workflow
  BY <1>1, RouteOfVerdict DEF Workflow, RouteFollowed, WorkflowPcs, AgentPcs,
     DataTypeOK, Unclassified, Verdicts, RouteMessage, Blocked, WorkflowRag,
     WorkflowCapture, WorkflowEscalate, WorkflowRaises, Reply, Record, Stored, Raise
<1>2. CASE Loop
  BY <1>2 DEF Loop, RouteFollowed, WorkflowPcs, AgentPcs, DataTypeOK, Unclassified,
     Verdicts, StartAgent, LlmRaises, LlmText, LlmToolCalls, RunTool,
     EscalateByModel, AgentToolRaises, NextIteration, TokenCapHit, IterationCapHit,
     CapHitRaises, Completion, CapHitPath, Reply, FallbackClaims, Record, Stored,
     Raise
<1>3. CASE Plan
  BY <1>3 DEF Plan, RouteFollowed, WorkflowPcs, AgentPcs, DataTypeOK, Unclassified,
     Verdicts, PlanCapHit, MakePlan, PlannedRag, PlannedCapture, PlannedEscalate,
     FinishPlan, CapHitPath, Reply, Record, Stored
<1>4. CASE UNCHANGED vars
  BY <1>4 DEF vars, RouteFollowed, DataTypeOK
<1> QED
  BY <1>1, <1>2, <1>3, <1>4 DEF Next

\* The flag of the result stays a Boolean.
LEMMA FlagStep == ASSUME IInv, [Next]_vars PROVE escalated' \in BOOLEAN
<1> USE DEF IInv
<1>1. CASE Workflow
  BY <1>1 DEF Workflow, RouteMessage, Blocked, WorkflowRag, WorkflowCapture,
     WorkflowEscalate, WorkflowRaises, Reply, Record, Stored, Raise
<1>2. CASE LlmText
  BY <1>2 DEF LlmText
<1>3. CASE Loop /\ ~LlmText
  BY <1>3 DEF Loop, StartAgent, LlmRaises, LlmToolCalls, RunTool, EscalateByModel,
     AgentToolRaises, NextIteration, TokenCapHit, IterationCapHit, CapHitRaises,
     Completion, CapHitPath, Reply, FallbackClaims, Record, Stored, Raise
<1>4. CASE Plan
  BY <1>4 DEF Plan, PlanCapHit, MakePlan, PlannedRag, PlannedCapture,
     PlannedEscalate, FinishPlan, CapHitPath, Reply, Record, Stored
<1>5. CASE UNCHANGED vars
  BY <1>5 DEF vars
<1> QED
  BY <1>1, <1>2, <1>3, <1>4, <1>5 DEF Next, Loop

LEMMA StatusesOfTools ==
    ASSUME NEW tool
    PROVE  StatusOf(tool) \subseteq Statuses /\ ProgramStatusOf(tool) \subseteq Statuses
BY DEF StatusOf, ProgramStatusOf, Statuses

LEMMA RecordTypes ==
    ASSUME DataTypeOK, NEW tool, NEW status \in Statuses, Record(tool, status)
    PROVE  lastLead' \in Statuses \cup {"none"} /\ leads' \in Nat
BY DEF DataTypeOK, Record, Stored

LEMMA CapHitTypes == ASSUME IInv, CapHitPath PROVE DataTypeOK'
<1>1. audits' \in [completed : Nat, cap_hit : Nat]
  BY AuditsCounted DEF CapHitPath, IInv, DataTypeOK
<1>2. /\ pc' \in PcValues
      /\ verdict' \in Verdicts \cup {Unclassified}
      /\ iterations' \in 0..MAX_AGENT_ITERATIONS
      /\ tokens' \in Nat
      /\ answer' \in SUBSET Claims
  BY DEF CapHitPath, Reply, IInv, DataTypeOK, PcValues, Claims
<1>3. /\ pending' \in Seq(Requests)
      /\ lastLead' \in Statuses \cup {"none"}
      /\ used' \in SUBSET Requests
      /\ leads' \in Nat
      /\ tickets' \in Nat
  BY DEF CapHitPath, Record, Stored, IInv, DataTypeOK, Requests, Tools, Statuses
<1> QED
  BY <1>1, <1>2, <1>3 DEF DataTypeOK

\* No step takes a variable out of its type; the counters grow under their guards.
LEMMA TypeStep == ASSUME IInv, [Next]_vars PROVE DataTypeOK'
<1> USE CapsAssumption DEF CapsAssumption, IInv
<1>1. CASE RouteMessage
  BY <1>1, RouteOfVerdict DEF RouteMessage, DataTypeOK, PcValues, Requests, Tools,
     Statuses, Claims, WorkflowPcs
<1>2. CASE Blocked
  BY <1>2 DEF Blocked, Reply, DataTypeOK, PcValues, Claims
<1>3. CASE WorkflowRag
  BY <1>3 DEF WorkflowRag, Reply, Record, Stored, DataTypeOK, PcValues, Requests,
     Tools, Statuses, Claims
<1>4. CASE WorkflowCapture
  <2>1. lastLead' \in Statuses \cup {"none"} /\ leads' \in Nat
    BY <1>4, StatusesOfTools, RecordTypes DEF WorkflowCapture
  <2>2. used' \in SUBSET Requests /\ answer' \in SUBSET Claims /\ pc' \in PcValues
    BY <1>4 DEF WorkflowCapture, Reply, Requests, Tools, Claims, PcValues
  <2> QED
    BY <1>4, <2>1, <2>2 DEF WorkflowCapture, DataTypeOK
<1>5. CASE WorkflowEscalate
  BY <1>5 DEF WorkflowEscalate, Reply, Record, Stored, DataTypeOK, PcValues,
     Requests, Tools, Statuses, Claims
<1>6. CASE WorkflowRaises
  BY <1>6 DEF WorkflowRaises, Raise, DataTypeOK, PcValues
<1>7. CASE StartAgent
  BY <1>7 DEF StartAgent, DataTypeOK, PcValues
<1>8. CASE LlmRaises
  BY <1>8 DEF LlmRaises, IterationsLeft, CountIteration, DataTypeOK, PcValues,
     Requests, Tools, Statuses, Claims
<1>9. CASE LlmText
  <2>1. audits' \in [completed : Nat, cap_hit : Nat]
    BY <1>9, AuditsCounted DEF LlmText, DataTypeOK
  <2>2. answer' \in SUBSET Claims
    BY <1>9 DEF LlmText, Reply, FallbackClaims, Claims
  <2>3. /\ pc' \in PcValues
        /\ verdict' \in Verdicts \cup {Unclassified}
        /\ iterations' \in 0..MAX_AGENT_ITERATIONS
        /\ tokens' \in Nat
    <3>1. pc' \in PcValues
      BY <1>9 DEF LlmText, Reply, PcValues
    <3>2. verdict' \in Verdicts \cup {Unclassified}
      BY <1>9 DEF LlmText, DataTypeOK
    <3>3. iterations' \in 0..MAX_AGENT_ITERATIONS
      BY <1>9 DEF LlmText, Completion, IterationsLeft, CountIteration, DataTypeOK
    <3>4. tokens' \in Nat
      BY <1>9 DEF LlmText, Completion, DataTypeOK
    <3> QED
      BY <3>1, <3>2, <3>3, <3>4
  <2>4. /\ pending' \in Seq(Requests)
        /\ lastLead' \in Statuses \cup {"none"}
        /\ used' \in SUBSET Requests
        /\ leads' \in Nat
        /\ tickets' \in Nat
    BY <1>9 DEF LlmText, Completion, IterationsLeft, CountIteration, Reply,
       FallbackClaims, DataTypeOK, Requests, Tools, Statuses
  <2> QED
    BY <2>1, <2>2, <2>3, <2>4 DEF DataTypeOK
<1>10. CASE LlmToolCalls
  BY <1>10 DEF LlmToolCalls, Completion, IterationsLeft, CountIteration, Batches,
     DataTypeOK, PcValues, Requests, Tools, Statuses, Claims
<1>11. CASE RunTool
  <2>1. lastLead' \in Statuses \cup {"none"} /\ leads' \in Nat
    BY <1>11, StatusesOfTools, RecordTypes DEF RunTool
  <2>2. used' \in SUBSET Requests /\ pending' \in Seq(Requests)
    BY <1>11 DEF RunTool, DataTypeOK
  <2> QED
    BY <1>11, <2>1, <2>2 DEF RunTool, DataTypeOK
<1>12. CASE EscalateByModel
  <2>1. audits' \in [completed : Nat, cap_hit : Nat]
    BY <1>12, AuditsCounted DEF EscalateByModel, DataTypeOK
  <2>2. answer' \in SUBSET Claims
    BY <1>12 DEF EscalateByModel, Reply, FallbackClaims, Claims
  <2>3. /\ pc' \in PcValues
        /\ verdict' \in Verdicts \cup {Unclassified}
        /\ iterations' \in 0..MAX_AGENT_ITERATIONS
        /\ tokens' \in Nat
    BY <1>12 DEF EscalateByModel, Reply, Record, Stored, DataTypeOK, PcValues
  <2>4. lastLead' \in Statuses \cup {"none"} /\ leads' \in Nat
    BY <1>12, RecordTypes DEF EscalateByModel, Statuses
  <2>5. pending' \in Seq(Requests) /\ tickets' \in Nat
    BY <1>12 DEF EscalateByModel, DataTypeOK
  <2>6. used' \in SUBSET Requests
    BY <1>12 DEF EscalateByModel, DataTypeOK, Requests, Tools
  <2> QED
    BY <2>1, <2>2, <2>3, <2>4, <2>5, <2>6 DEF DataTypeOK
<1>13. CASE AgentToolRaises
  BY <1>13 DEF AgentToolRaises, Raise, DataTypeOK, PcValues
<1>14. CASE NextIteration
  BY <1>14 DEF NextIteration, DataTypeOK, PcValues
<1>15. CASE TokenCapHit
  BY <1>15, CapHitTypes DEF TokenCapHit
<1>16. CASE IterationCapHit
  BY <1>16, CapHitTypes DEF IterationCapHit
<1>17. CASE CapHitRaises
  BY <1>17 DEF CapHitRaises, Raise, DataTypeOK, PcValues
<1>18. CASE PlanCapHit
  BY <1>18, CapHitTypes DEF PlanCapHit
<1>19. CASE MakePlan
  BY <1>19, PlansAreRequests DEF MakePlan, DataTypeOK, PcValues, Requests, Tools,
     Statuses, Claims
<1>20. CASE PlannedRag
  <2>1. lastLead' \in Statuses \cup {"none"} /\ leads' \in Nat
    BY <1>20, StatusesOfTools, RecordTypes DEF PlannedRag
  <2>2. used' \in SUBSET Requests /\ pending' \in Seq(Requests)
    BY <1>20 DEF PlannedRag, DataTypeOK, Requests, Tools
  <2>3. answer' \in SUBSET Claims
    BY <1>20 DEF PlannedRag, DataTypeOK, Claims
  <2> QED
    BY <1>20, <2>1, <2>2, <2>3 DEF PlannedRag, DataTypeOK
<1>21. CASE PlannedCapture
  <2>1. lastLead' \in Statuses \cup {"none"} /\ leads' \in Nat
    BY <1>21, StatusesOfTools, RecordTypes DEF PlannedCapture
  <2>2. used' \in SUBSET Requests /\ pending' \in Seq(Requests)
    BY <1>21 DEF PlannedCapture, DataTypeOK, Requests, Tools
  <2>3. answer' \in SUBSET Claims
    BY <1>21 DEF PlannedCapture, DataTypeOK, Claims
  <2> QED
    BY <1>21, <2>1, <2>2, <2>3 DEF PlannedCapture, DataTypeOK
<1>22. CASE PlannedEscalate
  BY <1>22 DEF PlannedEscalate, Record, Stored, DataTypeOK, PcValues, Requests,
     Tools, Statuses, Claims
<1>23. CASE FinishPlan
  BY <1>23 DEF FinishPlan, DataTypeOK, PcValues, Requests, Tools, Statuses, Claims
<1>24. CASE UNCHANGED vars
  BY <1>24 DEF vars, DataTypeOK
<1> QED
  BY <1>1, <1>2, <1>3, <1>4, <1>5, <1>6, <1>7, <1>8, <1>9, <1>10, <1>11, <1>12,
     <1>13, <1>14, <1>15, <1>16, <1>17, <1>18, <1>19, <1>20, <1>21, <1>22, <1>23, <1>24
  DEF Next, Workflow, Loop, Plan

LEMMA StepIInv == IInv /\ [Next]_vars => IInv'
BY TypeStep, FlagStep, AuditStep, RouteStep, HandOverStep, TokenStep, LeadStep DEF
   IInv

\* The strengthening of the properties below is invariant.
THEOREM Invariance == Spec => []IInv
BY InitIInv, StepIInv, PTL DEF Spec

\* Every variable keeps its type and the loop stays within its iterations.
THEOREM TypeCorrect == Spec => []TypeOK
<1>1. IInv => TypeOK
  BY DEF IInv, DataTypeOK, TypeOK
<1> QED
  BY <1>1, Invariance, PTL

\* agent.py:18-24: a turn of the agent that answers leaves one exit audit.
THEOREM OneAuditPerExit == Spec => []OneExitAudit
<1>1. IInv => OneExitAudit
  BY DEF IInv
<1> QED
  BY <1>1, Invariance, PTL

\* agent.py:60-61: no completion is requested past one of the two caps.
THEOREM CapsBoundCalls == Spec => NoCallPastACap
<1> DEFINE Guarded == iterations' > iterations => /\ iterations < MAX_AGENT_ITERATIONS
                                      /\ pc = "llm"
                                      /\ tokens < MAX_AGENT_TOKENS_PER_TURN
<1>1. IInv /\ [Next]_vars => [Guarded]_vars
  <2> SUFFICES ASSUME IInv, Next, iterations' > iterations PROVE Guarded
    BY DEF vars
  <2>1. LlmRaises \/ LlmText \/ LlmToolCalls
    <3>1. iterations' # iterations
      BY DEF IInv, DataTypeOK
    <3> QED
      BY <3>1 DEF Next, Workflow, Loop, Plan, RouteMessage, Blocked, WorkflowRag,
         WorkflowCapture, WorkflowEscalate, WorkflowRaises, StartAgent, RunTool,
         EscalateByModel, AgentToolRaises, NextIteration, TokenCapHit,
         IterationCapHit, CapHitRaises, PlanCapHit, MakePlan, PlannedRag,
         PlannedCapture, PlannedEscalate, FinishPlan, CapHitPath, Raise
  <2>2. pc = "llm" /\ iterations < MAX_AGENT_ITERATIONS
    BY <2>1 DEF LlmRaises, LlmText, LlmToolCalls, Completion, IterationsLeft
  <2> QED
    BY <2>2 DEF IInv, LoopUnderTokenCap
<1> QED
  BY <1>1, Invariance, PTL DEF Spec, NoCallPastACap

\* agent.py:502-505: the loop announces a captured lead only after storing one.
THEOREM LoopTellsTheTruth == Spec => LoopLeadClaimIsTrue
<1> DEFINE Truth == pc = "llm" /\ pc' = "done" /\ "captured" \in answer' => leads > 0
<1>1. IInv /\ [Next]_vars => [Truth]_vars
  <2> SUFFICES ASSUME IInv, Next, pc = "llm", pc' = "done", "captured" \in answer'
               PROVE  leads > 0
    BY DEF vars
  <2>1. LlmText \/ IterationCapHit
    BY DEF Next, Workflow, Loop, Plan, RouteMessage, Blocked, WorkflowRag,
       WorkflowCapture, WorkflowEscalate, WorkflowRaises, StartAgent, LlmRaises,
       LlmToolCalls, RunTool, EscalateByModel, AgentToolRaises, NextIteration,
       TokenCapHit, CapHitRaises, PlanCapHit, MakePlan, PlannedRag, PlannedCapture,
       PlannedEscalate, FinishPlan, Raise
  <2>2. LlmText
    BY <2>1 DEF IterationCapHit, CapHitPath, Reply
  <2>3. lastLead = "captured"
    BY <2>2 DEF LlmText, Reply, FallbackClaims, LastLeadStored
  <2> QED
    BY <2>3 DEF IInv, LeadRemembered
<1> QED
  BY <1>1, Invariance, PTL DEF Spec, LoopLeadClaimIsTrue

\* router.py:75: without a confident label only the agent's tools write.
THEOREM RouterIsCautious == Spec => UncertainNeverWrites
<1> DEFINE Cautious ==
       leads + tickets < leads' + tickets'
          => \/ pc \in {"llm", "tools", "plan", "planned"}
             \/ verdict.source = "classifier" /\ verdict.confident
<1>1. IInv /\ [Next]_vars => [Cautious]_vars
  <2> SUFFICES ASSUME IInv, Next, leads + tickets < leads' + tickets',
                      pc \notin {"llm", "tools", "plan", "planned"}
               PROVE  verdict.source = "classifier" /\ verdict.confident
    BY DEF vars
  <2>1. leads' # leads \/ tickets' # tickets
    BY DEF IInv, DataTypeOK
  <2>2. WorkflowRag \/ WorkflowCapture \/ WorkflowEscalate
    BY <2>1 DEF Next, Workflow, Loop, Plan, RouteMessage, Blocked, WorkflowRaises,
       StartAgent, LlmRaises, LlmText, LlmToolCalls, Completion, RunTool,
       EscalateByModel, AgentToolRaises, NextIteration, TokenCapHit,
       IterationCapHit, CapHitRaises, PlanCapHit, MakePlan, PlannedRag,
       PlannedCapture, PlannedEscalate, FinishPlan, Raise
  <2>3. pc \in WorkflowPcs \ {"blocked"}
    BY <2>2 DEF WorkflowRag, WorkflowCapture, WorkflowEscalate, WorkflowPcs
  <2>4. verdict \in Verdicts /\ RouteOf(verdict) \in WorkflowPcs \ {"blocked"}
    BY <2>3 DEF IInv, RouteFollowed, WorkflowPcs
  <2> QED
    BY <2>4, RouteOfVerdict
<1> QED
  BY <1>1, Invariance, PTL DEF Spec, UncertainNeverWrites

----------------------------------------------------------------------------
(* Refinement *)

LEMMA InitRefines == Init => Contract!Init
BY DEF Init, Contract!Init, Outcome

\* A step that changes neither the rows nor the outcome.
Invisible == UNCHANGED <<leads, tickets, Outcome>>

LEMMA StepRefines == IInv /\ [Next]_vars => [Contract!Next]_Contract!vars
<1> SUFFICES ASSUME IInv, [Next]_vars
             PROVE  Contract!Next \/ Invisible
  BY DEF Contract!vars, Invisible
<1> USE DEF IInv
<1>1. CASE RouteMessage
  BY <1>1, RouteOfVerdict DEF RouteMessage, WorkflowPcs, Outcome, Invisible
<1>2. CASE StartAgent
  BY <1>2 DEF StartAgent, Outcome, Invisible
<1>3. CASE LlmRaises
  BY <1>3 DEF LlmRaises, Outcome, Invisible
<1>4. CASE LlmToolCalls
  BY <1>4 DEF LlmToolCalls, Completion, Outcome, Invisible
<1>5. CASE NextIteration
  BY <1>5 DEF NextIteration, Outcome, Invisible
<1>6. CASE MakePlan
  BY <1>6 DEF MakePlan, Outcome, Invisible
<1>7. CASE Blocked
  <2>1. Contract!Answer
    BY <1>7 DEF Blocked, Reply, HandOverIsLast, WorkflowPcs, Outcome,
       Contract!Answer, Contract!Open
  <2> QED
    BY <2>1 DEF Contract!Next
<1>8. CASE WorkflowRag
  <2>1. Contract!Answer
    BY <1>8 DEF WorkflowRag, Record, Stored, Reply, HandOverIsLast, WorkflowPcs,
       Outcome, DataTypeOK, Contract!Answer, Contract!Open
  <2> QED
    BY <2>1 DEF Contract!Next
<1>9. CASE LlmText
  <2>1. Outcome = "open" /\ tickets = 0 /\ UNCHANGED <<leads, tickets>>
    BY <1>9 DEF LlmText, Completion, HandOverIsLast, AgentPcs, Outcome
  <2>2. Outcome' \in {"answered", "promised"}
    BY <1>9 DEF LlmText, FallbackClaims, Reply, Outcome
  <2> QED
    BY <2>1, <2>2 DEF Contract!Next, Contract!Answer, Contract!Promise, Contract!Open
<1>10. CASE WorkflowCapture
  <2>1. Outcome = "open" /\ tickets = 0 /\ tickets' = tickets
    BY <1>10 DEF WorkflowCapture, HandOverIsLast, WorkflowPcs, Outcome
  <2>2. PICK status \in ProgramStatusOf("capture_lead"), contact \in BOOLEAN :
           /\ Record("capture_lead", status)
           /\ Reply(CASE status = "rate_limited" -> {"already_captured", "follow_up"}
                      [] status # "rate_limited" /\ contact -> {"captured"}
                      [] OTHER -> {"share_contact"})
    BY <1>10 DEF WorkflowCapture
  <2>3. CASE status = "rate_limited"
    <3>1. leads' = leads /\ Outcome' = "promised"
      BY <2>2, <2>3 DEF Record, Stored, Reply, Outcome, DataTypeOK
    <3> QED
      BY <2>1, <3>1 DEF Contract!Next, Contract!Promise, Contract!Open
  <2>4. CASE status # "rate_limited"
    <3>1. Outcome' = "answered"
      BY <2>2, <2>4 DEF Reply, Outcome
    <3>2. leads' = leads \/ leads' = leads + 1
      BY <2>2 DEF Record, Stored, DataTypeOK
    <3> QED
      BY <2>1, <3>1, <3>2 DEF Contract!Next, Contract!Answer,
         Contract!CaptureAndAnswer, Contract!Open
  <2> QED
    BY <2>3, <2>4
<1>11. CASE RunTool
  <2>1. Outcome = "open" /\ Outcome' = "open" /\ tickets = 0 /\ tickets' = tickets
    BY <1>11 DEF RunTool, HandOverIsLast, AgentPcs, Outcome
  <2>2. leads' = leads \/ leads' = leads + 1
    BY <1>11 DEF RunTool, Record, Stored, DataTypeOK
  <2>3. CASE leads' = leads
    BY <2>1, <2>3 DEF Invisible
  <2>4. CASE leads' = leads + 1
    BY <2>1, <2>4 DEF Contract!Next, Contract!CaptureLead, Contract!Open
  <2> QED
    BY <2>2, <2>3, <2>4
<1>12. CASE PlannedCapture
  <2>1. Outcome = "open" /\ Outcome' = "open" /\ tickets = 0 /\ tickets' = tickets
    BY <1>12 DEF PlannedCapture, HandOverIsLast, AgentPcs, Outcome
  <2>2. leads' = leads \/ leads' = leads + 1
    BY <1>12 DEF PlannedCapture, Record, Stored, DataTypeOK
  <2>3. CASE leads' = leads
    BY <2>1, <2>3 DEF Invisible
  <2>4. CASE leads' = leads + 1
    BY <2>1, <2>4 DEF Contract!Next, Contract!CaptureLead, Contract!Open
  <2> QED
    BY <2>2, <2>3, <2>4
<1>13. CASE PlannedRag
  <2>1. Outcome = "open" /\ Outcome' = "open" /\ tickets = 0 /\ tickets' = tickets
    BY <1>13 DEF PlannedRag, HandOverIsLast, AgentPcs, Outcome
  <2>2. leads' = leads \/ leads' = leads + 1
    BY <1>13 DEF PlannedRag, Record, Stored, DataTypeOK
  <2>3. CASE leads' = leads
    BY <2>1, <2>3 DEF Invisible
  <2>4. CASE leads' = leads + 1
    BY <2>1, <2>4 DEF Contract!Next, Contract!CaptureLead, Contract!Open
  <2> QED
    BY <2>2, <2>3, <2>4
<1>14. CASE WorkflowEscalate
  <2>1. Contract!HandOverAndClose
    BY <1>14 DEF WorkflowEscalate, Record, Stored, Reply, HandOverIsLast,
       WorkflowPcs, AgentPcs, Outcome, DataTypeOK, Contract!HandOverAndClose,
       Contract!Open
  <2> QED
    BY <2>1 DEF Contract!Next
<1>15. CASE EscalateByModel
  <2>1. Contract!HandOverAndClose
    BY <1>15 DEF EscalateByModel, Record, Stored, Reply, HandOverIsLast,
       WorkflowPcs, AgentPcs, Outcome, DataTypeOK, Contract!HandOverAndClose,
       Contract!Open
  <2> QED
    BY <2>1 DEF Contract!Next
<1>16. CASE TokenCapHit
  <2>1. Contract!HandOverAndClose
    BY <1>16 DEF TokenCapHit, CapHitPath, Record, Stored, Reply, HandOverIsLast,
       WorkflowPcs, AgentPcs, Outcome, DataTypeOK, Contract!HandOverAndClose,
       Contract!Open
  <2> QED
    BY <2>1 DEF Contract!Next
<1>17. CASE IterationCapHit
  <2>1. Contract!HandOverAndClose
    BY <1>17 DEF IterationCapHit, CapHitPath, Record, Stored, Reply, HandOverIsLast,
       WorkflowPcs, AgentPcs, Outcome, DataTypeOK, Contract!HandOverAndClose,
       Contract!Open
  <2> QED
    BY <2>1 DEF Contract!Next
<1>18. CASE PlanCapHit
  <2>1. Contract!HandOverAndClose
    BY <1>18 DEF PlanCapHit, CapHitPath, Record, Stored, Reply, HandOverIsLast,
       WorkflowPcs, AgentPcs, Outcome, DataTypeOK, Contract!HandOverAndClose,
       Contract!Open
  <2> QED
    BY <2>1 DEF Contract!Next
<1>19. CASE PlannedEscalate
  <2>1. Contract!HandOver
    BY <1>19 DEF PlannedEscalate, Record, Stored, HandOverIsLast, Outcome,
       DataTypeOK, Contract!HandOver, Contract!Open
  <2> QED
    BY <2>1 DEF Contract!Next
<1>20. CASE FinishPlan
  <2>1. CASE "handed_over" \in answer
    <3>1. Contract!CloseHandedOver
      BY <1>20, <2>1 DEF FinishPlan, HandOverIsLast, Outcome,
         Contract!CloseHandedOver, Contract!Open
    <3> QED
      BY <3>1 DEF Contract!Next
  <2>2. CASE ~("handed_over" \in answer)
    <3>1. Contract!Answer \/ Contract!Promise
      BY <1>20, <2>2 DEF FinishPlan, HandOverIsLast, Outcome, Contract!Answer,
         Contract!Promise, Contract!Open
    <3> QED
      BY <3>1 DEF Contract!Next
  <2> QED
    BY <2>1, <2>2
<1>21. CASE WorkflowRaises
  <2>1. Contract!Fail
    BY <1>21 DEF WorkflowRaises, Raise, Outcome, Contract!Fail, Contract!Open
  <2> QED
    BY <2>1 DEF Contract!Next
<1>22. CASE AgentToolRaises
  <2>1. Contract!Fail
    BY <1>22 DEF AgentToolRaises, Raise, Outcome, Contract!Fail, Contract!Open
  <2> QED
    BY <2>1 DEF Contract!Next
<1>23. CASE CapHitRaises
  <2>1. Contract!Fail
    BY <1>23 DEF CapHitRaises, Raise, Outcome, Contract!Fail, Contract!Open
  <2> QED
    BY <2>1 DEF Contract!Next
<1>24. CASE UNCHANGED vars
  BY <1>24 DEF vars, Outcome, Invisible
<1> QED
  BY <1>1, <1>2, <1>3, <1>4, <1>5, <1>6, <1>7, <1>8, <1>9, <1>10, <1>11, <1>12,
     <1>13, <1>14, <1>15, <1>16, <1>17, <1>18, <1>19, <1>20, <1>21, <1>22, <1>23, <1>24
  DEF Next, Workflow, Loop, Plan

\* Every turn is one that TurnContract allows: leads while it is open, at most
\* one hand-over, after which nothing is written, and one closing answer, which
\* says that the conversation was handed over exactly when it was.
THEOREM TurnRefinesContract == Spec => ContractSpec
BY InitRefines, StepRefines, Invariance, PTL DEF Spec, ContractSpec, Contract!Spec
=============================================================================
