---------------------------- MODULE MCTenantContent ----------------------------
(***************************************************************************)
(* What a tenant has: a page and its chunks (CmsIndex), how a body is cut  *)
(* into them (Chunking, with a least chunk of three characters, around     *)
(* every boundary), and the rows an erasure finds (TenantLifecycle).  A    *)
(* behaviour follows one of the three.                                     *)
(***************************************************************************)
EXTENDS MCCmsIndex, MCTenantLifecycle, Chunking

MCLengths == 0..9
MCSizes == -1..6
MCOverlaps == -1..7

VARIABLE follows    \* bound: "page", "text", "tenant"
allVars == <<vars, tenantVars, chunkVars, follows>>

\* What is not followed keeps one of its initial states.
MCInit ==
    /\ follows \in {"page", "text", "tenant"}
    /\ Init /\ TenantInit /\ ChunkInit
    /\ follows # "tenant" => op = [m \in Manager |-> "erase"]
    /\ follows # "text" => length = 0 /\ size = MinSize /\ overlap = 0

MCNext ==
    \/ follows = "page" /\ Next /\ UNCHANGED <<tenantVars, chunkVars, follows>>
    \/ follows = "tenant" /\ TenantNext /\ UNCHANGED <<vars, chunkVars, follows>>
    \/ follows = "text" /\ ChunkNext /\ UNCHANGED <<vars, tenantVars, follows>>

\* Only that some request goes on: less than Fairness and TenantFairness ask.
Proceed ==
    \/ \E r \in Request : RequestStep(r) /\ UNCHANGED <<tenantVars, chunkVars, follows>>
    \/ follows = "tenant" /\ \E m \in Manager : ManagerStep(m)
       /\ UNCHANGED <<vars, chunkVars, follows>>

MCSpec == MCInit /\ [][MCNext]_allVars /\ WF_allVars(Proceed)

\* Every variable has its type.
TypesOK == TypeOK /\ TenantTypeOK /\ ChunkTypeOK
=============================================================================
