------------------------------ MODULE Registry ------------------------------
(***************************************************************************)
(* The node packs that the server registers (internal/registry), each a    *)
(* table of its operations.                                                *)
(***************************************************************************)
Saas     == INSTANCE SaasNodes
Cloud    == INSTANCE CloudNodes
Google   == INSTANCE GoogleNodes
Service  == INSTANCE ServiceNodes
Data     == INSTANCE DataNodes
Protocol == INSTANCE ProtocolNodes
Aws      == INSTANCE AwsNodes
Ai       == INSTANCE AiNodes
Core     == INSTANCE CoreNodes

(* Every operation of every pack.                                          *)
AllPlans == UNION {Saas!SaasPlans, Cloud!CloudPlans, Google!GooglePlans, Service!ServicePlans,
                   Data!DataPlans, Protocol!ProtocolPlans, Aws!AwsPlans, Ai!AiPlans,
                   Core!CorePlans}
=============================================================================
