------------------------------ MODULE Workflow ------------------------------
(***************************************************************************)
(* The workflow graph the executor walks: the helpers of                   *)
(* server/internal/engine/engine.go that read a schema.Workflow.           *)
(*                                                                         *)
(* Items are abstracted to what the walk tells apart: whether the output   *)
(* port an edge leaves from carries at least one item.  "live" below is a  *)
(* set of edges that carry items.                                          *)
(***************************************************************************)
EXTENDS Naturals, Sequences

CONSTANTS
    NodeOrder,    \* wf.Nodes: the nodes, in the order of the document
    Edges,        \* wf.Edges, as pairs <<source, target>>
    TriggerTypes, \* the nodes whose definition has IsTrigger
    WaitNodes,    \* the nodes whose Execute returns a SuspendRequest
    Unregistered  \* the nodes whose type is not in the registry

Node == {NodeOrder[i] : i \in DOMAIN NodeOrder}

Incoming(n) == {e \in Edges : e[2] = n}
Outgoing(n) == {e \in Edges : e[1] = n}
Sources(n)  == {e[1] : e \in Incoming(n)}

(* isReady: every upstream source has been visited.  (IsReady_AnySource, as*)
(* every definition named X_..., is X with a plausible bug: the README says*)
(* which property notices it.)                                             *)
IsReady_AnySource(n, visited) == Sources(n) \cap visited # {}

IsReady(n, visited) == Sources(n) \subseteq visited

(* The targets enqueueReadySuccessors appends to the ready list after n.   *)
ReadySuccessors(n, visited) ==
    {m \in Node \ visited : <<n, m>> \in Edges /\ IsReady(m, visited)}

(* frontier: where a partially executed walk continues.                    *)
Frontier(visited) == UNION {ReadySuccessors(n, visited) : n \in visited}

(* findTrigger: the first trigger node of the document, else the first     *)
(* node without incoming edges.                                            *)
FirstIn(S) ==
    NodeOrder[CHOOSE i \in DOMAIN NodeOrder :
                /\ NodeOrder[i] \in S
                /\ \A j \in DOMAIN NodeOrder : NodeOrder[j] \in S => i <= j]

Roots == {n \in Node : Incoming(n) = {}}

FindTrigger ==
    IF Node \cap TriggerTypes # {} THEN FirstIn(Node \cap TriggerTypes) ELSE FirstIn(Roots)

(* Where process starts a walk: at the trigger if nothing is visited yet.  *)
StartingPoints_Trigger(visited) == {FindTrigger}

StartingPoints(visited) == IF visited = {} THEN {FindTrigger} ELSE Frontier(visited)

(* drive skips a node that has connected inputs and received no item.      *)
Pruned(n, live) ==
    /\ n \notin TriggerTypes
    /\ Incoming(n) # {}
    /\ Incoming(n) \cap live = {}

(* The edges connect nodes of the document, and findTrigger finds a node   *)
(* (Run returns its error before it creates an execution otherwise).       *)
ASSUME WorkflowAssumption ==
    /\ Edges \subseteq Node \X Node
    /\ FindTrigger \in Node

(* What every walk must keep: a node other than the trigger is visited     *)
(* only after all of its sources.                                          *)
Closed(visited) == \A n \in visited \ {FindTrigger} : Sources(n) \subseteq visited
=============================================================================
