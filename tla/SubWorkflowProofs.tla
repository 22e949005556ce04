-------------------------- MODULE SubWorkflowProofs --------------------------
(***************************************************************************)
(* Proofs about SubWorkflow, for any number of workers, of nodes and of    *)
(* calls, of crashes, of panics and of failures of the store, when a       *)
(* parent is asked for once the recovery has listed (~EarlyRequests):      *)
(* otherwise the recovery may list a sub-run that is driven inline, and a  *)
(* row may have two drivers.                                               *)
(***************************************************************************)
EXTENDS SubWorkflow, TLAPS

(* The worker w drives a sub-run, or unwinds from one.                     *)
Busy(w) == wPc[w] \in {"node", "save", "suspend", "nodeFailed", "panic"}

Queued == {jobs[k] : k \in 1..Len(jobs)}

(* The row is somewhere on its way to a worker, or claimed by one.         *)
Known(r) == r \in Queued \/ r \in rcIds \/ \E w \in Worker : wJob[w] = r

-----------------------------------------------------------------------------
(* The invariant, by parts                                                 *)

(* What a worker holds is claimed, and by no other one.                    *)
Claims ==
    /\ \A w \in Worker : /\ wJob[w] = None <=> wPc[w] = "idle"
                         /\ wJob[w] # None => wJob[w] \in active
    /\ \A w, v \in Worker : w # v /\ wJob[w] # None => wJob[w] # wJob[v]

(* Which row is driven for which job.                                      *)
Places ==
    \A w \in Worker :
        /\ Busy(w) => wRow[w] \in Sub /\ status[wRow[w]] = "running" /\ wJob[w] \in {Parent, wRow[w]}
        /\ wPc[w] \in {"call", "returned", "callFailed"} => Inline(w)
        /\ Inline(w) /\ wPc[w] \notin {"load", "release"} => status[Parent] = "running"
        /\ wPc[w] = "returned" => wRow[w] \in Sub /\ status[wRow[w]] = "success"

(* No row has two drivers.                                                 *)
OneDriver == \A w, v \in Worker : w # v /\ Busy(w) /\ Busy(v) => wRow[w] # wRow[v]

(* Nobody else can come by a row that is driven inline.                    *)
Private ==
    /\ \A w \in Worker : Busy(w) /\ Inline(w) => ~Known(wRow[w])
    /\ \A r \in Row : Known(r) => status[r] # "none"
    /\ rcPc = "list" => ~Known(Parent)

(* Where a walk stands beside its checkpoint.                              *)
Checkpoints ==
    /\ \A w \in Worker :
        /\ wPc[w] = "node" /\ wPos[w] < Steps => wPos[w] = saved[wRow[w]]
        /\ wPc[w] = "save" => wPos[w] = saved[wRow[w]] + 1
        /\ wPc[w] = "suspend" => wPos[w] = saved[wRow[w]] /\ wPos[w] + 1 \in WaitSteps
    /\ \A s \in Sub :
        /\ status[s] = "none" => saved[s] = 0
        /\ status[s] = "waiting" => saved[s] + 1 \in WaitSteps

(* The next node of s has executed in this life of the server, and the row *)
(* says nothing of it: it is being written, or a panic left it for good.   *)
(* (After a write that failed too, which pays for one more execution.)     *)
Executed(s) ==
    \/ \E w \in Worker : wRow[w] = s /\ wPc[w] \in {"save", "suspend", "nodeFailed", "panic"}
    \/ rcPc # "list" /\ ~Known(s) /\ \A w \in Worker : Busy(w) => wRow[w] # s

(* How often the nodes have executed.                                      *)
Counts ==
    \A s \in Sub :
        /\ \A k \in 1..Steps : /\ starts[s][k] <= 1 + crashes + faults
                               /\ k > saved[s] + 1 => starts[s][k] = 0
        /\ status[s] = "none" => \A k \in 1..Steps : starts[s][k] = 0
        /\ status[s] = "running" /\ saved[s] < Steps =>
              starts[s][saved[s] + 1] <= crashes + faults \/ Executed(s)

(* Without a crash, a panic or a failure of the store a running sub-run is *)
(* driven inline, or it has been resumed; no worker unwinds without a      *)
(* panic.                                                                  *)
Ends ==
    /\ panics = 0 => \A w \in Worker : wPc[w] # "panic"
    /\ crashes = 0 /\ panics = 0 /\ faults = 0 =>
        \A s \in Sub : status[s] = "running" =>
            \/ \E w \in Worker : Busy(w) /\ Inline(w) /\ wRow[w] = s
            \/ \E k \in WaitSteps : k <= saved[s]

SubInv == TypeOK /\ Claims /\ Places /\ OneDriver /\ Private /\ Checkpoints /\ Counts /\ Ends

USE DEF Row, Inline, GoTo, SetStatus, Busy, WorkerPcs
-----------------------------------------------------------------------------
(* The channel, of which only the contents matter.                         *)

LEMMA QueueEmpty == jobs = <<>> => Queued = {}
  BY DEF Queued

LEMMA QueueGrows ==
    ASSUME jobs \in Seq(Row), NEW r \in Row, jobs' = Append(jobs, r)
    PROVE  jobs' \in Seq(Row) /\ Queued' = Queued \cup {r}
<1>1. jobs' \in Seq(Row) /\ Len(jobs') = Len(jobs) + 1 /\ Len(jobs) \in Nat
  OBVIOUS
<1>2. jobs'[Len(jobs) + 1] = r /\ \A k \in 1..Len(jobs) : jobs'[k] = jobs[k]
  OBVIOUS
<1>3. 1..Len(jobs') = (1..Len(jobs)) \cup {Len(jobs) + 1}
  BY <1>1
<1> QED
  BY <1>1, <1>2, <1>3 DEF Queued

LEMMA QueueShrinks ==
    ASSUME jobs \in Seq(Row), jobs # <<>>, jobs' = Tail(jobs)
    PROVE  jobs' \in Seq(Row) /\ Queued' \subseteq Queued /\ Head(jobs) \in Queued /\ Head(jobs) \in Row
<1>1. jobs' \in Seq(Row) /\ Len(jobs) \in Nat /\ Len(jobs) > 0 /\ Len(jobs') = Len(jobs) - 1
  OBVIOUS
<1>2. Head(jobs) = jobs[1] /\ 1 \in 1..Len(jobs) /\ jobs[1] \in Row
  BY <1>1
<1>3. \A k \in 1..Len(jobs') : jobs'[k] = jobs[k + 1] /\ k + 1 \in 1..Len(jobs)
  BY <1>1
<1> QED
  BY <1>1, <1>2, <1>3 DEF Queued

LEMMA QueueSame == jobs' = jobs => Queued' = Queued
  BY DEF Queued
-----------------------------------------------------------------------------
(* Steps that leave the channel, the recovery and the claims alone.        *)
LEMMA KnownSame ==
    ASSUME UNCHANGED <<jobs, rcIds, wJob>>
    PROVE  \A r \in Row : Known(r)' <=> Known(r)
  BY QueueSame DEF Known

(* While a row is driven inline the recovery has listed.                   *)
LEMMA InlineIsLate ==
    ASSUME SubInv, NEW w \in Worker, Inline(w)
    PROVE  rcPc # "list" /\ Known(Parent)
  BY DEF SubInv, Private, Known

LEMMA SubInit == Init => SubInv
<1> SUFFICES ASSUME Init PROVE SubInv
  OBVIOUS
<1> USE SubWorkflowAssumption DEF Init
<1>1. Queued = {} /\ ~Known(Parent) /\ \A r \in Row : ~Known(r)
  BY QueueEmpty DEF Known
<1>2. TypeOK
  BY DEF TypeOK
<1>3. Claims /\ Places /\ OneDriver /\ Private /\ Checkpoints
  BY <1>1 DEF Claims, Places, OneDriver, Private, Checkpoints
<1>4. Counts /\ Ends
  BY DEF Counts, Ends
<1> QED
  BY <1>2, <1>3, <1>4 DEF SubInv
-----------------------------------------------------------------------------
(* Steps of a worker w: what they leave of the others.                     *)

Others(w) ==
    /\ \A v \in Worker \ {w} : wPc'[v] = wPc[v] /\ wPos'[v] = wPos[v] /\ wRow'[v] = wRow[v]
    /\ UNCHANGED <<jobs, active, rcPc, rcIds, wJob, crashes, faults>>

(* A worker that goes on driving its row disturbs neither claims nor rows. *)
LEMMA DriverGoesOn ==
    ASSUME SubInv, NEW w \in Worker, Busy(w), Busy(w)', Others(w), UNCHANGED <<status, wRow>>
    PROVE  Claims' /\ Places' /\ OneDriver' /\ Private'
<1> USE DEF SubInv, Others
<1>1. \A r \in Row : Known(r)' <=> Known(r)
  BY KnownSame
<1>2. \A v \in Worker : Busy(v)' <=> Busy(v)
  OBVIOUS
<1>3. Claims'
  BY DEF Claims
<1>4. Places'
  BY <1>2 DEF Places
<1>5. OneDriver'
  BY <1>2 DEF OneDriver
<1>6. Private'
  BY <1>1, <1>2 DEF Private, Places
<1> QED
  BY <1>3, <1>4, <1>5, <1>6

LEMMA DriverEnds ==
    ASSUME SubInv, NEW w \in Worker, Busy(w), Busy(w)', Others(w), UNCHANGED <<status, wRow>>,
           panics' = panics, faults' = faults, wPc'[w] # "panic",
           saved' \in [Sub -> 0..Steps], \A s \in Sub : saved'[s] >= saved[s]
    PROVE  Ends'
<1> USE SubWorkflowAssumption DEF SubInv, Others
<1>1. \A v \in Worker : Busy(v) => Busy(v)' /\ wRow'[v] = wRow[v] /\ wJob'[v] = wJob[v]
  OBVIOUS
<1>2. ASSUME crashes' = 0, panics' = 0, faults' = 0, NEW s \in Sub, status'[s] = "running"
      PROVE  \/ \E v \in Worker : Busy(v)' /\ Inline(v)' /\ wRow'[v] = s
             \/ \E k \in WaitSteps : k <= saved'[s]
  <2>1. \/ \E v \in Worker : Busy(v) /\ Inline(v) /\ wRow[v] = s
        \/ \E k \in WaitSteps : k <= saved[s]
    BY <1>2 DEF Ends
  <2>2. ASSUME NEW k \in WaitSteps, k <= saved[s] PROVE k <= saved'[s]
    BY <2>2 DEF TypeOK
  <2> QED
    BY <1>1, <2>1, <2>2
<1>3. panics' = 0 => \A v \in Worker : wPc'[v] # "panic"
  BY DEF Ends
<1> QED
  BY <1>2, <1>3 DEF Ends

(* The row a worker drives, and where it stands.                           *)
LEMMA Driven ==
    ASSUME SubInv, NEW w \in Worker, Busy(w)
    PROVE  /\ wRow[w] \in Sub /\ status[wRow[w]] = "running" /\ wPos[w] \in 0..Steps
           /\ \A v \in Worker \ {w} : Busy(v) => wRow[v] # wRow[w]
           /\ wPc[w] = "node" /\ wPos[w] < Steps => wPos[w] = saved[wRow[w]]
           /\ wPc[w] = "save" => wPos[w] = saved[wRow[w]] + 1
           /\ wPc[w] = "suspend" => wPos[w] = saved[wRow[w]] /\ wPos[w] + 1 \in WaitSteps
  BY DEF SubInv, TypeOK, Places, OneDriver, Checkpoints

(* The next node executes, or panics: not yet in this life of the server.  *)
LEMMA NodeExecutes ==
    ASSUME SubInv, NEW w \in Worker, wPc[w] = "node", wPos[w] < Steps, Others(w),
           UNCHANGED <<status, saved, wRow>>, wPc'[w] \in {"save", "suspend", "nodeFailed", "panic"},
           starts' = [starts EXCEPT ![wRow[w]][wPos[w] + 1] = @ + 1]
    PROVE  starts' \in [Sub -> [1..Steps -> Nat]] /\ Counts'
<1> USE SubWorkflowAssumption DEF SubInv
<1> DEFINE r == wRow[w]
           k == wPos[w] + 1
<1>1. r \in Sub /\ status[r] = "running" /\ wPos[w] = saved[r] /\ k \in 1..Steps
         /\ \A v \in Worker \ {w} : Busy(v) => wRow[v] # r
  BY Driven
<1>2. /\ starts' \in [Sub -> [1..Steps -> Nat]]
      /\ starts'[r][k] = starts[r][k] + 1
      /\ \A s \in Sub, j \in 1..Steps : (s # r \/ j # k) => starts'[s][j] = starts[s][j]
  BY <1>1 DEF TypeOK
<1>3. ~Executed(r)
  BY <1>1 DEF Executed
<1>4. starts[r][k] <= crashes + faults
  BY <1>1, <1>3 DEF Counts, TypeOK
<1>5. \A s \in Row : Known(s)' <=> Known(s)
  BY KnownSame DEF Others
<1>6. \A s \in Sub : Executed(s) => Executed(s)'
  BY <1>1, <1>5 DEF Executed, Others
<1>7. Executed(r)'
  BY DEF Executed
<1>8. ASSUME NEW s \in Sub
      PROVE  /\ \A j \in 1..Steps : /\ starts'[s][j] <= 1 + crashes + faults
                                    /\ j > saved[s] + 1 => starts'[s][j] = 0
             /\ status[s] = "none" => \A j \in 1..Steps : starts'[s][j] = 0
             /\ status[s] = "running" /\ saved[s] < Steps =>
                    starts'[s][saved[s] + 1] <= crashes + faults \/ Executed(s)'
  <2>0. crashes \in Nat /\ faults \in Nat /\ saved[s] \in 0..Steps /\ \A j \in 1..Steps : starts[s][j] \in Nat
    BY DEF TypeOK
  <2>1. CASE s = r
    BY <1>1, <1>2, <1>4, <1>7, <2>0, <2>1 DEF Counts
  <2>2. CASE s # r
    <3>1. \A j \in 1..Steps : starts'[s][j] = starts[s][j]
      BY <1>2, <2>2
    <3> QED
      BY <1>6, <2>0, <3>1 DEF Counts
  <2> QED
    BY <2>1, <2>2
<1> QED
  BY <1>2, <1>8 DEF Counts, Others

LEMMA ExecuteNodeStep ==
    ASSUME SubInv, NEW w \in Worker, ExecuteNode(w)
    PROVE  SubInv'
<1> USE SubWorkflowAssumption
<1>0. /\ wPc[w] = "node" /\ wPos[w] < Steps
      /\ UNCHANGED <<status, saved, jobs, active, rcPc, rcIds, wJob, wRow, crashes, panics, faults>>
      /\ starts' = [starts EXCEPT ![wRow[w]][wPos[w] + 1] = @ + 1]
      /\ \E pc \in {"save", "suspend", "nodeFailed"} : wPc' = [wPc EXCEPT ![w] = pc]
      /\ \E k \in {wPos[w], wPos[w] + 1} : wPos' = [wPos EXCEPT ![w] = k]
  <2>1. wPos' = wPos => wPos' = [wPos EXCEPT ![w] = wPos[w]]
    BY DEF SubInv, TypeOK
  <2> QED
    BY <2>1 DEF ExecuteNode, queueVars, rcVars, boundVars
<1>1. /\ wPc[w] = "node" /\ wPos[w] < Steps /\ Others(w) /\ UNCHANGED <<status, saved, wRow, panics, faults>>
      /\ wPc' \in [Worker -> WorkerPcs] /\ wPos' \in [Worker -> 0..Steps]
      /\ starts' = [starts EXCEPT ![wRow[w]][wPos[w] + 1] = @ + 1]
  <2>1. wPos[w] \in 0..Steps /\ wPos[w] + 1 \in 0..Steps
    BY <1>0 DEF SubInv, TypeOK
  <2> QED
    BY <1>0, <2>1 DEF Others, SubInv, TypeOK
<1>2. \/ wPc'[w] = "save" /\ wPos'[w] = wPos[w] + 1
      \/ wPc'[w] = "suspend" /\ wPos'[w] = wPos[w] /\ wPos[w] + 1 \in WaitSteps
      \/ wPc'[w] = "nodeFailed" /\ wPos'[w] = wPos[w]
  BY DEF ExecuteNode, SubInv, TypeOK
<1>3. Busy(w) /\ Busy(w)' /\ wPc'[w] \in {"save", "suspend", "nodeFailed", "panic"}
  BY <1>1, <1>2
<1>4. Claims' /\ Places' /\ OneDriver' /\ Private'
  BY <1>1, <1>3, DriverGoesOn
<1>5. Ends'
  <2>1. saved' \in [Sub -> 0..Steps] /\ \A s \in Sub : saved[s] \in Nat
    BY <1>1 DEF SubInv, TypeOK
  <2>2. \A s \in Sub : saved'[s] >= saved[s]
    BY <1>1, <2>1
  <2> QED
    BY <1>1, <1>2, <1>3, <2>1, <2>2, DriverEnds
<1>6. starts' \in [Sub -> [1..Steps -> Nat]] /\ Counts'
  BY <1>1, <1>3, NodeExecutes
<1>7. TypeOK'
  BY <1>1, <1>6 DEF SubInv, TypeOK, Others
<1>8. Checkpoints'
  BY <1>1, <1>2, <1>3, Driven DEF SubInv, Checkpoints, Others
<1> QED
  BY <1>4, <1>5, <1>6, <1>7, <1>8 DEF SubInv

LEMMA NodePanicsStep ==
    ASSUME SubInv, NEW w \in Worker, NodePanics(w)
    PROVE  SubInv'
<1> USE SubWorkflowAssumption
<1>1. /\ wPc[w] = "node" /\ wPos[w] < Steps /\ Others(w) /\ UNCHANGED <<status, saved, wRow, wPos>>
      /\ wPc' \in [Worker -> WorkerPcs] /\ wPc'[w] = "panic"
      /\ panics' \in 0..MaxPanics /\ panics' > 0
      /\ starts' = [starts EXCEPT ![wRow[w]][wPos[w] + 1] = @ + 1]
  BY DEF NodePanics, Others, SubInv, TypeOK, queueVars, rcVars
<1>2. Busy(w) /\ Busy(w)'
  BY <1>1
<1>3. Claims' /\ Places' /\ OneDriver' /\ Private'
  BY <1>1, <1>2, DriverGoesOn
<1>4. Ends'
  BY <1>1 DEF Ends
<1>5. starts' \in [Sub -> [1..Steps -> Nat]] /\ Counts'
  BY <1>1, NodeExecutes
<1>6. TypeOK'
  BY <1>1, <1>5 DEF SubInv, TypeOK, Others
<1>7. Checkpoints'
  BY <1>1, <1>2 DEF SubInv, Checkpoints, Others
<1> QED
  BY <1>3, <1>4, <1>5, <1>6, <1>7 DEF SubInv

LEMMA PruneRestStep ==
    ASSUME SubInv, NEW w \in Worker, PruneRest(w)
    PROVE  SubInv'
<1> USE SubWorkflowAssumption
<1>1. /\ wPc[w] = "node" /\ wPos'[w] = Steps /\ Others(w)
      /\ UNCHANGED <<status, saved, starts, wRow, wPc, panics, faults>> /\ wPos' \in [Worker -> 0..Steps]
  BY DEF PruneRest, Others, SubInv, TypeOK, rowVars, queueVars, rcVars, boundVars
<1>2. Busy(w) /\ Busy(w)'
  BY <1>1
<1>3. Claims' /\ Places' /\ OneDriver' /\ Private'
  BY <1>1, <1>2, DriverGoesOn
<1>4. Ends'
  <2>1. saved' \in [Sub -> 0..Steps] /\ \A s \in Sub : saved[s] \in Nat
    BY <1>1 DEF SubInv, TypeOK
  <2>2. \A s \in Sub : saved'[s] >= saved[s]
    BY <1>1, <2>1
  <2> QED
    BY <1>1, <1>2, <2>1, <2>2, DriverEnds
<1>5. Counts'
  <2>1. \A r \in Row : Known(r)' <=> Known(r)
    BY <1>1, KnownSame DEF Others
  <2> QED
    BY <1>1, <2>1 DEF SubInv, Counts, Executed, Others
<1>6. TypeOK'
  BY <1>1 DEF SubInv, TypeOK, Others
<1>7. Checkpoints'
  BY <1>1 DEF SubInv, Checkpoints, Others
<1> QED
  BY <1>3, <1>4, <1>5, <1>6, <1>7 DEF SubInv

(* The checkpoint moves on by one, past the node that has executed.        *)
LEMMA SaveStateSubStep ==
    ASSUME SubInv, NEW w \in Worker, SaveStateSub(w)
    PROVE  SubInv'
<1> USE SubWorkflowAssumption
<1> DEFINE r == wRow[w]
<1>1. /\ wPc[w] = "save" /\ wPc'[w] = "node" /\ Others(w)
      /\ UNCHANGED <<status, starts, wRow, wPos, panics, faults>> /\ saved' = [saved EXCEPT ![r] = wPos[w]]
      /\ wPc' \in [Worker -> WorkerPcs]
  BY DEF SaveStateSub, Others, SubInv, TypeOK, queueVars, rcVars, boundVars
<1>2. Busy(w) /\ Busy(w)'
  BY <1>1
<1>3. r \in Sub /\ status[r] = "running" /\ wPos[w] = saved[r] + 1 /\ wPos[w] \in 0..Steps
         /\ \A v \in Worker \ {w} : Busy(v) => wRow[v] # r
  BY <1>1, <1>2, Driven
<1>4. saved' \in [Sub -> 0..Steps] /\ saved'[r] = saved[r] + 1 /\ saved[r] \in 0..Steps
         /\ \A s \in Sub \ {r} : saved'[s] = saved[s]
  BY <1>1, <1>3 DEF SubInv, TypeOK
<1>5. \A s \in Sub : saved[s] \in Nat /\ saved'[s] >= saved[s]
  <2>1. \A s \in Sub : saved[s] \in Nat
    BY DEF SubInv, TypeOK
  <2>2. \A s \in Sub : s # r => saved'[s] = saved[s]
    BY <1>4
  <2> QED
    BY <1>4, <2>1, <2>2
<1>6. Claims' /\ Places' /\ OneDriver' /\ Private'
  BY <1>1, <1>2, DriverGoesOn
<1>7. Ends'
  BY <1>1, <1>2, <1>4, <1>5, DriverEnds
<1>8. TypeOK'
  BY <1>1, <1>4 DEF SubInv, TypeOK, Others
<1>9. Checkpoints'
  <2>1. \A v \in Worker \ {w} : Busy(v) => wRow[v] \in Sub
    BY DEF SubInv, Places
  <2> QED
    BY <1>1, <1>3, <1>4, <2>1 DEF SubInv, Checkpoints, Others
<1>10. Counts'
  <2>1. \A s \in Row : Known(s)' <=> Known(s)
    BY <1>1, KnownSame DEF Others
  <2>2. \A s \in Sub \ {r} : Executed(s) => Executed(s)'
    BY <1>1, <1>3, <2>1 DEF Executed, Others
  <2>3. ASSUME NEW s \in Sub
        PROVE  /\ \A k \in 1..Steps : /\ starts[s][k] <= 1 + crashes + faults
                                      /\ k > saved'[s] + 1 => starts[s][k] = 0
               /\ status[s] = "none" => \A k \in 1..Steps : starts[s][k] = 0
               /\ status[s] = "running" /\ saved'[s] < Steps =>
                      starts[s][saved'[s] + 1] <= crashes + faults \/ Executed(s)'
    <3>0. crashes \in Nat /\ faults \in Nat
      BY DEF SubInv, TypeOK
    <3>1. CASE s = r
      BY <1>3, <1>4, <3>0, <3>1 DEF SubInv, Counts
    <3>2. CASE s # r
      BY <1>4, <2>2, <3>2 DEF SubInv, Counts
    <3> QED
      BY <3>1, <3>2
  <2> QED
    BY <1>1, <2>3 DEF Counts, Others
<1> QED
  BY <1>6, <1>7, <1>8, <1>9, <1>10 DEF SubInv

-----------------------------------------------------------------------------
(* The steps in which a row reaches its end.                               *)

(* A worker ends the drive of a sub-run.                                   *)
LEMMA SubEnds ==
    ASSUME SubInv, NEW w \in Worker, wPc[w] \in {"node", "suspend", "nodeFailed"}, Others(w),
           UNCHANGED <<saved, starts, wRow, wPos, panics, faults>>,
           NEW outcome \in {"success", "waiting", "error"},
           status' = [status EXCEPT ![wRow[w]] = outcome],
           outcome = "waiting" => saved[wRow[w]] + 1 \in WaitSteps,
           wPc' \in [Worker -> WorkerPcs], AfterSub(w, outcome)
    PROVE  SubInv'
<1> USE SubWorkflowAssumption DEF SubInv
<1> DEFINE r == wRow[w]
<1>1. r \in Sub /\ status[r] = "running" /\ wJob[w] \in {Parent, r} /\ r # Parent
         /\ \A v \in Worker \ {w} : Busy(v) => wRow[v] # r
  BY Driven DEF Places
<1>2. status'[r] = outcome /\ \A s \in Row : s # r => status'[s] = status[s]
  BY <1>1 DEF TypeOK
<1>3. /\ wPc'[w] \in {"release", "returned", "callFailed"}
      /\ wPc'[w] # "release" => Inline(w)
      /\ wPc'[w] = "returned" => outcome = "success"
  BY DEF AfterSub, TypeOK
<1>4. \A s \in Row : Known(s)' <=> Known(s)
  BY KnownSame DEF Others
<1>5. TypeOK'
  BY <1>1 DEF TypeOK, Others
<1>6. Claims'
  BY <1>3 DEF Claims, Others
<1>7. Places'
  <2>1. ASSUME NEW v \in Worker, v # w
        PROVE  /\ Busy(v)' => wRow'[v] \in Sub /\ status'[wRow'[v]] = "running" /\ wJob'[v] \in {Parent, wRow'[v]}
               /\ wPc'[v] \in {"call", "returned", "callFailed"} => Inline(v)'
               /\ Inline(v)' /\ wPc'[v] \notin {"load", "release"} => status'[Parent] = "running"
               /\ wPc'[v] = "returned" => wRow'[v] \in Sub /\ status'[wRow'[v]] = "success"
    BY <1>1, <1>2, <2>1 DEF Places, Others
  <2>2. Inline(w) => status'[Parent] = "running"
    BY <1>1, <1>2 DEF Places
  <2> QED
    BY <1>1, <1>2, <1>3, <2>1, <2>2 DEF Places, Others
<1>8. OneDriver'
  BY <1>3 DEF OneDriver, Others
<1>9. Private'
  BY <1>2, <1>3, <1>4 DEF Private, Others, Places
<1>10. Checkpoints'
  BY <1>2, <1>3 DEF Checkpoints, Others
<1>11. Counts'
  <2>1. \A s \in Sub \ {r} : Executed(s) => Executed(s)'
    BY <1>3, <1>4 DEF Executed, Others
  <2> QED
    BY <1>1, <1>2, <2>1 DEF Counts, Others
<1>12. Ends'
  <2>1. ASSUME NEW s \in Sub \ {r}, NEW v \in Worker, Busy(v), Inline(v), wRow[v] = s
        PROVE  Busy(v)' /\ Inline(v)' /\ wRow'[v] = s
    BY <2>1 DEF Others
  <2> QED
    BY <1>1, <1>2, <1>3, <2>1 DEF Ends, Others
<1> QED
  BY <1>5, <1>6, <1>7, <1>8, <1>9, <1>10, <1>11, <1>12

LEMMA SubEndSteps ==
    ASSUME SubInv, NEW w \in Worker, FinishSub(w) \/ SuspendSub(w) \/ FailSub(w)
    PROVE  SubInv'
<1> USE SubWorkflowAssumption
<1>1. wPc[w] \in {"node", "suspend", "nodeFailed"} /\ Busy(w)
  BY DEF FinishSub, SuspendSub, FailSub
<1>2. \E outcome \in {"success", "waiting", "error"} :
         /\ EndSub(w, outcome)
         /\ outcome = "waiting" => wPc[w] = "suspend"
  BY DEF FinishSub, SuspendSub, FailSub
<1>3. saved' = saved
  <2>1. CASE SuspendSub(w)
    <3>1. wPos[w] = saved[wRow[w]]
      BY <1>1, <2>1, Driven DEF SuspendSub
    <3> QED
      BY <2>1, <3>1 DEF SuspendSub, SubInv, TypeOK
  <2> QED
    BY <2>1 DEF FinishSub, FailSub
<1>4. wPc[w] = "suspend" => saved[wRow[w]] + 1 \in WaitSteps
  BY <1>1, Driven
<1>5. PICK outcome \in {"success", "waiting", "error"} :
         /\ EndSub(w, outcome)
         /\ outcome = "waiting" => wPc[w] = "suspend"
  BY <1>2
<1>6. /\ Others(w) /\ UNCHANGED <<saved, starts, wRow, wPos, panics, faults>> /\ AfterSub(w, outcome)
      /\ status' = [status EXCEPT ![wRow[w]] = outcome]
  BY <1>3, <1>5 DEF EndSub, AfterSub, Others, SubInv, TypeOK, queueVars, rcVars, boundVars
<1>7. wPc' \in [Worker -> WorkerPcs]
  BY <1>6 DEF AfterSub, SubInv, TypeOK
<1> QED
  BY <1>1, <1>4, <1>5, <1>6, <1>7, SubEnds

(* A worker ends its job: the parent's, or after a panic whichever it is.  *)
LEMMA JobEnds ==
    ASSUME SubInv, NEW w \in Worker, wPc[w] \in {"returned", "callFailed", "panic"},
           NEW outcome \in {"success", "error"}, EndJob(w, outcome)
    PROVE  SubInv'
<1> USE SubWorkflowAssumption DEF SubInv
<1> DEFINE j == wJob[w]
<1>1. /\ Others(w) /\ UNCHANGED <<saved, starts, wRow, wPos, panics, faults>>
      /\ wPc' = [wPc EXCEPT ![w] = "release"] /\ wPc'[w] = "release"
      /\ status' = [status EXCEPT ![j] = outcome]
  BY DEF EndJob, Others, TypeOK, queueVars, rcVars, boundVars
<1>2. /\ j \in Row /\ (j \in Sub => j = wRow[w] /\ wPc[w] = "panic" /\ status[j] = "running")
      /\ wPc[w] = "panic" => wRow[w] \in Sub /\ status[wRow[w]] = "running"
                                /\ \A v \in Worker \ {w} : Busy(v) => wRow[v] # wRow[w]
  BY DEF Places, OneDriver
<1>3. status'[j] = outcome /\ \A s \in Row : s # j => status'[s] = status[s]
  BY <1>1, <1>2 DEF TypeOK
<1>4. \A s \in Row : Known(s)' <=> Known(s)
  BY <1>1, KnownSame DEF Others
<1>5. TypeOK'
  BY <1>1, <1>2 DEF TypeOK, Others
<1>6. Claims'
  BY <1>1 DEF Claims, Others
<1>7. Places'
  <2>1. ASSUME NEW v \in Worker, v # w
        PROVE  /\ Busy(v)' => wRow'[v] \in Sub /\ status'[wRow'[v]] = "running" /\ wJob'[v] \in {Parent, wRow'[v]}
               /\ wPc'[v] \in {"call", "returned", "callFailed"} => Inline(v)'
               /\ Inline(v)' /\ wPc'[v] \notin {"load", "release"} => status'[Parent] = "running"
               /\ wPc'[v] = "returned" => wRow'[v] \in Sub /\ status'[wRow'[v]] = "success"
    <3>1. j # wJob[v]
      BY <1>2, <2>1 DEF Claims
    <3>2. wPc'[v] = wPc[v] /\ wRow'[v] = wRow[v] /\ wJob'[v] = wJob[v]
      BY <1>1, <2>1 DEF Others
    <3>3. Busy(v) => wRow[v] # j
      BY <1>2, <2>1 DEF Places
    <3>4. Inline(v) /\ wPc[v] \notin {"load", "release"} => status'[Parent] = "running"
      BY <1>3, <3>1 DEF Places
    <3> QED
      BY <1>2, <1>3, <3>2, <3>3, <3>4 DEF Places
  <2> QED
    BY <1>1, <2>1 DEF Places
<1>8. OneDriver'
  BY <1>1 DEF OneDriver, Others
<1>9. Private'
  <2>1. ASSUME NEW v \in Worker, Busy(v)', Inline(v)' PROVE ~Known(wRow[v])'
    <3>1. Busy(v) /\ Inline(v) /\ wRow'[v] = wRow[v]
      BY <1>1, <2>1 DEF Others
    <3>2. wRow[v] \in Row /\ ~Known(wRow[v])
      BY <3>1 DEF Private, Places
    <3> QED
      BY <1>4, <3>1, <3>2
  <2>2. \A s \in Row : Known(s)' => status'[s] # "none"
    BY <1>3, <1>4 DEF Private
  <2>3. rcPc' = "list" => ~Known(Parent)'
    BY <1>1, <1>4 DEF Private, Others
  <2> QED
    BY <2>1, <2>2, <2>3 DEF Private
<1>10. Checkpoints'
  BY <1>1, <1>2, <1>3 DEF Checkpoints, Others
<1>11. Counts'
  <2>1. ASSUME NEW s \in Sub, Executed(s), status'[s] = "running" PROVE Executed(s)'
    <3>1. CASE wPc[w] = "panic" /\ wRow[w] = s
      <4>1. j = Parent
        BY <1>2, <1>3, <2>1, <3>1
      <4>2. rcPc # "list" /\ ~Known(s)
        BY <3>1, <4>1, InlineIsLate DEF Private
      <4> QED
        BY <1>1, <1>2, <1>4, <3>1, <4>2 DEF Executed, Others
    <3>2. CASE ~(wPc[w] = "panic" /\ wRow[w] = s)
      BY <1>1, <1>4, <2>1, <3>2 DEF Executed, Others
    <3> QED
      BY <3>1, <3>2
  <2>2. \A s \in Sub : status'[s] = "running" => status[s] = "running"
    BY <1>2, <1>3
  <2>3. \A s \in Sub : status'[s] = "none" => status[s] = "none"
    BY <1>2, <1>3
  <2> QED
    BY <1>1, <2>1, <2>2, <2>3 DEF Counts, Others
<1>12. Ends'
  <2>1. \A v \in Worker : panics = 0 /\ Busy(v) => v # w
    BY DEF Ends
  <2>2. \A s \in Sub : status'[s] = "running" => status[s] = "running"
    BY <1>2, <1>3
  <2> QED
    BY <1>1, <2>1, <2>2 DEF Ends, Others
<1> QED
  BY <1>5, <1>6, <1>7, <1>8, <1>9, <1>10, <1>11, <1>12

LEMMA JobEndSteps ==
    ASSUME SubInv, NEW w \in Worker, FinishParent(w) \/ FailParent(w) \/ RecoverPanic(w)
    PROVE  SubInv'
  BY JobEnds DEF FinishParent, FailParent, RecoverPanic

-----------------------------------------------------------------------------
(* The steps by which a row comes to a worker.                             *)

(* A worker receives a job.                                                *)
LEMMA TakeStep ==
    ASSUME SubInv, NEW w \in Worker, Take(w)
    PROVE  SubInv'
<1> USE SubWorkflowAssumption DEF SubInv
<1> DEFINE r == Head(jobs)
<1>1. /\ wPc[w] = "idle" /\ wJob[w] = None
      /\ UNCHANGED <<status, saved, starts, rcPc, rcIds, wRow, wPos, crashes, panics, faults>>
      /\ \A v \in Worker \ {w} : wPc'[v] = wPc[v] /\ wJob'[v] = wJob[v]
      /\ \/ UNCHANGED <<active, wPc, wJob>>
         \/ /\ r \notin active /\ active' = active \cup {r}
            /\ wJob' = [wJob EXCEPT ![w] = r] /\ wJob'[w] = r
            /\ wPc' = [wPc EXCEPT ![w] = "load"] /\ wPc'[w] = "load"
  BY DEF Take, Claimed, Claims, TypeOK, rowVars, rcVars, boundVars
<1>2. jobs' \in Seq(Row) /\ Queued' \subseteq Queued /\ r \in Queued /\ r \in Row
  BY QueueShrinks DEF Take, TypeOK
<1>3. \A s : Known(s)' => Known(s)
  BY <1>1, <1>2 DEF Known
<1>4. \A v \in Worker : (Busy(v)' <=> Busy(v)) /\ (Busy(v) => v # w)
  BY <1>1
<1>5. TypeOK'
  <2>1. active' \subseteq Row /\ wPc' \in [Worker -> WorkerPcs] /\ wJob' \in [Worker -> Row \cup {None}]
    <3>1. CASE UNCHANGED <<active, wPc, wJob>>
      BY <3>1 DEF TypeOK
    <3>2. CASE /\ active' = active \cup {r} /\ wJob' = [wJob EXCEPT ![w] = r]
               /\ wPc' = [wPc EXCEPT ![w] = "load"]
      BY <1>2, <3>2 DEF TypeOK
    <3> QED
      BY <1>1, <3>1, <3>2
  <2> QED
    BY <1>1, <1>2, <2>1 DEF TypeOK
<1>6. Claims'
  BY <1>1, <1>2 DEF Claims
<1>7. Places' /\ OneDriver'
  BY <1>1, <1>4 DEF Places, OneDriver
<1>8. Private'
  BY <1>1, <1>3, <1>4 DEF Private
<1>9. Checkpoints'
  BY <1>1 DEF Checkpoints
<1>10. Counts'
  <2>1. \A s \in Sub : Executed(s) => Executed(s)'
    BY <1>1, <1>3, <1>4 DEF Executed
  <2> QED
    BY <1>1, <2>1 DEF Counts
<1>11. Ends'
  BY <1>1, <1>4 DEF Ends
<1> QED
  BY <1>5, <1>6, <1>7, <1>8, <1>9, <1>10, <1>11

(* A worker loads the row of its job, which nobody drives.                 *)
LEMMA LoadStep ==
    ASSUME SubInv, NEW w \in Worker, Load(w)
    PROVE  SubInv'
<1> USE SubWorkflowAssumption DEF SubInv
<1> DEFINE r == wJob[w]
<1>1. /\ wPc[w] = "load" /\ r \in Row
      /\ UNCHANGED <<status, saved, starts, jobs, active, rcPc, rcIds, wJob, crashes, panics, faults>>
      /\ wPc' \in [Worker -> WorkerPcs] /\ wRow' \in [Worker -> Sub \cup {None}]
      /\ wPos' \in [Worker -> 0..Steps] /\ Others(w)
      /\ \/ wPc'[w] = "release" /\ wRow'[w] = wRow[w]
         \/ wPc'[w] = "call" /\ status[r] = "running" /\ r = Parent /\ wRow'[w] = wRow[w]
         \/ wPc'[w] = "node" /\ status[r] = "running" /\ r \in Sub /\ wRow'[w] = r /\ wPos'[w] = saved[r]
  <2>1. wPc[w] = "load" /\ r \in Row
    BY DEF Load, Claims, TypeOK
  <2>2. UNCHANGED <<status, saved, starts, jobs, active, rcPc, rcIds, wJob, crashes, panics, faults>>
    BY DEF Load, rowVars, queueVars, rcVars, boundVars
  <2>3. CASE status[r] # "running" /\ GoTo(w, "release") /\ UNCHANGED <<wRow, wPos>>
    BY <2>1, <2>2, <2>3 DEF TypeOK, Others
  <2>4. CASE status[r] = "running" /\ r = Parent /\ GoTo(w, "call") /\ UNCHANGED <<wRow, wPos>>
    BY <2>1, <2>2, <2>4 DEF TypeOK, Others
  <2>5. CASE /\ status[r] = "running" /\ r \in Sub /\ GoTo(w, "node")
             /\ wRow' = [wRow EXCEPT ![w] = r] /\ wPos' = [wPos EXCEPT ![w] = saved[r]]
    <3>1. saved[r] \in 0..Steps
      BY <2>5 DEF TypeOK
    <3> QED
      BY <2>1, <2>2, <2>5, <3>1 DEF TypeOK, Others
  <2> QED
    BY <2>3, <2>4, <2>5 DEF Load
<1>2. \A s \in Row : Known(s)' <=> Known(s)
  BY <1>1, KnownSame
<1>3. \A v \in Worker : Busy(v) => wRow[v] # r /\ v # w
  <2>1. Known(r)
    BY DEF Known
  <2> QED
    BY <1>1, <2>1 DEF Private, Places, Claims
<1>4. \A v \in Worker : Busy(v) => Busy(v)' /\ wRow'[v] = wRow[v]
  BY <1>1, <1>3 DEF Others
<1>5. \A v \in Worker : v # w => (Busy(v)' <=> Busy(v)) /\ wRow'[v] = wRow[v]
  BY <1>1 DEF Others
<1>6. TypeOK'
  BY <1>1 DEF TypeOK
<1>7. Claims'
  BY <1>1 DEF Claims, Others
<1>8. Places'
  BY <1>1, <1>5 DEF Places, Others
<1>9. OneDriver'
  BY <1>1, <1>3, <1>5 DEF OneDriver
<1>10. Private'
  BY <1>1, <1>2, <1>5 DEF Private, Places
<1>11. Checkpoints'
  BY <1>1 DEF Checkpoints, Others
<1>12. Counts'
  <2>1. ASSUME NEW s \in Sub, saved[s] < Steps, Executed(s)
        PROVE  starts[s][saved[s] + 1] <= crashes + faults \/ Executed(s)'
    <3>1. CASE s # r
      BY <1>1, <1>2, <1>3, <1>5, <2>1, <3>1 DEF Executed, Others
    <3>2. CASE s = r
      BY <1>1, <1>3, <2>1, <3>2 DEF Executed, Known
    <3> QED
      BY <3>1, <3>2
  <2> QED
    BY <1>1, <2>1 DEF Counts
<1>13. Ends'
  BY <1>1, <1>4 DEF Ends, Others
<1> QED
  BY <1>6, <1>7, <1>8, <1>9, <1>10, <1>11, <1>12, <1>13

(* The workflow of a row that a worker holds, and nobody drives, is gone.  *)
LEMMA LoadNothingStep ==
    ASSUME SubInv, NEW w \in Worker, LoadNothing(w)
    PROVE  SubInv'
<1> USE SubWorkflowAssumption DEF SubInv
<1> DEFINE r == wJob[w]
<1>1. /\ wPc[w] = "load" /\ r \in Row /\ status[r] = "running"
      /\ Others(w) /\ UNCHANGED <<saved, starts, wRow, wPos, panics, faults>>
      /\ wPc' = [wPc EXCEPT ![w] = "release"] /\ wPc'[w] = "release"
      /\ status' = [status EXCEPT ![r] = "error"]
  BY DEF LoadNothing, Others, Claims, TypeOK, queueVars, rcVars, boundVars
<1>2. status'[r] = "error" /\ \A s \in Row : s # r => status'[s] = status[s]
  BY <1>1 DEF TypeOK
<1>3. \A s \in Row : Known(s)' <=> Known(s)
  BY <1>1, KnownSame DEF Others
<1>4. \A v \in Worker : Busy(v) => wRow[v] # r /\ v # w
  <2>1. Known(r)
    BY DEF Known
  <2> QED
    BY <1>1, <2>1 DEF Private, Places, Claims
<1>5. \A v \in Worker : Busy(v)' <=> Busy(v)
  BY <1>1 DEF Others
<1>6. TypeOK'
  BY <1>1 DEF TypeOK, Others
<1>7. Claims' /\ OneDriver'
  BY <1>1, <1>5 DEF Claims, OneDriver, Others
<1>8. Places'
  <2>1. ASSUME NEW v \in Worker, v # w
        PROVE  /\ Busy(v)' => wRow'[v] \in Sub /\ status'[wRow'[v]] = "running" /\ wJob'[v] \in {Parent, wRow'[v]}
               /\ wPc'[v] \in {"call", "returned", "callFailed"} => Inline(v)'
               /\ Inline(v)' /\ wPc'[v] \notin {"load", "release"} => status'[Parent] = "running"
               /\ wPc'[v] = "returned" => wRow'[v] \in Sub /\ status'[wRow'[v]] = "success"
    <3>1. r # wJob[v]
      BY <1>1, <2>1 DEF Claims
    <3>2. wPc'[v] = wPc[v] /\ wRow'[v] = wRow[v] /\ wJob'[v] = wJob[v]
      BY <1>1, <2>1 DEF Others
    <3>3. wPc[v] = "returned" => wRow[v] # r /\ wRow[v] \in Sub /\ status[wRow[v]] = "success"
      BY <1>1 DEF Places
    <3> QED
      BY <1>2, <1>4, <3>1, <3>2, <3>3 DEF Places
  <2> QED
    BY <1>1, <2>1 DEF Places
<1>9. Private'
  <2>1. ASSUME NEW v \in Worker, Busy(v)', Inline(v)' PROVE ~Known(wRow[v])'
    BY <1>1, <1>3, <1>5, <2>1 DEF Private, Places, Others
  <2>2. \A s \in Row : Known(s)' => status'[s] # "none"
    BY <1>2, <1>3 DEF Private
  <2>3. rcPc' = "list" => ~Known(Parent)'
    BY <1>1, <1>3 DEF Private, Others
  <2> QED
    BY <2>1, <2>2, <2>3 DEF Private
<1>10. Checkpoints'
  BY <1>1, <1>2 DEF Checkpoints, Others
<1>11. Counts'
  <2>1. \A s \in Sub : Executed(s) => Executed(s)'
    BY <1>1, <1>3, <1>5 DEF Executed, Others
  <2>2. \A s \in Sub : status'[s] \in {"running", "none"} => status'[s] = status[s]
    BY <1>2
  <2> QED
    BY <1>1, <2>1, <2>2 DEF Counts, Others
<1>12. Ends'
  BY <1>1, <1>2, <1>5 DEF Ends, Others
<1> QED
  BY <1>6, <1>7, <1>8, <1>9, <1>10, <1>11, <1>12

(* A call of the store fails: the worker gives up its row, or its job,     *)
(* which stays running.                                                    *)
LEMMA StoreFailsStep ==
    ASSUME SubInv, NEW w \in Worker, StoreFails(w)
    PROVE  SubInv'
<1> USE SubWorkflowAssumption DEF SubInv
<1>1. /\ UNCHANGED <<status, saved, starts, jobs, active, rcPc, rcIds, wJob, wRow, wPos, crashes, panics>>
      /\ faults' = faults + 1 /\ faults' \in 0..MaxFaults /\ faults' > 0
      /\ crashes \in Nat /\ faults \in Nat
  BY DEF StoreFails, TypeOK, rowVars, queueVars, rcVars
<1>2. /\ wPc'[w] \in {"release", "callFailed"} /\ wPc[w] \notin {"idle", "release"}
      /\ wPc'[w] = "callFailed" => Inline(w) /\ Busy(w)
      /\ wPc' \in [Worker -> WorkerPcs]
      /\ \A v \in Worker \ {w} : wPc'[v] = wPc[v]
  BY DEF StoreFails, AfterSub, TypeOK
<1>3. \A v \in Worker : Busy(v)' => Busy(v) /\ v # w
  BY <1>2
<1>4. \A r \in Row : Known(r)' <=> Known(r)
  BY <1>1, KnownSame
<1>5. TypeOK'
  BY <1>1, <1>2 DEF TypeOK
<1>6. Claims' /\ OneDriver'
  BY <1>1, <1>2, <1>3 DEF Claims, OneDriver
<1>7. Places'
  <2>1. ASSUME NEW v \in Worker, v # w
        PROVE  /\ Busy(v)' => wRow'[v] \in Sub /\ status'[wRow'[v]] = "running" /\ wJob'[v] \in {Parent, wRow'[v]}
               /\ wPc'[v] \in {"call", "returned", "callFailed"} => Inline(v)'
               /\ Inline(v)' /\ wPc'[v] \notin {"load", "release"} => status'[Parent] = "running"
               /\ wPc'[v] = "returned" => wRow'[v] \in Sub /\ status'[wRow'[v]] = "success"
    BY <1>1, <1>2, <2>1 DEF Places
  <2> QED
    BY <1>1, <1>2, <2>1 DEF Places
<1>8. Private'
  <2>1. ASSUME NEW v \in Worker, Busy(v)', Inline(v)' PROVE ~Known(wRow[v])'
    BY <1>1, <1>3, <1>4, <2>1 DEF Private, Places
  <2> QED
    BY <1>1, <1>4, <2>1 DEF Private
<1>9. Checkpoints'
  BY <1>1, <1>2 DEF Checkpoints
<1>10. Counts'
  <2>1. ASSUME NEW s \in Sub
        PROVE  /\ \A k \in 1..Steps : /\ starts[s][k] <= 1 + crashes + faults'
                                      /\ k > saved[s] + 1 => starts[s][k] = 0
               /\ status[s] = "none" => \A k \in 1..Steps : starts[s][k] = 0
               /\ saved[s] < Steps => starts[s][saved[s] + 1] <= crashes + faults'
    <3>1. saved[s] \in 0..Steps /\ \A k \in 1..Steps : starts[s][k] \in Nat
      BY DEF TypeOK
    <3>2. saved[s] < Steps => saved[s] + 1 \in 1..Steps
      BY <3>1
    <3>3. \A k \in 1..Steps : starts[s][k] <= 1 + crashes + faults
      BY DEF Counts
    <3>4. \A k \in 1..Steps : starts[s][k] <= 1 + crashes + faults' /\ starts[s][k] <= crashes + faults'
      BY <1>1, <3>1, <3>3
    <3> QED
      BY <3>2, <3>4 DEF Counts
  <2> QED
    BY <1>1, <2>1 DEF Counts
<1>11. Ends'
  BY <1>1, <1>2 DEF Ends
<1> QED
  BY <1>5, <1>6, <1>7, <1>8, <1>9, <1>10, <1>11

(* The parent's worker calls the sub-workflow: a new row, or a failure.    *)
LEMMA CallSubStep ==
    ASSUME SubInv, NEW w \in Worker, CallSub(w)
    PROVE  SubInv'
<1> USE SubWorkflowAssumption DEF SubInv
<1>1. /\ wPc[w] = "call" /\ Inline(w) /\ status[Parent] = "running"
      /\ UNCHANGED <<saved, starts, panics, faults>> /\ Others(w)
  <2>1. \A v \in Worker \ {w} : wPc'[v] = wPc[v] /\ wPos'[v] = wPos[v] /\ wRow'[v] = wRow[v]
    BY DEF CallSub, TypeOK
  <2> QED
    BY <2>1 DEF CallSub, Places, Others, queueVars, rcVars, boundVars
<1>2. \A r \in Row : Known(r)' <=> Known(r)
  BY <1>1, KnownSame DEF Others
<1>3. CASE GoTo(w, "callFailed") /\ UNCHANGED <<status, wRow, wPos>>
  <2>1. wPc'[w] = "callFailed" /\ \A v \in Worker : Busy(v)' <=> Busy(v)
    BY <1>1, <1>3 DEF TypeOK
  <2>2. TypeOK' /\ Claims'
    BY <1>1, <1>3, <2>1 DEF TypeOK, Claims, Others
  <2>3. Places' /\ OneDriver'
    BY <1>1, <1>3, <2>1 DEF Places, OneDriver, Others
  <2>4. Private'
    BY <1>1, <1>2, <1>3, <2>1 DEF Private, Places, Others
  <2>5. Checkpoints'
    BY <1>1, <1>3, <2>1 DEF Checkpoints, Others
  <2>6. Counts'
    <3>1. \A s \in Sub : Executed(s) => Executed(s)'
      BY <1>1, <1>2, <1>3, <2>1 DEF Executed, Others
    <3> QED
      BY <1>1, <1>3, <3>1 DEF Counts, Others
  <2>7. Ends'
    BY <1>1, <1>3, <2>1 DEF Ends, Others
  <2> QED
    BY <2>2, <2>3, <2>4, <2>5, <2>6, <2>7
<1>4. ASSUME NEW s \in Sub, status[s] = "none", SetStatus(s, "running"),
             wRow' = [wRow EXCEPT ![w] = s], wPos' = [wPos EXCEPT ![w] = 0], GoTo(w, "node")
      PROVE  SubInv'
  <2>1. /\ wPc'[w] = "node" /\ wRow'[w] = s /\ wPos'[w] = 0 /\ status'[s] = "running" /\ saved[s] = 0
        /\ \A r \in Row : r # s => status'[r] = status[r]
    BY <1>4 DEF TypeOK, Checkpoints
  <2>2. \A v \in Worker : Busy(v) => v # w /\ wRow[v] # s
    BY <1>1, <1>4 DEF Places
  <2>3. ~Known(s) /\ s # Parent
    BY <1>4 DEF Private
  <2>4. TypeOK'
    BY <1>1, <1>4 DEF TypeOK, Others
  <2>5. Claims'
    BY <1>1, <2>1 DEF Claims, Others
  <2>6. Places'
    <3>1. \A v \in Worker : v # w => (wPc[v] = "returned" => wRow[v] # s)
      BY <1>4 DEF Places
    <3>2. status'[Parent] = "running"
      BY <1>1, <2>1, <2>3
    <3>3. ASSUME NEW v \in Worker, v # w
          PROVE  /\ Busy(v)' => wRow'[v] \in Sub /\ status'[wRow'[v]] = "running" /\ wJob'[v] \in {Parent, wRow'[v]}
                 /\ wPc'[v] \in {"call", "returned", "callFailed"} => Inline(v)'
                 /\ Inline(v)' /\ wPc'[v] \notin {"load", "release"} => status'[Parent] = "running"
                 /\ wPc'[v] = "returned" => wRow'[v] \in Sub /\ status'[wRow'[v]] = "success"
      BY <1>1, <2>1, <2>2, <3>1, <3>2, <3>3 DEF Places, Others
    <3> QED
      BY <1>1, <2>1, <3>2, <3>3 DEF Places, Others
  <2>7. OneDriver'
    BY <1>1, <2>1, <2>2 DEF OneDriver, Others
  <2>8. Private'
    <3>1. ASSUME NEW v \in Worker, Busy(v)', Inline(v)' PROVE ~Known(wRow[v])'
      <4>1. CASE v = w
        BY <1>2, <2>1, <2>3, <4>1
      <4>2. CASE v # w
        BY <1>1, <1>2, <3>1, <4>2 DEF Private, Places, Others
      <4> QED
        BY <4>1, <4>2
    <3> QED
      BY <1>1, <1>2, <2>1, <3>1 DEF Private, Others
  <2>9. Checkpoints'
    BY <1>1, <2>1 DEF Checkpoints, Others
  <2>10. Counts'
    <3>1. \A r \in Sub \ {s} : Executed(r) => Executed(r)'
      BY <1>1, <1>2, <2>1 DEF Executed, Others
    <3>2. \A k \in 1..Steps : starts[s][k] = 0
      BY <1>4 DEF Counts
    <3>3. crashes \in Nat /\ faults \in Nat
      BY DEF TypeOK
    <3>4. saved[s] + 1 \in 1..Steps
      BY <2>1
    <3>5. ASSUME NEW r \in Sub
          PROVE  /\ \A k \in 1..Steps : /\ starts[r][k] <= 1 + crashes + faults
                                        /\ k > saved[r] + 1 => starts[r][k] = 0
                 /\ status'[r] = "none" => \A k \in 1..Steps : starts[r][k] = 0
                 /\ status'[r] = "running" /\ saved[r] < Steps =>
                        starts[r][saved[r] + 1] <= crashes + faults \/ Executed(r)'
      <4>1. CASE r = s
        BY <2>1, <3>2, <3>3, <3>4, <4>1
      <4>2. CASE r # s
        BY <2>1, <3>1, <4>2 DEF Counts
      <4> QED
        BY <4>1, <4>2
    <3> QED
      BY <1>1, <3>5 DEF Counts, Others
  <2>11. Ends'
    <3>1. \A v \in Worker : Busy(v) /\ Inline(v) => Busy(v)' /\ Inline(v)' /\ wRow'[v] = wRow[v]
      BY <1>1, <2>2 DEF Others
    <3>2. Busy(w)' /\ Inline(w)' /\ wRow'[w] = s
      BY <1>1, <2>1 DEF Others
    <3>3. panics = 0 => \A v \in Worker : wPc'[v] # "panic"
      BY <1>1, <2>1 DEF Ends, Others
    <3>4. ASSUME crashes = 0, panics = 0, faults = 0, NEW r \in Sub, status'[r] = "running"
          PROVE  \/ \E v \in Worker : Busy(v)' /\ Inline(v)' /\ wRow'[v] = r
                 \/ \E k \in WaitSteps : k <= saved[r]
      <4>1. CASE r = s
        BY <3>2, <4>1
      <4>2. CASE r # s
        BY <2>1, <3>1, <3>4, <4>2 DEF Ends
      <4> QED
        BY <4>1, <4>2
    <3> QED
      BY <1>1, <3>3, <3>4 DEF Ends, Others
  <2> QED
    BY <2>4, <2>5, <2>6, <2>7, <2>8, <2>9, <2>10, <2>11
<1> QED
  BY <1>3, <1>4 DEF CallSub

(* A worker gives its job back.                                            *)
LEMMA ReleaseStep ==
    ASSUME SubInv, NEW w \in Worker, Release(w)
    PROVE  SubInv'
<1> USE SubWorkflowAssumption DEF SubInv
<1>1. /\ wPc[w] = "release" /\ wPc'[w] = "idle" /\ wJob'[w] = None /\ wJob[w] # None
      /\ \A v \in Worker \ {w} : wPc'[v] = wPc[v] /\ wPos'[v] = wPos[v] /\ wRow'[v] = wRow[v]
                                    /\ wJob'[v] = wJob[v]
      /\ active' = active \ {wJob[w]}
      /\ UNCHANGED <<status, saved, starts, jobs, rcPc, rcIds, crashes, panics, faults>>
  BY DEF Release, Claims, TypeOK, rowVars, rcVars, boundVars
<1>2. \A r \in Row : Known(r)' => Known(r)
  BY <1>1, QueueSame DEF Known
<1>3. \A v \in Worker : Busy(v)' <=> Busy(v)
  BY <1>1
<1>4. TypeOK'
  BY DEF TypeOK, Release, rowVars, rcVars, boundVars
<1>5. Claims'
  BY <1>1 DEF Claims
<1>6. Places' /\ OneDriver'
  BY <1>1, <1>3 DEF Places, OneDriver
<1>7. Private'
  BY <1>1, <1>2, <1>3 DEF Private, Places
<1>8. Checkpoints'
  BY <1>1 DEF Checkpoints
<1>9. Counts'
  <2>1. \A s \in Sub : Executed(s) => Executed(s)'
    BY <1>1, <1>2, <1>3 DEF Executed
  <2> QED
    BY <1>1, <2>1 DEF Counts
<1>10. Ends'
  BY <1>1, <1>3 DEF Ends
<1> QED
  BY <1>4, <1>5, <1>6, <1>7, <1>8, <1>9, <1>10

-----------------------------------------------------------------------------
(* Requests, the recovery and crashes.                                     *)

LEMMA RunParentStep ==
    ASSUME ~EarlyRequests, SubInv, RunParent
    PROVE  SubInv'
<1> USE SubWorkflowAssumption DEF SubInv
<1>1. /\ status[Parent] = "none" /\ rcPc # "list" /\ status' = [status EXCEPT ![Parent] = "running"]
      /\ UNCHANGED <<saved, starts, active, rcPc, rcIds, wPc, wJob, wRow, wPos, crashes, panics, faults>>
      /\ jobs' = Append(jobs, Parent)
  BY DEF RunParent, rcVars, workerVars, boundVars
<1>2. jobs' \in Seq(Row) /\ Queued' = Queued \cup {Parent}
  BY <1>1, QueueGrows DEF TypeOK
<1>3. status'[Parent] = "running" /\ \A s \in Sub : status'[s] = status[s]
  BY <1>1 DEF TypeOK
<1>4. \A s \in Row : Known(s)' <=> Known(s) \/ s = Parent
  BY <1>1, <1>2 DEF Known
<1>5. TypeOK'
  BY <1>1, <1>2 DEF TypeOK
<1>6. Claims' /\ OneDriver'
  BY <1>1 DEF Claims, OneDriver
<1>7. Places'
  BY <1>1, <1>3 DEF Places
<1>8. Private'
  <2>1. ASSUME NEW v \in Worker, Busy(v)', Inline(v)' PROVE ~Known(wRow[v])'
    BY <1>1, <1>4, <2>1 DEF Private, Places
  <2> QED
    BY <1>1, <1>3, <1>4, <2>1 DEF Private
<1>9. Checkpoints'
  BY <1>1, <1>3 DEF Checkpoints
<1>10. Counts'
  <2>1. \A s \in Sub : Executed(s) => Executed(s)'
    BY <1>1, <1>4 DEF Executed
  <2> QED
    BY <1>1, <1>3, <2>1 DEF Counts
<1>11. Ends'
  BY <1>1, <1>3 DEF Ends
<1> QED
  BY <1>5, <1>6, <1>7, <1>8, <1>9, <1>10, <1>11

(* The waiting node becomes visited; the next one has not executed.        *)
LEMMA ResumeSubStep ==
    ASSUME SubInv, NEW s \in Sub, ResumeSub(s)
    PROVE  SubInv'
<1> USE SubWorkflowAssumption DEF SubInv
<1>1. /\ status[s] = "waiting" /\ status' = [status EXCEPT ![s] = "running"]
      /\ saved' = [saved EXCEPT ![s] = @ + 1] /\ jobs' = Append(jobs, s)
      /\ UNCHANGED <<starts, active, rcPc, rcIds, wPc, wJob, wRow, wPos, crashes, panics, faults>>
  BY DEF ResumeSub, rcVars, workerVars, boundVars
<1>2. jobs' \in Seq(Row) /\ Queued' = Queued \cup {s}
  BY <1>1, QueueGrows DEF TypeOK
<1>3. status'[s] = "running" /\ \A r \in Row \ {s} : status'[r] = status[r]
  BY <1>1 DEF TypeOK
<1>4. /\ saved[s] + 1 \in WaitSteps /\ saved[s] + 1 \in 1..Steps /\ saved[s] \in Nat
      /\ saved'[s] = saved[s] + 1 /\ \A r \in Sub \ {s} : saved'[r] = saved[r]
  BY <1>1 DEF TypeOK, Checkpoints
<1>5. \A r \in Row : Known(r)' <=> Known(r) \/ r = s
  BY <1>1, <1>2 DEF Known
<1>6. \A v \in Worker : /\ Busy(v) => wRow[v] \in Sub \ {s}
                        /\ wPc[v] = "returned" => wRow[v] \in Sub \ {s}
  BY <1>1 DEF Places
<1>7. TypeOK'
  BY <1>1, <1>2, <1>4 DEF TypeOK
<1>8. Claims' /\ OneDriver'
  BY <1>1 DEF Claims, OneDriver
<1>9. Places'
  BY <1>1, <1>3, <1>6 DEF Places
<1>10. Private'
  <2>1. ASSUME NEW v \in Worker, Busy(v)', Inline(v)' PROVE ~Known(wRow[v])'
    BY <1>1, <1>5, <1>6, <2>1 DEF Private
  <2> QED
    BY <1>1, <1>3, <1>5, <2>1 DEF Private
<1>11. Checkpoints'
  BY <1>1, <1>3, <1>4, <1>6 DEF Checkpoints
<1>12. Counts'
  <2>1. \A r \in Sub \ {s} : Executed(r) => Executed(r)'
    BY <1>1, <1>5 DEF Executed
  <2>2. crashes \in Nat /\ faults \in Nat
    BY DEF TypeOK
  <2>3. \A k \in 1..Steps : k > saved[s] + 1 => starts[s][k] = 0
    BY DEF Counts
  <2>4. saved'[s] < Steps => starts[s][saved'[s] + 1] = 0
    BY <1>4, <2>3
  <2>5. ASSUME NEW r \in Sub
        PROVE  /\ \A k \in 1..Steps : /\ starts[r][k] <= 1 + crashes + faults
                                      /\ k > saved'[r] + 1 => starts[r][k] = 0
               /\ status'[r] = "none" => \A k \in 1..Steps : starts[r][k] = 0
               /\ status'[r] = "running" /\ saved'[r] < Steps =>
                      starts[r][saved'[r] + 1] <= crashes + faults \/ Executed(r)'
    <3>1. CASE r = s
      BY <1>3, <1>4, <2>2, <2>3, <2>4, <3>1 DEF Counts
    <3>2. CASE r # s
      BY <1>3, <1>4, <2>1, <3>2 DEF Counts
    <3> QED
      BY <3>1, <3>2
  <2> QED
    BY <1>1, <2>5 DEF Counts
<1>13. Ends'
  <2>1. ASSUME crashes = 0, panics = 0, faults = 0, NEW r \in Sub, status'[r] = "running"
        PROVE  \/ \E v \in Worker : Busy(v)' /\ Inline(v)' /\ wRow'[v] = r
               \/ \E k \in WaitSteps : k <= saved'[r]
    <3>1. CASE r = s
      BY <1>4, <3>1
    <3>2. CASE r # s
      BY <1>1, <1>3, <1>4, <2>1, <3>2 DEF Ends
    <3> QED
      BY <3>1, <3>2
  <2> QED
    BY <1>1, <2>1 DEF Ends
<1> QED
  BY <1>7, <1>8, <1>9, <1>10, <1>11, <1>12, <1>13

(* When the recovery lists, no row is driven inline.                       *)
LEMMA ListRunningStep ==
    ASSUME SubInv, ListRunning
    PROVE  SubInv'
<1> USE SubWorkflowAssumption DEF SubInv
<1>1. /\ rcPc = "list" /\ rcPc' = "enqueue" /\ rcIds' = {r \in Row : status[r] = "running"}
      /\ UNCHANGED <<status, saved, starts, jobs, active, wPc, wJob, wRow, wPos, crashes, panics, faults>>
  BY DEF ListRunning, rowVars, queueVars, workerVars, boundVars
<1>2. \A v \in Worker : ~Inline(v)
  BY <1>1, InlineIsLate
<1>3. \A r \in Row : Known(r)' => Known(r) \/ status[r] = "running"
  BY <1>1, QueueSame DEF Known
<1>4. TypeOK' /\ Claims' /\ Places' /\ OneDriver'
  BY <1>1 DEF TypeOK, Claims, Places, OneDriver
<1>5. Private'
  BY <1>1, <1>2, <1>3 DEF Private
<1>6. Checkpoints'
  BY <1>1 DEF Checkpoints
<1>7. Counts'
  <2>1. \A s \in Sub : Executed(s) => Executed(s)'
    BY <1>1 DEF Executed
  <2> QED
    BY <1>1, <2>1 DEF Counts
<1>8. Ends'
  BY <1>1 DEF Ends
<1> QED
  BY <1>4, <1>5, <1>6, <1>7, <1>8

LEMMA EnqueueRecoveredStep ==
    ASSUME SubInv, EnqueueRecovered
    PROVE  SubInv'
<1> USE SubWorkflowAssumption DEF SubInv
<1>1. /\ rcPc = "enqueue"
      /\ UNCHANGED <<status, saved, starts, active, rcPc, wPc, wJob, wRow, wPos, crashes, panics, faults>>
  BY DEF EnqueueRecovered, rowVars, workerVars, boundVars
<1>2. PICK r \in rcIds : jobs' = Append(jobs, r) /\ rcIds' = rcIds \ {r}
  BY DEF EnqueueRecovered
<1>3. r \in Row
  BY <1>2 DEF TypeOK
<1>4. jobs' \in Seq(Row) /\ Queued' = Queued \cup {r}
  BY <1>2, <1>3, QueueGrows DEF TypeOK
<1>5. \A s \in Row : Known(s)' <=> Known(s)
  BY <1>1, <1>2, <1>4 DEF Known
<1>6. TypeOK'
  BY <1>1, <1>2, <1>4 DEF TypeOK
<1>7. Claims' /\ Places' /\ OneDriver'
  BY <1>1 DEF Claims, Places, OneDriver
<1>8. Private'
  BY <1>1, <1>5 DEF Private, Places
<1>9. Checkpoints'
  BY <1>1 DEF Checkpoints
<1>10. Counts'
  <2>1. \A s \in Sub : Executed(s) => Executed(s)'
    BY <1>1, <1>5 DEF Executed
  <2> QED
    BY <1>1, <2>1 DEF Counts
<1>11. Ends'
  BY <1>1 DEF Ends
<1> QED
  BY <1>6, <1>7, <1>8, <1>9, <1>10, <1>11

(* A crash leaves the rows, and one more execution to every node.          *)
LEMMA CrashStep ==
    ASSUME SubInv, Crash
    PROVE  SubInv'
<1> USE SubWorkflowAssumption DEF SubInv
<1>1. /\ UNCHANGED <<status, saved, starts, panics, faults>> /\ crashes' = crashes + 1 /\ crashes' \in 0..MaxCrashes
      /\ jobs' = <<>> /\ active' = {} /\ rcPc' = "list" /\ rcIds' = {} /\ crashes \in Nat /\ faults \in Nat
      /\ \A w \in Worker : wPc'[w] = "idle" /\ wJob'[w] = None
  BY DEF Crash, TypeOK, rowVars
<1>2. \A r \in Row : ~Known(r)'
  <2>1. Queued' = {}
    BY <1>1 DEF Queued
  <2> QED
    BY <1>1, <2>1 DEF Known
<1>3. TypeOK'
  BY <1>1 DEF TypeOK, Crash
<1>4. Claims' /\ Places' /\ OneDriver'
  BY <1>1 DEF Claims, Places, OneDriver
<1>5. Private'
  BY <1>1, <1>2 DEF Private
<1>6. Checkpoints'
  BY <1>1 DEF Checkpoints
<1>7. Counts'
  <2>1. ASSUME NEW s \in Sub, NEW k \in 1..Steps PROVE starts[s][k] \in Nat /\ starts[s][k] <= 1 + crashes + faults
    BY DEF TypeOK, Counts
  <2>2. \A s \in Sub : saved[s] \in 0..Steps
    BY DEF TypeOK
  <2>3. ASSUME NEW s \in Sub, saved[s] < Steps PROVE starts[s][saved[s] + 1] <= crashes' + faults
    <3>1. saved[s] + 1 \in 1..Steps
      BY <2>2, <2>3
    <3> QED
      BY <1>1, <2>1, <3>1
  <2>4. \A s \in Sub, k \in 1..Steps : starts[s][k] <= 1 + crashes' + faults
    BY <1>1, <2>1
  <2> QED
    BY <1>1, <2>3, <2>4 DEF Counts
<1>8. Ends'
  BY <1>1 DEF Ends
<1> QED
  BY <1>3, <1>4, <1>5, <1>6, <1>7, <1>8

LEMMA Stutters ==
    ASSUME SubInv, UNCHANGED vars
    PROVE  SubInv'
<1> USE DEF SubInv, vars, rowVars, queueVars, rcVars, workerVars, boundVars
<1>1. \A r \in Row : Known(r)' <=> Known(r)
  BY KnownSame
<1>2. TypeOK' /\ Claims' /\ Places' /\ OneDriver' /\ Checkpoints'
  BY DEF TypeOK, Claims, Places, OneDriver, Checkpoints
<1>3. Private'
  BY <1>1 DEF Private, Places
<1>4. Counts'
  <2>1. \A s \in Sub : Executed(s) => Executed(s)'
    BY <1>1 DEF Executed
  <2> QED
    BY <2>1 DEF Counts
<1>5. Ends'
  BY DEF Ends
<1> QED
  BY <1>2, <1>3, <1>4, <1>5

LEMMA SubStep ==
    ASSUME ~EarlyRequests, SubInv, [Next]_vars
    PROVE  SubInv'
  BY RunParentStep, ResumeSubStep, TakeStep, LoadStep, LoadNothingStep, StoreFailsStep, CallSubStep, ExecuteNodeStep, PruneRestStep,
     SaveStateSubStep, SubEndSteps, JobEndSteps, ReleaseStep, NodePanicsStep, ListRunningStep,
     EnqueueRecoveredStep, CrashStep, Stutters
  DEF Next, WorkerStep

LEMMA SubInvariant == ASSUME ~EarlyRequests PROVE Spec => []SubInv
<1>1. SubInv /\ [Next]_vars => SubInv'
  BY SubStep
<1> QED
  BY SubInit, <1>1, PTL DEF Spec

-----------------------------------------------------------------------------
(* Every variable has its type.                                            *)
THEOREM TypeCorrect == ASSUME ~EarlyRequests PROVE Spec => []TypeOK
<1>1. SubInv => TypeOK
  BY DEF SubInv
<1> QED
  BY SubInvariant, <1>1, PTL

(* No sub-run is left running behind a parent that has finished unless the *)
(* server crashed, a node panicked, a call of the store failed, or it was  *)
(* suspended and resumed.                                                  *)
THEOREM SubEndsFirst == ASSUME ~EarlyRequests PROVE Spec => []SubEndsWithParent
<1>1. SubInv => SubEndsWithParent
  <2> SUFFICES ASSUME SubInv, ~(crashes > 0 \/ panics > 0 \/ faults > 0), status[Parent] \in {"success", "error"},
                      NEW s \in Sub, status[s] = "running"
               PROVE  \E k \in WaitSteps : k <= saved[s]
    BY DEF SubEndsWithParent
  <2>0. crashes = 0 /\ panics = 0 /\ faults = 0
    BY SubWorkflowAssumption DEF SubInv, TypeOK
  <2>1. \A w \in Worker : ~(Busy(w) /\ Inline(w))
    BY DEF SubInv, Places
  <2> QED
    BY <2>0, <2>1 DEF SubInv, Ends
<1> QED
  BY SubInvariant, <1>1, PTL

(* Only the end of the parent's drive makes it a success, and its worker   *)
(* got there from a sub-run that has succeeded.                            *)
THEOREM SubSucceedsFirst == ASSUME ~EarlyRequests PROVE Spec => SuccessNeedsSubSuccess
<1> DEFINE Succeeds == status[Parent] # "success" /\ status'[Parent] = "success" =>
                           \E w \in Worker : Inline(w) /\ wRow[w] \in Sub /\ status[wRow[w]] = "success"
<1>1. ASSUME SubInv, [Next]_vars, status[Parent] # "success", status'[Parent] = "success"
      PROVE  \E w \in Worker : Inline(w) /\ wRow[w] \in Sub /\ status[wRow[w]] = "success"
  <2> USE SubWorkflowAssumption DEF SubInv
  <2>1. ASSUME NEW w \in Worker, FinishParent(w)
        PROVE  Inline(w) /\ wRow[w] \in Sub /\ status[wRow[w]] = "success"
    BY <1>1, <2>1 DEF FinishParent, Places
  <2>2. ASSUME NEW w \in Worker, FinishSub(w) \/ SuspendSub(w) \/ FailSub(w) PROVE FALSE
    <3>1. wRow[w] \in Sub
      BY <1>1, <2>2 DEF FinishSub, SuspendSub, FailSub, Places
    <3> QED
      BY <1>1, <2>2, <3>1 DEF FinishSub, SuspendSub, FailSub, EndSub, TypeOK
  <2>3. ASSUME NEW w \in Worker, FailParent(w) \/ RecoverPanic(w) PROVE FALSE
    BY <1>1, <2>3 DEF FailParent, RecoverPanic, EndJob, TypeOK
  <2>4. ASSUME NEW w \in Worker, CallSub(w) PROVE FALSE
    BY <1>1, <2>4 DEF CallSub, TypeOK
  <2>9. ASSUME NEW w \in Worker, LoadNothing(w) PROVE FALSE
    BY <1>1, <2>9 DEF LoadNothing, TypeOK
  <2>5. ~RunParent /\ ~\E s \in Sub : ResumeSub(s)
    BY <1>1 DEF RunParent, ResumeSub, TypeOK
  <2>6. ASSUME NEW w \in Worker,
               \/ Take(w) \/ Load(w) \/ ExecuteNode(w) \/ PruneRest(w)
               \/ SaveStateSub(w) \/ Release(w) \/ NodePanics(w) \/ StoreFails(w)
        PROVE  FALSE
    BY <1>1, <2>6 DEF Take, Load, ExecuteNode, PruneRest, SaveStateSub, Release, NodePanics, StoreFails, rowVars
  <2>7. ~ListRunning /\ ~EnqueueRecovered /\ ~Crash /\ ~UNCHANGED vars
    BY <1>1 DEF ListRunning, EnqueueRecovered, Crash, vars, rowVars
  <2> QED
    BY <1>1, <2>1, <2>2, <2>3, <2>4, <2>5, <2>6, <2>7, <2>9 DEF Next, WorkerStep
<1>2. SubInv /\ [Next]_vars => [Succeeds]_vars
  BY <1>1
<1> QED
  BY SubInvariant, <1>2, PTL DEF Spec, SuccessNeedsSubSuccess

(* A sub-run executes the node after its checkpoint, and a node once, and  *)
(* once more for each crash and each failure of the store.                 *)
THEOREM CheckpointIsFollowed == ASSUME ~EarlyRequests PROVE Spec => SubFollowsCheckpoint
<1> DEFINE Bounded == \A s \in Sub, k \in 1..Steps : starts[s][k] <= 1 + crashes + faults
           Next1   == \A s \in Sub, k \in 1..Steps : starts'[s][k] # starts[s][k] => k = saved[s] + 1
<1>1. SubInv => Bounded
  BY DEF SubInv, Counts
<1>2. ASSUME SubInv, [Next]_vars, NEW s \in Sub, NEW k \in 1..Steps, starts'[s][k] # starts[s][k]
      PROVE  k = saved[s] + 1
  <2>1. ASSUME NEW w \in Worker, ExecuteNode(w) \/ NodePanics(w) PROVE k = saved[s] + 1
    <3>1. /\ wPc[w] = "node" /\ wPos[w] < Steps
          /\ starts' = [starts EXCEPT ![wRow[w]][wPos[w] + 1] = @ + 1]
      BY <2>1 DEF ExecuteNode, NodePanics
    <3>2. wRow[w] \in Sub /\ wPos[w] = saved[wRow[w]]
      BY <1>2, <3>1, Driven
    <3>3. s = wRow[w] /\ k = wPos[w] + 1
      BY <1>2, <3>1, <3>2 DEF SubInv, TypeOK
    <3> QED
      BY <3>2, <3>3
  <2>2. ASSUME NEW w \in Worker,
               \/ Take(w) \/ Load(w) \/ LoadNothing(w) \/ CallSub(w) \/ PruneRest(w) \/ SaveStateSub(w)
               \/ StoreFails(w) \/ FinishSub(w) \/ SuspendSub(w) \/ FailSub(w)
               \/ FinishParent(w) \/ FailParent(w) \/ RecoverPanic(w) \/ Release(w)
        PROVE  FALSE
    BY <1>2, <2>2 DEF Take, Load, LoadNothing, StoreFails, CallSub, PruneRest, SaveStateSub, FinishSub, SuspendSub, FailSub,
       EndSub, FinishParent, FailParent, RecoverPanic, EndJob, Release, rowVars
  <2>3. ~RunParent /\ ~(\E r \in Sub : ResumeSub(r)) /\ ~ListRunning /\ ~EnqueueRecovered /\ ~Crash
           /\ ~UNCHANGED vars
    BY <1>2 DEF RunParent, ResumeSub, ListRunning, EnqueueRecovered, Crash, vars, rowVars
  <2> QED
    BY <1>2, <2>1, <2>2, <2>3 DEF Next, WorkerStep
<1>3. SubInv /\ [Next]_vars => [Next1]_vars
  BY <1>2
<1> QED
  BY SubInvariant, <1>1, <1>3, PTL DEF Spec, SubFollowsCheckpoint
=============================================================================
